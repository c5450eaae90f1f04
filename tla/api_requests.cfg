SPECIFICATION FairApiSpec
CONSTANTS
    ClientID = {"c1"}
    MessageID = {"m1", "m3"}
    OrgID = {"org1", "org2"}
    NoOrg = ""
    Fact = {}
    InvalidInsightsID = {}
    BlankFact = {}
    Message <- MCMessages
    MaxTenantLookupFailures = 1
    Request = {r1}
    Account = {"a1", "a2", "a3"}
    NoAccount = ""
    OrgOf <- MCOrgOf
    Principal <- MCPrincipals
    RelaxedLookup = TRUE
    MaxRows = 2
INVARIANTS ApiTypeOK MessagesStayInTenant ReportedStatusWasTrue
PROPERTIES EveryRequestEnds
