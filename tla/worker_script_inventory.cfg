SPECIFICATION FairSpec
CONSTANTS
    MessageID = {"m1", "m2", "m3"}
    OrgID = {"org1"}
    NoOrg = ""
    Fact = {"fqdn", "bad_insights_id", "empty_fact"}
    InvalidInsightsID = {"bad_insights_id"}
    BlankFact = {"empty_fact"}
    MaxTenantLookupFailures = 2
    NoConsumer = NoConsumer
    Consumer = {p1}
    ClientID = {"c1"}
    Message <- MCWorkerScript
    MaxMessages = 1
    ChunkSize = 1
    Overlap = FALSE
    EmptyOrgAnswers = FALSE
PROPERTIES InventoryInformed
