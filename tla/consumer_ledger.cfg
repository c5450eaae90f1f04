SPECIFICATION ConsumerSpec
CONSTANTS
    MessageID = {"m1", "m2", "m3", "m4", "m5"}
    OrgID = {"org1"}
    NoOrg = ""
    Fact = {"fqdn", "bios_uuid", "bad_insights_id", "empty_fact"}
    InvalidInsightsID = {"bad_insights_id"}
    BlankFact = {"empty_fact"}
    MaxTenantLookupFailures = 2
    EmptyOrgAnswers = FALSE
    NoConsumer = NoConsumer
    ClientID = {"c1", "c2"}
    Consumer = {p1, p2}
    Message <- MCTwoClients
    MaxMessages = 3
    Overlap = FALSE
INVARIANTS ReplayIsOneMessage OfflineStaysOffline
PROPERTIES ImplementsLedger
