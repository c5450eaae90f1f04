SPECIFICATION PipelineSpec
CONSTANTS
    MessageID = {"m1", "m2", "m3"}
    OrgID = {}
    NoOrg = ""
    Fact = {}
    InvalidInsightsID = {}
    BlankFact = {}
    MaxTenantLookupFailures = 2
    EmptyOrgAnswers = FALSE
    NoConsumer = NoConsumer
    ClientID = {"c1"}
    Consumer = {p1}
    Message <- MCMessage
    MaxMessages = 0
    Overlap = FALSE
    MaxPublished = 3
    MaxFaults = 2
INVARIANTS TableFollowsClients
PROPERTIES PipelineDrains
\* The pipeline rests when everything is settled.
CHECK_DEADLOCK FALSE
