SPECIFICATION FairListingSpec
CONSTANTS
    ClientID = {"c1", "c2"}
    MessageID = {"m1"}
    OrgID = {"org1", "org2"}
    NoOrg = ""
    Fact = {}
    InvalidInsightsID = {}
    BlankFact = {}
    Message <- MCMessages
    MaxTenantLookupFailures = 1
    ClientRank <- MCClientRank
    OrgRank <- MCOrgRank
    Endpoint = {"connection", "connection/id", "v2/connections"}
    Scope = {"org1"}
    Everything = "*"
    MaxParam = 2
    MaxRows = 2
    MaxWrites = 2
INVARIANTS ListingTypeOK WalkMissesOnlyShifted StrandedOnlyByRemoval
PROPERTIES EveryWalkEnds
