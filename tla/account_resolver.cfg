SPECIFICATION FairResolverSpec
CONSTANTS
    ClientID = {c1, c2}
    OrgID = {o1}
    NoOrg = NoOrg
    DefaultOrg = o1
    Error = Error
    Pending = Pending
    Impl <- MCImpl
    CacheSize = 1
    ValidTTL = 2
    ErrorTTL = 1
    GatewayTimeout = 1
    MaxDisturbances = 2
INVARIANTS ResolverTypeOK AnswersAreFresh
PROPERTIES AnswersCatchUp
