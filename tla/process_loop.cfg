SPECIFICATION FairProcessSpec
CONSTANTS
    Service = {"kafka_consumer", "mqtt_consumer", "api_server"}
    MaxConsecutiveErrors = 3
    DnsLookupTimeout = 2
    StartTimeout = 2
    HttpShutdownTimeout = 2
    MaxRequests = 2
INVARIANTS ProcessTypeOK NoIdleProcess GivesUpOnPersistentFailure
PROPERTIES ShutdownCompletes ReconnectsInTheEnd
