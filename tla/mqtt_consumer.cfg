SPECIFICATION FairMqttSpec
CONSTANTS
    MqttMessage <- MCMqttMessage
    Prefix = "redhat"
    Partition = {1, 2}
    Hash <- MCHash
    MaxPublished = 3
    MaxFaults = 2
INVARIANTS MqttTypeOK NothingLost NoOvertaking LastWordIsLast
PROPERTIES EveryMessageForwarded
\* The consumer waits when all messages are acknowledged.
CHECK_DEADLOCK FALSE
