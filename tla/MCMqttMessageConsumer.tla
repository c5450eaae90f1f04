----------------------- MODULE MCMqttMessageConsumer -----------------------
(* A small instance of MqttMessageConsumer for TLC. *)
EXTENDS MqttMessageConsumer

Topic(client, type) == <<"redhat", "insights", client, type, "out">>

\* Control messages of two clients, and all that is not to be forwarded: an
\* empty payload, a data message, and a message of a subscription that the
\* session kept from an earlier topic prefix.
MCMqttMessage ==
    {[topic |-> Topic("c1", "control"), payload |-> "text"],
     [topic |-> Topic("c2", "control"), payload |-> "text"],
     [topic |-> Topic("c1", "control"), payload |-> "empty"],
     [topic |-> Topic("c1", "data"), payload |-> "text"],
     [topic |-> <<"old", "insights", "c1", "control", "out">>, payload |-> "text"]}

MCHash(key) == IF key = "c1" THEN 1 ELSE 2
=============================================================================
