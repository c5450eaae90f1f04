----------------------- MODULE MCKafkaMessageConsumer -----------------------
(* Small instances of KafkaMessageConsumer for TLC. *)
EXTENDS KafkaMessageConsumer, TLC

Online(c, id, sent, facts, dispatchers) ==
    [client_id |-> c, state |-> "online", message_id |-> id, sent |-> sent,
     canonical_facts |-> facts, dispatchers |-> dispatchers]

Status(c, state, id, sent) ==
    [client_id |-> c, state |-> state, message_id |-> id, sent |-> sent,
     canonical_facts |-> {}, dispatchers |-> {}]

\* A client that reconnects with a newer and with an older clock, goes offline
\* and sends an event or a message that makes the handler panic; every message may
\* be published twice.
MCMessage == {Online("c1", "m1", 1, {"fqdn", "bad_insights_id"}, {"rhc-worker-playbook"}),
              Online("c1", "m2", 2, {"fqdn", "empty_fact"}, {"catalog"}),
              Online("c1", "m3", 0, {"bad_insights_id"}, {"package-manager"}),
              Status("c1", "offline", "m4", 2),
              Status("c1", "other", "m5", 2),
              Status("c1", "malformed", "m5", 2)}

\* A second client shares the partition.
MCTwoClients == MCMessage \cup {Online("c2", "m1", 1, {"fqdn"}, {})}

MCOnOff == {Online("c1", "m1", 1, {"fqdn"}, {"rhc-worker-playbook"}),
            Status("c1", "offline", "m4", 2)}

MCSymmetry == Permutations(Consumer)
=============================================================================
