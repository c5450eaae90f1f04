-------------------------- MODULE MCCloudConnector --------------------------
(* Small instances of CloudConnector for TLC. *)
EXTENDS CloudConnector

Online(c, id, sent, dispatchers) ==
    [client_id |-> c, state |-> "online", message_id |-> id, sent |-> sent,
     canonical_facts |-> {"fqdn", "bad_insights_id", "empty_fact"}, dispatchers |-> dispatchers]

Offline(c, id, sent) ==
    [client_id |-> c, state |-> "offline", message_id |-> id, sent |-> sent,
     canonical_facts |-> {}, dispatchers |-> {}]

\* A client that comes online, reconnects and leaves, and a second client.
MCTwoClients == {Online("c1", "m1", 1, {"rhc-worker-playbook"}),
                 Online("c1", "m2", 2, {"package-manager"}),
                 Offline("c1", "m3", 2),
                 Online("c2", "m1", 1, {"rhc-worker-playbook"})}

MCOneClient == {m \in MCTwoClients : m.client_id = "c1"}

MCWorkerScript == {Online("c1", "m1", 1, {"rhc-worker-script"})}
=============================================================================
