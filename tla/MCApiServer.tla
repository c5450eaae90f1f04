----------------------------- MODULE MCApiServer -----------------------------
(* Small instances of ApiServer for TLC. *)
EXTENDS ApiServer

Online(id, dispatchers) ==
    [client_id |-> "c1", state |-> "online", message_id |-> id, sent |-> 1,
     canonical_facts |-> {}, dispatchers |-> dispatchers]

Offline == [client_id |-> "c1", state |-> "offline", message_id |-> "m3", sent |-> 1,
            canonical_facts |-> {}, dispatchers |-> {}]

\* A host and a satellite.
MCMessages == {Online("m1", {}), Online("m1", {"foreman_rh_cloud"}), Offline}

\* The translator does not know account a3.
MCOrgOf == [a \in {"a1", "a2", "a3"} |-> CASE a = "a1" -> "org1" [] a = "a2" -> "org2" [] a = "a3" -> ""]

Caller(auth, valid, account, org_id) ==
    [auth |-> auth, valid |-> valid, account |-> account, org_id |-> org_id]

MCPrincipals == {Caller("identity", TRUE, "a1", "org1"),
                 Caller("identity", TRUE, "a3", ""),
                 Caller("associate", TRUE, "a2", "org2"),
                 Caller("associate", TRUE, "", ""),
                 Caller("identity", FALSE, "", ""),
                 Caller("psk", TRUE, "a2", ""),
                 Caller("psk", TRUE, "", "org2"),
                 Caller("psk", FALSE, "a1", "org1")}
=============================================================================
