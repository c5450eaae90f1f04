------------------------ MODULE MCConnectionPipeline ------------------------
(* A small instance of ConnectionPipeline for TLC. *)
EXTENDS ConnectionPipeline

Status(state, id, sent) ==
    [client_id |-> "c1", state |-> state, message_id |-> id, sent |-> sent,
     canonical_facts |-> {}, dispatchers |-> {}]

\* A client that comes, goes and comes back, within a tick of its clock or with a
\* clock that went back, or says something that makes the handler panic.
MCMessage ==
    {Status("online", "m1", 1), Status("online", "m2", 2), Status("offline", "m3", 2),
     Status("malformed", "m3", 2)}
=============================================================================
