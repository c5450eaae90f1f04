------------------------- MODULE MCConnectionListing -------------------------
(* Small instances of ConnectionListing for TLC. *)
EXTENDS ConnectionListing

Control(c, state) ==
    [client_id |-> c, state |-> state, message_id |-> "m1", sent |-> 1,
     canonical_facts |-> {}, dispatchers |-> {}]

MCMessages == {Control(c, state) : c \in ClientID, state \in {"online", "offline"}}

MCClientRank == [c \in ClientID |-> CHOOSE i \in 1 .. 3 : c = <<"c1", "c2", "c3">>[i]]

MCOrgRank == [o \in OrgID |-> CHOOSE i \in 1 .. 2 : o = <<"org1", "org2">>[i]]
=============================================================================
