-------------------------- MODULE ConnectionLedger --------------------------
(***************************************************************************)
(* What the Kafka message consumers promise, without processes, crashes or *)
(* replays: the control messages of the partition take effect on the set   *)
(* of registered connections one at a time, in the order of the partition, *)
(* each exactly once.  An online message may be dropped instead, because   *)
(* the handler gives up on a message whose registration fails; an offline  *)
(* message never is.                                                       *)
(***************************************************************************)
EXTENDS Naturals, Sequences

CONSTANTS ClientID, Message

VARIABLES
    log,       \* the partition
    applied,   \* number of messages that took effect
    registry   \* per client, the registered connection: {} or {[message_id, sent]}

ledgerVars == <<log, applied, registry>>

Metadata(m) == [message_id |-> m.message_id, sent |-> m.sent]

\* The registered connection is from this message, or from a later one.
IsDuplicateOrOld(current, m) ==
    \E r \in current : r.message_id = m.message_id \/ m.sent < r.sent

Effect(current, m) ==
    CASE m.state = "online"  -> IF IsDuplicateOrOld(current, m) THEN current ELSE {Metadata(m)}
      [] m.state = "offline" -> {}
      [] OTHER               -> current

Init ==
    /\ log = <<>>
    /\ applied = 0
    /\ registry = [c \in ClientID |-> {}]

Publish ==
    /\ \E m \in Message : log' = Append(log, m)
    /\ UNCHANGED <<applied, registry>>

Apply ==
    /\ applied < Len(log)
    /\ applied' = applied + 1
    /\ LET m == log[applied + 1] IN
         registry' = [registry EXCEPT ![m.client_id] = Effect(@, m)]
    /\ UNCHANGED log

Drop ==
    /\ applied < Len(log)
    /\ log[applied + 1].state = "online"
    /\ applied' = applied + 1
    /\ UNCHANGED <<log, registry>>

Next == Publish \/ Apply \/ Drop

Spec == Init /\ [][Next]_ledgerVars
=============================================================================
