--------------------- MODULE KafkaMessageConsumerProofs ---------------------
(***************************************************************************)
(* The Kafka message consumers, for any number of consumers, clients and   *)
(* messages.                                                               *)
(*                                                                         *)
(* With and without overlapping handlers: types, at-least-once processing, *)
(* that a row is one message's, and how many rows a client can have.       *)
(* Without overlapping handlers: offline clients stay offline and messages *)
(* take effect once and in order, that is, the consumers implement         *)
(* ConnectionLedger.                                                       *)
(***************************************************************************)
EXTENDS KafkaMessageConsumer, ConnectionTableProofs, FiniteSetTheorems

TypeInv == ConsumerTypeOK /\ OffsetsInLog

\* A message arrives at the partition, whoever published it and however many are
\* there already.
Arrives(m) ==
    /\ log' = Append(log, m)
    /\ UNCHANGED <<connections, inventory, committed, owner, position, proc,
                   sources, applied, handled, lost>>

\* The consumers at a partition that others write to.  What is proved of these
\* steps holds of the consumers by themselves, and of those in ConnectionPipeline,
\* whose partition the MQTT message consumer fills.
OpenNext ==
    \/ \E m \in Message : Arrives(m)
    \/ \E p \in Consumer : Start(p) \/ Rebalance(p) \/ Crash(p) \/ HandlerStep(p)

\* The bound on the published messages makes no difference.
LEMMA ConsumerSteps == [ConsumerNext]_consumerVars => [OpenNext]_consumerVars
BY DEF ConsumerNext, OpenNext, Publish, Arrives

\* What the account resolver answers is a resolution (MapClientIdToAccountId).
LEMMA ResolutionType == MapClientIdToAccountId \subseteq Resolution
<1> SUFFICES ASSUME NEW result \in MapClientIdToAccountId
             PROVE  result \in Resolution
  OBVIOUS
<1>1. CASE result = LookupError
  BY <1>1 DEF LookupError, Resolution
<1>2. ASSUME NEW o \in OrgID \cup {NoOrg}, result = [identity |-> TRUE, org_id |-> o]
      PROVE  result \in Resolution
  BY <1>2 DEF Resolution
<1>3. (IF EmptyOrgAnswers THEN OrgID \cup {NoOrg} ELSE OrgID) \subseteq OrgID \cup {NoOrg}
  OBVIOUS
<1> QED
  BY <1>1, <1>2, <1>3 DEF MapClientIdToAccountId

\* The message in the hands of a busy consumer is a control message.
LEMMA MsgType ==
    ASSUME TypeInv, NEW p \in Consumer, proc[p].pc \in Busy
    PROVE  /\ Msg(p) \in ControlMessage
           /\ Msg(p).client_id \in ClientID
<1>1. proc[p].offset \in 1..Len(log) /\ log \in Seq(ControlMessage)
  BY DEF TypeInv, ConsumerTypeOK, OffsetsInLog
<1>2. Msg(p) \in ControlMessage
  BY <1>1 DEF Msg
<1> QED
  BY <1>2 DEF ControlMessage

\* A step of one consumer's control state leaves a process a process (Goto).
LEMMA GotoType ==
    ASSUME ConsumerTypeOK, NEW p \in Consumer, NEW pc \in {"down", "fetch"} \cup Busy,
           Goto(p, pc)
    PROVE  /\ proc' \in [Consumer -> Process]
           /\ proc'[p].pc = pc
           /\ proc'[p].offset = proc[p].offset
           /\ \A q \in Consumer \ {p} : proc'[q] = proc[q]
<1>1. proc \in [Consumer -> Process]
  BY DEF ConsumerTypeOK
<1>2. proc' = [proc EXCEPT ![p] = [proc[p] EXCEPT !.pc = pc]]
  BY DEF Goto
<1>3. proc[p] \in Process
  BY <1>1
<1>4. [proc[p] EXCEPT !.pc = pc] \in Process
  BY <1>3 DEF Process
<1>5. /\ [proc[p] EXCEPT !.pc = pc].pc = pc
      /\ [proc[p] EXCEPT !.pc = pc].offset = proc[p].offset
  BY <1>3 DEF Process
<1> QED
  BY <1>1, <1>2, <1>4, <1>5

\* An idle process is a process (Idle).
LEMMA IdleType ==
    ASSUME NEW pc \in {"down", "fetch"} \cup Busy
    PROVE  Idle(pc) \in Process /\ Idle(pc).pc = pc
BY DEF Idle, At, Process, LookupError, Resolution

\* A process that ends leaves the processes well-formed (Exit).
LEMMA ExitType ==
    ASSUME ConsumerTypeOK, NEW p \in Consumer, Exit(p)
    PROVE  /\ proc' \in [Consumer -> Process]
           /\ owner' \in Consumer \cup {NoConsumer}
           /\ proc'[p].pc = "down"
           /\ owner' # p
           /\ owner' = owner \/ owner' = NoConsumer
           /\ \A q \in Consumer \ {p} : proc'[q] = proc[q]
<1>1. Idle("down") \in Process /\ Idle("down").pc = "down"
  BY IdleType
<1>2. NoConsumer \notin Consumer
  BY ConsumerAssumption
<1> QED
  BY <1>1, <1>2 DEF ConsumerTypeOK, Exit
-----------------------------------------------------------------------------
(* The shapes that the steps of a consumer have, as far as offsets matter *)

\* A consumer that a step of another one leaves where it is.  A DELETE may take
\* rows out of the snapshot of an upsert under way, and changes no other process.
Bystander(q) ==
    /\ proc'[q].pc = proc[q].pc
    /\ proc'[q].offset = proc[q].offset
    /\ proc[q].pc # "exec" => proc'[q] = proc[q]

\* A step within the handler of p, which stays at the same message.
Move(p) ==
    /\ proc[p].pc \in Busy
    /\ proc' \in [Consumer -> Process]
    /\ proc'[p].pc \in Busy
    /\ proc'[p].offset = proc[p].offset
    /\ \A q \in Consumer \ {p} : Bystander(q)
    /\ \/ handled' = handled /\ proc'[p].pc # "commit"
       \/ handled' = handled \cup {proc[p].offset}
    /\ UNCHANGED <<log, committed, owner, position>>

\* The process of p ends.
End(p) ==
    \/ /\ Exit(p)
       /\ UNCHANGED <<connections, inventory, log, committed, position, sources,
                      applied, handled, lost>>
    \/ UnregisterReplyLost(p)

Inside(p) ==
    \/ IgnoreDuplicate(p) \/ AcceptMessage(p) \/ ResolveTenant(p)
    \/ PrepareUpsert(p) \/ ExecUpsert(p) \/ ExecUpsertFails(p)
    \/ RecordClient(p) \/ RecordClientFails(p) \/ SourceExists(p) \/ SourceNotFound(p)
    \/ CreateSource(p) \/ UnregisterClient(p)

DataTypeOK ==
    /\ ConnectionsTypeOK
    /\ InventoryTypeOK
    /\ sources \subseteq ClientID
    /\ applied \in Nat
    /\ lost \subseteq Nat

\* A DELETE leaves the processes where they are (RowsGone).
LEMMA RowsGoneType ==
    ASSUME ConsumerTypeOK, NEW c
    PROVE  /\ RowsGone(c) \in [Consumer -> Process]
           /\ \A q \in Consumer :
                /\ RowsGone(c)[q].pc = proc[q].pc
                /\ RowsGone(c)[q].offset = proc[q].offset
                /\ proc[q].pc # "exec" => RowsGone(c)[q] = proc[q]
<1>1. ASSUME NEW q \in Consumer
      PROVE  /\ RowsGone(c)[q] \in Process
             /\ RowsGone(c)[q].pc = proc[q].pc
             /\ RowsGone(c)[q].offset = proc[q].offset
             /\ proc[q].pc # "exec" => RowsGone(c)[q] = proc[q]
  <2>1. proc[q] \in Process
    BY DEF ConsumerTypeOK
  <2>2. RowsGone(c)[q] = proc[q] \/ (proc[q].pc = "exec" /\ RowsGone(c)[q] = [proc[q] EXCEPT !.seen = 0])
    BY DEF RowsGone
  <2>3. /\ [proc[q] EXCEPT !.seen = 0] \in Process
        /\ [proc[q] EXCEPT !.seen = 0].pc = proc[q].pc
        /\ [proc[q] EXCEPT !.seen = 0].offset = proc[q].offset
    BY <2>1 DEF Process
  <2> QED
    BY <2>1, <2>2, <2>3
<1>2. RowsGone(c) = [q \in Consumer |-> RowsGone(c)[q]]
  BY DEF RowsGone
<1> QED
  BY <1>1, <1>2

\* The end of a process leaves the others where they are.
LEMMA EndType ==
    ASSUME ConsumerTypeOK, NEW p \in Consumer, End(p)
    PROVE  /\ proc' \in [Consumer -> Process]
           /\ owner' \in Consumer \cup {NoConsumer}
           /\ proc'[p].pc = "down"
           /\ owner' # p
           /\ owner' = IF owner = p THEN NoConsumer ELSE owner
           /\ \A q \in Consumer \ {p} : Bystander(q)
           /\ UNCHANGED <<inventory, log, committed, position, sources, handled, lost>>
<1>1. CASE Exit(p) /\ UNCHANGED <<inventory, log, committed, position, sources, handled, lost>>
  BY <1>1, ExitType DEF Exit, Bystander
<1>2. CASE UnregisterReplyLost(p)
  <2> DEFINE g == RowsGone(Msg(p).client_id)
  <2>1. /\ g \in [Consumer -> Process]
        /\ \A q \in Consumer : /\ g[q].pc = proc[q].pc /\ g[q].offset = proc[q].offset
                               /\ proc[q].pc # "exec" => g[q] = proc[q]
    BY RowsGoneType
  <2>2. /\ proc' = [g EXCEPT ![p] = Idle("down")]
        /\ owner' = IF owner = p THEN NoConsumer ELSE owner
        /\ UNCHANGED <<inventory, log, committed, position, sources, handled, lost>>
    BY <1>2 DEF UnregisterReplyLost
  <2> HIDE DEF g
  <2>3. Idle("down") \in Process /\ Idle("down").pc = "down"
    BY IdleType
  <2>4. proc' \in [Consumer -> Process] /\ proc'[p].pc = "down"
    BY <2>1, <2>2, <2>3
  <2>5. \A q \in Consumer \ {p} : Bystander(q)
    BY <2>1, <2>2 DEF Bystander
  <2>6. owner' \in Consumer \cup {NoConsumer} /\ owner' # p
    BY <2>2, ConsumerAssumption DEF ConsumerTypeOK
  <2> QED
    BY <2>2, <2>4, <2>5, <2>6
<1> QED
  BY <1>1, <1>2 DEF End

\* A handler that returns nil makes a Move (Return).
LEMMA ReturnMoves ==
    ASSUME ConsumerTypeOK, NEW p \in Consumer, proc[p].pc \in Busy, Return(p),
           UNCHANGED <<log, committed, owner, position>>
    PROVE  Move(p)
<1>1. Goto(p, "commit") /\ "commit" \in Busy
  BY DEF Return, Busy
<1>2. /\ proc' \in [Consumer -> Process]
      /\ proc'[p].pc = "commit"
      /\ proc'[p].offset = proc[p].offset
      /\ \A q \in Consumer \ {p} : proc'[q] = proc[q]
  BY <1>1, GotoType
<1> QED
  BY <1>1, <1>2 DEF Return, Move, Bystander

\* A handler that goes on to another call makes a Move (Goto).
LEMMA GotoMoves ==
    ASSUME ConsumerTypeOK, NEW p \in Consumer, proc[p].pc \in Busy,
           NEW pc \in Busy \ {"commit"}, Goto(p, pc),
           UNCHANGED <<log, committed, owner, position, handled>>
    PROVE  Move(p)
<1>1. /\ proc' \in [Consumer -> Process]
      /\ proc'[p].pc = pc
      /\ proc'[p].offset = proc[p].offset
      /\ \A q \in Consumer \ {p} : proc'[q] = proc[q]
  BY GotoType
<1> QED
  BY <1>1 DEF Move, Bystander

\* Every step inside the handler is a Move (handleMessage and what it calls).
LEMMA InsideMoves ==
    ASSUME TypeInv, NEW p \in Consumer, Inside(p)
    PROVE  Move(p)
<1> ConsumerTypeOK
  BY DEF TypeInv
<1>0. CASE UnregisterClient(p)
  <2> DEFINE g == RowsGone(Msg(p).client_id)
  <2>1. /\ g \in [Consumer -> Process]
        /\ \A q \in Consumer : /\ g[q].pc = proc[q].pc /\ g[q].offset = proc[q].offset
                               /\ proc[q].pc # "exec" => g[q] = proc[q]
    BY RowsGoneType
  <2>2. /\ proc' = [g EXCEPT ![p].pc = "commit"]
        /\ handled' = handled \cup {proc[p].offset} /\ proc[p].pc = "unregister"
        /\ UNCHANGED <<log, committed, owner, position>>
    BY <1>0 DEF UnregisterClient
  <2> HIDE DEF g
  <2>3. g[p] \in Process
    BY <2>1
  <2>4. /\ [g[p] EXCEPT !.pc = "commit"] \in Process
        /\ [g[p] EXCEPT !.pc = "commit"].pc = "commit"
        /\ [g[p] EXCEPT !.pc = "commit"].offset = g[p].offset
    BY <2>3 DEF Process, Busy
  <2>5. /\ proc' \in [Consumer -> Process]
        /\ proc'[p].pc = "commit" /\ proc'[p].offset = proc[p].offset
    BY <2>1, <2>2, <2>4
  <2>6. \A q \in Consumer \ {p} : Bystander(q)
    BY <2>1, <2>2 DEF Bystander
  <2> QED
    BY <2>2, <2>5, <2>6 DEF Move, Busy
<1>1. CASE IgnoreDuplicate(p) \/ SourceExists(p) \/ CreateSource(p)
           \/ RecordClientFails(p) \/ ExecUpsertFails(p)
  BY <1>1, ReturnMoves
     DEF IgnoreDuplicate, SourceExists, CreateSource, RecordClientFails,
         ExecUpsertFails, Busy
<1>2. CASE AcceptMessage(p)
  BY <1>2, GotoMoves DEF AcceptMessage, Busy
<1>3. CASE SourceNotFound(p)
  BY <1>3, GotoMoves DEF SourceNotFound, Busy
<1>4. CASE ExecUpsert(p)
  BY <1>4, GotoMoves DEF ExecUpsert, Busy
<1>5. CASE RecordClient(p)
  <2>1. CASE "catalog" \in Msg(p).dispatchers
    BY <1>5, <2>1, GotoMoves DEF RecordClient, Busy
  <2>2. CASE "catalog" \notin Msg(p).dispatchers
    BY <1>5, <2>2, ReturnMoves DEF RecordClient, Busy
  <2> QED
    BY <2>1, <2>2
<1>6. CASE ResolveTenant(p)
  <2>1. PICK result \in MapClientIdToAccountId :
          proc' = [proc EXCEPT ![p].pc = "prepare", ![p].result = result]
    BY <1>6 DEF ResolveTenant
  <2>2. result \in Resolution
    BY ResolutionType
  <2>3. proc \in [Consumer -> Process] /\ proc[p].pc = "resolve"
    BY <1>6 DEF ConsumerTypeOK, ResolveTenant
  <2>4. /\ proc'[p] = [proc[p] EXCEPT !.pc = "prepare", !.result = result]
        /\ \A q \in Consumer \ {p} : proc'[q] = proc[q]
        /\ DOMAIN proc' = Consumer
    BY <2>1, <2>3
  <2>5. proc'[p] \in Process /\ proc'[p].pc = "prepare" /\ proc'[p].offset = proc[p].offset
    BY <2>2, <2>3, <2>4 DEF Process, Busy
  <2>6. proc' \in [Consumer -> Process]
    BY <2>1, <2>3, <2>4, <2>5
  <2> QED
    BY <1>6, <2>3, <2>4, <2>5, <2>6 DEF ResolveTenant, Move, Bystander, Busy
<1>7. CASE PrepareUpsert(p)
  <2> DEFINE seen == Len(connections[Msg(p).client_id])
  <2>1. proc \in [Consumer -> Process] /\ proc[p].pc = "prepare"
    BY <1>7 DEF ConsumerTypeOK, PrepareUpsert
  <2>2. proc' = [proc EXCEPT ![p].pc = "exec", ![p].seen = seen]
    BY <1>7 DEF PrepareUpsert
  <2>3. seen \in Nat
    <3>1. Msg(p).client_id \in ClientID
      BY <2>1, MsgType DEF Busy
    <3>2. connections[Msg(p).client_id] \in Seq(Row)
      BY <3>1 DEF TypeInv, ConsumerTypeOK, ConnectionsTypeOK
    <3> QED
      BY <3>2
  <2> HIDE DEF seen
  <2>4. /\ proc'[p] = [proc[p] EXCEPT !.pc = "exec", !.seen = seen]
        /\ \A q \in Consumer \ {p} : proc'[q] = proc[q]
        /\ DOMAIN proc' = Consumer
    BY <2>1, <2>2
  <2>5. proc'[p] \in Process /\ proc'[p].pc = "exec" /\ proc'[p].offset = proc[p].offset
    BY <2>1, <2>3, <2>4 DEF Process, Busy
  <2>6. proc' \in [Consumer -> Process]
    BY <2>1, <2>2, <2>4, <2>5
  <2> QED
    BY <1>7, <2>1, <2>4, <2>5, <2>6 DEF PrepareUpsert, Move, Bystander, Busy
<1> QED
  BY <1>0, <1>1, <1>2, <1>3, <1>4, <1>5, <1>6, <1>7 DEF Inside

\* A write to inventory's topic leaves inventory well-formed (AddHost).
LEMMA AddHostType ==
    ASSUME InventoryTypeOK, NEW c \in ClientID, NEW facts \in SUBSET Fact, AddHost(c, facts)
    PROVE  InventoryTypeOK'
<1>1. [reported |-> TRUE, canonical_facts |-> CleanupCanonicalFacts(facts)] \in HostData
  BY DEF HostData, CleanupCanonicalFacts
<1> QED
  BY <1>1 DEF InventoryTypeOK, AddHost

\* The upsert leaves the table well-formed (Register).
LEMMA UpsertType ==
    ASSUME TypeInv, NEW p \in Consumer, proc[p].pc \in Busy, Upsert(p)
    PROVE  /\ ConnectionsTypeOK'
           /\ applied' \in Nat
           /\ lost' \subseteq Nat
<1> DEFINE m == Msg(p)
           org == proc[p].result.org_id
           seen == proc[p].seen
<1>1. proc[p] \in Process
  BY DEF TypeInv, ConsumerTypeOK
<1>2. org \in OrgID \cup {NoOrg} /\ seen \in Nat /\ proc[p].offset \in Nat
  BY <1>1 DEF Process, Resolution
<1>3. m \in ControlMessage /\ m.client_id \in ClientID
  BY MsgType
<1>4. connections \in Tables(Row)
  BY DEF TypeInv, ConsumerTypeOK, ConnectionsTypeOK, Tables
<1>5. connections' = Register(connections, m.client_id, m, org, seen)
  BY DEF Upsert
<1> HIDE DEF m, org, seen
<1>6. InsertedRow(m, org) \in Row /\ \A r \in Row : UpdatedRow(r, m, org) \in Row
  BY <1>2, <1>3, UpdatedRowType, InsertedRowType
<1>7. Register(connections, m.client_id, m, org, seen) \in Tables(Row)
  BY <1>2, <1>3, <1>4, <1>6, RegisterIn
<1>8. ConnectionsTypeOK'
  BY <1>5, <1>7 DEF ConnectionsTypeOK, Tables
<1>9. applied' \in Nat /\ lost' \subseteq Nat
  BY <1>2 DEF Upsert, TypeInv, ConsumerTypeOK
<1> QED
  BY <1>8, <1>9

\* A step inside the handler leaves the data it works on well-formed.
LEMMA InsideDataType ==
    ASSUME TypeInv, NEW p \in Consumer, Inside(p)
    PROVE  DataTypeOK'
<1>0. DataTypeOK /\ proc[p] \in Process
  BY DEF DataTypeOK, TypeInv, ConsumerTypeOK
<1>1. proc[p].pc \in Busy
  BY InsideMoves DEF TypeInv, Move
<1>2. Msg(p).client_id \in ClientID /\ Msg(p) \in ControlMessage
  BY <1>1, MsgType
<1>3. SanitizeCanonicalFacts(Msg(p).canonical_facts) \in SUBSET Fact
  BY <1>2 DEF ControlMessage, SanitizeCanonicalFacts
<1>4. CASE IgnoreDuplicate(p) \/ SourceExists(p) \/ AcceptMessage(p) \/ SourceNotFound(p)
           \/ ResolveTenant(p) \/ PrepareUpsert(p)
  BY <1>0, <1>4
     DEF DataTypeOK, ConnectionsTypeOK, InventoryTypeOK, IgnoreDuplicate, SourceExists,
         AcceptMessage, SourceNotFound, ResolveTenant, PrepareUpsert
<1>5. CASE CreateSource(p)
  BY <1>0, <1>2, <1>5 DEF DataTypeOK, ConnectionsTypeOK, InventoryTypeOK, CreateSource
<1>6. CASE RecordClient(p) \/ RecordClientFails(p)
  <2>1. InventoryTypeOK'
    <3>1. CASE inventory' = inventory
      BY <1>0, <3>1 DEF DataTypeOK, InventoryTypeOK
    <3>2. CASE AddHost(Msg(p).client_id, SanitizeCanonicalFacts(Msg(p).canonical_facts))
      BY <1>0, <1>2, <1>3, <3>2, AddHostType DEF DataTypeOK
    <3> QED
      BY <1>6, <3>1, <3>2
         DEF RecordClient, RecordClientFails, RecordConnectedClient, RecordConnectedClientFails
  <2> QED
    BY <1>0, <1>6, <2>1 DEF DataTypeOK, ConnectionsTypeOK, RecordClient, RecordClientFails
<1>7. CASE ExecUpsert(p)
  BY <1>0, <1>1, <1>7, UpsertType DEF DataTypeOK, InventoryTypeOK, ExecUpsert
<1>8. CASE ExecUpsertFails(p)
  <2>1. CASE Upsert(p)
    BY <1>0, <1>1, <1>8, <2>1, UpsertType DEF DataTypeOK, InventoryTypeOK, ExecUpsertFails
  <2>2. CASE ~Upsert(p)
    <3>1. PICK e \in ExecError :
            /\ lost' = IF e.code \in ConnectionExceptions
                       THEN lost \cup {proc[p].offset} ELSE lost
            /\ UNCHANGED <<connections, applied>>
      BY <1>8, <2>2 DEF ExecUpsertFails
    <3>2. proc[p].offset \in Nat
      BY <1>0 DEF Process
    <3>3. lost' \subseteq Nat
      BY <1>0, <3>1, <3>2 DEF DataTypeOK
    <3> QED
      BY <1>0, <1>8, <3>1, <3>3
         DEF DataTypeOK, ConnectionsTypeOK, InventoryTypeOK, ExecUpsertFails
  <2> QED
    BY <2>1, <2>2
<1>9. CASE UnregisterClient(p)
  <2>1. connections \in Tables(Row)
    BY <1>0 DEF DataTypeOK, ConnectionsTypeOK, Tables
  <2>2. connections' \in Tables(Row)
    BY <1>2, <1>9, <2>1, UnregisterIn DEF UnregisterClient
  <2>3. applied' \in Nat
    BY <1>0, <1>9 DEF UnregisterClient, Process
  <2> QED
    BY <1>0, <1>9, <2>2, <2>3
       DEF DataTypeOK, ConnectionsTypeOK, InventoryTypeOK, Tables, UnregisterClient
<1> QED
  BY <1>4, <1>5, <1>6, <1>7, <1>8, <1>9 DEF Inside

-----------------------------------------------------------------------------
(* What the steps outside the handler do to a process *)

\* FetchMessage hands the next message to the process.
LEMMA FetchType ==
    ASSUME TypeInv, NEW p \in Consumer, FetchMessage(p)
    PROVE  /\ proc' \in [Consumer -> Process]
           /\ position' = position + 1
           /\ proc'[p].pc \in {"check", "unregister", "commit"}
           /\ proc'[p].offset = position + 1
           /\ \A q \in Consumer \ {p} : proc'[q] = proc[q]
           /\ handled' = handled \/ handled' = handled \cup {position + 1}
           /\ proc'[p].pc = "commit" => handled' = handled \cup {position + 1}
<1> DEFINE m == log[position + 1]
           next == At(FirstCall(m), position + 1)
<1>1. /\ proc \in [Consumer -> Process]
      /\ position + 1 \in 1..Len(log) /\ log \in Seq(ControlMessage)
      /\ position \in Nat
  BY DEF TypeInv, ConsumerTypeOK, FetchMessage
<1>2. m \in ControlMessage
  BY <1>1
<1>3. m.state \in {"online", "offline", "other"}
  <2>1. m.state # "malformed"
    BY DEF FetchMessage
  <2> QED
    BY <1>2, <2>1 DEF ControlMessage
<1>4. /\ FirstCall(m) \in {"check", "unregister", "commit"}
      /\ FirstCall(m) = "commit" => m.state = "other"
  BY <1>3 DEF FirstCall
<1>5. /\ proc' = [proc EXCEPT ![p] = next]
      /\ handled' = IF m.state = "other" THEN handled \cup {position + 1} ELSE handled
      /\ position' = position + 1
  BY DEF FetchMessage
<1>6. next \in Process /\ next.pc = FirstCall(m) /\ next.offset = position + 1
  BY <1>1, <1>4 DEF At, Process, Busy, LookupError, Resolution
<1> QED
  BY <1>1, <1>4, <1>5, <1>6

\* CommitMessage sends the process back to FetchMessage.
LEMMA CommitType ==
    ASSUME ConsumerTypeOK, NEW p \in Consumer, CommitMessage(p)
    PROVE  /\ proc' \in [Consumer -> Process]
           /\ proc'[p].pc = "fetch"
           /\ \A q \in Consumer \ {p} : proc'[q] = proc[q]
           /\ committed' = proc[p].offset
           /\ proc[p].offset \in Nat
           /\ applied' \in Nat
<1>1. Idle("fetch") \in Process /\ Idle("fetch").pc = "fetch"
  BY IdleType
<1>2. proc \in [Consumer -> Process] /\ applied \in Nat
  BY DEF ConsumerTypeOK
<1>3. proc[p].offset \in Nat
  BY <1>2 DEF Process
<1> QED
  BY <1>1, <1>2, <1>3 DEF CommitMessage

\* Every step of a consumer is a step inside the handler, the end of the
\* process, a fetch or a commit.
LEMMA HandlerShapes ==
    ASSUME NEW p \in Consumer, HandlerStep(p) \/ Crash(p)
    PROVE  Inside(p) \/ End(p) \/ FetchMessage(p) \/ CommitMessage(p)
BY DEF HandlerStep, Inside, End, Crash, HandlerPanics, DatabaseFails, CommitFails, FatalProcessingError,
       UnregisterReplyLost

\* Types and offsets are right at the start.
LEMMA TypeInit ==
    ASSUME ConsumerInit
    PROVE  TypeInv
<1>1. \A p \in Consumer : proc[p] = Idle("down") /\ proc[p].pc = "down"
  BY IdleType DEF ConsumerInit
<1>2. proc \in [Consumer -> Process]
  BY IdleType DEF ConsumerInit
<1>3. ConnectionsTypeOK /\ log \in Seq(ControlMessage) /\ Len(log) = 0
  BY DEF ConsumerInit, ConnectionsInit, ConnectionsTypeOK
<1>4. InventoryTypeOK
  BY DEF ConsumerInit, InventoryInit, InventoryTypeOK, HostData
<1>5. OffsetsInLog
  BY <1>1, <1>3, ConsumerAssumption DEF ConsumerInit, OffsetsInLog, Busy
<1> QED
  BY <1>2, <1>3, <1>4, <1>5 DEF ConsumerInit, TypeInv, ConsumerTypeOK

\* Every step keeps types and offsets right.
LEMMA TypeStep ==
    ASSUME TypeInv, [OpenNext]_consumerVars
    PROVE  TypeInv'
<1> USE DEF TypeInv
<1>1. ASSUME NEW m \in Message, Arrives(m)
      PROVE  TypeInv'
  <2>1. m \in ControlMessage
    BY TableAssumption
  <2>2. log' \in Seq(ControlMessage) /\ Len(log') = Len(log) + 1 /\ Len(log) \in Nat
    BY <1>1, <2>1 DEF ConsumerTypeOK, Arrives
  <2>3. ConsumerTypeOK'
    BY <1>1, <2>2 DEF ConsumerTypeOK, ConnectionsTypeOK, InventoryTypeOK, Arrives
  <2>4. OffsetsInLog'
    BY <1>1, <2>2 DEF ConsumerTypeOK, OffsetsInLog, Arrives
  <2> QED
    BY <2>3, <2>4
<1>2. ASSUME NEW p \in Consumer, Start(p)
      PROVE  TypeInv'
  <2>1. /\ proc' \in [Consumer -> Process]
        /\ proc'[p].pc = "fetch"
        /\ \A q \in Consumer \ {p} : proc'[q] = proc[q]
    BY <1>2, GotoType DEF Start
  <2>2. ConsumerTypeOK'
    BY <1>2, <2>1 DEF ConsumerTypeOK, ConnectionsTypeOK, InventoryTypeOK, Start
  <2>3. OffsetsInLog'
    BY <1>2, <2>1 DEF OffsetsInLog, Start, Busy
  <2> QED
    BY <2>2, <2>3
<1>3. ASSUME NEW p \in Consumer, Rebalance(p)
      PROVE  TypeInv'
  <2>1. ConsumerTypeOK'
    BY <1>3 DEF ConsumerTypeOK, ConnectionsTypeOK, InventoryTypeOK, Rebalance
  <2>2. OffsetsInLog'
    BY <1>3 DEF OffsetsInLog, Rebalance
  <2> QED
    BY <2>1, <2>2
<1>4. ASSUME NEW p \in Consumer, Inside(p)
      PROVE  TypeInv'
  <2>1. Move(p) /\ DataTypeOK'
    BY <1>4, InsideMoves, InsideDataType
  <2>2. proc[p].offset \in Nat
    BY DEF ConsumerTypeOK, Process
  <2>3. ConsumerTypeOK'
    BY <2>1, <2>2 DEF ConsumerTypeOK, DataTypeOK, Move
  <2>4. OffsetsInLog'
    BY <2>1 DEF OffsetsInLog, Move, Bystander, Busy
  <2> QED
    BY <2>3, <2>4
<1>5. ASSUME NEW p \in Consumer, End(p)
      PROVE  TypeInv'
  <2>1. /\ proc' \in [Consumer -> Process]
        /\ owner' \in Consumer \cup {NoConsumer}
        /\ proc'[p].pc = "down"
        /\ owner' # p
        /\ owner' = owner \/ owner' = NoConsumer
        /\ \A q \in Consumer \ {p} : Bystander(q)
        /\ UNCHANGED <<inventory, log, committed, position, sources, handled, lost>>
    BY <1>5, EndType
  <2>2. ConnectionsTypeOK' /\ applied' \in Nat
    <3>1. CASE UNCHANGED <<connections, applied>>
      BY <3>1 DEF ConsumerTypeOK, ConnectionsTypeOK
    <3>2. CASE UnregisterReplyLost(p)
      <4>1. connections \in Tables(Row) /\ proc[p] \in Process
        BY DEF ConsumerTypeOK, ConnectionsTypeOK, Tables
      <4>2. Msg(p).client_id \in ClientID
        BY <3>2, MsgType DEF UnregisterReplyLost, Busy
      <4>3. connections' \in Tables(Row)
        BY <3>2, <4>1, <4>2, UnregisterIn DEF UnregisterReplyLost
      <4>4. applied' \in Nat
        BY <3>2, <4>1 DEF UnregisterReplyLost, Process
      <4> QED
        BY <4>3, <4>4 DEF ConnectionsTypeOK, Tables
    <3> QED
      BY <1>5, <3>1, <3>2 DEF End
  <2>3. ConsumerTypeOK'
    BY <2>1, <2>2 DEF ConsumerTypeOK, InventoryTypeOK
  <2>4. OffsetsInLog'
    BY <2>1, ConsumerAssumption DEF OffsetsInLog, Bystander, Busy
  <2> QED
    BY <2>3, <2>4
<1>6. ASSUME NEW p \in Consumer, FetchMessage(p)
      PROVE  TypeInv'
  <2>1. /\ proc' \in [Consumer -> Process]
        /\ position' = position + 1
        /\ proc'[p].pc \in {"check", "unregister", "commit"}
        /\ proc'[p].offset = position + 1
        /\ \A q \in Consumer \ {p} : proc'[q] = proc[q]
        /\ handled' = handled \/ handled' = handled \cup {position + 1}
    BY <1>6, FetchType
  <2>2. UNCHANGED <<connections, inventory, log, committed, owner, sources, applied>> /\ lost' = {}
    BY <1>6 DEF FetchMessage
  <2>3. ConsumerTypeOK'
    <3>1. position + 1 \in Nat
      BY DEF ConsumerTypeOK
    <3>2. handled \subseteq Nat
      BY DEF ConsumerTypeOK
    <3>3. handled' \subseteq Nat
      BY <2>1, <3>1, <3>2
    <3>4. ConnectionsTypeOK' /\ InventoryTypeOK'
      BY <2>2 DEF ConsumerTypeOK, ConnectionsTypeOK, InventoryTypeOK
    <3>5. position' \in Nat /\ proc' \in [Consumer -> Process]
      BY <2>1, <3>1
    <3> QED
      BY <2>2, <3>3, <3>4, <3>5 DEF ConsumerTypeOK
  <2>4. position + 1 \in 1..Len(log)
    BY <1>6 DEF ConsumerTypeOK, FetchMessage
  <2>5. OffsetsInLog'
    BY <2>1, <2>2, <2>4 DEF OffsetsInLog, Busy
  <2> QED
    BY <2>3, <2>5
<1>7. ASSUME NEW p \in Consumer, CommitMessage(p)
      PROVE  TypeInv'
  <2>1. /\ proc' \in [Consumer -> Process]
        /\ proc'[p].pc = "fetch"
        /\ \A q \in Consumer \ {p} : proc'[q] = proc[q]
        /\ committed' = proc[p].offset
        /\ proc[p].offset \in Nat
        /\ applied' \in Nat
    BY <1>7, CommitType
  <2>2. ConsumerTypeOK'
    BY <1>7, <2>1 DEF ConsumerTypeOK, ConnectionsTypeOK, InventoryTypeOK, CommitMessage
  <2>3. proc[p].offset \in 1..Len(log)
    BY <1>7 DEF OffsetsInLog, CommitMessage, Busy
  <2>4. OffsetsInLog'
    BY <1>7, <2>1, <2>3 DEF OffsetsInLog, CommitMessage, Busy
  <2> QED
    BY <2>2, <2>4
<1>8. CASE UNCHANGED consumerVars
  BY <1>8 DEF consumerVars, ConsumerTypeOK, ConnectionsTypeOK, InventoryTypeOK, OffsetsInLog
<1> QED
  BY <1>1, <1>2, <1>3, <1>4, <1>5, <1>6, <1>7, <1>8, HandlerShapes DEF OpenNext

\* The variables keep their types (ConsumerTypeOK) in every behaviour.
THEOREM ConsumerTypeCorrect == ConsumerSpec => []ConsumerTypeOK
<1>1. ConsumerInit => TypeInv
  BY TypeInit
<1>2. TypeInv /\ [ConsumerNext]_consumerVars => TypeInv'
  BY TypeStep, ConsumerSteps
<1>3. TypeInv => ConsumerTypeOK
  BY DEF TypeInv
<1> QED
  BY <1>1, <1>2, <1>3, PTL DEF ConsumerSpec

-----------------------------------------------------------------------------
(* At-least-once processing *)

\* What NoGaps says of one consumer.
ConsumerGapFree(p) ==
    /\ proc[p].pc \in Busy => 1..(proc[p].offset - 1) \subseteq handled
    /\ proc[p].pc = "commit" => proc[p].offset \in handled
    /\ owner = p /\ proc[p].pc = "fetch" => 1..position \subseteq handled
    /\ owner = p /\ proc[p].pc \in Busy =>
         1..position \subseteq handled \cup {proc[p].offset}

GapInv ==
    /\ TypeInv
    /\ CommittedMessagesHandled
    /\ \A p \in Consumer : ConsumerGapFree(p)

\* A consumer that a step leaves alone keeps its part of the invariant.
LEMMA BystanderGapFree ==
    ASSUME NEW q \in Consumer, ConsumerGapFree(q), Bystander(q) \/ proc'[q] = proc[q],
           handled \subseteq handled',
           owner' # q \/ (owner' = owner /\ position' = position)
    PROVE  ConsumerGapFree(q)'
<1>1. proc'[q].pc = proc[q].pc /\ proc'[q].offset = proc[q].offset
  BY DEF Bystander
<1> QED
  BY <1>1 DEF ConsumerGapFree

\* Every step keeps the messages before the ones in hand handled.
LEMMA GapStep ==
    ASSUME GapInv, [OpenNext]_consumerVars
    PROVE  GapInv'
<1>1. TypeInv'
  BY TypeStep DEF GapInv
<1>2. /\ proc \in [Consumer -> Process] /\ position \in Nat /\ committed \in Nat
      /\ owner \in Consumer \cup {NoConsumer}
  BY DEF GapInv, TypeInv, ConsumerTypeOK
<1>3. ASSUME NEW m \in Message, Arrives(m)
      PROVE  GapInv'
  BY <1>1, <1>3 DEF GapInv, CommittedMessagesHandled, ConsumerGapFree, Arrives
<1>4. ASSUME NEW p \in Consumer, Start(p)
      PROVE  GapInv'
  <2>1. proc'[p].pc = "fetch" /\ \A q \in Consumer \ {p} : proc'[q] = proc[q]
    BY <1>4, GotoType DEF Start, GapInv, TypeInv
  <2>2. owner # p
    BY <1>4 DEF Start, GapInv, TypeInv, OffsetsInLog
  <2>3. ConsumerGapFree(p)'
    BY <1>4, <2>1, <2>2 DEF ConsumerGapFree, Start, Busy
  <2>4. \A q \in Consumer \ {p} : ConsumerGapFree(q)'
    BY <1>4, <2>1, BystanderGapFree DEF GapInv, Start
  <2> QED
    BY <1>1, <1>4, <2>3, <2>4 DEF GapInv, CommittedMessagesHandled, Start
<1>5. ASSUME NEW p \in Consumer, Rebalance(p)
      PROVE  GapInv'
  <2>1. ConsumerGapFree(p)'
    BY <1>5 DEF GapInv, CommittedMessagesHandled, ConsumerGapFree, Rebalance
  <2>2. \A q \in Consumer \ {p} : ConsumerGapFree(q)'
    <3> SUFFICES ASSUME NEW q \in Consumer \ {p}
                 PROVE  ConsumerGapFree(q)'
      OBVIOUS
    <3>1. /\ ConsumerGapFree(q) /\ proc'[q] = proc[q]
          /\ handled \subseteq handled' /\ owner' # q
      BY <1>5 DEF GapInv, Rebalance
    <3> QED
      BY <3>1, BystanderGapFree
  <2> QED
    BY <1>1, <1>5, <2>1, <2>2 DEF GapInv, CommittedMessagesHandled, Rebalance
<1>6. ASSUME NEW p \in Consumer, Inside(p)
      PROVE  GapInv'
  <2>1. Move(p)
    BY <1>6, InsideMoves DEF GapInv, TypeInv
  <2>2. handled \subseteq handled'
    BY <2>1 DEF Move
  <2>3. ConsumerGapFree(p)'
    BY <2>1, <2>2 DEF GapInv, ConsumerGapFree, Move, Busy
  <2>4. \A q \in Consumer \ {p} : ConsumerGapFree(q)'
    BY <2>1, <2>2, BystanderGapFree DEF GapInv, Move
  <2> QED
    BY <1>1, <2>1, <2>2, <2>3, <2>4 DEF GapInv, CommittedMessagesHandled, Move
<1>7. ASSUME NEW p \in Consumer, End(p)
      PROVE  GapInv'
  <2>1. /\ proc'[p].pc = "down"
        /\ owner' # p
        /\ owner' = owner \/ owner' = NoConsumer
        /\ \A q \in Consumer \ {p} : Bystander(q)
        /\ UNCHANGED <<committed, position, handled>>
    BY <1>7, EndType DEF GapInv, TypeInv
  <2>2. ConsumerGapFree(p)'
    BY <2>1 DEF ConsumerGapFree, Busy
  <2>3. \A q \in Consumer \ {p} : ConsumerGapFree(q)'
    BY <2>1, BystanderGapFree, ConsumerAssumption DEF GapInv
  <2> QED
    BY <1>1, <2>1, <2>2, <2>3 DEF GapInv, CommittedMessagesHandled
<1>8. ASSUME NEW p \in Consumer, FetchMessage(p)
      PROVE  GapInv'
  <2>1. /\ position' = position + 1
        /\ proc'[p].pc \in {"check", "unregister", "commit"}
        /\ proc'[p].offset = position + 1
        /\ \A q \in Consumer \ {p} : proc'[q] = proc[q]
        /\ handled' = handled \/ handled' = handled \cup {position + 1}
        /\ proc'[p].pc = "commit" => handled' = handled \cup {position + 1}
    BY <1>8, FetchType DEF GapInv
  <2>2. /\ handled \subseteq handled'
        /\ proc'[p].pc = "commit" => position + 1 \in handled'
    BY <2>1
  <2>3. owner = p /\ owner' = p /\ committed' = committed /\ proc[p].pc = "fetch"
    BY <1>8 DEF FetchMessage
  <2>4. 1..position \subseteq handled'
    BY <2>2, <2>3 DEF GapInv, ConsumerGapFree
  <2>5. ConsumerGapFree(p)'
    <3>1. (position + 1) - 1 = position
      BY <1>2
    <3>2. 1..(position + 1) \subseteq handled' \cup {position + 1}
      BY <1>2, <2>4
    <3> QED
      BY <2>1, <2>2, <2>4, <3>1, <3>2 DEF ConsumerGapFree, Busy
  <2>6. \A q \in Consumer \ {p} : ConsumerGapFree(q)'
    <3> SUFFICES ASSUME NEW q \in Consumer \ {p}
                 PROVE  ConsumerGapFree(q)'
      OBVIOUS
    <3>1. /\ ConsumerGapFree(q) /\ proc'[q] = proc[q]
          /\ handled \subseteq handled' /\ owner' # q
      BY <2>1, <2>2, <2>3 DEF GapInv
    <3> QED
      BY <3>1, BystanderGapFree
  <2> QED
    BY <1>1, <2>2, <2>3, <2>5, <2>6 DEF GapInv, CommittedMessagesHandled
<1>9. ASSUME NEW p \in Consumer, CommitMessage(p)
      PROVE  GapInv'
  <2>1. /\ proc'[p].pc = "fetch"
        /\ \A q \in Consumer \ {p} : proc'[q] = proc[q]
        /\ committed' = proc[p].offset
        /\ proc[p].offset \in Nat
    BY <1>9, CommitType DEF GapInv, TypeInv
  <2>2. UNCHANGED <<owner, position, handled>> /\ proc[p].pc = "commit"
    BY <1>9 DEF CommitMessage
  <2>3. /\ 1..(proc[p].offset - 1) \subseteq handled
        /\ proc[p].offset \in handled
        /\ owner = p => 1..position \subseteq handled \cup {proc[p].offset}
    BY <2>2 DEF GapInv, ConsumerGapFree, Busy
  <2>4. 1..proc[p].offset \subseteq handled
    BY <2>1, <2>3
  <2>5. CommittedMessagesHandled'
    BY <2>1, <2>2, <2>4 DEF CommittedMessagesHandled
  <2>6. ConsumerGapFree(p)'
    BY <2>1, <2>2, <2>3 DEF ConsumerGapFree, Busy
  <2>7. \A q \in Consumer \ {p} : ConsumerGapFree(q)'
    BY <2>1, <2>2, BystanderGapFree DEF GapInv
  <2> QED
    BY <1>1, <2>5, <2>6, <2>7 DEF GapInv
<1>10. CASE UNCHANGED consumerVars
  BY <1>1, <1>10 DEF consumerVars, GapInv, CommittedMessagesHandled, ConsumerGapFree
<1> QED
  BY <1>3, <1>4, <1>5, <1>6, <1>7, <1>8, <1>9, <1>10, HandlerShapes DEF OpenNext

\* The invariant holds at the start.
LEMMA GapInit ==
    ASSUME ConsumerInit
    PROVE  GapInv
<1>1. \A p \in Consumer : proc[p].pc = "down"
  BY IdleType DEF ConsumerInit
<1>2. \A p \in Consumer : ConsumerGapFree(p)
  BY <1>1 DEF ConsumerGapFree, Busy
<1>3. CommittedMessagesHandled
  BY DEF ConsumerInit, CommittedMessagesHandled
<1> QED
  BY <1>2, <1>3, TypeInit DEF GapInv

\* No gaps: all messages before the one in a consumer's hands have been handled,
\* and the owner fetched nothing that is neither handled nor in its hands
\* (FetchMessage, handleMessage and CommitMessages strictly one after the other).
THEOREM GapFree == ConsumerSpec => []NoGaps
<1>1. ConsumerInit => GapInv
  BY GapInit
<1>2. GapInv /\ [ConsumerNext]_consumerVars => GapInv'
  BY GapStep, ConsumerSteps
<1>3. GapInv => NoGaps
  BY DEF GapInv, NoGaps, TypeInv, ConsumerGapFree
<1> QED
  BY <1>1, <1>2, <1>3, PTL DEF ConsumerSpec

\* At least once: whatever crashes, fatal errors, rebalances and late commits
\* happen, the committed offset never passes a message that was not handled
\* (consumeMqttMessagesFromKafka).
THEOREM AtLeastOnce == ConsumerSpec => []CommittedMessagesHandled
<1>1. NoGaps => CommittedMessagesHandled
  BY DEF NoGaps
<1> QED
  BY <1>1, GapFree, PTL

-----------------------------------------------------------------------------
(* A row is from one message *)

\* The calls of handleOnlineMessage.
OnlineCalls == {"check", "resolve", "prepare", "exec", "record", "lookup", "create"}

\* The order of the calls within the handler.
Follows(a, b) ==
    \/ a = "check"      /\ b \in {"resolve", "commit"}
    \/ a = "resolve"    /\ b = "prepare"
    \/ a = "prepare"    /\ b = "exec"
    \/ a = "exec"       /\ b \in {"record", "commit"}
    \/ a = "record"     /\ b \in {"lookup", "commit"}
    \/ a = "lookup"     /\ b \in {"create", "commit"}
    \/ a = "create"     /\ b = "commit"
    \/ a = "unregister" /\ b = "commit"

\* The handler makes its calls in that order.
LEMMA InsideFollows ==
    ASSUME ConsumerTypeOK, NEW p \in Consumer, Inside(p)
    PROVE  Follows(proc[p].pc, proc'[p].pc)
<1> DEFINE a == proc[p].pc
           b == proc'[p].pc
<1>1. \A pc \in {"down", "fetch"} \cup Busy : Goto(p, pc) => b = pc
  BY GotoType
<1>2. {"resolve", "record", "lookup", "create", "commit"} \subseteq {"down", "fetch"} \cup Busy
  BY DEF Busy
<1>3. Return(p) => b = "commit"
  BY <1>1, <1>2 DEF Return
<1>4. CASE ResolveTenant(p) \/ PrepareUpsert(p)
  <2>1. proc \in [Consumer -> Process]
    BY DEF ConsumerTypeOK
  <2>2. ASSUME ResolveTenant(p)
        PROVE  a = "resolve" /\ b = "prepare"
    BY <2>1, <2>2 DEF ResolveTenant, Process
  <2>3. ASSUME PrepareUpsert(p)
        PROVE  a = "prepare" /\ b = "exec"
    BY <2>1, <2>3 DEF PrepareUpsert, Process
  <2> QED
    BY <1>4, <2>2, <2>3 DEF Follows
<1>5. CASE IgnoreDuplicate(p) \/ AcceptMessage(p)
  BY <1>1, <1>2, <1>3, <1>5 DEF Follows, IgnoreDuplicate, AcceptMessage
<1>6. CASE ExecUpsert(p) \/ ExecUpsertFails(p)
  BY <1>1, <1>2, <1>3, <1>6 DEF Follows, ExecUpsert, ExecUpsertFails
<1>7. CASE RecordClient(p) \/ RecordClientFails(p)
  BY <1>1, <1>2, <1>3, <1>7 DEF Follows, RecordClient, RecordClientFails
<1>8. CASE SourceExists(p) \/ SourceNotFound(p) \/ CreateSource(p)
  BY <1>1, <1>2, <1>3, <1>8
     DEF Follows, SourceExists, SourceNotFound, CreateSource
<1>9. CASE UnregisterClient(p)
  <2>1. RowsGone(Msg(p).client_id) \in [Consumer -> Process]
    BY RowsGoneType
  <2>2. RowsGone(Msg(p).client_id)[p] \in Process
    BY <2>1
  <2>3. [RowsGone(Msg(p).client_id)[p] EXCEPT !.pc = "commit"].pc = "commit"
    BY <2>2 DEF Process
  <2>4. a = "unregister" /\ b = "commit"
    BY <1>9, <2>1, <2>3 DEF UnregisterClient
  <2> QED
    BY <2>4 DEF Follows
<1> QED
  BY <1>4, <1>5, <1>6, <1>7, <1>8, <1>9 DEF Inside

\* A consumer leaves the partition as it is.
LEMMA ConsumersOnlyRead ==
    ASSUME NEW p \in Consumer, Start(p) \/ Rebalance(p) \/ Crash(p) \/ HandlerStep(p)
    PROVE  log' = log
BY DEF Start, Rebalance, Crash, HandlerStep, FetchMessage, HandlerPanics, IgnoreDuplicate,
       AcceptMessage, ResolveTenant, PrepareUpsert, ExecUpsert, ExecUpsertFails, DatabaseFails,
       RecordClient, RecordClientFails, SourceExists, SourceNotFound, CreateSource,
       UnregisterClient, UnregisterReplyLost, CommitMessage, CommitFails, FatalProcessingError

\* The partition only grows, and the messages in it stay what they are.
LEMMA LogGrows ==
    ASSUME TypeInv, [OpenNext]_consumerVars
    PROVE  /\ Len(log) \in Nat /\ Len(log)' \in Nat
           /\ Len(log) <= Len(log)'
           /\ \A i \in 1..Len(log) : log'[i] = log[i]
<1>1. log \in Seq(ControlMessage) /\ log' \in Seq(ControlMessage)
  BY TypeStep DEF TypeInv, ConsumerTypeOK
<1>2. CASE \E m \in Message : Arrives(m)
  <2>1. PICK m \in Message : log' = Append(log, m)
    BY <1>2 DEF Arrives
  <2>2. m \in ControlMessage
    BY TableAssumption
  <2> QED
    BY <1>1, <2>1, <2>2
<1>3. CASE log' = log
  BY <1>1, <1>3
<1> QED
  BY <1>2, <1>3, ConsumersOnlyRead DEF OpenNext, consumerVars, TypeInv

\* What becomes of a process in a step of the system.
LEMMA ProcessSteps ==
    ASSUME TypeInv, [OpenNext]_consumerVars, NEW q \in Consumer
    PROVE  \/ Bystander(q)
           \/ /\ Follows(proc[q].pc, proc'[q].pc)
              /\ proc'[q].offset = proc[q].offset
              /\ proc[q].pc \in Busy
           \/ proc'[q].pc \in {"down", "fetch"}
           \/ FetchMessage(q)
<1>1. ASSUME NEW m \in Message, Arrives(m)
      PROVE  proc' = proc
  BY <1>1 DEF Arrives
<1>2. ASSUME NEW p \in Consumer, Start(p)
      PROVE  proc'[q] = proc[q] \/ proc'[q].pc = "fetch"
  BY <1>2, GotoType DEF Start, TypeInv
<1>3. ASSUME NEW p \in Consumer, Rebalance(p)
      PROVE  proc' = proc
  BY <1>3 DEF Rebalance
<1>4. ASSUME NEW p \in Consumer, Inside(p)
      PROVE  \/ Bystander(q)
             \/ /\ Follows(proc[q].pc, proc'[q].pc)
                /\ proc'[q].offset = proc[q].offset
                /\ proc[q].pc \in Busy
  BY <1>4, InsideFollows, InsideMoves DEF TypeInv, Move
<1>5. ASSUME NEW p \in Consumer, End(p)
      PROVE  Bystander(q) \/ proc'[q].pc = "down"
  BY <1>5, EndType DEF TypeInv
<1>6. ASSUME NEW p \in Consumer, FetchMessage(p)
      PROVE  proc'[q] = proc[q] \/ FetchMessage(q)
  BY <1>6, FetchType
<1>7. ASSUME NEW p \in Consumer, CommitMessage(p)
      PROVE  proc'[q] = proc[q] \/ proc'[q].pc = "fetch"
  BY <1>7, CommitType DEF TypeInv
<1> QED
  BY <1>1, <1>2, <1>3, <1>4, <1>5, <1>6, <1>7, HandlerShapes
     DEF OpenNext, consumerVars, Bystander

\* The message in hand is of the kind that its handler is for.
StateInHand(p) ==
    /\ proc[p].pc \in OnlineCalls => Msg(p).state = "online"
    /\ proc[p].pc = "unregister" => Msg(p).state = "offline"

\* A fetched message is passed to the handler for its state (FirstCall).
LEMMA FetchState ==
    ASSUME TypeInv, NEW p \in Consumer, FetchMessage(p)
    PROVE  StateInHand(p)' /\ proc'[p].pc = FirstCall(log[position + 1])
<1> DEFINE m == log[position + 1]
           next == At(FirstCall(m), position + 1)
<1>1. position + 1 \in 1..Len(log) /\ log \in Seq(ControlMessage) /\ log' = log
  BY DEF TypeInv, ConsumerTypeOK, FetchMessage
<1>2. m.state \in {"online", "offline", "other"}
  <2>1. m \in ControlMessage
    BY <1>1
  <2>2. m.state # "malformed"
    BY DEF FetchMessage
  <2> QED
    BY <2>1, <2>2 DEF ControlMessage
<1>3. proc'[p] = next
  BY DEF FetchMessage, TypeInv, ConsumerTypeOK
<1>4. next.pc = FirstCall(m) /\ next.offset = position + 1
  BY DEF At
<1>5. Msg(p)' = m
  BY <1>1, <1>3, <1>4 DEF Msg
<1>6. /\ FirstCall(m) \in OnlineCalls => m.state = "online"
      /\ FirstCall(m) = "unregister" => m.state = "offline"
  BY <1>2 DEF FirstCall, OnlineCalls
<1> QED
  BY <1>3, <1>4, <1>5, <1>6 DEF StateInHand

\* Every step keeps the messages in hand with the right handler.
LEMMA StateStep ==
    ASSUME TypeInv, [OpenNext]_consumerVars, NEW q \in Consumer, StateInHand(q)
    PROVE  StateInHand(q)'
<1>1. proc[q].pc \in Busy => Msg(q)' = log[proc'[q].offset] \/ proc'[q].offset # proc[q].offset
  <2>1. proc[q].pc \in Busy => proc[q].offset \in 1..Len(log)
    BY DEF TypeInv, OffsetsInLog
  <2> QED
    BY <2>1, LogGrows DEF Msg
<1>2. CASE Bystander(q)
  BY <1>1, <1>2 DEF StateInHand, Msg, OnlineCalls, Busy, Bystander
<1>3. CASE /\ Follows(proc[q].pc, proc'[q].pc)
           /\ proc'[q].offset = proc[q].offset
           /\ proc[q].pc \in Busy
  <2>1. Msg(q)' = Msg(q)
    BY <1>1, <1>3 DEF Msg
  <2>2. /\ proc'[q].pc \in OnlineCalls => proc[q].pc \in OnlineCalls
        /\ proc'[q].pc # "unregister"
    BY <1>3 DEF Follows, OnlineCalls
  <2> QED
    BY <2>1, <2>2 DEF StateInHand
<1>4. CASE proc'[q].pc \in {"down", "fetch"}
  BY <1>4 DEF StateInHand, OnlineCalls
<1>5. CASE FetchMessage(q)
  BY <1>5, FetchState
<1> QED
  BY <1>2, <1>3, <1>4, <1>5, ProcessSteps

\* What becomes of the table in a step of the system.
LEMMA TableSteps ==
    ASSUME TypeInv, [OpenNext]_consumerVars
    PROVE  \/ connections' = connections
           \/ \E p \in Consumer : proc[p].pc = "exec" /\ Upsert(p)
           \/ \E p \in Consumer : /\ proc[p].pc = "unregister"
                                  /\ connections' = Unregister(connections, Msg(p).client_id)
<1>1. ASSUME NEW m \in Message, Arrives(m)
      PROVE  connections' = connections
  BY <1>1 DEF Arrives
<1>2. ASSUME NEW p \in Consumer, Start(p) \/ Rebalance(p) \/ Crash(p)
      PROVE  connections' = connections
  BY <1>2 DEF Start, Rebalance, Crash
<1>3. ASSUME NEW p \in Consumer, ExecUpsert(p) \/ ExecUpsertFails(p)
      PROVE  connections' = connections \/ (proc[p].pc = "exec" /\ Upsert(p))
  BY <1>3 DEF ExecUpsert, ExecUpsertFails
<1>4. ASSUME NEW p \in Consumer, UnregisterClient(p) \/ UnregisterReplyLost(p)
      PROVE  proc[p].pc = "unregister" /\ connections' = Unregister(connections, Msg(p).client_id)
  BY <1>4 DEF UnregisterClient, UnregisterReplyLost
<1>5. ASSUME NEW p \in Consumer,
             HandlerStep(p), ~UnregisterClient(p), ~UnregisterReplyLost(p),
             ~ExecUpsert(p), ~ExecUpsertFails(p)
      PROVE  connections' = connections
  BY <1>5 DEF HandlerStep, FetchMessage, HandlerPanics, IgnoreDuplicate, AcceptMessage, ResolveTenant,
              PrepareUpsert, DatabaseFails, RecordClient, RecordClientFails, SourceExists,
              SourceNotFound, CreateSource, CommitMessage, CommitFails, FatalProcessingError
<1> QED
  BY <1>1, <1>2, <1>3, <1>4, <1>5 DEF OpenNext, consumerVars

RowInv ==
    /\ TypeInv
    /\ \A p \in Consumer : StateInHand(p)
    /\ RowIsOneMessage

\* An online message of the client c that the row r is from.
IsSource(o, r, c) ==
    /\ log[o].state = "online"
    /\ log[o].client_id = c
    /\ IsFrom(r, log[o])

\* Whatever the interleaving of the consumers, a row stays one message's.
LEMMA RowStep ==
    ASSUME RowInv, [OpenNext]_consumerVars
    PROVE  RowIsOneMessage'
<1>1. TypeInv
  BY DEF RowInv
<1>2. \A c \in ClientID : \A r \in FindConnectionByClientID(connections, c) :
        \E o \in DOMAIN log : IsSource(o, r, c)
  BY DEF RowInv, RowIsOneMessage, IsSource, IsFrom
<1>3. SUFFICES ASSUME NEW c \in ClientID, NEW r \in FindConnectionByClientID(connections, c)'
               PROVE  (\E o \in DOMAIN log : IsSource(o, r, c))'
  <2>1. (\A c \in ClientID : \A r \in FindConnectionByClientID(connections, c) :
           \E o \in DOMAIN log : IsSource(o, r, c))'
    BY <1>3
  <2> QED
    BY <2>1 DEF RowIsOneMessage, IsSource, IsFrom
<1>4. log \in Seq(ControlMessage) /\ log' \in Seq(ControlMessage)
  BY <1>1, TypeStep DEF TypeInv, ConsumerTypeOK
<1>5. \A o \in DOMAIN log : o \in DOMAIN log' /\ log'[o] = log[o]
  BY <1>1, <1>4, LogGrows
<1>6. SUFFICES \E o \in DOMAIN log : IsSource(o, r, c)
  BY <1>5 DEF IsSource
<1>7. CASE r \in FindConnectionByClientID(connections, c)
  BY <1>2, <1>7
<1>8. ASSUME NEW p \in Consumer, proc[p].pc = "exec", Upsert(p)
      PROVE  \E o \in DOMAIN log : IsSource(o, r, c)
  <2> DEFINE m == Msg(p)
             org == proc[p].result.org_id
             seen == proc[p].seen
  <2>1. proc[p] \in Process
    BY <1>1 DEF TypeInv, ConsumerTypeOK
  <2>2. seen \in Nat
    BY <2>1 DEF Process
  <2>3. m.client_id \in ClientID /\ m.state = "online"
    BY <1>1, <1>8, MsgType DEF Busy, RowInv, StateInHand, OnlineCalls
  <2>4. proc[p].offset \in DOMAIN log
    BY <1>1, <1>4, <1>8 DEF TypeInv, OffsetsInLog, Busy
  <2>5. connections' = Register(connections, m.client_id, m, org, seen)
    BY <1>8 DEF Upsert
  <2>6. connections \in Tables(Row)
    BY <1>1 DEF TypeInv, ConsumerTypeOK, ConnectionsTypeOK, Tables
  <2>7. CASE c = m.client_id
    <3>1. IsFrom(r, m) \/ r \in FindConnectionByClientID(connections, c)
      <4> HIDE DEF m, org, seen
      <4> QED
        BY <1>3, <2>2, <2>5, <2>6, <2>7, RegisterRows
    <3>2. CASE IsFrom(r, m)
      BY <2>3, <2>4, <2>7, <3>2 DEF IsSource, Msg
    <3> QED
      BY <1>7, <3>1, <3>2
  <2>8. CASE c # m.client_id
    <3>1. connections'[c] = connections[c]
      <4> HIDE DEF m, org, seen
      <4> QED
        BY <2>2, <2>3, <2>5, <2>6, <2>8, RegisterElsewhere
    <3>2. r \in FindConnectionByClientID(connections, c)
      BY <1>3, <3>1 DEF FindConnectionByClientID
    <3> QED
      BY <1>7, <3>2
  <2> QED
    BY <2>7, <2>8
<1>9. ASSUME NEW p \in Consumer, proc[p].pc = "unregister",
             connections' = Unregister(connections, Msg(p).client_id)
      PROVE  r \in FindConnectionByClientID(connections, c)
  <2>1. connections'[c] = <<>> \/ connections'[c] = connections[c]
    BY <1>1, <1>9 DEF Unregister, TypeInv, ConsumerTypeOK, ConnectionsTypeOK
  <2> QED
    BY <1>3, <2>1 DEF FindConnectionByClientID
<1>10. CASE connections' = connections
  <2>1. r \in FindConnectionByClientID(connections, c)
    BY <1>3, <1>10 DEF FindConnectionByClientID
  <2> QED
    BY <1>7, <2>1
<1> QED
  BY <1>1, <1>7, <1>8, <1>9, <1>10, TableSteps

\* A row never mixes two messages: its id, its sent time and its dispatchers are
\* those of one online message that its client published (Register), however
\* the handlers of several consumers overlap.
THEOREM RowsAreMessages == ConsumerSpec => []RowIsOneMessage
<1>1. ConsumerInit => RowInv
  <2> SUFFICES ASSUME ConsumerInit
               PROVE  RowInv
    OBVIOUS
  <2>1. \A p \in Consumer : proc[p].pc = "down"
    BY IdleType DEF ConsumerInit
  <2>2. \A p \in Consumer : StateInHand(p)
    BY <2>1 DEF StateInHand, OnlineCalls
  <2>3. \A c \in ClientID : FindConnectionByClientID(connections, c) = {}
    <3> TAKE c \in ClientID
    <3>1. connections[c] = <<>>
      BY DEF ConsumerInit, ConnectionsInit
    <3>2. DOMAIN connections[c] = {}
      BY <3>1
    <3> QED
      BY <3>2 DEF FindConnectionByClientID
  <2> QED
    BY <2>2, <2>3, TypeInit DEF RowInv, RowIsOneMessage
<1>2. RowInv /\ [ConsumerNext]_consumerVars => RowInv'
  BY TypeStep, StateStep, RowStep, ConsumerSteps DEF RowInv
<1>3. RowInv => RowIsOneMessage
  BY DEF RowInv
<1> QED
  BY <1>1, <1>2, <1>3, PTL DEF ConsumerSpec

-----------------------------------------------------------------------------
(* How many rows a client can have *)

\* The consumers whose upsert will insert a row for the client c.
Inserting(c) ==
    {p \in Consumer : proc[p].pc = "exec" /\ proc[p].seen = 0 /\ Msg(p).client_id = c}

\* The rows of a client, and the rows that are about to be inserted for it.
RowsInv ==
    /\ TypeInv
    /\ \A c \in ClientID :
         Len(connections[c]) + Cardinality(Inserting(c)) <= Cardinality(Consumer)

\* The three things that may become of n rows and the inserters I.
LEMMA RowsCount ==
    ASSUME NEW n \in Nat, NEW k \in Nat, NEW I \in SUBSET Consumer, NEW J \in SUBSET Consumer,
           n + Cardinality(I) <= Cardinality(Consumer),
           \/ k = 0
           \/ k = n /\ J \subseteq I
           \/ k = n + 1 /\ \E p \in I : J \subseteq I \ {p}
    PROVE  k + Cardinality(J) <= Cardinality(Consumer)
<1>1. IsFiniteSet(Consumer) /\ Cardinality(Consumer) \in Nat
  BY ConsumerAssumption, FS_CardinalityType
<1>2. /\ IsFiniteSet(I) /\ Cardinality(I) \in Nat
      /\ IsFiniteSet(J) /\ Cardinality(J) \in Nat /\ Cardinality(J) <= Cardinality(Consumer)
  BY <1>1, FS_Subset, FS_CardinalityType
<1>3. CASE k = 0
  BY <1>1, <1>2, <1>3
<1>4. CASE k = n /\ J \subseteq I
  <2>1. Cardinality(J) <= Cardinality(I)
    BY <1>2, <1>4, FS_Subset
  <2> QED
    BY <1>1, <1>2, <1>4, <2>1
<1>5. CASE k = n + 1 /\ \E p \in I : J \subseteq I \ {p}
  <2>1. PICK p \in I : J \subseteq I \ {p}
    BY <1>5
  <2>2. /\ IsFiniteSet(I \ {p})
        /\ Cardinality(I \ {p}) = Cardinality(I) - 1
    BY <1>2, FS_RemoveElement
  <2>3. Cardinality(J) <= Cardinality(I \ {p})
    BY <2>1, <2>2, FS_Subset
  <2> QED
    BY <1>1, <1>2, <1>5, <2>2, <2>3
<1> QED
  BY <1>3, <1>4, <1>5

\* A step that executes no DELETE changes one process at most, and only
\* PrepareUpsert leads to the upsert.
LEMMA KeepsOthers ==
    ASSUME TypeInv, NEW p \in Consumer, Start(p) \/ Crash(p) \/ HandlerStep(p),
           ~UnregisterClient(p), ~UnregisterReplyLost(p)
    PROVE  /\ \A q \in Consumer \ {p} : proc'[q] = proc[q]
           /\ proc'[p].pc = "exec" => PrepareUpsert(p)
<1> ConsumerTypeOK /\ proc \in [Consumer -> Process]
  BY DEF TypeInv, ConsumerTypeOK
<1>1. \A pc \in {"down", "fetch"} \cup Busy :
        Goto(p, pc) => proc'[p].pc = pc /\ \A q \in Consumer \ {p} : proc'[q] = proc[q]
  BY GotoType
<1>2. {"fetch", "resolve", "record", "lookup", "create", "commit"} \subseteq {"down", "fetch"} \cup Busy
  BY DEF Busy
<1>3. Return(p) => proc'[p].pc = "commit" /\ \A q \in Consumer \ {p} : proc'[q] = proc[q]
  BY <1>1, <1>2 DEF Return
<1>4. CASE Start(p)
  BY <1>1, <1>2, <1>4 DEF Start
<1>5. CASE FetchMessage(p)
  BY <1>5, FetchType
<1>6. CASE CommitMessage(p)
  BY <1>6, CommitType
<1>7. CASE Exit(p)
  BY <1>7, ExitType
<1>8. CASE ResolveTenant(p)
  <2>1. \A q \in Consumer \ {p} : proc'[q] = proc[q]
    BY <1>8 DEF ResolveTenant
  <2>2. Follows(proc[p].pc, proc'[p].pc) /\ proc[p].pc = "resolve"
    BY <1>8, InsideFollows DEF Inside, ResolveTenant
  <2> QED
    BY <2>1, <2>2 DEF Follows
<1>9. CASE PrepareUpsert(p)
  BY <1>9 DEF PrepareUpsert
<1>10. CASE IgnoreDuplicate(p) \/ AcceptMessage(p) \/ ExecUpsert(p) \/ ExecUpsertFails(p)
  BY <1>1, <1>2, <1>3, <1>10 DEF IgnoreDuplicate, AcceptMessage, ExecUpsert, ExecUpsertFails
<1>11. CASE RecordClient(p) \/ RecordClientFails(p)
  BY <1>1, <1>2, <1>3, <1>11 DEF RecordClient, RecordClientFails
<1>12. CASE SourceExists(p) \/ SourceNotFound(p) \/ CreateSource(p)
  BY <1>1, <1>2, <1>3, <1>12 DEF SourceExists, SourceNotFound, CreateSource
<1>13. CASE Crash(p) \/ HandlerPanics(p) \/ DatabaseFails(p) \/ CommitFails(p)
  BY <1>7, <1>13 DEF Crash, HandlerPanics, DatabaseFails, CommitFails, FatalProcessingError
<1> QED
  BY <1>4, <1>5, <1>6, <1>8, <1>9, <1>10, <1>11, <1>12, <1>13 DEF HandlerStep

\* A consumer that stays in the upsert keeps its message.
LEMMA InserterKeepsMessage ==
    ASSUME TypeInv, [OpenNext]_consumerVars, NEW q \in Consumer, proc[q].pc = "exec",
           proc'[q].offset = proc[q].offset
    PROVE  Msg(q)' = Msg(q)
<1>1. proc[q].offset \in 1..Len(log)
  BY DEF TypeInv, OffsetsInLog, Busy
<1> QED
  BY <1>1, LogGrows DEF Msg

\* No step makes the rows of a client, together with those about to be inserted,
\* more than there are consumers.
LEMMA RowsStep ==
    ASSUME RowsInv, [OpenNext]_consumerVars
    PROVE  RowsInv'
<1>1. TypeInv /\ TypeInv'
  BY TypeStep DEF RowsInv
<1>2. SUFFICES ASSUME NEW c \in ClientID
               PROVE  (Len(connections[c]) + Cardinality(Inserting(c)) <= Cardinality(Consumer))'
  BY <1>1 DEF RowsInv
<1> DEFINE n == Len(connections[c])
           k == Len(connections'[c])
           I == Inserting(c)
           J == Inserting(c)'
<1>3. connections \in [ClientID -> Seq(Row)] /\ connections' \in [ClientID -> Seq(Row)]
  BY <1>1 DEF TypeInv, ConsumerTypeOK, ConnectionsTypeOK
<1>4. n \in Nat /\ k \in Nat /\ I \in SUBSET Consumer /\ J \in SUBSET Consumer
  BY <1>3 DEF Inserting
<1>5. n + Cardinality(I) <= Cardinality(Consumer)
  BY DEF RowsInv
<1>6. SUFFICES \/ k = 0
               \/ k = n /\ J \subseteq I
               \/ k = n + 1 /\ \E p \in I : J \subseteq I \ {p}
  <2> HIDE DEF n, k, I, J
  <2>1. k + Cardinality(J) <= Cardinality(Consumer)
    BY <1>4, <1>5, <1>6, RowsCount
  <2> QED
    BY <2>1 DEF k, J
<1>7. ASSUME NEW q \in J, proc'[q] = proc[q]
      PROVE  q \in I
  <2>1. q \in Consumer /\ proc'[q].pc = "exec" /\ proc'[q].seen = 0 /\ Msg(q)'.client_id = c
    BY DEF Inserting
  <2>2. Msg(q)' = Msg(q)
    BY <1>1, <1>7, <2>1, InserterKeepsMessage
  <2> QED
    BY <1>7, <2>1, <2>2 DEF Inserting
<1>8. ASSUME proc' = proc, connections' = connections
      PROVE  k = n /\ J \subseteq I
  BY <1>7, <1>8
<1>9. ASSUME NEW p \in Consumer, \A q \in Consumer \ {p} : proc'[q] = proc[q]
      PROVE  J \subseteq I \cup {p}
  BY <1>4, <1>7, <1>9
<1>10. ASSUME NEW p \in Consumer, \A q \in Consumer \ {p} : proc'[q] = proc[q],
              proc'[p].pc # "exec"
       PROVE  J \subseteq I \ {p}
  <2>1. p \notin J
    BY <1>10 DEF Inserting
  <2> QED
    BY <1>4, <1>7, <1>10, <2>1
<1>11. ASSUME NEW p \in Consumer, PrepareUpsert(p)
       PROVE  k = 0 \/ (k = n /\ J \subseteq I)
  <2>1. /\ connections' = connections /\ log' = log /\ proc[p].pc = "prepare"
        /\ \A q \in Consumer \ {p} : proc'[q] = proc[q]
    <3>1. proc \in [Consumer -> Process]
      BY <1>1 DEF TypeInv, ConsumerTypeOK
    <3>2. \E new : proc' = [proc EXCEPT ![p] = new]
      BY <1>11 DEF PrepareUpsert
    <3> QED
      BY <1>11, <3>1, <3>2 DEF PrepareUpsert
  <2>2. proc[p] \in Process
    BY <1>1 DEF TypeInv, ConsumerTypeOK
  <2>3. proc'[p].seen = Len(connections[Msg(p).client_id]) /\ proc'[p].offset = proc[p].offset
    <3> DEFINE l == Len(connections[Msg(p).client_id])
    <3>1. proc'[p] = [proc[p] EXCEPT !.pc = "exec", !.seen = l]
      BY <1>1, <1>11 DEF PrepareUpsert, TypeInv, ConsumerTypeOK
    <3> HIDE DEF l
    <3>2. proc'[p].seen = l /\ proc'[p].offset = proc[p].offset
      BY <2>2, <3>1 DEF Process
    <3> QED
      BY <3>2 DEF l
  <2>4. Msg(p)' = Msg(p)
    BY <2>1, <2>3 DEF Msg
  <2>5. CASE p \in J
    <3>1. Msg(p).client_id = c /\ proc'[p].seen = 0
      BY <2>4, <2>5 DEF Inserting
    <3> QED
      BY <2>1, <2>3, <3>1
  <2>6. CASE p \notin J
    BY <1>9, <2>1, <2>6
  <2> QED
    BY <2>5, <2>6
<1>12. ASSUME NEW p \in Consumer, proc[p].pc = "exec", Upsert(p),
              \A q \in Consumer \ {p} : proc'[q] = proc[q], proc'[p].pc # "exec"
       PROVE  (k = n /\ J \subseteq I) \/ (k = n + 1 /\ \E x \in I : J \subseteq I \ {x})
  <2> DEFINE m == Msg(p)
             org == proc[p].result.org_id
             seen == proc[p].seen
  <2>1. J \subseteq I \ {p}
    BY <1>10, <1>12
  <2>2. proc[p] \in Process
    BY <1>1 DEF TypeInv, ConsumerTypeOK
  <2>3. seen \in Nat
    BY <2>2 DEF Process
  <2>4. m.client_id \in ClientID /\ connections \in Tables(Row)
    BY <1>1, <1>12, MsgType DEF Busy, TypeInv, ConsumerTypeOK, ConnectionsTypeOK, Tables
  <2>5. connections' = Register(connections, m.client_id, m, org, seen)
    BY <1>12 DEF Upsert
  <2>6. CASE m.client_id # c
    <3>1. connections'[c] = connections[c]
      <4> HIDE DEF m, org, seen
      <4> QED
        BY <2>3, <2>4, <2>5, <2>6, RegisterElsewhere
    <3> QED
      BY <2>1, <3>1
  <2>7. CASE m.client_id = c
    <3>1. k = IF seen > 0 THEN n ELSE n + 1
      <4> HIDE DEF m, org, seen
      <4> QED
        BY <2>3, <2>4, <2>5, <2>7, RegisterLength
    <3>2. CASE seen > 0
      BY <2>1, <3>1, <3>2
    <3>3. CASE ~(seen > 0)
      <4>1. seen = 0
        BY <2>3, <3>3
      <4>2. p \in I
        BY <1>12, <2>7, <4>1 DEF Inserting
      <4> QED
        BY <2>1, <3>1, <3>3, <4>2
    <3> QED
      BY <3>2, <3>3
  <2> QED
    BY <2>6, <2>7
<1>13. ASSUME NEW p \in Consumer, UnregisterClient(p) \/ UnregisterReplyLost(p)
       PROVE  k = 0 \/ (k = n /\ J \subseteq I)
  <2> DEFINE d == Msg(p).client_id
             g == RowsGone(d)
  <2>1. /\ proc[p].pc = "unregister"
        /\ connections' = Unregister(connections, d)
        /\ proc' = [g EXCEPT ![p].pc = "commit"] \/ proc' = [g EXCEPT ![p] = Idle("down")]
    BY <1>13 DEF UnregisterClient, UnregisterReplyLost
  <2>2. d \in ClientID
    BY <1>1, <2>1, MsgType DEF Busy
  <2>3. CASE c = d
    <3>1. connections'[c] = <<>>
      BY <1>3, <2>1, <2>3 DEF Unregister
    <3> QED
      BY <3>1
  <2>4. CASE c # d
    <3>1. connections'[c] = connections[c]
      BY <1>3, <2>1, <2>4 DEF Unregister
    <3>2. p \notin J
      <4>1. g \in [Consumer -> Process]
        BY <1>1, RowsGoneType DEF TypeInv
      <4>2. g[p] \in Process /\ Idle("down").pc = "down"
        BY <4>1, IdleType
      <4> HIDE DEF g
      <4>3. proc'[p].pc \in {"commit", "down"}
        BY <2>1, <4>1, <4>2 DEF Process
      <4> QED
        BY <4>3 DEF Inserting
    <3>3. ASSUME NEW q \in J
          PROVE  q \in I
      <4>1. q \in Consumer \ {p} /\ proc'[q].pc = "exec" /\ Msg(q)'.client_id = c
        BY <3>2 DEF Inserting
      <4>2. proc'[q] = g[q]
        <5>1. DOMAIN g = Consumer
          BY DEF RowsGone
        <5> HIDE DEF g
        <5> QED
          BY <2>1, <4>1, <5>1
      <4>3. g[q].pc = proc[q].pc /\ g[q].offset = proc[q].offset
        BY <1>1, <4>1, RowsGoneType DEF TypeInv
      <4>4. Msg(q)' = Msg(q)
        BY <1>1, <4>1, <4>2, <4>3, InserterKeepsMessage
      <4>5. g[q] = proc[q]
        BY <2>4, <4>1, <4>4 DEF RowsGone
      <4> QED
        BY <1>7, <4>2, <4>5
    <3> QED
      BY <3>1, <3>3
  <2> QED
    BY <2>3, <2>4
<1>14. ASSUME NEW p \in Consumer, Start(p) \/ Crash(p) \/ HandlerStep(p),
              ~UnregisterClient(p), ~UnregisterReplyLost(p), ~PrepareUpsert(p)
       PROVE  \/ k = n /\ J \subseteq I
              \/ k = n + 1 /\ \E x \in I : J \subseteq I \ {x}
  <2>1. (\A q \in Consumer \ {p} : proc'[q] = proc[q]) /\ proc'[p].pc # "exec"
    BY <1>1, <1>14, KeepsOthers
  <2>2. CASE connections' = connections
    BY <1>10, <2>1, <2>2
  <2>3. connections' = connections \/ (proc[p].pc = "exec" /\ Upsert(p))
    BY <1>14 DEF HandlerStep, Start, Crash, FetchMessage, HandlerPanics, IgnoreDuplicate,
                 AcceptMessage, ResolveTenant, ExecUpsert, ExecUpsertFails, DatabaseFails,
                 RecordClient, RecordClientFails, SourceExists, SourceNotFound, CreateSource,
                 CommitMessage, CommitFails, FatalProcessingError
  <2> QED
    BY <1>12, <2>1, <2>2, <2>3
<1>15. ASSUME (\E m \in Message : Arrives(m)) \/ (\E p \in Consumer : Rebalance(p))
              \/ UNCHANGED consumerVars
       PROVE  proc' = proc /\ connections' = connections
  BY <1>15 DEF Arrives, Rebalance, consumerVars
<1> HIDE DEF n, k, I, J
<1> QED
  BY <1>8, <1>11, <1>13, <1>14, <1>15 DEF OpenNext

\* However handlers overlap, crash and repeat messages, a client never has more
\* rows than there are consumers, although the table has no UNIQUE constraint: an
\* upsert inserts only if its snapshot held no row (the WHERE NOT EXISTS of Register).
THEOREM RowsBounded == ConsumerSpec => []RowsBoundedByConsumers
<1>1. ConsumerInit => RowsInv
  <2> SUFFICES ASSUME ConsumerInit
               PROVE  RowsInv
    OBVIOUS
  <2>1. TypeInv
    BY TypeInit
  <2>2. ASSUME NEW c \in ClientID
        PROVE  Len(connections[c]) + Cardinality(Inserting(c)) <= Cardinality(Consumer)
    <3>1. Len(connections[c]) = 0
      BY DEF ConsumerInit, ConnectionsInit
    <3>2. 0 \in Nat /\ Inserting(c) \in SUBSET Consumer
      BY DEF Inserting
    <3>3. Cardinality({}) = 0 /\ Cardinality(Consumer) \in Nat
      BY FS_EmptySet, FS_CardinalityType, ConsumerAssumption
    <3>4. 0 + Cardinality({}) <= Cardinality(Consumer)
      BY <3>3
    <3>5. 0 + Cardinality(Inserting(c)) <= Cardinality(Consumer)
      BY <3>2, <3>4, RowsCount
    <3> QED
      BY <3>1, <3>5
  <2> QED
    BY <2>1, <2>2 DEF RowsInv
<1>2. RowsInv /\ [ConsumerNext]_consumerVars => RowsInv'
  BY RowsStep, ConsumerSteps
<1>3. RowsInv => RowsBoundedByConsumers
  <2> SUFFICES ASSUME RowsInv, NEW c \in ClientID
               PROVE  Len(connections[c]) <= Cardinality(Consumer)
    BY DEF RowsBoundedByConsumers
  <2>1. connections[c] \in Seq(Row)
    BY DEF RowsInv, TypeInv, ConsumerTypeOK, ConnectionsTypeOK
  <2>2. Len(connections[c]) \in Nat
    BY <2>1
  <2>3. Inserting(c) \in SUBSET Consumer
    BY DEF Inserting
  <2>4. Cardinality(Inserting(c)) \in Nat /\ Cardinality(Consumer) \in Nat
    BY <2>3, ConsumerAssumption, FS_Subset, FS_CardinalityType
  <2> QED
    BY <2>2, <2>4 DEF RowsInv
<1> QED
  BY <1>1, <1>2, <1>3, PTL DEF ConsumerSpec

-----------------------------------------------------------------------------
(* Exactly once, in order, while handlers do not overlap (~Overlap) *)

\* The calls of handleOnlineMessage between the check for duplicates and the
\* upsert.
AcceptedCalls == {"resolve", "prepare", "exec"}

\* A consumer in the handler owns the partition and works on the message after
\* the committed offset; an owner that is not starts at the committed offset.
HandlerExclusive(p) ==
    /\ proc[p].pc \in Busy =>
         owner = p /\ position = committed + 1 /\ proc[p].offset = committed + 1
    /\ owner = p /\ proc[p].pc = "fetch" => position = committed

\* What the handler found out about the table is still true when it is used.
FindingsCurrent(p) ==
    /\ proc[p].pc \in AcceptedCalls =>
         /\ applied = committed
         /\ \A r \in FindConnectionByClientID(connections, Msg(p).client_id) :
              ~IsDuplicateOrOldMessage(r, Msg(p))
    /\ proc[p].pc = "exec" => proc[p].seen = Len(connections[Msg(p).client_id])
    /\ proc[p].pc = "commit" /\ Msg(p).state = "offline" => applied = proc[p].offset

\* A message that took effect and is not committed can be told from the table.
EffectVisible ==
    applied = committed + 1 =>
      /\ log[applied].state = "online" =>
           /\ connections[log[applied].client_id] # <<>>
           /\ \A r \in FindConnectionByClientID(connections, log[applied].client_id) :
                r.message_id = log[applied].message_id
      /\ log[applied].state = "offline" => connections[log[applied].client_id] = <<>>

\* What OfflineStaysOffline says, of the messages that took effect.
OfflineTookEffect ==
    \A o \in 1..applied :
      (/\ log[o].state = "offline"
       /\ \A o2 \in 1..applied : o2 > o /\ log[o2].client_id = log[o].client_id
                                   => log[o2].state = "other")
      => connections[log[o].client_id] = <<>>

LedgerInv ==
    /\ TypeInv
    /\ applied <= Len(log)
    /\ \A p \in Consumer : StateInHand(p)
    /\ \A p \in Consumer : HandlerExclusive(p)
    /\ \A p \in Consumer : FindingsCurrent(p)
    /\ ReplayIsOneMessage
    /\ OneRowPerClient
    /\ EffectVisible
    /\ OfflineTookEffect

\* At most one consumer is in the handler.
LEMMA OneHandler ==
    ASSUME NEW p \in Consumer, NEW q \in Consumer, HandlerExclusive(p), HandlerExclusive(q),
           owner = p, p # q
    PROVE  proc[q].pc \notin Busy
BY DEF HandlerExclusive

\* A step inside the handler decides on no other message than the one in hand.
LEMMA InsideApplies ==
    ASSUME NEW p \in Consumer, Inside(p)
    PROVE  applied' = applied \/ applied' = proc[p].offset
BY DEF Inside, IgnoreDuplicate, AcceptMessage, ResolveTenant, PrepareUpsert, ExecUpsert,
       ExecUpsertFails, Upsert, RecordClient, RecordClientFails, SourceExists, SourceNotFound,
       CreateSource, UnregisterClient

\* The partition goes to p while no handler is at work.
HandOver(p) ==
    /\ Rebalance(p)
    /\ \A q \in Consumer : proc[q].pc \notin Busy

\* The consumers at an open partition that changes hands in no other way.
OrderlyNext ==
    \/ \E m \in Message : Arrives(m)
    \/ \E p \in Consumer : Start(p) \/ HandOver(p) \/ Crash(p) \/ HandlerStep(p)

LEMMA OrderlyIsOpen == [OrderlyNext]_consumerVars => [OpenNext]_consumerVars
BY DEF OrderlyNext, OpenNext, HandOver

\* Without overlap, every rebalance is such a hand-over.
LEMMA OrderlySteps ==
    ASSUME ~Overlap
    PROVE  [ConsumerNext]_consumerVars => [OrderlyNext]_consumerVars
<1>1. \A p \in Consumer : Rebalance(p) => HandOver(p)
  BY DEF Rebalance, HandOver
<1>2. \A m \in Message : Publish(m) => Arrives(m)
  BY DEF Publish, Arrives
<1> QED
  BY <1>1, <1>2 DEF ConsumerNext, OrderlyNext

\* Hand-overs keep the handler exclusive, and so does every other step.
LEMMA ExclusiveStep ==
    ASSUME TypeInv, \A p \in Consumer : HandlerExclusive(p),
           [OrderlyNext]_consumerVars
    PROVE  \A p \in Consumer : HandlerExclusive(p)'
<1>1. /\ proc \in [Consumer -> Process] /\ position \in Nat /\ committed \in Nat
      /\ owner \in Consumer \cup {NoConsumer} /\ ConsumerTypeOK
  BY DEF TypeInv, ConsumerTypeOK
<1>2. SUFFICES ASSUME NEW q \in Consumer
               PROVE  HandlerExclusive(q)'
  OBVIOUS
<1>3. HandlerExclusive(q)
  OBVIOUS
<1>4. CASE UNCHANGED <<proc, owner, position, committed>>
  BY <1>3, <1>4 DEF HandlerExclusive
<1>5. ASSUME NEW m \in Message, Arrives(m)
      PROVE  UNCHANGED <<proc, owner, position, committed>>
  BY <1>5 DEF Arrives
<1>6. ASSUME NEW p \in Consumer, Start(p)
      PROVE  HandlerExclusive(q)'
  <2>1. /\ proc'[p].pc = "fetch" /\ \A x \in Consumer \ {p} : proc'[x] = proc[x]
        /\ UNCHANGED <<owner, position, committed>>
    BY <1>1, <1>6, GotoType DEF Start
  <2>2. owner # p
    BY <1>6 DEF Start, TypeInv, OffsetsInLog
  <2> QED
    BY <1>3, <2>1, <2>2 DEF HandlerExclusive, Busy
<1>7. ASSUME NEW p \in Consumer, HandOver(p)
      PROVE  HandlerExclusive(q)'
  <2>1. proc[q].pc \notin Busy
    BY <1>7 DEF HandOver
  <2>2. UNCHANGED <<proc, committed>> /\ position' = committed /\ owner' = p
    BY <1>7 DEF HandOver, Rebalance
  <2> QED
    BY <2>1, <2>2 DEF HandlerExclusive
<1>8. ASSUME NEW p \in Consumer, Inside(p)
      PROVE  HandlerExclusive(q)'
  <2>1. Move(p)
    BY <1>8, InsideMoves
  <2>2. CASE q = p
    BY <1>3, <2>1, <2>2 DEF HandlerExclusive, Move, Busy
  <2>3. CASE q # p
    BY <1>3, <2>1, <2>3 DEF HandlerExclusive, Move, Bystander
  <2> QED
    BY <2>2, <2>3
<1>9. ASSUME NEW p \in Consumer, End(p)
      PROVE  HandlerExclusive(q)'
  <2>1. /\ proc'[p].pc = "down"
        /\ \A x \in Consumer \ {p} : Bystander(x)
    BY <1>1, <1>9, EndType
  <2>2. /\ owner' = IF owner = p THEN NoConsumer ELSE owner
        /\ UNCHANGED <<position, committed>>
    BY <1>1, <1>9, EndType
  <2>3. CASE q = p
    BY <2>1, <2>3 DEF HandlerExclusive, Busy
  <2>4. CASE q # p
    BY <1>3, <2>1, <2>2, <2>4, ConsumerAssumption DEF HandlerExclusive, Bystander
  <2> QED
    BY <2>3, <2>4
<1>10. ASSUME NEW p \in Consumer, FetchMessage(p)
       PROVE  HandlerExclusive(q)'
  <2>1. /\ position' = position + 1
        /\ proc'[p].pc \in {"check", "unregister", "commit"}
        /\ proc'[p].offset = position + 1
        /\ \A x \in Consumer \ {p} : proc'[x] = proc[x]
    BY <1>10, FetchType
  <2>2. owner = p /\ owner' = p /\ committed' = committed /\ proc[p].pc = "fetch"
    BY <1>10 DEF FetchMessage
  <2>3. position = committed
    BY <2>2 DEF HandlerExclusive
  <2>4. CASE q = p
    BY <2>1, <2>2, <2>3, <2>4 DEF HandlerExclusive
  <2>5. CASE q # p
    BY <2>1, <2>2, <2>5, OneHandler DEF HandlerExclusive
  <2> QED
    BY <2>4, <2>5
<1>11. ASSUME NEW p \in Consumer, CommitMessage(p)
       PROVE  HandlerExclusive(q)'
  <2>1. /\ proc'[p].pc = "fetch"
        /\ \A x \in Consumer \ {p} : proc'[x] = proc[x]
        /\ committed' = proc[p].offset
    BY <1>1, <1>11, CommitType
  <2>2. UNCHANGED <<owner, position>> /\ proc[p].pc \in Busy
    BY <1>11 DEF CommitMessage, Busy
  <2>3. owner = p /\ position = committed + 1 /\ proc[p].offset = committed + 1
    BY <2>2 DEF HandlerExclusive
  <2>4. CASE q = p
    BY <2>1, <2>2, <2>3, <2>4 DEF HandlerExclusive, Busy
  <2>5. CASE q # p
    BY <2>1, <2>2, <2>3, <2>5, OneHandler DEF HandlerExclusive
  <2> QED
    BY <2>4, <2>5
<1> QED
  BY <1>4, <1>5, <1>6, <1>7, <1>8, <1>9, <1>10, <1>11, HandlerShapes
     DEF OrderlyNext, consumerVars

\* While the handler is exclusive, every step leaves at most one message to be replayed.
LEMMA ReplayStep ==
    ASSUME TypeInv, \A p \in Consumer : HandlerExclusive(p),
           ReplayIsOneMessage, applied <= Len(log), [OpenNext]_consumerVars
    PROVE  ReplayIsOneMessage' /\ applied' <= Len(log)'
<1>1. /\ committed \in Nat /\ position \in Nat /\ applied \in Nat /\ ConsumerTypeOK
      /\ handled \subseteq 1..(committed + 1)
      /\ applied = committed \/ applied = committed + 1
  BY DEF TypeInv, ConsumerTypeOK, ReplayIsOneMessage
<1>2. Len(log) \in Nat /\ Len(log)' \in Nat /\ Len(log) <= Len(log)'
  BY LogGrows
<1>0. handled \cup {committed + 1} \subseteq 1..(committed + 1)
  <2>1. committed + 1 \in 1..(committed + 1)
    BY <1>1
  <2> QED
    BY <1>1, <2>1
<1>3. ASSUME UNCHANGED <<committed, applied, handled>>
      PROVE  ReplayIsOneMessage' /\ applied' <= Len(log)'
  BY <1>1, <1>2, <1>3 DEF ReplayIsOneMessage
<1>4. ASSUME NEW m \in Message, Arrives(m)
      PROVE  UNCHANGED <<committed, applied, handled>>
  BY <1>4 DEF Arrives
<1>5. ASSUME NEW p \in Consumer, Start(p) \/ Rebalance(p)
      PROVE  UNCHANGED <<committed, applied, handled>>
  BY <1>5 DEF Start, Rebalance
<1>6. ASSUME NEW p \in Consumer, proc[p].pc \in Busy
      PROVE  proc[p].offset = committed + 1 /\ committed + 1 <= Len(log)
  <2>1. proc[p].offset = committed + 1
    BY <1>6 DEF HandlerExclusive
  <2>2. proc[p].offset \in 1..Len(log)
    BY <1>6 DEF TypeInv, OffsetsInLog
  <2> QED
    BY <1>1, <1>2, <2>1, <2>2
<1>7. ASSUME NEW p \in Consumer, Inside(p)
      PROVE  ReplayIsOneMessage' /\ applied' <= Len(log)'
  <2>1. Move(p)
    BY <1>7, InsideMoves
  <2>2. proc[p].pc \in Busy /\ committed' = committed
    BY <2>1 DEF Move
  <2>3. applied' = applied \/ applied' = committed + 1
    BY <1>6, <1>7, <2>2, InsideApplies
  <2>4. handled' = handled \/ handled' = handled \cup {committed + 1}
    BY <1>6, <2>1, <2>2 DEF Move
  <2>5. committed + 1 <= Len(log)
    BY <1>6, <2>2
  <2>6. handled' \subseteq 1..(committed + 1)
    BY <1>0, <2>4
  <2> QED
    BY <1>1, <1>2, <2>2, <2>3, <2>5, <2>6 DEF ReplayIsOneMessage
<1>8. ASSUME NEW p \in Consumer, End(p)
      PROVE  ReplayIsOneMessage' /\ applied' <= Len(log)'
  <2>1. CASE applied' = applied
    BY <1>1, <1>3, <1>8, <2>1, EndType
  <2>2. CASE UnregisterReplyLost(p)
    <3>1. proc[p].pc \in Busy /\ applied' = proc[p].offset /\ UNCHANGED <<committed, handled>>
      BY <2>2 DEF UnregisterReplyLost, Busy
    <3>2. applied' = committed + 1 /\ committed + 1 <= Len(log)
      BY <1>6, <3>1
    <3> QED
      BY <1>1, <1>2, <3>1, <3>2 DEF ReplayIsOneMessage
  <2> QED
    BY <1>8, <2>1, <2>2 DEF End
<1>9. ASSUME NEW p \in Consumer, FetchMessage(p)
      PROVE  ReplayIsOneMessage' /\ applied' <= Len(log)'
  <2>1. handled' = handled \/ handled' = handled \cup {position + 1}
    BY <1>9, FetchType
  <2>2. position = committed /\ UNCHANGED <<committed, applied>>
    BY <1>9 DEF FetchMessage, HandlerExclusive
  <2>3. handled' \subseteq 1..(committed + 1)
    BY <1>0, <2>1, <2>2
  <2> QED
    BY <1>1, <1>2, <2>2, <2>3 DEF ReplayIsOneMessage
<1>10. ASSUME NEW p \in Consumer, CommitMessage(p)
       PROVE  ReplayIsOneMessage' /\ applied' <= Len(log)'
  <2>1. /\ committed' = proc[p].offset /\ handled' = handled /\ proc[p].pc \in Busy
        /\ applied' = IF applied < proc[p].offset THEN proc[p].offset ELSE applied
    BY <1>10 DEF CommitMessage, Busy
  <2>2. proc[p].offset = committed + 1 /\ committed + 1 <= Len(log)
    BY <1>6, <2>1
  <2>3. committed' = committed + 1 /\ applied' = committed + 1
    BY <1>1, <2>1, <2>2
  <2> QED
    BY <1>1, <1>2, <2>1, <2>2, <2>3 DEF ReplayIsOneMessage
<1>11. CASE UNCHANGED consumerVars
  BY <1>3, <1>11 DEF consumerVars
<1> QED
  BY <1>3, <1>4, <1>5, <1>7, <1>8, <1>9, <1>10, <1>11, HandlerShapes DEF OpenNext

\* What the upsert does when nobody interferes: one row, from its message.
LEMMA UpsertEffect ==
    ASSUME LedgerInv, NEW p \in Consumer, proc[p].pc = "exec", Upsert(p)
    PROVE  LET c == Msg(p).client_id IN
             /\ c \in ClientID
             /\ \A d \in ClientID : d # c => connections'[d] = connections[d]
             /\ Len(connections'[c]) = 1 /\ DOMAIN connections'[c] = {1}
             /\ IsFrom(connections'[c][1], Msg(p))
             /\ applied' = proc[p].offset
<1> DEFINE m == Msg(p)
           c == m.client_id
           org == proc[p].result.org_id
           seen == proc[p].seen
<1>1. TypeInv /\ proc[p] \in Process
  BY DEF LedgerInv, TypeInv, ConsumerTypeOK
<1>2. seen \in Nat
  BY <1>1 DEF Process
<1>3. c \in ClientID
  BY <1>1, MsgType DEF Busy
<1>4. connections \in Tables(Row)
  BY <1>1 DEF TypeInv, ConsumerTypeOK, ConnectionsTypeOK, Tables
<1>5. connections' = Register(connections, c, m, org, seen) /\ applied' = proc[p].offset
  BY DEF Upsert
<1>6. Len(connections[c]) <= 1 /\ seen = Len(connections[c])
  BY <1>3 DEF LedgerInv, OneRowPerClient, FindingsCurrent
<1> HIDE DEF m, org, seen
<1>7. /\ Len(connections'[c]) = 1 /\ DOMAIN connections'[c] = {1}
      /\ IsFrom(connections'[c][1], m)
  BY <1>2, <1>3, <1>4, <1>5, <1>6, RegisterOneRow
<1>8. \A d \in ClientID : d # c => connections'[d] = connections[d]
  BY <1>2, <1>3, <1>4, <1>5, RegisterElsewhere
<1> QED
  BY <1>3, <1>5, <1>7, <1>8 DEF m

\* What the deletion does.
LEMMA UnregisterEffect ==
    ASSUME TypeInv, NEW p \in Consumer, UnregisterClient(p) \/ UnregisterReplyLost(p)
    PROVE  LET c == Msg(p).client_id IN
             /\ c \in ClientID
             /\ \A d \in ClientID : d # c => connections'[d] = connections[d]
             /\ connections'[c] = <<>>
             /\ applied' = proc[p].offset
             /\ proc[p].pc = "unregister"
             /\ committed' = committed
<1> DEFINE c == Msg(p).client_id
<1>1. /\ connections' = Unregister(connections, c) /\ proc[p].pc = "unregister"
      /\ applied' = proc[p].offset /\ committed' = committed
  BY DEF UnregisterClient, UnregisterReplyLost
<1>2. c \in ClientID
  BY <1>1, MsgType DEF Busy
<1>3. connections \in [ClientID -> Seq(Row)]
  BY DEF TypeInv, ConsumerTypeOK, ConnectionsTypeOK
<1> HIDE DEF c
<1>4. /\ \A d \in ClientID : d # c => connections'[d] = connections[d]
      /\ connections'[c] = <<>>
  BY <1>1, <1>2, <1>3 DEF Unregister
<1> QED
  BY <1>1, <1>2, <1>4 DEF c

\* The message in the hands of the handler is the one after the committed offset.
LEMMA MessageInHand ==
    ASSUME LedgerInv, NEW p \in Consumer, proc[p].pc \in Busy
    PROVE  /\ proc[p].offset = committed + 1
           /\ committed \in Nat /\ applied \in Nat
           /\ applied = committed \/ applied = committed + 1
           /\ committed + 1 \in 1..Len(log)
           /\ Msg(p) = log[committed + 1]
           /\ owner = p
<1>1. committed \in Nat /\ applied \in Nat
  BY DEF LedgerInv, TypeInv, ConsumerTypeOK
<1>2. proc[p].offset = committed + 1 /\ owner = p
  BY DEF LedgerInv, HandlerExclusive
<1>3. proc[p].offset \in 1..Len(log)
  BY DEF LedgerInv, TypeInv, OffsetsInLog
<1>4. applied = committed \/ applied = committed + 1
  BY DEF LedgerInv, ReplayIsOneMessage
<1> QED
  BY <1>1, <1>2, <1>3, <1>4 DEF Msg

\* A step that leaves the table alone leaves what is known of it alone.
LEMMA QuietTable ==
    ASSUME LedgerInv, [OpenNext]_consumerVars,
           UNCHANGED <<connections, applied, committed>>
    PROVE  OneRowPerClient' /\ EffectVisible' /\ OfflineTookEffect'
<1>1. /\ applied \in Nat /\ committed \in Nat /\ applied <= Len(log)
      /\ OneRowPerClient /\ EffectVisible /\ OfflineTookEffect /\ TypeInv
  BY DEF LedgerInv, TypeInv, ConsumerTypeOK
<1>2. Len(log) \in Nat /\ \A i \in 1..Len(log) : log'[i] = log[i]
  BY <1>1, LogGrows
<1>3. \A i \in 1..applied : log'[i] = log[i]
  BY <1>1, <1>2
<1>4. OneRowPerClient'
  BY <1>1 DEF OneRowPerClient
<1>5. EffectVisible'
  <2>1. applied = committed + 1 => log'[applied] = log[applied]
    BY <1>1, <1>3
  <2> QED
    BY <1>1, <2>1 DEF EffectVisible, FindConnectionByClientID
<1>6. OfflineTookEffect'
  BY <1>1, <1>3 DEF OfflineTookEffect
<1> QED
  BY <1>4, <1>5, <1>6

\* A process that such a step leaves alone keeps its findings.
LEMMA QuietFindings ==
    ASSUME LedgerInv, [OpenNext]_consumerVars,
           UNCHANGED <<connections, applied, committed>>,
           NEW q \in Consumer, proc'[q] = proc[q]
    PROVE  FindingsCurrent(q)'
<1>1. FindingsCurrent(q) /\ TypeInv
  BY DEF LedgerInv
<1>2. CASE proc[q].pc \in Busy
  <2>1. Msg(q)' = Msg(q)
    BY <1>1, <1>2, LogGrows DEF Msg, TypeInv, OffsetsInLog
  <2> QED
    BY <1>1, <2>1 DEF FindingsCurrent, FindConnectionByClientID
<1>3. CASE proc[q].pc \notin Busy
  BY <1>3 DEF FindingsCurrent, AcceptedCalls, Busy
<1> QED
  BY <1>2, <1>3

\* A process that is not in the handler has no findings.
LEMMA IdleFindings ==
    ASSUME NEW q \in Consumer, proc'[q].pc \notin Busy
    PROVE  FindingsCurrent(q)'
BY DEF FindingsCurrent, AcceptedCalls, Busy

\* The messages that took effect are from clients.
LEMMA AppliedClients ==
    ASSUME LedgerInv, NEW o \in 1..applied
    PROVE  log[o].client_id \in ClientID
<1>1. o \in 1..Len(log) /\ log \in Seq(ControlMessage)
  BY DEF LedgerInv, TypeInv, ConsumerTypeOK
<1>2. log[o] \in ControlMessage
  BY <1>1
<1> QED
  BY <1>2 DEF ControlMessage

TableInv == OneRowPerClient /\ EffectVisible /\ OfflineTookEffect

\* The upsert of an accepted message makes its effect visible.
LEMMA UpsertTable ==
    ASSUME LedgerInv, NEW p \in Consumer, proc[p].pc = "exec", Upsert(p),
           UNCHANGED <<log, committed>>
    PROVE  TableInv'
<1> DEFINE m == Msg(p)
           c == m.client_id
<1>1. /\ committed \in Nat /\ applied = committed /\ proc[p].offset = committed + 1
      /\ m = log[committed + 1]
  BY MessageInHand DEF Busy, LedgerInv, FindingsCurrent, AcceptedCalls
<1>2. m.state = "online"
  BY DEF LedgerInv, StateInHand, OnlineCalls
<1>3. /\ c \in ClientID
      /\ \A d \in ClientID : d # c => connections'[d] = connections[d]
      /\ Len(connections'[c]) = 1 /\ DOMAIN connections'[c] = {1}
      /\ IsFrom(connections'[c][1], m)
      /\ applied' = committed + 1
  BY <1>1, UpsertEffect
<1>4. \A o \in 1..applied : log[o].client_id \in ClientID
  BY AppliedClients
<1> HIDE DEF m
<1>5. OneRowPerClient'
  <2> SUFFICES ASSUME NEW d \in ClientID
               PROVE  Len(connections'[d]) <= 1
    BY DEF OneRowPerClient
  <2>1. CASE d = c
    <3>1. Len(connections'[d]) = 1
      BY <1>3, <2>1
    <3> QED
      BY <3>1
  <2>2. CASE d # c
    BY <1>3, <2>2 DEF LedgerInv, OneRowPerClient
  <2> QED
    BY <2>1, <2>2
<1>6. EffectVisible'
  <2>1. log'[applied'] = m /\ log' = log
    BY <1>1, <1>3
  <2>2. connections'[c] # <<>>
    BY <1>3
  <2>3. \A r \in FindConnectionByClientID(connections', c) : r.message_id = m.message_id
    BY <1>3 DEF FindConnectionByClientID, IsFrom
  <2> QED
    BY <1>2, <2>1, <2>2, <2>3 DEF EffectVisible
<1>7. OfflineTookEffect'
  <2> SUFFICES ASSUME NEW o \in 1..(committed + 1), log[o].state = "offline",
                      \A o2 \in 1..(committed + 1) :
                        o2 > o /\ log[o2].client_id = log[o].client_id => log[o2].state = "other"
               PROVE  connections'[log[o].client_id] = <<>>
    BY <1>3 DEF OfflineTookEffect
  <2>1. o # committed + 1 /\ o \in 1..committed /\ committed + 1 > o
        /\ committed + 1 \in 1..(committed + 1)
    BY <1>1, <1>2
  <2>2. log[o].client_id # c
    BY <1>1, <1>2, <2>1
  <2>3. \A o2 \in 1..applied :
          o2 > o /\ log[o2].client_id = log[o].client_id => log[o2].state = "other"
    BY <1>1
  <2>4. connections[log[o].client_id] = <<>>
    BY <1>1, <2>1, <2>3 DEF LedgerInv, OfflineTookEffect
  <2> QED
    BY <1>1, <1>3, <1>4, <2>1, <2>2, <2>4
<1> QED
  BY <1>5, <1>6, <1>7 DEF TableInv

\* The deletion makes its effect visible, and has it whenever it is repeated.
LEMMA UnregisterTable ==
    ASSUME LedgerInv, NEW p \in Consumer, UnregisterClient(p) \/ UnregisterReplyLost(p)
    PROVE  TableInv'
<1> DEFINE m == Msg(p)
           c == m.client_id
<1>1. /\ c \in ClientID
      /\ \A d \in ClientID : d # c => connections'[d] = connections[d]
      /\ connections'[c] = <<>>
      /\ applied' = proc[p].offset
      /\ proc[p].pc = "unregister"
      /\ committed' = committed
  BY UnregisterEffect DEF LedgerInv
<1>2. /\ committed \in Nat /\ applied \in Nat /\ applied' = committed + 1
      /\ m = log[committed + 1]
      /\ applied = committed \/ applied = committed + 1
  BY <1>1, MessageInHand DEF Busy
<1>3. m.state = "offline" /\ log' = log
  BY <1>1 DEF LedgerInv, StateInHand, UnregisterClient, UnregisterReplyLost
<1>4. \A o \in 1..applied : log[o].client_id \in ClientID
  BY AppliedClients
<1> HIDE DEF m
<1>5. OneRowPerClient'
  BY <1>1 DEF LedgerInv, OneRowPerClient
<1>6. EffectVisible'
  BY <1>1, <1>2, <1>3 DEF EffectVisible
<1>7. OfflineTookEffect'
  <2> SUFFICES ASSUME NEW o \in 1..(committed + 1), log[o].state = "offline",
                      \A o2 \in 1..(committed + 1) :
                        o2 > o /\ log[o2].client_id = log[o].client_id => log[o2].state = "other",
                      log[o].client_id # c
               PROVE  connections'[log[o].client_id] = <<>>
    BY <1>1, <1>2, <1>3 DEF OfflineTookEffect
  <2>1. o # committed + 1 /\ o \in 1..applied
    BY <1>2
  <2>2. \A o2 \in 1..applied :
          o2 > o /\ log[o2].client_id = log[o].client_id => log[o2].state = "other"
    BY <1>2
  <2>3. connections[log[o].client_id] = <<>>
    BY <2>1, <2>2 DEF LedgerInv, OfflineTookEffect
  <2> QED
    BY <1>1, <1>4, <2>1, <2>3
<1> QED
  BY <1>5, <1>6, <1>7 DEF TableInv

\* A commit settles the message: an offline message took effect before.
LEMMA CommitTable ==
    ASSUME LedgerInv, NEW p \in Consumer, CommitMessage(p)
    PROVE  TableInv'
<1>1. /\ proc[p].pc = "commit" /\ committed' = proc[p].offset
      /\ UNCHANGED <<connections, log>>
      /\ applied' = IF applied < proc[p].offset THEN proc[p].offset ELSE applied
  BY DEF CommitMessage
<1>2. /\ committed \in Nat /\ applied \in Nat /\ proc[p].offset = committed + 1
      /\ Msg(p) = log[committed + 1]
      /\ applied = committed \/ applied = committed + 1
  BY <1>1, MessageInHand DEF Busy
<1>3. committed' = committed + 1 /\ applied' = committed + 1
  BY <1>1, <1>2
<1>4. OneRowPerClient'
  BY <1>1 DEF LedgerInv, OneRowPerClient
<1>5. EffectVisible'
  BY <1>2, <1>3 DEF EffectVisible
<1>6. OfflineTookEffect'
  <2> SUFFICES ASSUME NEW o \in 1..(committed + 1), log[o].state = "offline",
                      \A o2 \in 1..(committed + 1) :
                        o2 > o /\ log[o2].client_id = log[o].client_id => log[o2].state = "other"
               PROVE  connections[log[o].client_id] = <<>>
    BY <1>1, <1>3 DEF OfflineTookEffect
  <2>1. \A o2 \in 1..applied :
          o2 > o /\ log[o2].client_id = log[o].client_id => log[o2].state = "other"
    BY <1>2
  <2>2. o = committed + 1 => applied = committed + 1
    BY <1>1, <1>2 DEF LedgerInv, FindingsCurrent
  <2>3. o \in 1..applied
    BY <1>2, <2>2
  <2> QED
    BY <2>1, <2>3 DEF LedgerInv, OfflineTookEffect
<1> QED
  BY <1>4, <1>5, <1>6 DEF TableInv

\* A message that is accepted has not taken effect, and supersedes the row.
LEMMA AcceptedIsNew ==
    ASSUME LedgerInv, NEW p \in Consumer, AcceptMessage(p)
    PROVE  /\ applied = committed
           /\ \A r \in FindConnectionByClientID(connections, Msg(p).client_id) :
                ~IsDuplicateOrOldMessage(r, Msg(p))
<1> DEFINE m == Msg(p)
           c == m.client_id
           found == FindConnectionByClientID(connections, c)
<1>1. proc[p].pc = "check" /\ (found = {} \/ \E r \in found : ~IsDuplicateOrOldMessage(r, m))
  BY DEF AcceptMessage
<1>2. /\ applied = committed \/ applied = committed + 1
      /\ m = log[committed + 1]
  BY <1>1, MessageInHand DEF Busy
<1>3. m.state = "online"
  BY <1>1 DEF LedgerInv, StateInHand, OnlineCalls
<1>4. c \in ClientID
  BY <1>1, MsgType DEF LedgerInv, Busy
<1>5. connections[c] \in Seq(Row) /\ Len(connections[c]) <= 1
  BY <1>4 DEF LedgerInv, OneRowPerClient, TypeInv, ConsumerTypeOK, ConnectionsTypeOK
<1>6. applied = committed
  <2> SUFFICES ASSUME applied = committed + 1
               PROVE  FALSE
    BY <1>2
  <2>1. connections[c] # <<>> /\ \A r \in found : r.message_id = m.message_id
    BY <1>2, <1>3 DEF LedgerInv, EffectVisible
  <2>2. DOMAIN connections[c] = {1}
    BY <1>5, <2>1, OneElement
  <2>3. connections[c][1] \in found
    BY <2>2 DEF FindConnectionByClientID
  <2> QED
    BY <1>1, <2>1, <2>3 DEF IsDuplicateOrOldMessage
<1>7. \A r, s \in found : r = s
  <2>1. CASE connections[c] = <<>>
    BY <2>1 DEF FindConnectionByClientID
  <2>2. CASE connections[c] # <<>>
    <3>1. DOMAIN connections[c] = {1}
      BY <1>5, <2>2, OneElement
    <3> QED
      BY <3>1 DEF FindConnectionByClientID
  <2> QED
    BY <2>1, <2>2
<1> QED
  BY <1>1, <1>6, <1>7

\* A step inside the handler keeps its findings current.
LEMMA InsideFindings ==
    ASSUME LedgerInv, NEW p \in Consumer, Inside(p)
    PROVE  FindingsCurrent(p)'
<1>1. /\ Move(p) /\ Follows(proc[p].pc, proc'[p].pc)
      /\ proc \in [Consumer -> Process] /\ FindingsCurrent(p) /\ StateInHand(p)
  BY InsideMoves, InsideFollows DEF LedgerInv, TypeInv, ConsumerTypeOK
<1>2. Msg(p)' = Msg(p) /\ committed' = committed /\ proc'[p].offset = proc[p].offset
  BY <1>1 DEF Move, Msg
<1>3. CASE UnregisterClient(p)
  <2>1. applied' = proc[p].offset /\ proc'[p].pc = "commit"
    BY <1>1, <1>3 DEF UnregisterClient, Follows
  <2> QED
    BY <1>2, <2>1 DEF FindingsCurrent, AcceptedCalls
<1>4. CASE AcceptMessage(p)
  <2>1. proc[p].pc = "check" /\ UNCHANGED <<connections, applied>>
    BY <1>4 DEF AcceptMessage
  <2>2. proc'[p].pc # "exec" /\ Msg(p).state = "online"
    BY <1>1, <2>1 DEF Follows, StateInHand, OnlineCalls
  <2>3. /\ applied' = committed'
        /\ \A r \in FindConnectionByClientID(connections, Msg(p).client_id)' :
             ~IsDuplicateOrOldMessage(r, Msg(p))'
    <3>1. \A r \in FindConnectionByClientID(connections', Msg(p).client_id) :
             ~IsDuplicateOrOldMessage(r, Msg(p))
      BY <1>4, <2>1, AcceptedIsNew
    <3> QED
      BY <1>2, <1>4, <2>1, <3>1, AcceptedIsNew
  <2> QED
    BY <1>2, <2>2, <2>3 DEF FindingsCurrent
<1>5. CASE ResolveTenant(p) \/ PrepareUpsert(p)
  <2>1. proc[p].pc \in {"resolve", "prepare"} /\ UNCHANGED <<connections, applied>>
    BY <1>5 DEF ResolveTenant, PrepareUpsert
  <2>2. proc'[p].pc \in {"prepare", "exec"}
    BY <1>1, <2>1 DEF Follows
  <2>3. /\ applied' = committed'
        /\ \A r \in FindConnectionByClientID(connections', Msg(p)'.client_id) :
             ~IsDuplicateOrOldMessage(r, Msg(p)')
    BY <1>1, <1>2, <2>1 DEF FindingsCurrent, AcceptedCalls
  <2>4. proc'[p].pc = "exec" => proc'[p].seen = Len(connections'[Msg(p)'.client_id])
    <3>1. ASSUME PrepareUpsert(p)
          PROVE  proc'[p].seen = Len(connections[Msg(p).client_id])
      BY <1>1, <3>1 DEF PrepareUpsert, Process
    <3>2. ASSUME ResolveTenant(p)
          PROVE  proc'[p].pc # "exec"
      BY <1>1, <3>2 DEF ResolveTenant, Follows
    <3> QED
      BY <1>2, <1>5, <2>1, <3>1, <3>2
  <2> QED
    BY <2>2, <2>3, <2>4 DEF FindingsCurrent
<1>6. CASE ~(UnregisterClient(p) \/ AcceptMessage(p) \/ ResolveTenant(p) \/ PrepareUpsert(p))
  <2>1. IgnoreDuplicate(p) \/ ExecUpsert(p) \/ ExecUpsertFails(p) \/ RecordClient(p)
        \/ RecordClientFails(p) \/ SourceExists(p) \/ SourceNotFound(p) \/ CreateSource(p)
    BY <1>6 DEF Inside
  <2>2. proc[p].pc \in OnlineCalls
    BY <2>1 DEF OnlineCalls, IgnoreDuplicate, ExecUpsert, ExecUpsertFails, RecordClient,
                RecordClientFails, SourceExists, SourceNotFound, CreateSource
  <2>3. Msg(p)'.state = "online"
    BY <1>1, <1>2, <2>2 DEF StateInHand
  <2>4. CASE IgnoreDuplicate(p)
    <3>1. proc'[p].pc = "commit"
      BY <1>1, <2>4, GotoType DEF IgnoreDuplicate, Return, LedgerInv, TypeInv, Busy
    <3> QED
      BY <2>3, <3>1 DEF FindingsCurrent, AcceptedCalls
  <2>5. CASE ~IgnoreDuplicate(p)
    <3>1. proc[p].pc \notin {"check", "resolve", "prepare"}
      BY <2>1, <2>5 DEF ExecUpsert, ExecUpsertFails, RecordClient,
                RecordClientFails, SourceExists, SourceNotFound, CreateSource
    <3>2. proc'[p].pc \notin AcceptedCalls
      BY <1>1, <3>1 DEF Follows, AcceptedCalls
    <3> QED
      BY <2>3, <3>2 DEF FindingsCurrent, AcceptedCalls
  <2> QED
    BY <2>4, <2>5
<1> QED
  BY <1>3, <1>4, <1>5, <1>6

\* The steps inside the handler that change the table.
LEMMA InsideTable ==
    ASSUME NEW p \in Consumer, Inside(p)
    PROVE  \/ UNCHANGED <<connections, applied>>
           \/ proc[p].pc = "exec" /\ Upsert(p)
           \/ UnregisterClient(p)
BY DEF Inside, IgnoreDuplicate, AcceptMessage, ResolveTenant, PrepareUpsert, ExecUpsert,
       ExecUpsertFails, RecordClient, RecordClientFails, SourceExists, SourceNotFound,
       CreateSource

\* Every step keeps what is known of the table and of the handlers' findings.
LEMMA LedgerTableStep ==
    ASSUME LedgerInv, [OpenNext]_consumerVars
    PROVE  TableInv' /\ \A q \in Consumer : FindingsCurrent(q)'
<1>1. /\ TypeInv /\ ConsumerTypeOK /\ OffsetsInLog
      /\ \A q \in Consumer : HandlerExclusive(q)
  BY DEF LedgerInv, TypeInv
<1>2. ASSUME UNCHANGED <<connections, applied, committed>>
      PROVE  TableInv'
  BY <1>2, QuietTable DEF TableInv
<1>3. ASSUME NEW m \in Message, Arrives(m)
      PROVE  TableInv' /\ \A q \in Consumer : FindingsCurrent(q)'
  <2>1. UNCHANGED <<connections, applied, committed>> /\ proc' = proc
    BY <1>3 DEF Arrives
  <2> QED
    BY <1>2, <2>1, QuietFindings
<1>4. ASSUME NEW p \in Consumer, Start(p)
      PROVE  TableInv' /\ \A q \in Consumer : FindingsCurrent(q)'
  <2>1. /\ UNCHANGED <<connections, applied, committed>>
        /\ proc'[p].pc = "fetch" /\ \A q \in Consumer \ {p} : proc'[q] = proc[q]
    BY <1>1, <1>4, GotoType DEF Start
  <2>2. FindingsCurrent(p)'
    BY <2>1, IdleFindings DEF Busy
  <2>3. \A q \in Consumer \ {p} : FindingsCurrent(q)'
    BY <2>1, QuietFindings
  <2> QED
    BY <1>2, <2>1, <2>2, <2>3
<1>5. ASSUME NEW p \in Consumer, Rebalance(p)
      PROVE  TableInv' /\ \A q \in Consumer : FindingsCurrent(q)'
  <2>1. UNCHANGED <<connections, applied, committed>> /\ proc' = proc
    BY <1>5 DEF Rebalance
  <2> QED
    BY <1>2, <2>1, QuietFindings
<1>6. ASSUME NEW p \in Consumer, Inside(p)
      PROVE  TableInv' /\ \A q \in Consumer : FindingsCurrent(q)'
  <2>1. Move(p)
    BY <1>1, <1>6, InsideMoves
  <2>2. owner = p /\ UNCHANGED <<log, committed>>
    BY <1>1, <2>1 DEF HandlerExclusive, Move
  <2>3. ASSUME NEW q \in Consumer
        PROVE  FindingsCurrent(q)'
    <3>1. CASE q = p
      BY <1>6, <3>1, InsideFindings
    <3>2. CASE q # p
      BY <1>1, <2>1, <2>2, <3>2, OneHandler, IdleFindings DEF Move, Bystander
    <3> QED
      BY <3>1, <3>2
  <2>4. TableInv'
    BY <1>2, <1>6, <2>2, InsideTable, UpsertTable, UnregisterTable
  <2> QED
    BY <2>3, <2>4
<1>7. ASSUME NEW p \in Consumer, End(p)
      PROVE  TableInv' /\ \A q \in Consumer : FindingsCurrent(q)'
  <2>1. /\ proc'[p].pc = "down" /\ \A q \in Consumer \ {p} : Bystander(q)
        /\ committed' = committed
    BY <1>1, <1>7, EndType
  <2>2. FindingsCurrent(p)'
    BY <2>1, IdleFindings DEF Busy
  <2>3. CASE Exit(p) /\ UNCHANGED <<connections, applied>>
    BY <1>1, <1>2, <2>1, <2>2, <2>3, ExitType, QuietFindings
  <2>4. CASE UnregisterReplyLost(p)
    <3>1. owner = p
      BY <1>1, <2>4 DEF UnregisterReplyLost, HandlerExclusive, Busy
    <3>2. ASSUME NEW q \in Consumer \ {p}
          PROVE  FindingsCurrent(q)'
      BY <1>1, <2>1, <3>1, OneHandler, IdleFindings DEF Bystander
    <3> QED
      BY <2>2, <2>4, <3>2, UnregisterTable
  <2> QED
    BY <1>7, <2>3, <2>4 DEF End
<1>8. ASSUME NEW p \in Consumer, FetchMessage(p)
      PROVE  TableInv' /\ \A q \in Consumer : FindingsCurrent(q)'
  <2>1. /\ UNCHANGED <<connections, applied, committed, log>>
        /\ proc'[p].pc \in {"check", "unregister", "commit"}
        /\ proc'[p].offset = position + 1
        /\ \A q \in Consumer \ {p} : proc'[q] = proc[q]
    BY <1>8, FetchType DEF LedgerInv, FetchMessage
  <2>2. FindingsCurrent(p)'
    <3>1. log[position + 1].state \in {"online", "offline", "other"}
      <4>1. position + 1 \in 1..Len(log) /\ log \in Seq(ControlMessage)
        BY <1>1, <1>8 DEF ConsumerTypeOK, FetchMessage
      <4>2. log[position + 1] \in ControlMessage
        BY <4>1
      <4>3. log[position + 1].state # "malformed"
        BY <1>8 DEF FetchMessage
      <4> QED
        BY <4>2, <4>3 DEF ControlMessage
    <3>2. proc'[p].pc = "commit" => log[position + 1].state = "other"
      BY <1>1, <1>8, <3>1, FetchState DEF FirstCall
    <3>3. Msg(p)' = log[position + 1]
      BY <2>1 DEF Msg
    <3> QED
      BY <2>1, <3>2, <3>3 DEF FindingsCurrent, AcceptedCalls
  <2>3. \A q \in Consumer \ {p} : FindingsCurrent(q)'
    BY <2>1, QuietFindings
  <2> QED
    BY <1>2, <2>1, <2>2, <2>3
<1>9. ASSUME NEW p \in Consumer, CommitMessage(p)
      PROVE  TableInv' /\ \A q \in Consumer : FindingsCurrent(q)'
  <2>1. proc'[p].pc = "fetch" /\ \A q \in Consumer \ {p} : proc'[q] = proc[q]
    BY <1>1, <1>9, CommitType
  <2>2. owner = p
    BY <1>1, <1>9 DEF CommitMessage, HandlerExclusive, Busy
  <2>3. FindingsCurrent(p)'
    BY <2>1, IdleFindings DEF Busy
  <2>4. ASSUME NEW q \in Consumer \ {p}
        PROVE  FindingsCurrent(q)'
    BY <1>1, <2>1, <2>2, OneHandler, IdleFindings
  <2> QED
    BY <1>9, <2>3, <2>4, CommitTable
<1>10. CASE UNCHANGED consumerVars
  <2>1. UNCHANGED <<connections, applied, committed>> /\ proc' = proc
    BY <1>10 DEF consumerVars
  <2> QED
    BY <1>2, <2>1, QuietFindings
<1> QED
  BY <1>3, <1>4, <1>5, <1>6, <1>7, <1>8, <1>9, <1>10, HandlerShapes DEF OpenNext

\* As long as handlers do not overlap, every step keeps the invariant.
LEMMA LedgerStep ==
    ASSUME LedgerInv, [OrderlyNext]_consumerVars
    PROVE  LedgerInv'
<1>0. [OpenNext]_consumerVars
  BY OrderlyIsOpen
<1>1. /\ TypeInv /\ applied <= Len(log) /\ ReplayIsOneMessage
      /\ \A p \in Consumer : StateInHand(p) /\ HandlerExclusive(p)
  BY DEF LedgerInv
<1>2. TypeInv' /\ \A p \in Consumer : StateInHand(p)'
  BY <1>0, <1>1, TypeStep, StateStep
<1>3. \A p \in Consumer : HandlerExclusive(p)'
  BY <1>1, ExclusiveStep
<1>4. ReplayIsOneMessage' /\ applied' <= Len(log)'
  BY <1>0, <1>1, ReplayStep
<1>5. TableInv' /\ \A p \in Consumer : FindingsCurrent(p)'
  BY <1>0, LedgerTableStep
<1> QED
  BY <1>2, <1>3, <1>4, <1>5 DEF LedgerInv, TableInv

\* The invariant holds at the start.
LEMMA LedgerInit ==
    ASSUME ConsumerInit
    PROVE  LedgerInv
<1>1. \A p \in Consumer : proc[p].pc = "down"
  BY IdleType DEF ConsumerInit
<1>2. \A p \in Consumer : StateInHand(p) /\ HandlerExclusive(p) /\ FindingsCurrent(p)
  BY <1>1 DEF StateInHand, HandlerExclusive, FindingsCurrent, OnlineCalls, AcceptedCalls, Busy
<1>3. committed = 0 /\ applied = 0 /\ handled = {} /\ Len(log) = 0
  BY DEF ConsumerInit
<1>4. ReplayIsOneMessage /\ EffectVisible /\ OfflineTookEffect /\ applied <= Len(log)
  BY <1>3 DEF ReplayIsOneMessage, EffectVisible, OfflineTookEffect
<1>5. OneRowPerClient
  <2> SUFFICES ASSUME NEW c \in ClientID
               PROVE  Len(connections[c]) <= 1
    BY DEF OneRowPerClient
  <2>1. connections[c] = <<>>
    BY DEF ConsumerInit, ConnectionsInit
  <2>2. Len(connections[c]) = 0
    BY <2>1
  <2> QED
    BY <2>2
<1> QED
  BY <1>2, <1>4, <1>5, TypeInit DEF LedgerInv

\* A restart repeats at most one message: without overlapping handlers, only the
\* message after the committed offset may have been handled or recorded without
\* being committed (consumeMqttMessagesFromKafka).
THEOREM ReplayBounded ==
    ASSUME ~Overlap
    PROVE  ConsumerSpec => []ReplayIsOneMessage
<1>1. ConsumerInit => LedgerInv
  BY LedgerInit
<1>2. LedgerInv /\ [ConsumerNext]_consumerVars => LedgerInv'
  BY LedgerStep, OrderlySteps
<1>3. LedgerInv => ReplayIsOneMessage
  BY DEF LedgerInv
<1> QED
  BY <1>1, <1>2, <1>3, PTL DEF ConsumerSpec

\* The order of a client's messages is retained: once everything is committed, a
\* client whose last connection-status message was offline is not connected
\* (handleOfflineMessage, handleOnlineMessage), as long as handlers do not overlap.
THEOREM OfflineIsFinal ==
    ASSUME ~Overlap
    PROVE  ConsumerSpec => []OfflineStaysOffline
<1>1. ConsumerInit => LedgerInv
  BY LedgerInit
<1>2. LedgerInv /\ [ConsumerNext]_consumerVars => LedgerInv'
  BY LedgerStep, OrderlySteps
<1>3. LedgerInv => OfflineStaysOffline
  <2> SUFFICES ASSUME LedgerInv, committed = Len(log)
               PROVE  \A o \in DOMAIN log :
                        (/\ log[o].state = "offline"
                         /\ \A o2 \in DOMAIN log :
                              o2 > o /\ log[o2].client_id = log[o].client_id
                                => log[o2].state = "other")
                        => connections[log[o].client_id] = <<>>
    BY DEF OfflineStaysOffline, Quiescent
  <2>1. /\ committed \in Nat /\ applied \in Nat /\ applied <= Len(log)
        /\ applied = committed \/ applied = committed + 1
    BY DEF LedgerInv, TypeInv, ConsumerTypeOK, ReplayIsOneMessage
  <2>2. applied = Len(log)
    BY <2>1
  <2>3. DOMAIN log = 1..applied
    BY <2>2 DEF LedgerInv, TypeInv, ConsumerTypeOK
  <2> QED
    BY <2>3 DEF LedgerInv, OfflineTookEffect
<1> QED
  BY <1>1, <1>2, <1>3, PTL DEF ConsumerSpec

-----------------------------------------------------------------------------
(* The consumers implement the ledger *)

\* A step that changes neither rows, nor the partition, nor the count of
\* messages that took effect is a step in which the ledger rests.
LEMMA LedgerRests ==
    ASSUME UNCHANGED <<connections, log, applied>>
    PROVE  UNCHANGED Ledger!ledgerVars
BY DEF Ledger!ledgerVars, Registry, FindConnectionByClientID

\* A published message is published to the ledger.
LEMMA LedgerPublishes ==
    ASSUME NEW m \in Message, Arrives(m)
    PROVE  Ledger!Publish
BY DEF Arrives, Ledger!Publish, Registry, FindConnectionByClientID

\* The entry of a client in the ledger is that of its rows.
LEMMA RegistryEntry ==
    ASSUME NEW c \in ClientID
    PROVE  /\ Registry[c] = {RegisteredConnection(connections[c][i]) : i \in DOMAIN connections[c]}
           /\ Registry'[c] = {RegisteredConnection(connections'[c][i]) : i \in DOMAIN connections'[c]}
BY DEF Registry, FindConnectionByClientID

\* A client whose rows stay the same keeps its entry.
LEMMA SameRegistryEntry ==
    ASSUME NEW c \in ClientID, connections'[c] = connections[c]
    PROVE  Registry'[c] = Registry[c]
BY DEF Registry, FindConnectionByClientID

\* An upsert applies its message to the ledger.
LEMMA LedgerAppliesUpsert ==
    ASSUME LedgerInv, NEW p \in Consumer, proc[p].pc = "exec", Upsert(p), log' = log
    PROVE  Ledger!Apply
<1> DEFINE m == Msg(p)
           c == m.client_id
           entry == Ledger!Metadata(m)
<1>1. /\ committed \in Nat /\ applied = committed /\ proc[p].offset = committed + 1
      /\ m = log[committed + 1] /\ committed + 1 \in 1..Len(log)
  BY MessageInHand DEF Busy, LedgerInv, FindingsCurrent, AcceptedCalls
<1>2. m.state = "online"
  BY DEF LedgerInv, StateInHand, OnlineCalls
<1>3. /\ c \in ClientID
      /\ \A d \in ClientID : d # c => connections'[d] = connections[d]
      /\ DOMAIN connections'[c] = {1}
      /\ IsFrom(connections'[c][1], m)
      /\ applied' = committed + 1
  BY <1>1, UpsertEffect
<1>4. \A r \in FindConnectionByClientID(connections, c) : ~IsDuplicateOrOldMessage(r, m)
  BY DEF LedgerInv, FindingsCurrent, AcceptedCalls
<1>5. ~Ledger!IsDuplicateOrOld(Registry[c], m)
  <2> SUFFICES ASSUME NEW r \in FindConnectionByClientID(connections, c)
               PROVE  LET e == RegisteredConnection(r) IN
                        ~(e.message_id = m.message_id \/ m.sent < e.sent)
    BY <1>3 DEF Ledger!IsDuplicateOrOld, Registry
  <2> QED
    BY <1>4 DEF RegisteredConnection, IsDuplicateOrOldMessage
<1>6. Ledger!Effect(Registry[c], m) = {entry}
  BY <1>2, <1>5 DEF Ledger!Effect
<1>7. Registry'[c] = {entry}
  <2>1. RegisteredConnection(connections'[c][1]) = entry
    BY <1>3 DEF RegisteredConnection, IsFrom, Ledger!Metadata
  <2> HIDE DEF entry
  <2> QED
    BY <1>3, <2>1, RegistryEntry
<1>8. \A d \in ClientID : d # c => Registry'[d] = Registry[d]
  BY <1>3, SameRegistryEntry
<1> HIDE DEF m, entry
<1>9. Registry' = [Registry EXCEPT ![c] = {entry}]
  BY <1>3, <1>7, <1>8 DEF Registry
<1> QED
  BY <1>1, <1>3, <1>6, <1>9 DEF Ledger!Apply

\* A deletion applies its message to the ledger, unless it is a replay.
LEMMA LedgerAppliesUnregister ==
    ASSUME LedgerInv, NEW p \in Consumer, UnregisterClient(p) \/ UnregisterReplyLost(p)
    PROVE  Ledger!Apply \/ UNCHANGED Ledger!ledgerVars
<1> DEFINE m == Msg(p)
           c == m.client_id
<1>1. /\ c \in ClientID
      /\ \A d \in ClientID : d # c => connections'[d] = connections[d]
      /\ connections'[c] = <<>>
      /\ applied' = proc[p].offset
      /\ proc[p].pc = "unregister"
  BY UnregisterEffect DEF LedgerInv
<1>2. /\ committed \in Nat /\ applied' = committed + 1 /\ committed + 1 \in 1..Len(log)
      /\ applied = committed \/ applied = committed + 1
      /\ m = log[committed + 1]
  BY <1>1, MessageInHand DEF Busy
<1>3. m.state = "offline" /\ log' = log
  BY <1>1 DEF LedgerInv, StateInHand, UnregisterClient, UnregisterReplyLost
<1>4. CASE applied = committed
  <2>1. Registry'[c] = {}
    <3>1. DOMAIN connections'[c] = {}
      BY <1>1
    <3> QED
      BY <1>1, <3>1, RegistryEntry
  <2>2. \A d \in ClientID : d # c => Registry'[d] = Registry[d]
    BY <1>1, SameRegistryEntry
  <2>3. Ledger!Effect(Registry[c], m) = {}
    BY <1>3 DEF Ledger!Effect
  <2> HIDE DEF m
  <2>4. Registry' = [Registry EXCEPT ![c] = {}]
    BY <1>1, <2>1, <2>2 DEF Registry
  <2> QED
    BY <1>2, <1>3, <1>4, <2>3, <2>4 DEF Ledger!Apply
<1>5. CASE applied = committed + 1
  <2>1. connections[c] = <<>>
    BY <1>2, <1>3, <1>5 DEF LedgerInv, EffectVisible
  <2>2. connections' = connections
    <3>1. connections \in [ClientID -> Seq(Row)]
      BY DEF LedgerInv, TypeInv, ConsumerTypeOK, ConnectionsTypeOK
    <3>2. connections' = [connections EXCEPT ![c] = <<>>]
      BY DEF UnregisterClient, UnregisterReplyLost, Unregister
    <3> QED
      BY <1>1, <2>1, <3>1, <3>2
  <2> QED
    BY <1>2, <1>3, <1>5, <2>2, LedgerRests
<1> QED
  BY <1>2, <1>4, <1>5

\* A commit drops an online message that did not take effect, applies a message
\* without an effect, and is otherwise invisible.
LEMMA LedgerCommits ==
    ASSUME LedgerInv, NEW p \in Consumer, CommitMessage(p)
    PROVE  Ledger!Apply \/ Ledger!Drop \/ UNCHANGED Ledger!ledgerVars
<1> DEFINE m == Msg(p)
<1>1. /\ proc[p].pc = "commit" /\ UNCHANGED <<connections, log>>
      /\ applied' = IF applied < proc[p].offset THEN proc[p].offset ELSE applied
  BY DEF CommitMessage
<1>2. /\ committed \in Nat /\ applied \in Nat /\ proc[p].offset = committed + 1
      /\ m = log[committed + 1] /\ committed + 1 \in 1..Len(log)
      /\ applied = committed \/ applied = committed + 1
  BY <1>1, MessageInHand DEF Busy
<1>3. m \in ControlMessage /\ m.client_id \in ClientID
  BY <1>1, MsgType DEF LedgerInv, Busy
<1>4. CASE applied = committed + 1
  BY <1>1, <1>2, <1>4, LedgerRests
<1>5. CASE applied = committed
  <2>1. applied' = applied + 1 /\ applied < Len(log)
    BY <1>1, <1>2, <1>5
  <2>2. m.state # "offline"
    BY <1>1, <1>2, <1>5 DEF LedgerInv, FindingsCurrent
  <2>3. Registry' = Registry
    BY <1>1 DEF Registry, FindConnectionByClientID
  <2>4. CASE m.state = "online"
    BY <1>1, <1>2, <1>5, <2>1, <2>3, <2>4 DEF Ledger!Drop
  <2>5. CASE m.state # "online"
    <3>1. Ledger!Effect(Registry[m.client_id], m) = Registry[m.client_id]
      BY <2>2, <2>5 DEF Ledger!Effect
    <3>2. [Registry EXCEPT ![m.client_id] = Registry[m.client_id]] = Registry
      BY <1>3 DEF Registry
    <3> QED
      BY <1>1, <1>2, <1>5, <2>1, <2>3, <3>1, <3>2 DEF Ledger!Apply
  <2> QED
    BY <2>4, <2>5
<1> QED
  BY <1>2, <1>4, <1>5

\* Every step of the system is a step of the ledger, or leaves it alone.
LEMMA LedgerNext ==
    ASSUME LedgerInv, [OpenNext]_consumerVars
    PROVE  [Ledger!Next]_(Ledger!ledgerVars)
<1>1. TypeInv /\ ConsumerTypeOK
  BY DEF LedgerInv, TypeInv
<1>2. ASSUME NEW m \in Message, Arrives(m)
      PROVE  Ledger!Next
  BY <1>2, LedgerPublishes DEF Ledger!Next
<1>3. ASSUME NEW p \in Consumer, Start(p) \/ Rebalance(p)
      PROVE  UNCHANGED Ledger!ledgerVars
  BY <1>3, LedgerRests DEF Start, Rebalance
<1>4. ASSUME NEW p \in Consumer, Inside(p)
      PROVE  Ledger!Next \/ UNCHANGED Ledger!ledgerVars
  <2>1. log' = log
    BY <1>1, <1>4, InsideMoves DEF Move
  <2> QED
    BY <1>4, <2>1, InsideTable, LedgerRests, LedgerAppliesUpsert, LedgerAppliesUnregister
       DEF Ledger!Next
<1>5. ASSUME NEW p \in Consumer, End(p)
      PROVE  Ledger!Next \/ UNCHANGED Ledger!ledgerVars
  BY <1>5, LedgerRests, LedgerAppliesUnregister DEF End, Ledger!Next
<1>6. ASSUME NEW p \in Consumer, FetchMessage(p)
      PROVE  UNCHANGED Ledger!ledgerVars
  BY <1>6, LedgerRests DEF FetchMessage
<1>7. ASSUME NEW p \in Consumer, CommitMessage(p)
      PROVE  Ledger!Next \/ UNCHANGED Ledger!ledgerVars
  BY <1>7, LedgerCommits DEF Ledger!Next
<1>8. CASE UNCHANGED consumerVars
  BY <1>8, LedgerRests DEF consumerVars
<1> QED
  BY <1>2, <1>3, <1>4, <1>5, <1>6, <1>7, <1>8, HandlerShapes DEF OpenNext

\* An empty table is an empty ledger.
LEMMA LedgerStart ==
    ASSUME ConsumerInit
    PROVE  Ledger!Init
<1>1. \A c \in ClientID : Registry[c] = {}
  <2> TAKE c \in ClientID
  <2>1. DOMAIN connections[c] = {}
    BY DEF ConsumerInit, ConnectionsInit
  <2> QED
    BY <2>1, RegistryEntry
<1>2. Registry = [c \in ClientID |-> {}]
  BY <1>1 DEF Registry
<1> QED
  BY <1>2 DEF ConsumerInit, Ledger!Init

\* The consumers implement the ledger: as long as handlers do not overlap, each
\* message takes effect on the connections once and in the order of the
\* partition, in spite of crashes, fatal errors, rebalances and replays, and only
\* an online message can be dropped (handleOnlineMessage, handleOfflineMessage).
THEOREM ConsumersImplementLedger ==
    ASSUME ~Overlap
    PROVE  ConsumerSpec => ImplementsLedger
<1>1. ConsumerInit => LedgerInv
  BY LedgerInit
<1>2. LedgerInv /\ [ConsumerNext]_consumerVars => LedgerInv'
  BY LedgerStep, OrderlySteps
<1>3. ConsumerInit => Ledger!Init
  BY LedgerStart
<1>4. LedgerInv /\ [ConsumerNext]_consumerVars => [Ledger!Next]_(Ledger!ledgerVars)
  BY LedgerNext, ConsumerSteps
<1> QED
  BY <1>1, <1>2, <1>3, <1>4, PTL DEF ConsumerSpec, ImplementsLedger, Ledger!Spec
=============================================================================
