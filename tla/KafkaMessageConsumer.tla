------------------------ MODULE KafkaMessageConsumer ------------------------
(***************************************************************************)
(* The Kafka message consumers: a consumer group of processes that take    *)
(* control messages off one partition of the RHC message topic and record  *)
(* the connection state of the clients in the database.                    *)
(*                                                                         *)
(* Every call that the handler makes to another system (database, auth     *)
(* gateway, inventory topic, sources, Kafka commit) is a step of its own,  *)
(* so that a crash, a rebalance or the step of another process may fall    *)
(* between any two of them.                                                *)
(***************************************************************************)
EXTENDS ConnectedClientRecorder, FiniteSets

CONSTANTS
    Consumer,     \* the replicas of the kafka-consumer deployment
    NoConsumer,   \* the partition is assigned to nobody
    MaxMessages,  \* bound: messages published to the partition
    Overlap       \* may a rebalance move the partition while its old owner
                  \* is still inside the handler?

ASSUME ConsumerAssumption ==
    /\ IsFiniteSet(Consumer)
    /\ NoConsumer \notin Consumer
    /\ MaxMessages \in Nat
    /\ Overlap \in BOOLEAN

VARIABLES
    log,        \* the partition: a sequence of control messages
    committed,  \* the group's committed offset: number of messages committed
    owner,      \* the consumer the partition is assigned to
    position,   \* offset up to which the owner fetched in this generation
    proc,       \* per consumer: control state and locals of the handler
    sources,    \* clients with a catalog entry in the sources service
    applied,    \* history: the last offset whose effect on the table is decided
    handled,    \* history: offsets for which a handler returned nil
    lost        \* history: offsets dropped because the database connection broke,
                \* up to the next fetch

kafkaVars == <<log, committed, owner, position, proc, sources, applied, handled, lost>>
consumerVars == <<connections, inventory, log, committed, owner, position, proc,
                  sources, applied, handled, lost>>

\* Where a consumer process is.  "down": no process; "fetch": in FetchMessage;
\* the others name the next call of the handler.
Busy == {"check", "resolve", "prepare", "exec", "record", "lookup", "create", "unregister", "commit"}

Process == [pc     : {"down", "fetch"} \cup Busy,
            offset : Nat,          \* the message in hand, log[offset]
            result : Resolution,   \* answer of the account resolver
            seen   : Nat]          \* rows of the upsert's snapshot that are still there

At(pc, offset) == [pc |-> pc, offset |-> offset, result |-> LookupError, seen |-> 0]

Idle(pc) == At(pc, 0)

ConsumerTypeOK ==
    /\ ConnectionsTypeOK
    /\ InventoryTypeOK
    /\ log \in Seq(ControlMessage)
    /\ committed \in Nat
    /\ owner \in Consumer \cup {NoConsumer}
    /\ position \in Nat
    /\ proc \in [Consumer -> Process]
    /\ sources \subseteq ClientID
    /\ applied \in Nat
    /\ handled \subseteq Nat
    /\ lost \subseteq Nat

ConsumerInit ==
    /\ ConnectionsInit
    /\ InventoryInit
    /\ log = <<>>
    /\ committed = 0
    /\ owner = NoConsumer
    /\ position = 0
    /\ proc = [p \in Consumer |-> Idle("down")]
    /\ sources = {}
    /\ applied = 0
    /\ handled = {}
    /\ lost = {}

-----------------------------------------------------------------------------
Msg(p) == log[proc[p].offset]

Goto(p, pc) == proc' = [proc EXCEPT ![p].pc = pc]

\* The handler returned nil: commit the message next.
Return(p) ==
    /\ Goto(p, "commit")
    /\ handled' = handled \cup {proc[p].offset}

\* The process ends and leaves the consumer group.
Exit(p) ==
    /\ proc' = [proc EXCEPT ![p] = Idle("down")]
    /\ owner' = IF owner = p THEN NoConsumer ELSE owner

\* Mutant: the error is logged and the message is committed.
SwallowedProcessingError(p) ==
    /\ Goto(p, "commit")
    /\ UNCHANGED <<connections, inventory, log, committed, owner, position, sources,
                   applied, handled, lost>>

\* The handler returned an error: consumeMqttMessagesFromKafka notifies the main
\* goroutine and stops, the process shuts down without a commit.
FatalProcessingError(p) ==
    /\ Exit(p)
    /\ UNCHANGED <<connections, inventory, log, committed, position, sources,
                   applied, handled, lost>>

-----------------------------------------------------------------------------
(* The Kafka broker and the consumer group (external) *)

Publish(m) ==
    /\ Len(log) < MaxMessages
    /\ log' = Append(log, m)
    /\ UNCHANGED <<connections, inventory, committed, owner, position, proc,
                   sources, applied, handled, lost>>

Start(p) ==
    /\ proc[p].pc = "down"
    /\ Goto(p, "fetch")
    /\ UNCHANGED <<connections, inventory, log, committed, owner, position,
                   sources, applied, handled, lost>>

\* Mutant: the reader starts at the end of the partition.
RebalanceToEnd(p) ==
    /\ proc[p].pc # "down"
    /\ Overlap \/ \A q \in Consumer : proc[q].pc \notin Busy
    /\ owner # p \/ position # committed
    /\ owner' = p
    /\ position' = Len(log)
    /\ UNCHANGED <<connections, inventory, log, committed, proc, sources,
                   applied, handled, lost>>

\* A rebalance assigns the partition to p, whose reader restarts at the
\* committed offset.  Nothing makes it wait for the handler of the old owner.
Rebalance(p) ==
    /\ proc[p].pc # "down"
    /\ Overlap \/ \A q \in Consumer : proc[q].pc \notin Busy
    /\ owner # p \/ position # committed
    /\ owner' = p
    /\ position' = committed
    /\ UNCHANGED <<connections, inventory, log, committed, proc, sources,
                   applied, handled, lost>>

\* The process is killed, or shuts down on a signal or a lost MQTT connection:
\* main returns without waiting for the consumer goroutine.
Crash(p) ==
    /\ proc[p].pc # "down"
    /\ Exit(p)
    /\ UNCHANGED <<connections, inventory, log, committed, position, sources,
                   applied, handled, lost>>

-----------------------------------------------------------------------------
(* consumeMqttMessagesFromKafka and the handlers it calls *)

\* handleMessage, HandleControlMessage and handleConnectionStatusMessage up to
\* the first call to another system; "other" messages are skipped without one.
FirstCall(m) ==
    CASE m.state = "online"  -> "check"
      [] m.state = "offline" -> "unregister"
      [] m.state = "other"   -> "commit"

FetchMessage(p) ==
    /\ proc[p].pc = "fetch"
    /\ owner = p
    /\ position < Len(log)
    /\ log[position + 1].state # "malformed"
    /\ position' = position + 1
    /\ LET m == log[position + 1] IN
         /\ proc' = [proc EXCEPT ![p] = At(FirstCall(m), position + 1)]
         /\ handled' = IF m.state = "other" THEN handled \cup {position + 1} ELSE handled
    /\ lost' = {}
    /\ UNCHANGED <<connections, inventory, log, committed, owner, sources, applied>>

\* handleConnectionStatusMessage asserts that the content is an object; when it
\* is not, the goroutine panics and takes the process with it, at every replay.
HandlerPanics(p) ==
    /\ proc[p].pc = "fetch"
    /\ owner = p
    /\ position < Len(log)
    /\ log[position + 1].state = "malformed"
    /\ FatalProcessingError(p)

\* checkForDuplicateOnlineMessage finds a row that makes the message a
\* duplicate or old: the message is ignored.
IgnoreDuplicate(p) ==
    /\ proc[p].pc = "check"
    /\ \E r \in FindConnectionByClientID(connections, Msg(p).client_id) :
         IsDuplicateOrOldMessage(r, Msg(p))
    /\ Return(p)
    /\ UNCHANGED <<connections, inventory, log, committed, owner, position,
                   sources, applied, lost>>

\* checkForDuplicateOnlineMessage finds no row, or one the message supersedes.
AcceptMessage(p) ==
    /\ proc[p].pc = "check"
    /\ LET found == FindConnectionByClientID(connections, Msg(p).client_id) IN
         \/ found = {}
         \/ \E r \in found : ~IsDuplicateOrOldMessage(r, Msg(p))
    /\ Goto(p, "resolve")
    /\ UNCHANGED <<connections, inventory, log, committed, owner, position,
                   sources, applied, handled, lost>>

\* MapClientIdToAccountId; on an error the handler goes on without a tenant.
ResolveTenant(p) ==
    /\ proc[p].pc = "resolve"
    /\ \E result \in MapClientIdToAccountId :
         proc' = [proc EXCEPT ![p].pc = "prepare", ![p].result = result]
    /\ UNCHANGED <<connections, inventory, log, committed, owner, position,
                   sources, applied, handled, lost>>

\* Register: the statement is prepared and takes its snapshot of the table.
PrepareUpsert(p) ==
    /\ proc[p].pc = "prepare"
    /\ proc' = [proc EXCEPT ![p].pc = "exec",
                            ![p].seen = Len(connections[Msg(p).client_id])]
    /\ UNCHANGED <<connections, inventory, log, committed, owner, position,
                   sources, applied, handled, lost>>

Upsert(p) ==
    /\ connections' = Register(connections, Msg(p).client_id, Msg(p),
                               proc[p].result.org_id, proc[p].seen)
    /\ applied' = proc[p].offset
    /\ lost' = lost \ {proc[p].offset}

\* Register: the statement is executed and Exec returns nil.
ExecUpsert(p) ==
    /\ proc[p].pc = "exec"
    /\ Upsert(p)
    /\ Goto(p, "record")
    /\ UNCHANGED <<inventory, log, committed, owner, position, sources, handled>>

\* Register: Exec returns an error that is not fatal, and the message counts as
\* handled.  A broken connection or a timeout may hide that it was executed.
ExecUpsertFails(p) ==
    /\ proc[p].pc = "exec"
    /\ \E e \in ExecError :
         /\ ~IsFatalExecError(e)
         /\ \/ Upsert(p)
            \/ /\ lost' = IF e.code \in ConnectionExceptions
                          THEN lost \cup {proc[p].offset} ELSE lost
               /\ UNCHANGED <<connections, applied>>
    /\ Return(p)
    /\ UNCHANGED <<inventory, log, committed, owner, position, sources>>

\* A database call fails with a FatalError: every failure of the lookup and of
\* Unregister, a failure of Register's Prepare, a fatal Exec error.
DatabaseFails(p) ==
    /\ proc[p].pc \in {"check", "prepare", "exec", "unregister"}
    /\ proc[p].pc = "exec" => \E e \in ExecError : IsFatalExecError(e)
    /\ FatalProcessingError(p)

\* RecordConnectedClient returns nil.
RecordClient(p) ==
    /\ proc[p].pc = "record"
    /\ RecordConnectedClient(Msg(p).client_id, proc[p].result.identity,
                             SanitizeCanonicalFacts(Msg(p).canonical_facts),
                             Msg(p).dispatchers)
    /\ IF "catalog" \in Msg(p).dispatchers
       THEN Goto(p, "lookup") /\ UNCHANGED handled
       ELSE Return(p)
    /\ UNCHANGED <<connections, log, committed, owner, position, sources, applied, lost>>

\* RecordConnectedClient fails: the dispatchers are not processed and the
\* stale timestamp updater is left to inform inventory.
RecordClientFails(p) ==
    /\ proc[p].pc = "record"
    /\ RecordConnectedClientFails(Msg(p).client_id, proc[p].result.identity,
                                  SanitizeCanonicalFacts(Msg(p).canonical_facts),
                                  Msg(p).dispatchers)
    /\ Return(p)
    /\ UNCHANGED <<connections, log, committed, owner, position, sources, applied, lost>>

\* RegisterWithSources: the entry exists already.
SourceExists(p) ==
    /\ proc[p].pc = "lookup"
    /\ Msg(p).client_id \in sources
    /\ Return(p)
    /\ UNCHANGED <<connections, inventory, log, committed, owner, position,
                   sources, applied, lost>>

\* RegisterWithSources: no entry was found, or the lookup failed.
SourceNotFound(p) ==
    /\ proc[p].pc = "lookup"
    /\ Goto(p, "create")
    /\ UNCHANGED <<connections, inventory, log, committed, owner, position,
                   sources, applied, handled, lost>>

\* createSourcesEntry, whose error is only logged.  The service accepts a
\* request with an identity; a second bulk_create of an entry changes nothing.
CreateSource(p) ==
    /\ proc[p].pc = "create"
    /\ \/ /\ proc[p].result.identity
          /\ sources' = sources \cup {Msg(p).client_id}
       \/ UNCHANGED sources
    /\ Return(p)
    /\ UNCHANGED <<connections, inventory, log, committed, owner, position, applied, lost>>

\* The processes after a DELETE: the snapshots of upserts under way hold no row of
\* c any more.
RowsGone(c) ==
    [q \in Consumer |-> IF proc[q].pc = "exec" /\ Msg(q).client_id = c
                        THEN [proc[q] EXCEPT !.seen = 0] ELSE proc[q]]

\* handleOfflineMessage: the rows go, whatever message they are from.
UnregisterClient(p) ==
    /\ proc[p].pc = "unregister"
    /\ connections' = Unregister(connections, Msg(p).client_id)
    /\ applied' = proc[p].offset
    /\ proc' = [RowsGone(Msg(p).client_id) EXCEPT ![p].pc = "commit"]
    /\ handled' = handled \cup {proc[p].offset}
    /\ UNCHANGED <<inventory, log, committed, owner, position, sources, lost>>

\* Unregister fails although the DELETE was executed: a FatalError as well.
UnregisterReplyLost(p) ==
    /\ proc[p].pc = "unregister"
    /\ connections' = Unregister(connections, Msg(p).client_id)
    /\ applied' = proc[p].offset
    /\ proc' = [RowsGone(Msg(p).client_id) EXCEPT ![p] = Idle("down")]
    /\ owner' = IF owner = p THEN NoConsumer ELSE owner
    /\ UNCHANGED <<inventory, log, committed, position, sources, handled, lost>>

\* Mutant: the message is never committed.
ForgetCommit(p) ==
    /\ proc[p].pc = "commit"
    /\ applied' = IF applied < proc[p].offset THEN proc[p].offset ELSE applied
    /\ proc' = [proc EXCEPT ![p] = Idle("fetch")]
    /\ UNCHANGED <<connections, inventory, log, committed, owner, position, sources,
                   handled, lost>>

\* CommitMessages succeeds.  The commit loop of the reader does not look at
\* the generation the message was fetched in, so a late commit of a former
\* owner moves the offset, back if need be.
CommitMessage(p) ==
    /\ proc[p].pc = "commit"
    /\ committed' = proc[p].offset
    /\ applied' = IF applied < proc[p].offset THEN proc[p].offset ELSE applied
    /\ proc' = [proc EXCEPT ![p] = Idle("fetch")]
    /\ UNCHANGED <<connections, inventory, log, owner, position, sources, handled, lost>>

\* CommitMessages keeps failing or the context is cancelled: the process ends.
CommitFails(p) ==
    /\ proc[p].pc = "commit"
    /\ FatalProcessingError(p)

HandlerStep(p) ==
    \/ FetchMessage(p) \/ HandlerPanics(p) \/ IgnoreDuplicate(p) \/ AcceptMessage(p) \/ ResolveTenant(p)
    \/ PrepareUpsert(p) \/ ExecUpsert(p) \/ ExecUpsertFails(p) \/ DatabaseFails(p)
    \/ RecordClient(p) \/ RecordClientFails(p) \/ SourceExists(p) \/ SourceNotFound(p)
    \/ CreateSource(p) \/ UnregisterClient(p) \/ UnregisterReplyLost(p)
    \/ CommitMessage(p) \/ CommitFails(p)

ConsumerNext ==
    \/ \E m \in Message : Publish(m)
    \/ \E p \in Consumer : Start(p) \/ Rebalance(p) \/ Crash(p) \/ HandlerStep(p)

ConsumerSpec == ConsumerInit /\ [][ConsumerNext]_consumerVars

-----------------------------------------------------------------------------
(* Properties *)

\* At least once: the committed offset never passes a message for which no
\* handler returned nil, whatever crashes, fatal errors, rebalances and late
\* commits of former owners happen (consumeMqttMessagesFromKafka).
CommittedMessagesHandled == 1..committed \subseteq handled

OffsetsInLog ==
    /\ position <= Len(log)
    /\ committed <= Len(log)
    /\ owner \in Consumer => proc[owner].pc # "down"
    /\ \A p \in Consumer : proc[p].pc \in Busy => proc[p].offset \in 1..Len(log)

\* No gaps: whatever became of the partition since a consumer fetched its
\* message, all messages before it have been handled, and the owner fetched
\* nothing that is neither handled nor in its hands (FetchMessage, handleMessage
\* and CommitMessages happen strictly one after the other).
NoGaps ==
    /\ OffsetsInLog
    /\ CommittedMessagesHandled
    /\ \A p \in Consumer :
         /\ proc[p].pc \in Busy => 1..(proc[p].offset - 1) \subseteq handled
         /\ proc[p].pc = "commit" => proc[p].offset \in handled
         /\ owner = p /\ proc[p].pc = "fetch" => 1..position \subseteq handled
         /\ owner = p /\ proc[p].pc \in Busy =>
              1..position \subseteq handled \cup {proc[p].offset}

\* A row never mixes two messages: its id, its sent time and its dispatchers
\* are those of one online message that its client published (the upsert).
RowIsOneMessage ==
    \A c \in ClientID : \A r \in FindConnectionByClientID(connections, c) :
      \E o \in DOMAIN log :
        /\ log[o].state = "online"
        /\ log[o].client_id = c
        /\ log[o].message_id = r.message_id
        /\ log[o].sent = r.message_sent
        /\ log[o].dispatchers = r.dispatchers

\* A restart repeats at most one message: only the message after the committed
\* offset may have been handled or recorded without being committed.
ReplayIsOneMessage ==
    /\ handled \subseteq 1..(committed + 1)
    /\ applied \in {committed, committed + 1}

\* Without overlap the upsert keeps at most one row per client (Register).
OneRowPerClient == \A c \in ClientID : Len(connections[c]) <= 1

\* Nothing in the schema keeps a client from having two rows, and the upserts of
\* handlers that overlap do insert two.  But no more than that: a client never has
\* more rows than there are consumers, however often rebalances and crashes repeat
\* its messages, because an upsert that starts when there is a row updates instead
\* of inserting (the WHERE NOT EXISTS of Register).
RowsBoundedByConsumers ==
    \A c \in ClientID : Len(connections[c]) <= Cardinality(Consumer)

Quiescent ==
    /\ committed = Len(log)
    /\ \A p \in Consumer : proc[p].pc \notin Busy

\* Ordering of a client's messages is retained: once every message is committed
\* and no handler is running, a client whose last connection-status message
\* was offline is not connected (handleOfflineMessage, handleOnlineMessage).
OfflineStaysOffline ==
    Quiescent =>
      \A o \in DOMAIN log :
        (/\ log[o].state = "offline"
         /\ \A o2 \in DOMAIN log : o2 > o /\ log[o2].client_id = log[o].client_id
                                     => log[o2].state = "other")
        => connections[log[o].client_id] = <<>>

\* The connections of the table, message by message, are those of the ledger.
RegisteredConnection(r) == [message_id |-> r.message_id, sent |-> r.message_sent]

Registry ==
    [c \in ClientID |-> {RegisteredConnection(r) : r \in FindConnectionByClientID(connections, c)}]

Ledger == INSTANCE ConnectionLedger WITH registry <- Registry

\* The consumers implement the ledger: in spite of replays after crashes, each
\* message takes effect on the connections once and in order, and only an online
\* message can be dropped.
ImplementsLedger == Ledger!Spec

\* A row holds the canonical facts of the message it is from, as it holds
\* everything else of it (the UPDATE of Register).
RowHoldsMessageFacts ==
    \A c \in ClientID : \A r \in FindConnectionByClientID(connections, c) :
      \E o \in DOMAIN log :
        /\ log[o].client_id = c
        /\ log[o].message_id = r.message_id
        /\ SanitizeCanonicalFacts(log[o].canonical_facts) = r.canonical_facts

\* A registration that fails because the connection to the database is lost is a
\* fatal error: its message is not committed until it has been processed again.
ConnectionLossIsFatal == \A o \in 1..committed : o \notin lost
=============================================================================
