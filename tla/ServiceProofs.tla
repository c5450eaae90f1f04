----------------------------- MODULE ServiceProofs -----------------------------
(***************************************************************************)
(* The service processes and the API requests that they handle.            *)
(*                                                                         *)
(* ServiceProcess, for every error limit and every choice of the           *)
(* time-outs: types, no idle process, time-outs that suffice, and a        *)
(* consumer that gives up on persistent failure only.                      *)
(*                                                                         *)
(* ApiServer, for every set of clients, tenants, callers and concurrent    *)
(* requests, and for both lookups: types, tenant isolation, and reported   *)
(* statuses that were true.                                                *)
(***************************************************************************)
EXTENDS ServiceProcess, ApiServer, ConnectionTableProofs, SequenceTheorems

-----------------------------------------------------------------------------
(* The service processes *)

\* Appending to a bounded log keeps it a sequence of outcomes.
LEMMA LogType ==
    ASSUME outcomes \in Seq(Outcome), NEW o \in Outcome, Log(o)
    PROVE  outcomes' \in Seq(Outcome)
<1>1. Append(outcomes, o) \in Seq(Outcome) /\ Append(outcomes, o) # <<>>
  BY AppendProperties
<1>2. Tail(Append(outcomes, o)) \in Seq(Outcome)
  BY <1>1, HeadTailProperties
<1> QED
  BY <1>1, <1>2 DEF Log

\* Who waits for whom: the consumer exists only once main serves, and the context
\* is cancelled only by a main that has left its select.
Phases ==
    /\ main \in {"connecting", "waiting"} => ~cancelled /\ consumer = "none"
    /\ main = "serving" => ~cancelled /\ consumer # "stopped"
    /\ main = "serving" /\ service = "kafka_consumer" => consumer # "none"

\* The type invariant with the limits of the counters that make it inductive: a
\* count is at its limit only when the consumer has given up.
Counts ==
    consumer \notin {"notifying", "stopped"} =>
      fetchErrors < MaxConsecutiveErrors /\ commitErrors < MaxConsecutiveErrors

ProcessInv == ProcessTypeOK /\ Counts /\ Phases

\* A process starts without a consumer and without errors.
LEMMA ProcessInvInit == ProcessInit => ProcessInv
<1>1. <<>> \in Seq(Outcome)
  BY EmptySeq
<1>2. ProcessInit => ProcessTypeOK /\ Counts
  <2>1. ProcessInit => outcomes \in Seq(Outcome)
    BY <1>1, Zenon DEF ProcessInit
  <2>2. ProcessInit => connected \in BOOLEAN /\ signalled \in BOOLEAN /\ cancelled \in BOOLEAN
    BY Zenon DEF ProcessInit
  <2>3. ProcessInit => elapsed = 0 /\ fetchErrors = 0 /\ commitErrors = 0
    BY DEF ProcessInit
  <2>4. ProcessInit => main = "connecting" /\ connectHandler = "none" /\ lostHandler \in {"absent", "none"} /\ consumer = "none"
    BY DEF ProcessInit
  <2>5. ProcessInit => /\ service \in Service /\ shutdownTime = 0 /\ requests = 0
                       /\ generator \in {"none", "jwt_rsa_generator", "jwt_file_reader"}
                       /\ token \in {"valid", "expired"}
    BY DEF ProcessInit, FirstTokens
  <2> QED
    BY <2>1, <2>2, <2>3, <2>4, <2>5, ProcessAssumption DEF ProcessTypeOK, Counts
<1>3. ProcessInit => Phases
  BY Zenon DEF ProcessInit, Phases
<1> QED
  BY <1>2, <1>3 DEF ProcessInv

\* Steps of main up to its select.
LEMMA StartStep ==
    ASSUME ProcessInv,
           \/ ConnectBroker \/ StartFails \/ StartServing \/ Wait \/ StartTimesOut
    PROVE  ProcessInv'
<1> USE ProcessAssumption
        DEF ProcessInv, ProcessTypeOK, Counts, Phases, loopVars, waitVars, mqttVars, Running
<1>1. CASE ConnectBroker BY <1>1 DEF ConnectBroker
<1>2. CASE StartFails BY <1>2 DEF StartFails
<1>3. CASE StartServing
  <2>1. consumer = "none" BY <1>3 DEF StartServing
  <2>2. main' = "serving" /\ consumer' \in {"none", "fetching"} BY <1>3 DEF StartServing
  <2>3. ~cancelled' BY <1>3 DEF StartServing
  <2>4. service' = "kafka_consumer" => consumer' = "fetching" BY <1>3 DEF StartServing
  <2> QED BY <1>3, <2>1, <2>2, <2>3, <2>4 DEF StartServing
<1>4. CASE Wait
  <2>1. elapsed' \in 0..StartTimeout BY <1>4 DEF Wait
  <2> QED BY <1>4, <2>1 DEF Wait
<1>5. CASE StartTimesOut BY <1>5 DEF StartTimesOut
<1> QED
  BY <1>1, <1>2, <1>3, <1>4, <1>5

\* Steps of the MQTT client and its handlers, of HTTP requests and of signals.
LEMMA EnvironmentStep ==
    ASSUME ProcessInv,
           \/ ResolveBrokerNode \/ Subscribe \/ FatalInGoroutine
           \/ ConnectionLost \/ TokenExpires \/ Reconnect \/ ReconnectFails
           \/ Signal \/ RequestBegins \/ RequestEnds
    PROVE  ProcessInv'
<1> USE ProcessAssumption
        DEF ProcessInv, ProcessTypeOK, Counts, Phases, loopVars, waitVars, mqttVars, Running
<1>1. CASE ResolveBrokerNode BY <1>1 DEF ResolveBrokerNode
<1>2. CASE Subscribe BY <1>2 DEF Subscribe
<1>3. CASE FatalInGoroutine BY <1>3 DEF FatalInGoroutine
<1>4. CASE ConnectionLost
  <2>1. connected' \in BOOLEAN BY <1>4, Zenon DEF ConnectionLost
  <2>2. lostHandler' \in {"absent", "none", "notifying", "done"} BY <1>4 DEF ConnectionLost
  <2>3. UNCHANGED <<service, main, waitVars, connectHandler, generator, token, requests,
                    signalled, cancelled, loopVars>>
    BY <1>4 DEF ConnectionLost
  <2> QED BY <2>1, <2>2, <2>3
<1>5. CASE TokenExpires BY <1>5 DEF TokenExpires
<1>6. CASE Reconnect BY <1>6 DEF Reconnect, Reconnecting, Refreshed
<1>7. CASE ReconnectFails BY <1>7 DEF ReconnectFails, Reconnecting, Refreshed
<1>8. CASE Signal
  <2>1. signalled' \in BOOLEAN
    <3>1. signalled' = TRUE \/ signalled' = signalled BY <1>8, Zenon DEF Signal
    <3> QED BY <3>1, Zenon DEF ProcessInv, ProcessTypeOK
  <2>2. main' = main \/ main' = "exited" BY <1>8 DEF Signal
  <2>3. UNCHANGED <<service, waitVars, mqttVars, requests, cancelled, loopVars>>
    BY <1>8 DEF Signal
  <2> QED BY <2>1, <2>2, <2>3
<1>9. CASE RequestBegins
  <2>1. requests' \in 0..MaxRequests BY <1>9 DEF RequestBegins
  <2> QED BY <1>9, <2>1 DEF RequestBegins
<1>10. CASE RequestEnds
  <2>1. requests' \in 0..MaxRequests BY <1>10 DEF RequestEnds
  <2> QED BY <1>10, <2>1 DEF RequestEnds
<1> QED
  BY <1>1, <1>2, <1>3, <1>4, <1>5, <1>6, <1>7, <1>8, <1>9, <1>10

\* Steps of main from its select on.
LEMMA ShutdownStep ==
    ASSUME ProcessInv,
           \/ TakeSignal \/ TakeFatalError \/ TakeConnectionLost
           \/ AwaitRequests \/ ShutdownHTTPServer \/ Exit
    PROVE  ProcessInv'
<1> USE ProcessAssumption
        DEF ProcessInv, ProcessTypeOK, Counts, Phases, loopVars, waitVars, mqttVars, Running
<1>1. CASE TakeSignal BY <1>1 DEF TakeSignal
<1>2. CASE TakeFatalError BY <1>2 DEF TakeFatalError
<1>3. CASE TakeConnectionLost BY <1>3 DEF TakeConnectionLost
<1>4. CASE AwaitRequests
  <2>1. shutdownTime' \in 0..HttpShutdownTimeout BY <1>4 DEF AwaitRequests
  <2> QED BY <1>4, <2>1 DEF AwaitRequests
<1>5. CASE ShutdownHTTPServer BY <1>5 DEF ShutdownHTTPServer
<1>6. CASE Exit BY <1>6 DEF Exit
<1> QED
  BY <1>1, <1>2, <1>3, <1>4, <1>5, <1>6

\* A restarted process is like a new one (Restart).
LEMMA RestartStep == ProcessInv /\ Restart => ProcessInv'
<1>1. <<>> \in Seq(Outcome)
  BY EmptySeq
<1>2. ProcessInv /\ Restart => ProcessTypeOK' /\ Counts'
  <2>1. Restart => outcomes' \in Seq(Outcome)
    BY <1>1, Zenon DEF Restart
  <2>2. Restart => connected' \in BOOLEAN /\ signalled' \in BOOLEAN /\ cancelled' \in BOOLEAN
    BY Zenon DEF Restart
  <2>3. Restart => elapsed' = 0 /\ fetchErrors' = 0 /\ commitErrors' = 0
    BY DEF Restart
  <2>4. Restart => main' = "connecting" /\ connectHandler' = "none" /\ lostHandler' \in {"absent", "none"} /\ consumer' = "none"
    BY DEF Restart
  <2>5. ProcessInv /\ Restart =>
          /\ service' \in Service /\ shutdownTime' = 0 /\ requests' = 0
          /\ generator' \in {"none", "jwt_rsa_generator", "jwt_file_reader"}
          /\ token' \in {"valid", "expired"}
    BY DEF Restart, FirstTokens, ProcessInv, ProcessTypeOK
  <2> QED
    BY <2>1, <2>2, <2>3, <2>4, <2>5, ProcessAssumption DEF ProcessTypeOK, Counts
<1>3. Restart => Phases'
  BY Zenon DEF Restart, Phases
<1> QED
  BY <1>2, <1>3 DEF ProcessInv

\* Steps of the consumer goroutine.
LEMMA LoopStep ==
    ASSUME ProcessInv,
           \/ Fetch \/ FetchFails \/ ProcessMessage \/ ProcessFails \/ Commit \/ CommitFails
           \/ Retry \/ NoticeCancel
    PROVE  ProcessInv'
<1> USE ProcessAssumption
        DEF ProcessInv, ProcessTypeOK, Counts, Phases, waitVars, mqttVars, Running
<1>1. CASE Fetch
  <2>1. outcomes' \in Seq(Outcome) BY <1>1, LogType DEF Fetch, Outcome
  <2> QED BY <1>1, <2>1 DEF Fetch, Step
<1>2. CASE FetchFails
  <2>1. outcomes' \in Seq(Outcome) BY <1>2, LogType DEF FetchFails, Outcome
  <2>2. consumer = "fetching" BY <1>2 DEF FetchFails, Step
  <2>3. fetchErrors' = fetchErrors + 1 /\ commitErrors' = commitErrors BY <1>2 DEF FetchFails
  <2>4. fetchErrors < MaxConsecutiveErrors /\ commitErrors < MaxConsecutiveErrors BY <2>2
  <2>5. fetchErrors' \in 0..MaxConsecutiveErrors BY <2>3, <2>4
  <2>6. CASE fetchErrors' >= MaxConsecutiveErrors
    <3>1. Step("fetching", "notifying") BY <1>2, <2>6 DEF FetchFails
    <3> QED BY <2>1, <2>3, <2>5, <3>1 DEF Step
  <2>7. CASE ~(fetchErrors' >= MaxConsecutiveErrors)
    <3>1. Step("fetching", "fetchBackoff") BY <1>2, <2>7 DEF FetchFails
    <3>2. fetchErrors' < MaxConsecutiveErrors /\ commitErrors' < MaxConsecutiveErrors BY <2>3, <2>4, <2>5, <2>7
    <3> QED BY <2>1, <2>3, <2>5, <3>1, <3>2 DEF Step
  <2> QED BY <2>6, <2>7
<1>3. CASE ProcessMessage
  <2>1. outcomes' \in Seq(Outcome) BY <1>3, LogType DEF ProcessMessage, Outcome
  <2> QED BY <1>3, <2>1 DEF ProcessMessage, Step
<1>4. CASE ProcessFails
  <2>1. outcomes' \in Seq(Outcome) BY <1>4, LogType DEF ProcessFails, Outcome
  <2> QED BY <1>4, <2>1 DEF ProcessFails, Step
<1>5. CASE Commit
  <2>1. outcomes' \in Seq(Outcome) BY <1>5, LogType DEF Commit, Outcome
  <2> QED BY <1>5, <2>1 DEF Commit, Step
<1>6. CASE CommitFails
  <2>1. outcomes' \in Seq(Outcome) BY <1>6, LogType DEF CommitFails, Outcome
  <2>2. consumer = "committing" BY <1>6 DEF CommitFails, Step
  <2>3. commitErrors' = commitErrors + 1 /\ fetchErrors' = fetchErrors BY <1>6 DEF CommitFails
  <2>4. commitErrors < MaxConsecutiveErrors /\ fetchErrors < MaxConsecutiveErrors BY <2>2
  <2>5. commitErrors' \in 0..MaxConsecutiveErrors BY <2>3, <2>4
  <2>6. CASE commitErrors' >= MaxConsecutiveErrors
    <3>1. Step("committing", "notifying") BY <1>6, <2>6 DEF CommitFails
    <3> QED BY <2>1, <2>3, <2>5, <3>1 DEF Step
  <2>7. CASE ~(commitErrors' >= MaxConsecutiveErrors)
    <3>1. Step("committing", "commitBackoff") BY <1>6, <2>7 DEF CommitFails
    <3>2. commitErrors' < MaxConsecutiveErrors /\ fetchErrors' < MaxConsecutiveErrors BY <2>3, <2>4, <2>5, <2>7
    <3> QED BY <2>1, <2>3, <2>5, <3>1, <3>2 DEF Step
  <2> QED BY <2>6, <2>7
<1>7. CASE Retry BY <1>7 DEF Retry, Step
<1>8. CASE NoticeCancel
  <2>1. main # "serving" /\ main \notin {"connecting", "waiting"} BY <1>8 DEF NoticeCancel, Step
  <2>2. consumer' = "stopped" BY <1>8 DEF NoticeCancel, Step
  <2> QED BY <1>8, <2>1, <2>2 DEF NoticeCancel, Step
<1> QED
  BY <1>1, <1>2, <1>3, <1>4, <1>5, <1>6, <1>7, <1>8

\* Every step of the process keeps the invariant.
LEMMA ProcessInvNext == ProcessInv /\ [ProcessNext]_processVars => ProcessInv'
<1> SUFFICES ASSUME ProcessInv, [ProcessNext]_processVars PROVE ProcessInv'
  OBVIOUS
<1>1. CASE ProcessNext
  BY <1>1, StartStep, EnvironmentStep, ShutdownStep, RestartStep, LoopStep DEF ProcessNext
<1>2. CASE UNCHANGED processVars
  BY <1>2 DEF processVars, loopVars, waitVars, mqttVars, ProcessInv, ProcessTypeOK, Counts, Phases
<1> QED
  BY <1>1, <1>2

\* The state of the process is well-typed; in particular neither error counter
\* of consumeMqttMessagesFromKafka ever passes its limit.
THEOREM ProcessTypeCorrect == ProcessSpec => []ProcessTypeOK
<1>1. ProcessInv => ProcessTypeOK
  BY DEF ProcessInv
<1> QED
  BY <1>1, ProcessInvInit, ProcessInvNext, PTL DEF ProcessSpec

\* A process that serves has a consumer at work or about to report a fatal
\* error: no exit of consumeMqttMessagesFromKafka leaves main in its select.
THEOREM ProcessNeverIdle == ProcessSpec => []NoIdleProcess
<1>1. ProcessInv => NoIdleProcess
  BY DEF ProcessInv, Phases, NoIdleProcess
<1> QED
  BY <1>1, ProcessInvInit, ProcessInvNext, PTL DEF ProcessSpec

-----------------------------------------------------------------------------
(* The consumer gives up on persistent failures only *)

\* The last n entries of the log s are all o.
Trailing(s, n, o) ==
    /\ n <= Len(s)
    /\ \A i \in DOMAIN s : i > Len(s) - n => s[i] = o

\* What a step that logs an outcome does to the end of the log (Log).
LEMMA LogTrailing ==
    ASSUME outcomes \in Seq(Outcome), Len(outcomes) <= MaxConsecutiveErrors,
           NEW o \in Outcome, Log(o), NEW n \in Nat, n < MaxConsecutiveErrors
    PROVE  /\ outcomes' \in Seq(Outcome) /\ outcomes' # <<>>
           /\ Len(outcomes') <= MaxConsecutiveErrors
           /\ outcomes'[Len(outcomes')] = o
           /\ Trailing(outcomes, n, o) => Trailing(outcomes', n + 1, o)
<1> DEFINE s == outcomes
           all == Append(s, o)
           L == Len(s)
           M == MaxConsecutiveErrors
<1>1. /\ s \in Seq(Outcome) /\ L \in Nat /\ M \in Nat \ {0} /\ L <= M
      /\ DOMAIN s = 1..L
      /\ all \in Seq(Outcome) /\ all # <<>> /\ Len(all) = L + 1 /\ DOMAIN all = 1..(L + 1)
      /\ \A i \in 1..L : all[i] = s[i]
      /\ all[L + 1] = o
  BY ProcessAssumption, AppendProperties
<1>2. /\ Tail(all) \in Seq(Outcome) /\ Len(Tail(all)) = L /\ DOMAIN Tail(all) = 1..L
      /\ \A i \in 1..L : Tail(all)[i] = all[i + 1]
  <2>1. Tail(all) \in Seq(Outcome) /\ Len(Tail(all)) = Len(all) - 1
        /\ \A i \in 1..Len(Tail(all)) : Tail(all)[i] = all[i + 1]
    BY <1>1, HeadTailProperties
  <2> QED
    BY <1>1, <2>1
<1>3. outcomes' = IF L + 1 > M THEN Tail(all) ELSE all
  BY <1>1 DEF Log
<1> HIDE DEF all, L, M
<1>4. CASE L + 1 > M
  <2>1. L = M /\ outcomes' = Tail(all) /\ n + 1 <= L /\ L \in 1..L
    BY <1>1, <1>3, <1>4 DEF M
  <2>2. outcomes'[L] = o
    BY <1>1, <1>2, <2>1
  <2>3. ASSUME Trailing(s, n, o), NEW i \in 1..L, i > L - (n + 1)
        PROVE  outcomes'[i] = o
    <3>1. outcomes'[i] = all[i + 1]
      BY <1>2, <2>1
    <3>2. CASE i = L
      BY <2>2, <3>2
    <3>3. CASE i # L
      <4>1. i + 1 \in 1..L /\ i + 1 > L - n
        BY <1>1, <2>3, <3>3
      <4>2. s[i + 1] = o
        BY <1>1, <2>3, <4>1 DEF Trailing, L
      <4> QED
        BY <1>1, <3>1, <4>1, <4>2
    <3> QED
      BY <3>2, <3>3
  <2>4. outcomes' # <<>> /\ Len(outcomes') = L /\ DOMAIN outcomes' = 1..L
    BY <1>1, <1>2, <2>1
  <2> QED
    BY <1>1, <1>2, <2>1, <2>2, <2>3, <2>4 DEF Trailing, M
<1>5. CASE ~(L + 1 > M)
  <2>1. outcomes' = all /\ L + 1 <= M
    BY <1>1, <1>3, <1>5
  <2>2. ASSUME Trailing(s, n, o), NEW i \in 1..(L + 1), i > (L + 1) - (n + 1)
        PROVE  all[i] = o
    <3>1. CASE i = L + 1
      BY <1>1, <3>1
    <3>2. CASE i # L + 1
      <4>1. i \in 1..L /\ i > L - n
        BY <1>1, <2>2, <3>2
      <4>2. s[i] = o
        BY <1>1, <2>2, <4>1 DEF Trailing, L
      <4> QED
        BY <1>1, <4>1, <4>2
    <3> QED
      BY <3>1, <3>2
  <2>3. Trailing(s, n, o) => n + 1 <= L + 1
    BY <1>1 DEF Trailing, L
  <2> QED
    BY <1>1, <2>1, <2>2, <2>3 DEF Trailing, M
<1> QED
  BY <1>4, <1>5

\* An error counter counts the failures at the end of the log, and only the call
\* that the consumer is at has any.
Persistence ==
    /\ Len(outcomes) <= MaxConsecutiveErrors
    /\ consumer \in {"none", "processing"} => fetchErrors = 0 /\ commitErrors = 0
    /\ consumer \in {"fetching", "fetchBackoff"} =>
         commitErrors = 0 /\ Trailing(outcomes, fetchErrors, "fetchFailed")
    /\ consumer \in {"committing", "commitBackoff"} =>
         fetchErrors = 0 /\ Trailing(outcomes, commitErrors, "commitFailed")
    /\ GivesUpOnPersistentFailure

\* No failure is counted: nothing is claimed of the log.
LEMMA NoneTrailing ==
    ASSUME NEW s \in Seq(Outcome), NEW o
    PROVE  Trailing(s, 0, o)
<1>1. Len(s) \in Nat /\ DOMAIN s = 1..Len(s)
  OBVIOUS
<1> QED
  BY <1>1 DEF Trailing

\* A log that holds nothing but the failures counted.
LEMMA FullTrailing ==
    ASSUME NEW s \in Seq(Outcome), NEW o, Len(s) <= MaxConsecutiveErrors,
           Trailing(s, MaxConsecutiveErrors, o)
    PROVE  Len(s) = MaxConsecutiveErrors /\ \A i \in DOMAIN s : s[i] = o
<1> DEFINE L == Len(s)
<1>1. L \in Nat /\ DOMAIN s = 1..L /\ L <= MaxConsecutiveErrors /\ MaxConsecutiveErrors <= L
  BY DEF Trailing
<1>2. \A i \in 1..L : i > L - MaxConsecutiveErrors => s[i] = o
  BY <1>1 DEF Trailing
<1> HIDE DEF L
<1>3. L = MaxConsecutiveErrors
  BY <1>1, ProcessAssumption
<1>4. \A i \in 1..L : i > L - MaxConsecutiveErrors
  BY <1>1, <1>3, ProcessAssumption
<1> QED
  BY <1>1, <1>2, <1>3, <1>4 DEF L

\* Steps of the consumer goroutine keep the counters in step with the log.
LEMMA PersistenceLoop ==
    ASSUME ProcessInv, Persistence,
           \/ Fetch \/ FetchFails \/ ProcessMessage \/ ProcessFails \/ Commit \/ CommitFails
           \/ Retry \/ NoticeCancel
    PROVE  Persistence'
<1>1. /\ outcomes \in Seq(Outcome) /\ Len(outcomes) <= MaxConsecutiveErrors
      /\ fetchErrors \in Nat /\ commitErrors \in Nat
      /\ 0 \in Nat /\ 0 < MaxConsecutiveErrors
  BY ProcessAssumption DEF ProcessInv, ProcessTypeOK, Persistence
<1>2. ASSUME NEW o \in Outcome, Log(o)
      PROVE  /\ outcomes' \in Seq(Outcome) /\ outcomes' # <<>>
             /\ Len(outcomes') <= MaxConsecutiveErrors
             /\ outcomes'[Len(outcomes')] = o
             /\ \A q : Trailing(outcomes', 0, q)
  BY <1>1, <1>2, LogTrailing, NoneTrailing
<1>3. CASE Fetch
  <2>1. Log("fetched") /\ consumer = "fetching" /\ consumer' = "processing"
    BY <1>3 DEF Fetch, Step
  <2>2. fetchErrors' = 0 /\ commitErrors' = 0
    BY <1>3, <2>1 DEF Fetch, Persistence
  <2> QED
    BY <1>2, <2>1, <2>2 DEF Persistence, GivesUpOnPersistentFailure, Outcome
<1>4. CASE ProcessMessage
  <2>1. Log("processed") /\ consumer = "processing" /\ consumer' = "committing"
    BY <1>4 DEF ProcessMessage, Step
  <2>2. fetchErrors' = 0 /\ commitErrors' = 0
    BY <1>4, <2>1 DEF ProcessMessage, Persistence
  <2> QED
    BY <1>2, <2>1, <2>2 DEF Persistence, GivesUpOnPersistentFailure, Outcome
<1>5. CASE ProcessFails
  <2>1. Log("processFailed") /\ consumer' = "notifying"
    BY <1>5 DEF ProcessFails, Step
  <2> QED
    BY <1>2, <2>1 DEF Persistence, GivesUpOnPersistentFailure, Outcome
<1>6. CASE Commit
  <2>1. Log("committed") /\ consumer = "committing" /\ consumer' = "fetching"
    BY <1>6 DEF Commit, Step
  <2>2. fetchErrors' = 0 /\ commitErrors' = 0
    BY <1>6, <2>1 DEF Commit, Persistence
  <2> QED
    BY <1>2, <2>1, <2>2 DEF Persistence, GivesUpOnPersistentFailure, Outcome
<1>7. CASE FetchFails
  <2>1. Log("fetchFailed") /\ consumer = "fetching" /\ fetchErrors' = fetchErrors + 1
    BY <1>7 DEF FetchFails, Step
  <2>2. /\ commitErrors' = 0 /\ fetchErrors < MaxConsecutiveErrors
        /\ Trailing(outcomes, fetchErrors, "fetchFailed")
    BY <1>7, <2>1 DEF FetchFails, Persistence, ProcessInv, Counts
  <2>3. Trailing(outcomes', fetchErrors', "fetchFailed")
    BY <1>1, <2>1, <2>2, LogTrailing DEF Outcome
  <2>4. CASE fetchErrors' >= MaxConsecutiveErrors
    <3>1. consumer' = "notifying" /\ fetchErrors' = MaxConsecutiveErrors
      BY <1>1, <1>7, <2>1, <2>2, <2>4, ProcessAssumption DEF FetchFails, Step
    <3>2. /\ Len(outcomes') = MaxConsecutiveErrors
          /\ \A i \in DOMAIN outcomes' : outcomes'[i] = "fetchFailed"
      BY <1>2, <2>1, <2>3, <3>1, FullTrailing DEF Outcome
    <3> QED
      BY <1>2, <2>1, <3>1, <3>2 DEF Persistence, GivesUpOnPersistentFailure, Outcome
  <2>5. CASE ~(fetchErrors' >= MaxConsecutiveErrors)
    <3>1. consumer' = "fetchBackoff"
      BY <1>7, <2>5 DEF FetchFails, Step
    <3> QED
      BY <1>2, <2>1, <2>2, <2>3, <3>1 DEF Persistence, GivesUpOnPersistentFailure, Outcome
  <2> QED
    BY <2>4, <2>5
<1>8. CASE CommitFails
  <2>1. Log("commitFailed") /\ consumer = "committing" /\ commitErrors' = commitErrors + 1
    BY <1>8 DEF CommitFails, Step
  <2>2. /\ fetchErrors' = 0 /\ commitErrors < MaxConsecutiveErrors
        /\ Trailing(outcomes, commitErrors, "commitFailed")
    BY <1>8, <2>1 DEF CommitFails, Persistence, ProcessInv, Counts
  <2>3. Trailing(outcomes', commitErrors', "commitFailed")
    BY <1>1, <2>1, <2>2, LogTrailing DEF Outcome
  <2>4. CASE commitErrors' >= MaxConsecutiveErrors
    <3>1. consumer' = "notifying" /\ commitErrors' = MaxConsecutiveErrors
      BY <1>1, <1>8, <2>1, <2>2, <2>4, ProcessAssumption DEF CommitFails, Step
    <3>2. /\ Len(outcomes') = MaxConsecutiveErrors
          /\ \A i \in DOMAIN outcomes' : outcomes'[i] = "commitFailed"
      BY <1>2, <2>1, <2>3, <3>1, FullTrailing DEF Outcome
    <3> QED
      BY <1>2, <2>1, <3>1, <3>2 DEF Persistence, GivesUpOnPersistentFailure, Outcome
  <2>5. CASE ~(commitErrors' >= MaxConsecutiveErrors)
    <3>1. consumer' = "commitBackoff"
      BY <1>8, <2>5 DEF CommitFails, Step
    <3> QED
      BY <1>2, <2>1, <2>2, <2>3, <3>1 DEF Persistence, GivesUpOnPersistentFailure, Outcome
  <2> QED
    BY <2>4, <2>5
<1>9. CASE Retry
  BY <1>9 DEF Retry, Step, Persistence, GivesUpOnPersistentFailure
<1>10. CASE NoticeCancel
  BY <1>10 DEF NoticeCancel, Step, Persistence, GivesUpOnPersistentFailure
<1> QED
  BY <1>3, <1>4, <1>5, <1>6, <1>7, <1>8, <1>9, <1>10

\* Every step of the process keeps the counters in step with the log.
LEMMA PersistenceNext ==
    ASSUME ProcessInv, Persistence, [ProcessNext]_processVars
    PROVE  Persistence'
<1>1. CASE UNCHANGED loopVars
  BY <1>1 DEF loopVars, Persistence, GivesUpOnPersistentFailure
<1>2. CASE StartServing
  <2>1. consumer = "none"
    BY <1>2 DEF StartServing, ProcessInv, Phases
  <2>2. /\ consumer' \in {"none", "fetching"} /\ UNCHANGED <<fetchErrors, commitErrors, outcomes>>
        /\ fetchErrors = 0 /\ commitErrors = 0
    BY <1>2, <2>1 DEF StartServing, Persistence
  <2>3. Trailing(outcomes, 0, "fetchFailed")
    BY NoneTrailing DEF ProcessInv, ProcessTypeOK
  <2> QED
    BY <2>2, <2>3 DEF Persistence, GivesUpOnPersistentFailure
<1>3. CASE TakeFatalError
  BY <1>3 DEF TakeFatalError, Persistence, GivesUpOnPersistentFailure
<1>4. CASE Restart
  <2>1. consumer' = "none" /\ fetchErrors' = 0 /\ commitErrors' = 0 /\ outcomes' = <<>>
    BY <1>4 DEF Restart
  <2>2. Len(outcomes') <= MaxConsecutiveErrors
    BY <2>1, ProcessAssumption
  <2> QED
    BY <2>1, <2>2 DEF Persistence, GivesUpOnPersistentFailure
<1>5. CASE \/ Fetch \/ FetchFails \/ ProcessMessage \/ ProcessFails \/ Commit \/ CommitFails
           \/ Retry \/ NoticeCancel
  BY <1>5, PersistenceLoop
<1>6. CASE \/ ConnectBroker \/ StartFails \/ ResolveBrokerNode \/ Subscribe \/ FatalInGoroutine
           \/ Wait \/ StartTimesOut
           \/ ConnectionLost \/ TokenExpires \/ Reconnect \/ ReconnectFails
           \/ Signal \/ RequestBegins \/ RequestEnds
           \/ TakeSignal \/ TakeConnectionLost
           \/ AwaitRequests \/ ShutdownHTTPServer \/ Exit
  BY <1>1, <1>6
     DEF ConnectBroker, StartFails, ResolveBrokerNode, Subscribe, FatalInGoroutine, Wait,
         StartTimesOut, ConnectionLost, TokenExpires, Reconnect, ReconnectFails, Signal,
         RequestBegins, RequestEnds, TakeSignal, TakeConnectionLost, AwaitRequests,
         ShutdownHTTPServer, Exit
<1>7. CASE UNCHANGED processVars
  BY <1>1, <1>7 DEF processVars
<1> QED
  BY <1>2, <1>3, <1>4, <1>5, <1>6, <1>7 DEF ProcessNext

\* The consumer gives up only on a processing error or on as many failures in a row
\* of the same call as allowed, whatever the limit (GivesUpOnPersistentFailure): a
\* success resets the counter, and no other call is made between two attempts.
THEOREM GivesUpOnlyOnPersistentFailure == ProcessSpec => []GivesUpOnPersistentFailure
<1> DEFINE Inv == ProcessInv /\ Persistence
<1>1. ProcessInit => Inv
  <2> SUFFICES ASSUME ProcessInit
               PROVE  Inv
    OBVIOUS
  <2>1. consumer = "none" /\ fetchErrors = 0 /\ commitErrors = 0 /\ outcomes = <<>>
    BY DEF ProcessInit
  <2>2. Len(outcomes) <= MaxConsecutiveErrors
    BY <2>1, ProcessAssumption
  <2> QED
    BY <2>1, <2>2, ProcessInvInit DEF Persistence, GivesUpOnPersistentFailure
<1>2. Inv /\ [ProcessNext]_processVars => Inv'
  BY ProcessInvNext, PersistenceNext
<1>3. Inv => GivesUpOnPersistentFailure
  BY DEF Persistence
<1> QED
  BY <1>1, <1>2, <1>3, PTL DEF ProcessSpec

-----------------------------------------------------------------------------
(* The API server *)

Active == {"translate", "prepare", "lookup", "publish", "wait"}

\* What a request knows at each of its waits.
\*   - It has passed the checks, and its history covers the present.
\*   - The org id of the lookup is the tenant that the caller acts for.
\*   - From the lookup on, the connection has been within reach.
RequestInv(r) ==
    /\ pc[r] = "idle" => sent[r] = "no" /\ answer[r] = NoAnswer
    /\ pc[r] \in Active =>
         /\ request[r] \in ApiRequest
         /\ Refusal(request[r]) = NoAnswer
         /\ Reach(request[r], connections) \in held[r]
         /\ answer[r] = NoAnswer
    /\ pc[r] = "translate" => request[r].endpoint \notin V2
    /\ pc[r] \in {"prepare", "lookup"} => lookupOrg[r] = ActsFor(request[r])
    /\ pc[r] \in {"publish", "wait"} =>
         /\ "reachable" \in held[r]
         /\ request[r].endpoint \notin V1Status \cup {"v2/status"}
    /\ sent[r] # "no" => "reachable" \in held[r]
    /\ answer[r].status = "connected" => "reachable" \in held[r]
    /\ answer[r].status = "disconnected" /\ request[r].endpoint = "v2/status" =>
         "unreachable" \in held[r]

ApiInv == ApiTypeOK /\ \A r \in Request : RequestInv(r)

\* An account of the body that passes the checks of the v1 API is the caller's.
LEMMA TranslatesForCaller ==
    ASSUME NEW q \in ApiRequest, Refusal(q) = NoAnswer, q.endpoint \notin V2
    PROVE  OrgOf[q.account] = ActsFor(q)
<1>1. CASE q.endpoint \in Management
  BY <1>1 DEF ActsFor
<1>2. CASE q.endpoint \notin Management
  <2>1. q.endpoint \in {"v1/message", "v1/connection_status"}
    BY <1>2 DEF ApiRequest, Endpoint, MessageEndpoint, V1Status, Management, Command, V2
  <2>2. Code(401) # NoAnswer /\ Code(400) # NoAnswer /\ Code(403) # NoAnswer
    <3>1. NoAnswer.code = 0 /\ \A n \in Nat : Code(n).code = n
      BY DEF Code, NoAnswer
    <3> QED
      BY <3>1
  <2>3. q.account = q.principal.account
    BY <2>1, <2>2 DEF Refusal, AuthenticationError
  <2>4. q.account # NoAccount
    BY ApiAssumption DEF ApiRequest
  <2> QED
    BY <1>2, <2>3, <2>4 DEF ActsFor
<1> QED
  BY <1>1, <1>2

\* The lookup query finds exactly the rows within reach of the request.
LEMMA LookupIsReach ==
    ASSUME NEW r \in Request, lookupOrg[r] = ActsFor(request[r])
    PROVE  Matching(r) # {} <=> Reach(request[r], connections) = "reachable"
BY DEF Matching, Matches, FindConnectionByClientID, Reach, MayReach

-----------------------------------------------------------------------------
\* The answers are answers.
LEMMA AnswerType ==
    /\ \A q : Refusal(q) \in Answer
    /\ \A f : \A e \in Endpoint : FailureAnswer(e, f) \in Answer
    /\ \A b : \A e \in MessageEndpoint \cup Command \cup {"connection/ping"} : PublishAnswer(e, b) \in Answer
    /\ Connected \in Answer /\ NoAnswer \in Answer
<1>1. \A n \in {200, 201, 400, 401, 403, 404, 500} : Code(n) \in Answer
  BY DEF Code, Answer
<1>2. Connected \in Answer /\ Disconnected \in Answer /\ NoAnswer \in Answer
  BY DEF Connected, Disconnected, NoAnswer, Answer
<1>3. \A q : Refusal(q) \in Answer
  BY <1>1, <1>2 DEF Refusal, AuthenticationError
<1>4. \A f : \A e \in Endpoint : FailureAnswer(e, f) \in Answer
  BY <1>1, <1>2 DEF FailureAnswer, Endpoint, MessageEndpoint, V1Status, Management, Command
<1>5. \A b : \A e \in MessageEndpoint \cup Command \cup {"connection/ping"} : PublishAnswer(e, b) \in Answer
  BY <1>1, <1>2 DEF PublishAnswer, MessageEndpoint, Command
<1> QED
  BY <1>2, <1>3, <1>4, <1>5

\* Which answers carry a connection status.
LEMMA AnswerStatus ==
    /\ \A q : Refusal(q).status = "none"
    /\ \A f : \A e \in Endpoint :
         /\ FailureAnswer(e, f).status # "connected"
         /\ e = "v2/status" /\ FailureAnswer(e, f).status = "disconnected" => f = "notFound"
    /\ \A b : \A e \in MessageEndpoint \cup Command \cup {"connection/ping"} :
         PublishAnswer(e, b).status # "disconnected"
    /\ NoAnswer.status = "none" /\ Connected.status = "connected"
<1>1. \A n : Code(n).status = "none"
  BY DEF Code
<1>2. Connected.status = "connected" /\ Disconnected.status = "disconnected" /\ NoAnswer.status = "none"
  BY DEF Connected, Disconnected, NoAnswer
<1>3. \A q : Refusal(q).status = "none"
  BY <1>1, <1>2 DEF Refusal, AuthenticationError
<1>4. ASSUME NEW e \in Endpoint, NEW f
      PROVE  /\ FailureAnswer(e, f).status # "connected"
             /\ e = "v2/status" /\ FailureAnswer(e, f).status = "disconnected" => f = "notFound"
  BY <1>1, <1>2 DEF FailureAnswer, Endpoint, MessageEndpoint, V1Status, Management, Command
<1>5. \A b : \A e \in MessageEndpoint \cup Command \cup {"connection/ping"} :
        PublishAnswer(e, b).status # "disconnected"
  BY <1>1, <1>2 DEF PublishAnswer, MessageEndpoint, Command
<1> QED
  BY <1>2, <1>3, <1>4, <1>5

-----------------------------------------------------------------------------
(* One request at a time *)

Same(s) ==
    /\ pc'[s] = pc[s]
    /\ request'[s] = request[s]
    /\ lookupOrg'[s] = lookupOrg[s]
    /\ sent'[s] = sent[s]
    /\ answer'[s] = answer[s]
    /\ held'[s] = held[s]

\* A request that a step does not touch keeps its invariant.
LEMMA Untouched ==
    ASSUME NEW s \in Request, RequestInv(s), Same(s), connections' = connections
    PROVE  RequestInv(s)'
BY DEF RequestInv, Same

\* A handler's step on r leaves the other requests alone, so that only r counts.
LEMMA OneRequest ==
    ASSUME NEW r \in Request, ApiInv, ApiTypeOK', RequestInv(r)', connections' = connections,
           \A s \in Request \ {r} : Same(s)
    PROVE  ApiInv'
BY Untouched DEF ApiInv

\* A request that comes in starts with the table of this moment in its history (Receive).
LEMMA ReceiveStep ==
    ASSUME NEW r \in Request, NEW q \in ApiRequest, ApiInv, Receive(r, q)
    PROVE  ApiInv'
<1> USE DEF ApiInv
<1>1. ApiTypeOK'
  <2>1. q.principal.org_id \in OrgID \cup {NoOrg}
    BY ApiAssumption DEF ApiRequest, PrincipalType
  <2>2. Reach(q, connections) \in {"reachable", "unreachable"}
    BY DEF Reach
  <2> QED
    BY <2>1, <2>2, AnswerType DEF Receive, ApiTypeOK, ConnectionsTypeOK
<1>2. \A s \in Request \ {r} : Same(s)
  BY DEF Receive, Same, ApiTypeOK
<1>3. RequestInv(r)'
  <2>1. /\ pc'[r] = IF Authenticated(q) /\ ~HasPrincipal(q) THEN "aborted"
                    ELSE IF Refusal(q) # NoAnswer THEN "done"
                    ELSE IF q.endpoint \in V2 THEN "prepare" ELSE "translate"
        /\ answer'[r] = IF Authenticated(q) /\ ~HasPrincipal(q) THEN NoAnswer ELSE Refusal(q)
        /\ request'[r] = q
        /\ lookupOrg'[r] = IF q.endpoint \in V2 THEN q.principal.org_id ELSE NoOrg
        /\ held'[r] = {Reach(q, connections)}
        /\ sent'[r] = "no"
        /\ connections' = connections
    BY DEF Receive, ApiTypeOK, RequestInv
  <2>2. answer'[r].status = "none"
    BY <2>1, AnswerStatus
  <2>3. pc'[r] # "idle" /\ pc'[r] \notin {"publish", "wait"}
    BY <2>1
  <2>4. pc'[r] \in Active => Refusal(q) = NoAnswer /\ answer'[r] = NoAnswer
    BY <2>1 DEF Active
  <2>5. pc'[r] \in {"prepare", "lookup"} => lookupOrg'[r] = ActsFor(q)
    BY <2>1 DEF ActsFor
  <2>6. pc'[r] = "translate" => q.endpoint \notin V2
    BY <2>1
  <2> QED
    BY <2>1, <2>2, <2>3, <2>4, <2>5, <2>6 DEF RequestInv
<1> QED
  BY <1>1, <1>2, <1>3, OneRequest DEF Receive

\* The translated org id is the one that the caller acts for (Translate, EANToOrgID).
LEMMA TranslateStep ==
    ASSUME NEW r \in Request, ApiInv, Translate(r)
    PROVE  ApiInv'
<1> USE DEF ApiInv
<1>1. /\ pc[r] = "translate"
      /\ request[r] \in ApiRequest
      /\ Refusal(request[r]) = NoAnswer
      /\ request[r].endpoint \notin V2
  BY DEF Translate, RequestInv, Active
<1>2. OrgOf[request[r].account] = ActsFor(request[r])
  BY <1>1, TranslatesForCaller
<1>3. OrgOf[request[r].account] \in OrgID \cup {NoOrg}
  BY <1>1, ApiAssumption DEF ApiRequest
<1>4. ApiTypeOK'
  BY <1>3 DEF Translate, ApiTypeOK, ConnectionsTypeOK
<1>5. \A s \in Request \ {r} : Same(s)
  BY DEF Translate, Same, ApiTypeOK
<1>6. RequestInv(r)'
  BY <1>1, <1>2 DEF Translate, RequestInv, ApiTypeOK, Active
<1> QED
  BY <1>4, <1>5, <1>6, OneRequest DEF Translate

\* An answer that does not claim more than the history holds ends a request well.
LEMMA RespondStep ==
    ASSUME NEW r \in Request, ApiInv, pc[r] \in Active, NEW a \in Answer, Respond(r, a),
           sent' \in [Request -> {"no", "inflight", "accepted", "failed"}],
           \A s \in Request \ {r} : sent'[s] = sent[s],
           sent'[r] # "no" => "reachable" \in held[r],
           a.status = "connected" => "reachable" \in held[r],
           a.status = "disconnected" /\ request[r].endpoint = "v2/status" => "unreachable" \in held[r]
    PROVE  ApiInv'
<1> USE DEF ApiInv
<1>1. ApiTypeOK'
  BY DEF Respond, ApiTypeOK, ConnectionsTypeOK
<1>2. \A s \in Request \ {r} : Same(s)
  BY DEF Respond, Same, ApiTypeOK
<1>3. RequestInv(r)'
  BY DEF Respond, RequestInv, ApiTypeOK, Active
<1> QED
  BY <1>1, <1>2, <1>3, OneRequest DEF Respond

\* A failed translation is answered without a v2 status (TranslateFails).
LEMMA TranslateFailsStep ==
    ASSUME NEW r \in Request, ApiInv, TranslateFails(r)
    PROVE  ApiInv'
<1> DEFINE a == FailureAnswer(request[r].endpoint, "untranslated")
<1>1. pc[r] \in Active /\ request[r].endpoint \in Endpoint
  BY DEF ApiInv, TranslateFails, RequestInv, Active, ApiRequest
<1>2. a \in Answer
  BY <1>1, AnswerType
<1>3. a.status # "connected" /\ (request[r].endpoint = "v2/status" => a.status # "disconnected")
  BY <1>1, AnswerStatus
<1>4. sent' = sent /\ (sent[r] # "no" => "reachable" \in held[r]) /\ ApiTypeOK
  BY DEF ApiInv, TranslateFails, RequestInv
<1>5. Respond(r, a)
  BY DEF TranslateFails
<1> HIDE DEF a
<1> QED
  BY <1>1, <1>2, <1>3, <1>4, <1>5, RespondStep DEF ApiTypeOK

\* The statement is prepared for the org id that the caller acts for (Prepare).
LEMMA PrepareStep ==
    ASSUME NEW r \in Request, ApiInv, Prepare(r)
    PROVE  ApiInv'
<1> USE DEF ApiInv
<1>1. ApiTypeOK'
  BY DEF Prepare, ApiTypeOK, ConnectionsTypeOK
<1>2. \A s \in Request \ {r} : Same(s)
  BY DEF Prepare, Same, ApiTypeOK
<1>3. RequestInv(r)'
  BY DEF Prepare, RequestInv, ApiTypeOK, Active
<1> QED
  BY <1>1, <1>2, <1>3, OneRequest DEF Prepare

\* A failed Prepare is answered without a v2 status (PrepareFails).
LEMMA PrepareFailsStep ==
    ASSUME NEW r \in Request, ApiInv, PrepareFails(r)
    PROVE  ApiInv'
<1> DEFINE a == FailureAnswer(request[r].endpoint, "error")
<1>1. pc[r] \in Active /\ request[r].endpoint \in Endpoint
  BY DEF ApiInv, PrepareFails, RequestInv, Active, ApiRequest
<1>2. a \in Answer
  BY <1>1, AnswerType
<1>3. a.status # "connected" /\ (request[r].endpoint = "v2/status" => a.status # "disconnected")
  BY <1>1, AnswerStatus
<1>4. sent' = sent /\ (sent[r] # "no" => "reachable" \in held[r]) /\ ApiTypeOK
  BY DEF ApiInv, PrepareFails, RequestInv
<1>5. Respond(r, a)
  BY DEF PrepareFails
<1> HIDE DEF a
<1> QED
  BY <1>1, <1>2, <1>3, <1>4, <1>5, RespondStep DEF ApiTypeOK

\* The status queries and the messages of the lookup that succeeded.
LEMMA LookupStep ==
    ASSUME NEW r \in Request, ApiInv, Lookup(r)
    PROVE  ApiInv'
<1>1. /\ pc[r] = "lookup"
      /\ request[r] \in ApiRequest
      /\ lookupOrg[r] = ActsFor(request[r])
      /\ Reach(request[r], connections) \in held[r]
      /\ sent' = sent
      /\ sent[r] # "no" => "reachable" \in held[r]
      /\ ApiTypeOK
  BY DEF ApiInv, Lookup, RequestInv, Active
<1>2. "reachable" \in held[r]
  <2>1. Matching(r) # {}
    BY DEF Lookup
  <2> QED
    BY <1>1, <2>1, LookupIsReach
<1>3. CASE request[r].endpoint \in V1Status \cup {"v2/status"}
  <2>1. Respond(r, Connected)
    BY <1>3 DEF Lookup
  <2> QED
    BY <1>1, <1>2, <2>1, RespondStep, AnswerType, AnswerStatus DEF ApiTypeOK, Active
<1>4. CASE request[r].endpoint \notin V1Status \cup {"v2/status"}
  <2>1. /\ pc' = [pc EXCEPT ![r] = "publish"]
        /\ UNCHANGED <<connections, request, lookupOrg, sent, answer, held>>
    BY <1>4 DEF Lookup
  <2>2. ApiTypeOK'
    BY <1>1, <2>1 DEF ApiTypeOK, ConnectionsTypeOK
  <2>3. \A s \in Request \ {r} : Same(s)
    BY <1>1, <2>1 DEF Same, ApiTypeOK
  <2>4. RequestInv(r)'
    BY <1>1, <1>2, <1>4, <2>1 DEF ApiInv, RequestInv, ApiTypeOK, Active
  <2> QED
    BY <2>1, <2>2, <2>3, <2>4, OneRequest
<1> QED
  BY <1>3, <1>4

\* NotFoundError means that nothing is within reach at this moment.
LEMMA LookupFailsStep ==
    ASSUME NEW r \in Request, ApiInv, LookupFails(r)
    PROVE  ApiInv'
<1>1. /\ pc[r] = "lookup"
      /\ pc[r] \in Active
      /\ request[r].endpoint \in Endpoint
      /\ lookupOrg[r] = ActsFor(request[r])
      /\ Reach(request[r], connections) \in held[r]
      /\ sent' = sent
      /\ sent[r] # "no" => "reachable" \in held[r]
      /\ ApiTypeOK
  BY DEF ApiInv, LookupFails, RequestInv, Active, ApiRequest
<1>2. PICK f \in {"notFound", "error"} :
        /\ Respond(r, FailureAnswer(request[r].endpoint, f))
        /\ f = "notFound" => Matching(r) = {}
  BY DEF LookupFails
<1>3. f = "notFound" => "unreachable" \in held[r]
  <2>1. Reach(request[r], connections) \in {"reachable", "unreachable"}
    BY DEF Reach
  <2> QED
    BY <1>1, <1>2, <2>1, LookupIsReach
<1> DEFINE a == FailureAnswer(request[r].endpoint, f)
<1>4. a \in Answer
  BY <1>1, AnswerType
<1>5. a.status # "connected" /\ (request[r].endpoint = "v2/status" /\ a.status = "disconnected" => f = "notFound")
  BY <1>1, AnswerStatus
<1>6. Respond(r, a)
  BY <1>2
<1> HIDE DEF a
<1> QED
  BY <1>1, <1>3, <1>4, <1>5, <1>6, RespondStep DEF ApiTypeOK

\* A message is sent only after a lookup that found the connection (SendMessage, sendMessage).
LEMMA SendStep ==
    ASSUME NEW r \in Request, ApiInv, SendMessage(r) \/ BrokerAccepts(r)
    PROVE  ApiInv'
<1> USE DEF ApiInv
<1>1. ApiTypeOK'
  BY DEF SendMessage, BrokerAccepts, ApiTypeOK, ConnectionsTypeOK
<1>2. \A s \in Request \ {r} : Same(s)
  BY DEF SendMessage, BrokerAccepts, Same, ApiTypeOK
<1>3. CASE SendMessage(r)
  <2>1. RequestInv(r)'
    BY <1>3 DEF SendMessage, RequestInv, ApiTypeOK, Active
  <2> QED
    BY <1>1, <1>2, <1>3, <2>1, OneRequest DEF SendMessage
<1>4. CASE BrokerAccepts(r)
  <2>1. RequestInv(r)'
    BY <1>4 DEF BrokerAccepts, RequestInv, ApiTypeOK, Active
  <2> QED
    BY <1>1, <1>2, <1>4, <2>1, OneRequest DEF BrokerAccepts
<1> QED
  BY <1>3, <1>4

\* Published or not, the message was for a connection within reach.
LEMMA SendEndsStep ==
    ASSUME NEW r \in Request, ApiInv, SendReturns(r) \/ SendFails(r)
    PROVE  ApiInv'
<1>1. /\ pc[r] \in Active
      /\ request[r].endpoint \in Endpoint
      /\ request[r].endpoint \notin V1Status \cup {"v2/status"}
      /\ "reachable" \in held[r]
      /\ ApiTypeOK
  BY DEF ApiInv, SendReturns, SendFails, RequestInv, Active, ApiRequest
<1>2. request[r].endpoint \in MessageEndpoint \cup Command \cup {"connection/ping"}
  BY <1>1 DEF Endpoint, MessageEndpoint, V1Status, Management, Command
<1>3. PICK b \in BOOLEAN : Respond(r, PublishAnswer(request[r].endpoint, b))
  BY DEF SendReturns, SendFails
<1>4. /\ sent' \in [Request -> {"no", "inflight", "accepted", "failed"}]
      /\ \A s \in Request \ {r} : sent'[s] = sent[s]
  BY <1>1 DEF SendReturns, SendFails, ApiTypeOK
<1> DEFINE a == PublishAnswer(request[r].endpoint, b)
<1>5. a \in Answer /\ a.status # "disconnected"
  BY <1>2, AnswerType, AnswerStatus
<1>6. Respond(r, a)
  BY <1>3
<1> HIDE DEF a
<1> QED
  BY <1>1, <1>4, <1>5, <1>6, RespondStep

\* A slot that is used again starts without history (Close).
LEMMA CloseStep ==
    ASSUME NEW r \in Request, ApiInv, Close(r)
    PROVE  ApiInv'
<1> USE DEF ApiInv
<1>1. ApiTypeOK'
  BY AnswerType DEF Close, ApiTypeOK, ConnectionsTypeOK
<1>2. \A s \in Request \ {r} : Same(s)
  BY DEF Close, Same, ApiTypeOK
<1>3. RequestInv(r)'
  BY AnswerStatus DEF Close, RequestInv, ApiTypeOK, Active
<1> QED
  BY <1>1, <1>2, <1>3, OneRequest DEF Close

-----------------------------------------------------------------------------
(* The table changes *)

\* Whatever the other processes write, every open request takes note of it.
LEMMA TableStep ==
    ASSUME ApiInv, connections' \in [ClientID -> Seq(Row)], RequestsSee(connections')
    PROVE  ApiInv'
<1> USE DEF ApiInv
<1>1. \A r \in Request : Reach(request[r], connections') \in {"reachable", "unreachable"}
  BY DEF Reach
<1>2. ApiTypeOK'
  BY <1>1 DEF RequestsSee, ApiTypeOK, ConnectionsTypeOK
<1>3. ASSUME NEW r \in Request
      PROVE  RequestInv(r)'
  <2>1. RequestInv(r)
    OBVIOUS
  <2>2. /\ pc'[r] = pc[r] /\ request'[r] = request[r] /\ lookupOrg'[r] = lookupOrg[r]
        /\ sent'[r] = sent[r] /\ answer'[r] = answer[r]
        /\ held[r] \subseteq held'[r]
        /\ pc[r] \in Active => Reach(request[r], connections') \in held'[r]
    BY <1>3 DEF RequestsSee, ApiTypeOK, Active
  <2> QED
    BY <2>1, <2>2 DEF RequestInv
<1> QED
  BY <1>2, <1>3

\* A registration or its end joins the histories of the requests in progress (ConsumerWrites).
LEMMA ConsumerWritesStep ==
    ASSUME ApiInv, ConsumerWrites
    PROVE  ApiInv'
<1>1. connections \in Tables(Row)
  BY DEF ApiInv, ApiTypeOK, ConnectionsTypeOK, Tables
<1>2. PICK m \in Message :
        /\ \/ \E o \in OrgID \cup {NoOrg}, seen \in 0 .. Len(connections[m.client_id]) :
                connections' = Register(connections, m.client_id, m, o, seen)
           \/ connections' = Unregister(connections, m.client_id)
        /\ RequestsSee(connections')
  BY DEF ConsumerWrites
<1>3. m \in ControlMessage /\ m.client_id \in ClientID
  BY TableAssumption DEF ControlMessage
<1>4. ASSUME NEW o \in OrgID \cup {NoOrg}, NEW seen \in 0 .. Len(connections[m.client_id])
      PROVE  Register(connections, m.client_id, m, o, seen) \in Tables(Row)
  <2>1. \A row \in Row : UpdatedRow(row, m, o) \in Row
    BY <1>3, UpdatedRowType
  <2>2. InsertedRow(m, o) \in Row
    BY <1>3, InsertedRowType
  <2>3. seen \in Nat
    BY <1>1, <1>3 DEF Tables
  <2> QED
    BY <1>1, <1>3, <2>1, <2>2, <2>3, RegisterIn
<1>5. Unregister(connections, m.client_id) \in Tables(Row)
  BY <1>1, <1>3, UnregisterIn
<1>6. connections' \in Tables(Row)
  BY <1>2, <1>4, <1>5
<1> QED
  BY <1>2, <1>6, TableStep DEF Tables

\* A tenant that is found or lost joins the histories of the requests in progress (UpdaterWrites).
LEMMA UpdaterWritesStep ==
    ASSUME ApiInv, UpdaterWrites
    PROVE  ApiInv'
<1>1. connections \in Tables(Row)
  BY DEF ApiInv, ApiTypeOK, ConnectionsTypeOK, Tables
<1>2. PICK c \in ClientID :
        /\ \/ \E o \in OrgID : connections' = RecordSuccessfulTenantLookup(connections, c, o)
           \/ connections' = RecordFailedTenantLookup(connections, c)
        /\ RequestsSee(connections')
  BY DEF UpdaterWrites
<1>3. ASSUME NEW o \in OrgID
      PROVE  RecordSuccessfulTenantLookup(connections, c, o) \in Tables(Row)
  <2>1. \A row \in Row : WithTenant(row, o) \in Row
    BY UpdaterRowType
  <2> QED
    BY <1>1, <2>1, RecordSuccessIn
<1>4. RecordFailedTenantLookup(connections, c) \in Tables(Row)
  <2>1. \A row \in Row : WithoutTenant(row) \in Row
    BY UpdaterRowType
  <2> QED
    BY <1>1, <2>1, RecordFailureIn
<1>5. connections' \in Tables(Row)
  BY <1>2, <1>3, <1>4
<1> QED
  BY <1>2, <1>5, TableStep DEF Tables

-----------------------------------------------------------------------------
\* The API server starts without requests.
LEMMA ApiInvInit == ApiInit => ApiInv
<1> SUFFICES ASSUME ApiInit PROVE ApiInv
  OBVIOUS
<1>1. ApiTypeOK
  BY AnswerType DEF ApiInit, ApiTypeOK, ConnectionsTypeOK, ConnectionsInit
<1>2. \A r \in Request : RequestInv(r)
  BY AnswerStatus DEF ApiInit, RequestInv, Active
<1> QED
  BY <1>1, <1>2 DEF ApiInv

\* Every step of a handler, the broker or another process preserves the invariant.
LEMMA ApiInvNext == ApiInv /\ [ApiNext]_apiVars => ApiInv'
<1> SUFFICES ASSUME ApiInv, [ApiNext]_apiVars PROVE ApiInv'
  OBVIOUS
<1>1. ASSUME NEW r \in Request, HandlerStep(r)
      PROVE  ApiInv'
  BY <1>1, TranslateStep, TranslateFailsStep, PrepareStep, PrepareFailsStep, LookupStep, LookupFailsStep, SendStep, SendEndsStep
     DEF HandlerStep
<1>2. CASE \E r \in Request, q \in ApiRequest : Receive(r, q)
  BY <1>2, ReceiveStep
<1>3. CASE \E r \in Request : BrokerAccepts(r) \/ Close(r)
  BY <1>3, SendStep, CloseStep
<1>4. CASE ConsumerWrites \/ UpdaterWrites
  BY <1>4, ConsumerWritesStep, UpdaterWritesStep
<1>5. CASE UNCHANGED apiVars
  <2>1. ApiTypeOK'
    BY <1>5 DEF ApiInv, apiVars, requestVars, ApiTypeOK, ConnectionsTypeOK
  <2>2. \A r \in Request : RequestInv(r)'
    BY <1>5, Untouched DEF ApiInv, apiVars, requestVars, Same
  <2> QED
    BY <2>1, <2>2 DEF ApiInv
<1> QED
  BY <1>1, <1>2, <1>3, <1>4, <1>5 DEF ApiNext

\* The state of the API server is well-typed.
THEOREM ApiTypeCorrect == ApiSpec => []ApiTypeOK
<1>1. ApiInv => ApiTypeOK
  BY DEF ApiInv
<1> QED
  BY <1>1, ApiInvInit, ApiInvNext, PTL DEF ApiSpec

\* Tenant isolation: no message ever goes to a connection that was not, at some
\* time during its request, within reach of the caller (createConnectorClientProxy,
\* the account check of the v1 API, and the lookup queries together).
THEOREM TenantIsolation == ApiSpec => []MessagesStayInTenant
<1>1. ApiInv => MessagesStayInTenant
  BY DEF ApiInv, RequestInv, MessagesStayInTenant
<1> QED
  BY <1>1, ApiInvInit, ApiInvNext, PTL DEF ApiSpec

\* Status answers were true at some time while the request was handled.
THEOREM StatusWasTrue == ApiSpec => []ReportedStatusWasTrue
<1>1. ApiInv => ReportedStatusWasTrue
  BY DEF ApiInv, RequestInv, ReportedStatusWasTrue
<1> QED
  BY <1>1, ApiInvInit, ApiInvNext, PTL DEF ApiSpec
=============================================================================
