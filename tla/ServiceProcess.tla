---------------------------- MODULE ServiceProcess ----------------------------
(***************************************************************************)
(* The inside of one process of cloud-connector: the main goroutine of     *)
(* startKafkaMessageConsumer, startMqttMessageConsumer or                  *)
(* startCloudConnectorApiServer, the handlers that the MQTT client library *)
(* calls in goroutines of its own, the requests of the HTTP server, and    *)
(* the consumer goroutine of the kafka consumer.  They meet on unbuffered  *)
(* channels: a goroutine in state "notifying" is blocked in a send until   *)
(* main receives.                                                          *)
(*                                                                         *)
(* KafkaMessageConsumer and MqttMessageConsumer abstract their process to  *)
(* one that is up or down.                                                 *)
(***************************************************************************)
EXTENDS Naturals, Sequences

CONSTANTS
    Service,                      \* the services to look at
    MaxConsecutiveErrors,         \* of fetches and of commits (10 in the code)
    DnsLookupTimeout,             \* of logBrokerNode, in seconds (2 in the code)
    StartTimeout,                 \* of main's wait for the connect handler (2 in the code)
    HttpShutdownTimeout,          \* of main's wait for HTTP requests (2 in the code)
    MaxRequests                   \* bound: HTTP requests at a time

ASSUME ProcessAssumption ==
    /\ Service \subseteq {"kafka_consumer", "mqtt_consumer", "api_server"}
    /\ MaxConsecutiveErrors \in Nat \ {0}
    /\ DnsLookupTimeout \in Nat
    /\ StartTimeout \in Nat
    /\ HttpShutdownTimeout \in Nat
    /\ MaxRequests \in Nat

VARIABLES
    service,          \* which of the services the process runs
    main,             \* the main goroutine; "failed": the process did not start,
                      \* "exited": it ended later
    elapsed,          \* seconds that main has waited for the connect handler
    shutdownTime,     \* seconds that main has waited for HTTP requests
    connectHandler,   \* the on-connect handler
    lostHandler,      \* the connection-lost handler, "absent" when the process is
                      \* configured to reconnect
    consumer,         \* the consumer goroutine
    requests,         \* number of HTTP requests that are being handled
    connected,        \* is the MQTT client connected?
    generator,        \* how the process gets its tokens for the broker
    token,            \* the token in the options of the MQTT client
    signalled,        \* does signalChan hold a signal?
    cancelled,        \* shutdownCtx
    fetchErrors,      \* consecutiveFetchErrors
    commitErrors,     \* consecutiveCommitErrors
    outcomes          \* history: the latest outcomes of the loop's calls

mqttVars == <<connectHandler, lostHandler, connected, generator, token>>

loopVars == <<consumer, fetchErrors, commitErrors, outcomes>>

waitVars == <<elapsed, shutdownTime>>

processVars == <<service, main, waitVars, mqttVars, requests, signalled, cancelled, loopVars>>

Outcome == {"fetched", "fetchFailed", "processed", "processFailed", "committed", "commitFailed"}

ProcessTypeOK ==
    /\ service \in Service
    /\ main \in {"connecting", "waiting", "serving", "draining", "stopping", "failed", "exited"}
    /\ elapsed \in 0..StartTimeout
    /\ shutdownTime \in 0..HttpShutdownTimeout
    /\ connectHandler \in {"none", "resolving", "notifying", "subscribing", "done"}
    /\ lostHandler \in {"absent", "none", "notifying", "done"}
    /\ consumer \in {"none", "fetching", "fetchBackoff", "processing", "committing",
                     "commitBackoff", "notifying", "stopped"}
    /\ requests \in 0..MaxRequests
    /\ connected \in BOOLEAN
    /\ generator \in {"none", "jwt_rsa_generator", "jwt_file_reader"}
    /\ token \in {"valid", "expired"}
    /\ signalled \in BOOLEAN
    /\ cancelled \in BOOLEAN
    /\ fetchErrors \in 0..MaxConsecutiveErrors
    /\ commitErrors \in 0..MaxConsecutiveErrors
    /\ outcomes \in Seq(Outcome)

\* WithJwtAsHttpHeader: a generated token is valid; the one in the file may be old.
\* ("none": a password or a certificate, which does not expire.)
FirstTokens(g) == IF g = "jwt_file_reader" THEN {"valid", "expired"} ELSE {"valid"}

ProcessInit ==
    /\ service \in Service
    /\ main = "connecting"
    /\ elapsed = 0
    /\ shutdownTime = 0
    /\ connectHandler = "none"
    /\ lostHandler \in {"absent", "none"}
    /\ consumer = "none"
    /\ requests = 0
    /\ connected = FALSE
    /\ generator \in {"none", "jwt_rsa_generator", "jwt_file_reader"}
    /\ token \in FirstTokens(generator)
    /\ signalled = FALSE
    /\ cancelled = FALSE
    /\ fetchErrors = 0
    /\ commitErrors = 0
    /\ outcomes = <<>>

Running == main \notin {"failed", "exited"}

-----------------------------------------------------------------------------
(* Start of the process *)

\* CreateBrokerConnection returns; the client library calls the on-connect handler.
\* The MQTT message consumer does not wait for it.
ConnectBroker ==
    /\ main = "connecting"
    /\ token # "expired"
    /\ main' = IF service = "mqtt_consumer" THEN "serving" ELSE "waiting"
    /\ connected' = TRUE
    /\ connectHandler' = "resolving"
    /\ UNCHANGED <<service, waitVars, lostHandler, generator, token, requests, signalled,
                   cancelled, loopVars>>

\* A part of the setup, or the connection to the broker, fails: log.Fatal.
StartFails ==
    /\ main = "connecting"
    /\ main' = "failed"
    /\ UNCHANGED <<service, waitVars, mqttVars, requests, signalled, cancelled, loopVars>>

\* logBrokerNode, which takes up to dnsLookupTimeout, comes before the handler
\* that notifies main of the first connection, or subscribes.
ResolveBrokerNode ==
    /\ Running
    /\ connectHandler = "resolving"
    /\ connectHandler' = IF service = "mqtt_consumer" THEN "subscribing" ELSE "notifying"
    /\ UNCHANGED <<service, main, waitVars, lostHandler, connected, generator, token, requests,
                   signalled, cancelled, loopVars>>

\* subscribeOnMqttConnectHandler returns.
Subscribe ==
    /\ Running
    /\ connectHandler = "subscribing"
    /\ connectHandler' = "done"
    /\ UNCHANGED <<service, main, waitVars, lostHandler, connected, generator, token, requests,
                   signalled, cancelled, loopVars>>

\* A subscription is refused or lost, the write of a message to Kafka fails, or
\* the HTTP server cannot listen: Fatal in a goroutine ends the process.
FatalInGoroutine ==
    /\ \/ main = "serving"
       \/ Running /\ service = "mqtt_consumer" /\ connectHandler # "none"
    /\ main' = "exited"
    /\ UNCHANGED <<service, waitVars, mqttVars, requests, signalled, cancelled, loopVars>>

\* main receives from connectedChan, starts the consumer and gets to its select.
StartServing ==
    /\ main = "waiting"
    /\ connectHandler = "notifying"
    /\ main' = "serving"
    /\ connectHandler' = "done"
    /\ consumer' = IF service = "kafka_consumer" THEN "fetching" ELSE "none"
    /\ UNCHANGED <<service, waitVars, lostHandler, connected, generator, token, requests,
                   signalled, cancelled, fetchErrors, commitErrors, outcomes>>

\* A second passes.  The DNS lookups end by their time limit, and main does not
\* sleep on when the handler has something to send.
Wait ==
    /\ main = "waiting"
    /\ elapsed < StartTimeout
    /\ connectHandler = "resolving"
    /\ elapsed < DnsLookupTimeout
    /\ elapsed' = elapsed + 1
    /\ UNCHANGED <<service, main, shutdownTime, mqttVars, requests, signalled, cancelled, loopVars>>

\* main has waited long enough: log.Fatal.
StartTimesOut ==
    /\ main = "waiting"
    /\ elapsed >= StartTimeout
    /\ main' = "failed"
    /\ UNCHANGED <<service, waitVars, mqttVars, requests, signalled, cancelled, loopVars>>

-----------------------------------------------------------------------------
(* The MQTT connection *)

\* The connection is lost (external).
ConnectionLost ==
    /\ Running
    /\ connected
    /\ connected' = FALSE
    /\ lostHandler' = IF lostHandler = "absent" THEN "absent" ELSE "notifying"
    /\ UNCHANGED <<service, main, waitVars, connectHandler, generator, token, requests,
                   signalled, cancelled, loopVars>>

TokenExpires ==
    /\ Running
    /\ generator # "none"
    /\ token = "valid"
    /\ token' = "expired"
    /\ UNCHANGED <<service, main, waitVars, connectHandler, lostHandler, connected, generator,
                   requests, signalled, cancelled, loopVars>>

\* Mutant: there is no reconnecting handler.
NotRefreshed == {token}

\* WithJwtReconnectingHandler, before every attempt to reconnect: a generated token
\* is new, the one of the file was read at the start, and one that could not be
\* generated leaves the old one in place.
Refreshed == IF generator = "jwt_rsa_generator" THEN {"valid", token} ELSE {token}

Reconnecting ==
    /\ Running
    /\ main # "connecting"
    /\ ~connected
    /\ lostHandler = "absent"

\* Automatic reconnect; the handler is called again.  It subscribes again, but
\* sync.Once keeps it from notifying main again.
Reconnect ==
    /\ Reconnecting
    /\ token' \in Refreshed
    /\ token' # "expired"
    /\ connected' = TRUE
    /\ connectHandler' = IF service = "mqtt_consumer" THEN "resolving" ELSE connectHandler
    /\ UNCHANGED <<service, main, waitVars, lostHandler, generator, requests, signalled,
                   cancelled, loopVars>>

\* The broker cannot be reached, or refuses the token.
ReconnectFails ==
    /\ Reconnecting
    /\ token' \in Refreshed
    /\ UNCHANGED <<service, main, waitVars, connectHandler, lostHandler, connected, generator,
                   requests, signalled, cancelled, loopVars>>

-----------------------------------------------------------------------------
(* Signals and HTTP requests (external) *)

\* signal.Notify is called just before the select; a signal that comes earlier
\* ends the process at once.
Signal ==
    /\ Running
    /\ LET notified == main \in {"serving", "draining", "stopping"} IN
         \/ notified /\ signalled' = TRUE /\ UNCHANGED main
         \/ ~notified /\ main' = "exited" /\ UNCHANGED signalled
    /\ UNCHANGED <<service, waitVars, mqttVars, requests, cancelled, loopVars>>

RequestBegins ==
    /\ main = "serving"
    /\ requests < MaxRequests
    /\ requests' = requests + 1
    /\ UNCHANGED <<service, main, waitVars, mqttVars, signalled, cancelled, loopVars>>

RequestEnds ==
    /\ Running
    /\ requests > 0
    /\ requests' = requests - 1
    /\ UNCHANGED <<service, main, waitVars, mqttVars, signalled, cancelled, loopVars>>

-----------------------------------------------------------------------------
(* The select of main, and the end of the process *)

TakeSignal ==
    /\ main = "serving"
    /\ signalled
    /\ main' = "draining"
    /\ signalled' = FALSE
    /\ cancelled' = TRUE
    /\ UNCHANGED <<service, waitVars, mqttVars, requests, loopVars>>

\* The consumer's send on fatalProcessingError succeeds.
TakeFatalError ==
    /\ main = "serving"
    /\ consumer = "notifying"
    /\ main' = "draining"
    /\ consumer' = "stopped"
    /\ UNCHANGED <<service, waitVars, mqttVars, requests, signalled, cancelled,
                   fetchErrors, commitErrors, outcomes>>

\* The handler's send on mqttConnectionFailedChan succeeds.
TakeConnectionLost ==
    /\ main = "serving"
    /\ lostHandler = "notifying"
    /\ main' = "draining"
    /\ lostHandler' = "done"
    /\ cancelled' = TRUE
    /\ UNCHANGED <<service, waitVars, connectHandler, connected, generator, token, requests,
                   signalled, loopVars>>

\* ShutdownHTTPServer waits for the requests that are being handled.
AwaitRequests ==
    /\ main = "draining"
    /\ requests > 0
    /\ shutdownTime < HttpShutdownTimeout
    /\ shutdownTime' = shutdownTime + 1
    /\ UNCHANGED <<service, main, elapsed, mqttVars, requests, signalled, cancelled, loopVars>>

\* Mutant: the shutdown has no time limit.
ShutdownWhenIdle ==
    /\ main = "draining"
    /\ requests = 0
    /\ main' = "stopping"
    /\ UNCHANGED <<service, waitVars, mqttVars, requests, signalled, cancelled, loopVars>>

\* ShutdownHTTPServer returns: no request is left, or the time is up.
ShutdownHTTPServer ==
    /\ main = "draining"
    /\ requests = 0 \/ shutdownTime >= HttpShutdownTimeout
    /\ main' = "stopping"
    /\ UNCHANGED <<service, waitVars, mqttVars, requests, signalled, cancelled, loopVars>>

\* main shuts the MQTT client and the producer down, each within a time limit, and
\* returns, whatever the other goroutines are doing.
Exit ==
    /\ main = "stopping"
    /\ main' = "exited"
    /\ UNCHANGED <<service, waitVars, mqttVars, requests, signalled, cancelled, loopVars>>

\* The deployment starts a new process (external).
Restart ==
    /\ ~Running
    /\ service' = service
    /\ main' = "connecting"
    /\ elapsed' = 0
    /\ shutdownTime' = 0
    /\ connectHandler' = "none"
    /\ lostHandler' \in {"absent", "none"}
    /\ consumer' = "none"
    /\ requests' = 0
    /\ connected' = FALSE
    /\ generator' = generator
    /\ token' \in FirstTokens(generator)
    /\ signalled' = FALSE
    /\ cancelled' = FALSE
    /\ fetchErrors' = 0
    /\ commitErrors' = 0
    /\ outcomes' = <<>>

-----------------------------------------------------------------------------
(* consumeMqttMessagesFromKafka *)

Log(outcome) ==
    LET all == Append(outcomes, outcome) IN
    outcomes' = IF Len(all) > MaxConsecutiveErrors THEN Tail(all) ELSE all

Step(from, to) ==
    /\ Running
    /\ consumer = from
    /\ consumer' = to
    /\ UNCHANGED <<service, main, waitVars, mqttVars, requests, signalled, cancelled>>

\* Mutant: a success does not reset the count.
FetchKeepsCount ==
    /\ Step("fetching", "processing")
    /\ Log("fetched")
    /\ UNCHANGED <<fetchErrors, commitErrors>>

Fetch ==
    /\ Step("fetching", "processing")
    /\ fetchErrors' = 0
    /\ Log("fetched")
    /\ UNCHANGED commitErrors

\* Mutant: one failure too many before the process gives up.
FetchFailsPastLimit ==
    /\ fetchErrors' = fetchErrors + 1
    /\ IF fetchErrors' > MaxConsecutiveErrors
       THEN Step("fetching", "notifying")
       ELSE Step("fetching", "fetchBackoff")
    /\ Log("fetchFailed")
    /\ UNCHANGED commitErrors

FetchFails ==
    /\ fetchErrors' = fetchErrors + 1
    /\ IF fetchErrors' >= MaxConsecutiveErrors
       THEN Step("fetching", "notifying")
       ELSE Step("fetching", "fetchBackoff")
    /\ Log("fetchFailed")
    /\ UNCHANGED commitErrors

ProcessMessage ==
    /\ Step("processing", "committing")
    /\ Log("processed")
    /\ UNCHANGED <<fetchErrors, commitErrors>>

ProcessFails ==
    /\ Step("processing", "notifying")
    /\ Log("processFailed")
    /\ UNCHANGED <<fetchErrors, commitErrors>>

Commit ==
    /\ Step("committing", "fetching")
    /\ commitErrors' = 0
    /\ Log("committed")
    /\ UNCHANGED fetchErrors

\* Mutant: the loop ends without a word.
CommitFailsSilently ==
    /\ commitErrors' = commitErrors + 1
    /\ IF commitErrors' >= MaxConsecutiveErrors
       THEN Step("committing", "stopped")
       ELSE Step("committing", "commitBackoff")
    /\ Log("commitFailed")
    /\ UNCHANGED fetchErrors

CommitFails ==
    /\ commitErrors' = commitErrors + 1
    /\ IF commitErrors' >= MaxConsecutiveErrors
       THEN Step("committing", "notifying")
       ELSE Step("committing", "commitBackoff")
    /\ Log("commitFailed")
    /\ UNCHANGED fetchErrors

\* The back-off timer fires, and the call is tried again.
Retry ==
    /\ \/ Step("fetchBackoff", "fetching")
       \/ Step("commitBackoff", "committing")
    /\ UNCHANGED <<fetchErrors, commitErrors, outcomes>>

\* A call to Kafka, or a back-off, notices that the context was cancelled.
NoticeCancel ==
    /\ cancelled
    /\ \E at \in {"fetching", "fetchBackoff", "committing", "commitBackoff"} : Step(at, "stopped")
    /\ UNCHANGED <<fetchErrors, commitErrors, outcomes>>

ProcessNext ==
    \/ ConnectBroker \/ StartFails \/ ResolveBrokerNode \/ Subscribe \/ FatalInGoroutine
    \/ StartServing \/ Wait \/ StartTimesOut
    \/ ConnectionLost \/ TokenExpires \/ Reconnect \/ ReconnectFails
    \/ Signal \/ RequestBegins \/ RequestEnds
    \/ TakeSignal \/ TakeFatalError \/ TakeConnectionLost
    \/ AwaitRequests \/ ShutdownHTTPServer \/ Exit \/ Restart
    \/ Fetch \/ FetchFails \/ ProcessMessage \/ ProcessFails \/ Commit \/ CommitFails
    \/ Retry \/ NoticeCancel

ProcessSpec == ProcessInit /\ [][ProcessNext]_processVars

-----------------------------------------------------------------------------
(* Properties *)

\* While the kafka consumer serves, and its management port says it is healthy, its
\* consumer is at work or about to tell main of a fatal error: there is no way
\* out of consumeMqttMessagesFromKafka that leaves main in its select.
NoIdleProcess ==
    service = "kafka_consumer" /\ main = "serving" => consumer \notin {"none", "stopped"}

\* The consumer gives up only on a processing error or on persistent failures:
\* as many failures of the same call as allowed, with no success in between
\* (consecutiveFetchErrors, consecutiveCommitErrors).
GivesUpOnPersistentFailure ==
    consumer = "notifying" =>
      /\ outcomes # <<>>
      /\ LET last == outcomes[Len(outcomes)] IN
           \/ last = "processFailed"
           \/ /\ last \in {"fetchFailed", "commitFailed"}
              /\ Len(outcomes) = MaxConsecutiveErrors
              /\ \A i \in DOMAIN outcomes : outcomes[i] = last

\* A process that fails to start because it failed to connect to the MQTT broker
\* is not connected to it (the time-outs of startKafkaMessageConsumer and of
\* startCloudConnectorApiServer).
StartFailureMeansNotConnected ==
    main = "failed" /\ connectHandler # "none" => ~connected

\* main takes one of the ready cases of its select and ends, its waits come to an
\* end, the started handlers get to their sends, and a reconnect that is tried over
\* and over again gets through if its token is accepted.
ProcessFairness ==
    /\ WF_processVars(ConnectBroker \/ StartFails)
    /\ WF_processVars(ResolveBrokerNode)
    /\ WF_processVars(StartServing \/ StartTimesOut)
    /\ WF_processVars(Reconnect)
    /\ WF_processVars(TakeSignal \/ TakeFatalError \/ TakeConnectionLost)
    /\ WF_processVars(AwaitRequests)
    /\ WF_processVars(ShutdownHTTPServer)
    /\ WF_processVars(Exit)

FairProcessSpec == ProcessSpec /\ ProcessFairness

\* A fatal error, a signal and a lost connection each end the process, although
\* the channels are unbuffered, main takes one case only, a goroutine whose case was
\* not taken stays blocked, and HTTP requests may hang (the select of the three
\* services and ShutdownHTTPServer).
ShutdownCompletes ==
    consumer = "notifying" \/ signalled \/ lostHandler = "notifying" ~> ~Running

\* A process that is to reconnect gets back to the broker, or ends, even if its token
\* expired while the connection was up (WithJwtReconnectingHandler).  Not so with a
\* token from a file, which is read at the start of the process only.
ReconnectsInTheEnd ==
    Reconnecting /\ generator # "jwt_file_reader" ~> connected \/ ~Running
=============================================================================
