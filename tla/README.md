# Cloud Connector: a TLA+ model of the connection pipeline

Cloud Connector keeps track of which RHC clients are connected through an MQTT
broker, and sends messages to them on behalf of other services. This directory
holds TLA+ modules for the part of it that changes state, configurations that
check them with TLC on small instances, and proofs checked by TLAPS that the most
important properties hold for every value of the constants. `PROJECT.json` maps
every definition to the source lines it models.

## 1. Inventory

The binary `cmd/cloud-connector` runs as several deployments; each row of the
table below is a process or a component inside one.

| component | state | operations | talks to |
|---|---|---|---|
| MQTT message consumer (`mqtt_message_consumer.go`, `internal/mqtt`) | none of its own; the MQTT session, the handler in progress | connect and subscribe, control / data / default handler, shutdown on a lost connection | MQTT broker (QoS 1, persistent session), Kafka topic (key = client id) |
| Kafka message consumer (`kafka_message_consumer.go`, `cloud_connector/message_handlers.go`) | message in hand, committed offset, account resolver cache, error counters | fetch, handle online / offline message, commit, fatal exit | Kafka, database, auth gateway, inventory topic, sources service |
| Connection table (`internal/connection_repository`) | rows: client, tenant, facts, dispatchers, message id and time, stale timestamp, tenant lookup timestamp and failure count | Register (upsert), Unregister, lookups, the updaters' SELECTs and UPDATEs | PostgreSQL; shared by all processes without locks |
| Tenantless connection updater (cron job) | the rows of its SELECT | look up the tenant, record success or failure | table, auth gateway |
| Inventory stale timestamp updater (cron job) | the rows of its SELECT | look up the identity, send the host to inventory, refresh the timestamp | table, auth gateway, inventory topic |
| Connected client recorder, sources recorder (`internal/controller`) | none | build and send the inventory message, create the catalog source | inventory topic, sources service |
| Account resolver (`internal/controller/account_resolver.go`) | cache of resolutions and of errors | map a client id to identity, account, org id | auth gateway |
| API server (`internal/controller/api`) | none | list and read connections of a tenant, send a message, ping, disconnect, reconnect | table, MQTT broker |
| Connection counter, Pendo reporter, migrations, test clients, configuration, logging, TLS | none that the service depends on | reports, tools, values | |

What is hard, and what makes each part correct:

* **MQTT consumer.** Acknowledgements, writes to Kafka and lost connections race.
  Correct if the broker never forgets a control message that is not in Kafka, if
  the order of one client's messages survives redelivery, and if everything gets
  through in the end.
* **Kafka consumers.** Crash between any two calls of a handler, replay, a
  rebalance while the old owner is still busy, late commits, database errors whose
  statement was executed nevertheless. Correct if nothing is committed unhandled,
  and if the table changes as if every message took effect once and in order.
* **Table.** The upsert is one statement on one snapshot, with no uniqueness
  constraint behind it. Correct if the rows of a client do not
  pile up and a row comes from one message.
* **Updaters.** Each works on copies of rows, with slow calls between the SELECT
  and the UPDATE; consumers and the other updater change the rows meanwhile.
  Correct if tenant, lookup timestamp and failure count never contradict each
  other, if no connection is revived or ended by an updater, and if a host that
  the consumer failed to report reaches inventory in the end.
* **Account resolver.** Results and errors are cached with a time to live of their own.
  Correct if no answer is older than these say, whatever is hit or evicted, and if a
  change at the gateway is noticed in the end.
* **End to end.** Either consumer fails at any step, so a message is delivered, written
  and handled several times, old ones after newer ones. Correct if the table nevertheless
  ends up with what each client said last.
* **Service processes.** Main, the handlers of the MQTT client library, HTTP requests and
  the consumer goroutine meet on unbuffered channels. Correct if the process never sits
  there without a consumer, gets down when it should, and gets back to the broker when
  its token has expired.
* **API server.** A request waits for the translator, the database and the broker
  while connections change hands. Correct if a message reaches only connections of the
  caller's tenant, if what is reported was true while the request was handled, and if
  every request ends. Lists are read page by page from a table that changes between
  two pages. Correct if a caller misses no more than what shifted, and gets to the end.

`PROJECT.json` lists the hazards, each at its line, with the properties that cover it.

## 2. Modules

```
ConnectionTable            rows, SQL statements as operators on the table
  ConnectedClientRecorder  inventory, account resolver, recorder
    KafkaMessageConsumer   the consumer group; refines ConnectionLedger
    ConnectionUpdaters     the two cron jobs
      CloudConnector       consumers + updaters on one table
ConnectionLedger           abstract specification: messages take effect once, in order
  ApiServer                requests about one connection
  ConnectionListing        paginated lists, and callers that follow the links
MqttMessageConsumer        MQTT session -> Kafka
  ConnectionPipeline       MqttMessageConsumer + KafkaMessageConsumer end to end
AccountResolver            gateway and file based resolver, and the cache in front
ServiceProcess             goroutines and channels of one process of a service
MC*                        instances for TLC
*Proofs                    theorems
```

**ConnectionTable** (`internal/connection_repository`). `connections` maps a client
to the sequence of its rows, because nothing in the schema makes a client's row
unique. Each SQL statement is an operator from table to table. `Register` takes a
parameter `seen`: how many rows of the client the snapshot of the statement held that
are still there. The statement updates these rows, which are the first ones, and
leaves rows that were inserted since alone; when there are none it inserts one.
So two overlapping upserts can insert two rows, as PostgreSQL allows. `ExecError`
and `IsFatalExecError` model the classification of a failed `Exec` as it is coded.
Timestamps are `recent` or `old` relative to the jobs' cutoff; two actions let them age.

**ConnectedClientRecorder** (`internal/controller`). `inventory[c]` records what the
inventory topic last received for a client. `RecordConnectedClient` writes it when
`ShouldHostBeRegisteredWithInventory` holds, after `cleanupCanonicalFacts`;
`RecordConnectedClientFails` is an error return, with or without the message
written. `MapClientIdToAccountId` is the set of answers the resolver may give:
every lookup may succeed or fail, which includes the answers of its cache
(AccountResolver has the cache itself).

**KafkaMessageConsumer.** `proc[p].pc` names the next external call of a handler:

| pc | code |
|---|---|
| `fetch` | `FetchMessage` in `consumeMqttMessagesFromKafka` |
| `check` | `checkForDuplicateOnlineMessage` |
| `resolve` | `MapClientIdToAccountId` |
| `prepare`, `exec` | `Register`: statement prepared, statement executed |
| `record` | `RecordConnectedClient` |
| `lookup`, `create` | `RegisterWithSources` |
| `unregister` | `handleOfflineMessage` |
| `commit` | `CommitMessages` |

Each is a step, so a crash, a rebalance or another process's step can fall between
any two. A rebalance sends the new owner back to the committed offset, and a commit
sets the offset unconditionally, as the group reader does. A `malformed` message, a
connection status whose content is not an object, makes the handler panic
(`HandlerPanics`, the unchecked type assertion at `message_handlers.go:81`): the process ends,
and so does every later one that fetches the message again. A message that cannot be parsed or is of no interest is
`other`. A statement that a process was executing when it crashed is taken to be executed
or not by then: it does not outlive the process. A DELETE takes
the rows out of the snapshots of upserts under way (`RowsGone`). The constant `Overlap`
says whether a rebalance may take the partition from an owner that is still busy:
it may in reality (`TRUE`), and the properties that need `FALSE` say so below.
`applied`, `handled` and `lost` are history variables.

**ConnectionUpdaters.** `tenantlessRun` and `staleRun` are the rows that a SELECT
returned, with the progress on each: `selected`, `resolved` or `unresolved`, `sent`.
The scheduler runs at most one instance of each job (`concurrencyPolicy: Forbid`).

**CloudConnector** interleaves the two; its `Next` takes a step of one or the other.

**MqttMessageConsumer.** `published` is what the broker accepted, `unacked` the
session, `acks` the acknowledgements on their way, `writing` the message the handler
is passing to Kafka, `kafka` the partitions. The handler runs in the router's
goroutine, one message at a time (ordered delivery is not turned off), and an
acknowledgement follows its return. `ConnectionLost` may fall into a write; a
failed write ends the process (`log.Fatal`). What follows a lost connection is
configured, and the model leaves it open: the library reconnects, or the link is
`stopping` until main has shut the process down. The handler's context is
`context.TODO()`, so its early return on `context.Canceled`, which would
acknowledge an unwritten message, cannot happen here and is not an action.
The deployment runs one replica with the `Recreate` strategy and a persistent session.

**ConnectionPipeline** composes the two consumers: it extends KafkaMessageConsumer,
instantiates MqttMessageConsumer, and ties their messages together by `content`, what
the message at a place of `published` says. The log of the Kafka consumers is the
partition the MQTT consumer writes (`Carried`). `MqttProgress` and `ConsumerProgress`
are the steps of a process that gets on, `MqttFault` and `ConsumerFault` those that end
a process or a connection; the latter share one bound. It also limits how often a
malformed message is tried again, which changes nothing: no handler gets past it. `gaveUp` is a history of the
messages whose last registration failed without a fatal error, which the code commits
all the same. The partition changes hands only when its owner has ended; what a rebalance
does to a handler at work is the subject of KafkaMessageConsumer alone. Message ids are
unique; the clock of a client may stand still or go back, so that `isDuplicateOrOldMessage`
takes a new message for an old one. `TableFollowsClients` says what that comes to: the
row then stays that of a message with a later clock.

**AccountResolver.** `impl` is the configured implementation, `directory` what the gateway
or the loaded file has on a client, `cache` the expirable LRU with the age of its
entries, `call` the call of the base resolver under way. `Tick` lets time pass
for entries and calls. `CacheHit` and `CacheMiss` are the two ways through
`MapClientIdToAccountId`; `BaseReturns` caches whatever the base resolver returned, errors
too. The cache drops any other entry when it is full, which includes the least
recently used. The history `since` counts the ticks since an outcome was last true of a
client, and `answer` is the latest answer with its age by that count.

**ServiceProcess** is the inside of what KafkaMessageConsumer and MqttMessageConsumer
take for a process that is up or down, and the start and the end of the API server:
`service` says which of the three it is, `main` is the main goroutine, `consumer` the
consume loop of the kafka consumer with its two error counters and back-offs,
`connectHandler` and `lostHandler` are the calls that the MQTT client library makes;
`lostHandler` is `absent` in a process that is configured to reconnect instead of
shutting down. A goroutine in state `notifying` is blocked in a send on an unbuffered
channel; the receive by `main` is one action of both. `elapsed` counts the seconds of
main's wait for the first connection, which the MQTT consumer does not wait for;
`DnsLookupTimeout` and `StartTimeout` are the two time limits that race. `generator` and
`token` are what the broker is shown: a token may expire at any time and is refreshed
before each attempt to reconnect, except that one from a file was read at the start.
On its way out main is `draining` while it waits, up to `HttpShutdownTimeout`, for HTTP
requests. A signal before `signal.Notify` ends the process at once, and so does
`Fatal` in a goroutine: a refused subscription, a failed write to Kafka, an HTTP server
that cannot listen. `outcomes` is a history of the loop's latest calls.

**ApiServer.** `pc[r]` names what request `r` waits for: `translate`
(`EANToOrgID`), `prepare` and `lookup` (the database), `publish` and `wait` (the broker). `Refusal`
collects the checks before the first wait in the order of the handlers,
`FailureAnswer` and `PublishAnswer` the different answers of the endpoints; a bad
identity header is answered with 400, a bad key or the wrong kind of identity with 401.
The principal is what the headers say: an identity, an associate's identity or a
pre-shared key. `Matches` is the WHERE clause, strict or relaxed. `ConsumerWrites`
and `UpdaterWrites` are the statements that other processes run meanwhile. `held` is a
history: whether the connection was within reach of the request, and not, since it
came in. A nil principal makes the handler panic: the request ends as `aborted`.

**ConnectionListing.** A caller asks for a page (`Request`, `Query`) and follows the
links of the answers: forward along *next*, back along *prev*, or to *last* and back.
The page is a slice of the ordered rows of its moment, its total a column of its rows
(`TotalConnections`), the links are `buildNavigationLinks`. `QueryInterrupted` ends
the rows of a page early, as the code does not ask `rows.Err()`; `QueryFails` is
answered with 500 by the v2 API and with an empty list by the management API. `gone`,
`come` and `stayed` are histories of what happened to the list during the walk.

## 3. Runs

Passing runs:

| run | instance | properties |
|---|---|---|
| `consumer_group` | 2 consumers (symmetric), 1 client, 6 kinds of messages, 2 published, rebalances overlap handlers | `ConsumerTypeOK`; `CommittedMessagesHandled`: at-least-once; `NoGaps`: its inductive strengthening; `RowIsOneMessage`: a row never mixes two messages; `RowsBoundedByConsumers`: overlapping upserts insert at most one row per consumer |
| `consumer_ledger` | 2 consumers, 2 clients, 3 published, no overlap | `ReplayIsOneMessage`: at most one message is repeated after a crash; `OfflineStaysOffline`; `ImplementsLedger`: refinement of `ConnectionLedger` |
| `updaters` | 1 consumer, 2 clients, 2 published, chunks of 1 | `TypeOK`; `TenantedRowsAreClean`, `TenantlessRowsAreRetried`, `FailureCountBounded`: the tenant bookkeeping stays consistent on stale copies; `InventoryFactsValid`; `RefreshOnlyAfterReport`; `ImplementsLedger`: updaters are invisible to the ledger |
| `updaters_recovery` | 1 consumer, 1 client, 2 published, fairness | `InventoryInformed`, `TenantlessSettled` |
| `mqtt_consumer` | 2 clients and all kinds of messages that are not forwarded, 3 published, 2 faults, a lost connection is followed by a shutdown or a reconnect, fairness | `MqttTypeOK`; `NothingLost`; `NoOvertaking` and `LastWordIsLast`: the order of a client's messages survives redelivery; `EveryMessageForwarded` |
| `pipeline` | 1 client that comes, goes and comes back while its clock stands still, advances or goes back, or sends a malformed message, 1 consumer, 3 published, 2 faults, no tenants, fairness | `TableFollowsClients`: once nothing is under way, a client that went offline last has no row and one that came online last has the row of that message or of one with a later clock; `PipelineDrains`, unless a malformed message blocks the partition |
| `account_resolver` | 2 clients, a cache of 1 entry, TTL of 2 ticks (1 for errors), calls of 1 tick, 2 disturbances, all four implementations, fairness | `ResolverTypeOK`: the cache keeps to its limits; `AnswersAreFresh`; `AnswersCatchUp` |
| `process_loop` | all three services, limit of 3 errors, with and without the handler of lost connections, 2 HTTP requests, the limits of 2 seconds of the code, fairness | `ProcessTypeOK`; `NoIdleProcess`; `GivesUpOnPersistentFailure`: the process ends for errors only after as many in a row as the limit says; `ShutdownCompletes`; `ReconnectsInTheEnd` |
| `api_requests` | 1 request slot, 1 client (a host or a satellite), 2 tenants, 3 accounts, 7 callers, relaxed lookup, fairness | `ApiTypeOK`; `MessagesStayInTenant`: tenant isolation; `ReportedStatusWasTrue`; `EveryRequestEnds`, unless the database does not answer `Prepare` |
| `listing_walk` | 2 clients, up to 2 rows (duplicates too), 2 tenants, limits and offsets -1 to 2, 2 writes during a walk, all three lists, fairness | `ListingTypeOK`; `WalkMissesOnlyShifted`: what a walk misses is bounded by the rows that left (forward) or came (back); `StrandedOnlyByRemoval`; `EveryWalkEnds`, unless a query hangs |

The bounds. Two consumers suffice for every pairwise overlap; two messages let an
online message meet a duplicate, an older, a newer one and an offline message; three
let a client come back after an offline message while another client shares the
partition. In the Kafka model crashes, failures and rebalances are not bounded. In
the MQTT model two faults let a redelivery be interrupted again; in the pipeline they
let both consumers fail, or one of them while it repeats what the first failure left.
Three messages of one client are online, offline and online again, with any clock. The
pipeline run has no tenants: whether a client is connected does not depend on them, and they
are the subject of the other runs. A cache of one entry evicts on every other miss, and a TTL longer
than that of errors by one tick tells the two apart. A chunk of one row
makes the jobs select while other rows wait. A limit of three errors lets a
count be kept, reset and reached. Requests of the API do not
interact with each other, only with the table, so one slot at a time is enough; the slot is
used again and again. Two rows with pages of one and of two give full and partial
last pages, and two writes let a row leave and another come during one walk.

Runs that show a disagreement between the code and what is said of it (details
and quotations under `findings` in `PROJECT.json`):

| run | what TLC finds |
|---|---|
| `register_connection_loss` | a registration that fails because the connection broke is not fatal: the code compares the name of the error condition with SQLSTATE codes, and the message is committed unregistered |
| `worker_script_inventory` | a host whose only dispatcher is rhc-worker-script is not selected by the stale timestamp updater, so a failed inventory message is never made up for |

The passing runs set `EmptyOrgAnswers = FALSE` (see below), and their messages do not
use rhc-worker-script alone, so that these two disagreements do not hide others.

### Further disagreements, without a run of their own

Each of these is a definition of a module, or a constant of one, that TLC refutes within a
minute when it is put in the place named.

| where | what TLC finds |
|---|---|
| `Overlap = TRUE`, `OfflineStaysOffline` in `consumer_ledger.cfg` | when a rebalance overlaps a handler, an online message handled late by the former owner registers a client whose offline message the new owner has processed, although all messages of a client are in one partition "so that the ordering of the messages is retained" (`mqtt/message_handlers.go:53-55`, `kafka_message_consumer.go:274`) |
| invariant `RowHoldsMessageFacts`, `consumer_ledger.cfg` | a client that registers again keeps the canonical facts of its first registration: the UPDATE of the upsert does not set them (`sql_connection_registrar.go:59`) |
| `EmptyOrgAnswers = TRUE`, `TenantlessRowsAreRetried` in `updaters.cfg` | a lookup that succeeds with an empty org id clears the bookkeeping, and the row is invisible to the job that should repair it (`tenantless_connection_locator.go:89`) |
| invariant `StartFailureMeansNotConnected`, `process_loop.cfg` | the DNS lookups in the connect handler have the same limit as main's wait for it, two seconds (`broker_client.go:23-25`, `kafka_message_consumer.go:101`): a process that is connected ends with "Failed to connect" |
| `ReconnectsInTheEnd` without its restriction on `generator`, `process_loop.cfg` | a process with `jwt_file_reader` that lost its connection after its token expired tries to reconnect for ever with that token: the refresh returns the text that was read at the start (`jwt.go:48-58`) |
| invariant `NotFoundMeansNoConnection`, `api_requests.cfg` | a database error is answered with 404 while the connection is there (`connection_mediator_v2.go:118`) |
| invariant `CreatedMeansSent`, `api_requests.cfg` | a request is answered with 201 although the publish timed out and the broker never took the message (`mqtt/utils.go:67`) |
| invariant `CompleteListing`, `listing_walk.cfg` | a query that breaks off while its rows are read is answered with 200 and a shorter page, as `rows.Err()` is not asked (`sql_connection_locator_v2.go:159`, `:226`) |
| invariant `CountIsTotal`, `listing_walk.cfg` | the total is a column of the rows, so an empty page reports zero, whatever the table holds; a limit of zero is accepted and always gives one (`utils.go:85-86`) |

### Fairness

`PipelineFairness`: the deployment restarts a process, an unowned partition gets
assigned, and a process that can go on goes on (weak fairness of the progress of each
process; the choice between the outcomes of a call is left open, except that faults
are bounded). That a call returns at all is an assumption on the database: the code limits
its queries in time, but calls `Prepare` without a context. The same holds of the next.

`UpdaterFairness`: the scheduler starts the jobs and time passes (weak); a lookup,
UPDATE or inventory write that is attempted again and again is not interrupted and
does not fail every time (strong). Under it a host is reported or its lookups are
used up; without the assumption on lookups the code promises nothing.

`FairMqttSpec`: the broker, the reconnecting client library, the deployment and
the calls that return make progress (weak); the bound on faults plays the role
of "faults are not permanent".

`ResolverFairness`: time passes, calls to the gateway end by their time-out, and the
callers go on asking (weak). `AnswersCatchUp` is about a client that is asked for
again and again; which one is asked for is left open.

`ProcessFairness`: the scheduler runs main and the handlers (weak fairness of main's
steps), and an attempt to reconnect that the broker could accept gets through in the end;
nothing is assumed of signals, failures, lost connections or the end of HTTP requests.

`ApiFairness`: the waits that a handler limits in time, by the time-outs of the
translator's HTTP client, of the query and of the publish, end one way or the other
(weak). Nothing is assumed of the broker, and nothing of `Prepare`, which is called
without the context (`sql_connection_locator_v2.go:83`) on a connection without time-outs of
its own (`db/connection.go:14`): `EveryRequestEnds` names that wait as the only one that can
last for ever.

`ListingFairness`: the caller goes on (weak). Nothing is assumed of the query, which
includes a `Prepare`; `EveryWalkEnds` says that the walk ends or one query hangs.

## 4. Proofs

TLAPS proves the following for every set of clients, consumers, messages, tenants and
facts and every value of the bounds, from the assumptions named in the modules
(`TableAssumption`, `RecorderAssumption`, `ConsumerAssumption`, `UpdaterAssumption`,
`MqttAssumption`, `ResolverAssumption`, `ProcessAssumption`, `ApiAssumption`,
`ListingAssumption`, `PipelineAssumption`), which the runs evaluate. A theorem that needs more says so in its
statement. Where it says `ASSUME ~Overlap`, the property fails when a rebalance takes
the partition from a handler at work (section 3), and the theorem shows that nothing
else can break it: no crash, replay, lost reply or stale copy.

* **ConnectionTableProofs**: lemmas on the statements: what each does to the
  types, to the rows of a client and to the bookkeeping of a row. The key device is to
  state invariants of the table as "every row lies in a set R", and to show once that each
  statement keeps the rows in any R closed under its SET clause.
* **KafkaMessageConsumerProofs**, for both values of `Overlap`: `ConsumerTypeCorrect`;
  `GapFree` (`NoGaps`) and from it `AtLeastOnce` (`CommittedMessagesHandled`).
  "Committed implies handled" is not inductive: a late commit of a former owner moves
  the offset to its own message, so one has to know that everything before any message
  in hand is handled. `RowsAreMessages` (`RowIsOneMessage`): the id, the sent time and
  the dispatchers of a row are those of one message of the log. `RowsBounded`
  (`RowsBoundedByConsumers`): its inductive invariant `RowsInv` adds to the rows of a client the handlers
  that are about to insert another one, those whose snapshot held none; the sum never passes
  the number of consumers, because a handler comes to be among them only while there is no row, when
  the sum counts handlers alone, and a DELETE leaves no rows. Under `~Overlap`: `ReplayBounded`
  (`ReplayIsOneMessage`), `OfflineIsFinal` (`OfflineStaysOffline`), and
  `ConsumersImplementLedger`, the refinement of `ConnectionLedger` under the mapping
  `Registry`. The invariant behind them, `LedgerInv`, says that a busy
  consumer owns the partition and works on the message after the committed offset
  (`HandlerExclusive`), that what a handler found out about the table is still true when it
  is used (`FindingsCurrent`), and that a message which took effect and is not committed
  can be told from the table (`EffectVisible`), so that its replay changes nothing. Each step of
  a handler is then a step of the ledger or a stutter. The lemmas are about `OpenNext`, the
  steps of the consumers at a partition that anyone may append to, and, where handlers must
  not overlap, about `OrderlyNext`, in which the partition changes hands only while no
  handler is at work; `~Overlap` is one way to ensure that, ConnectionPipeline has another.
* **CloudConnectorProofs**: `TypeCorrect`, `AtLeastOnceWithUpdaters`,
  `TenantedClean`, `TenantlessRetried`, `InventoryValid`, `RefreshAfterReport`
  (`RefreshOnlyAfterReport`), and under `~Overlap` `SystemImplementsLedger` and
  `FailuresBounded` (`FailureCountBounded`). For the tenant
  bookkeeping the invariant ranges over the rows and the copies in the updaters'
  hands: a resolved lookup carries a tenant, a row selected as stale had one, a
  recorded failure takes the tenant away together with restarting the clock, and the
  refresh of a stale timestamp applies only to rows that still have the tenant.
  `TenantlessRetried` assumes that no lookup succeeds with an empty org id
  (`EmptyOrgAnswers = FALSE`); with `TRUE` TLC finds a counterexample.
  `InventoryValid` rests on the fact that rows and copies are sanitized.
  `FailuresBounded` needs `BudgetKept`: one piece of work per client in a run, and a row
  that still has one is below its limit. It assumes `~Overlap` because a client with two rows
  gets two pieces of work, each of which counts on both rows. `RefreshAfterReport` ties a
  piece of work that was sent to what inventory heard of its client. That the updaters
  are invisible to the ledger is a lemma on their statements: they change no message id
  and neither add nor remove rows.
* **MqttMessageConsumerProofs**: `MqttTypeCorrect`, `MqttAtLeastOnce` (`NothingLost`),
  `MqttOrderRetained` (`NoOvertaking`), `MqttLastWordIsLast` (`LastWordIsLast`). The invariant
  `MqttInv` says that the session and the acknowledgements form a suffix of what
  was published (`HeldIsSuffix`), that what was taken on this connection and is
  no longer being written is written, and that after every entry of a partition,
  duplicates included, stand all the newer messages of its client, but for those the broker
  will deliver again (`NewerFollow`).
* **ConnectionPipelineProofs**: `TableFollows` (`TableFollowsClients`),
  `PipelineImplementsLedger` (`ImplementsLedger`) and `NothingLostEndToEnd`
  (`NothingLostOnTheWay`: every published message is with the broker, waits in the partition
  or was handled), for any number of clients, messages, consumers and faults. `PipelineInv`
  joins the invariants of both consumers: every step of the pipeline is a step of each of
  them or leaves its variables alone (`MqttStep`, through an instance of
  MqttMessageConsumerProofs, and `PipelineIsOrderly`). Between them, `ContentInv` says that
  ids are unique, `CarriedInv` that the partition holds
  what the written messages say. Behind them, `FollowsInv` says of every client that its rows
  are what its last status that took effect makes of them: none after offline, and after
  online a row of that message or of one sent later, or a message given up. That the row is
  the one of the *last* message, or of one with a later clock, follows only when nothing is
  under way: then, by `NewerFollow`, the last status in the partition is the last one
  published. The difficult step is an old duplicate that comes online
  again after newer messages: it may bring back a row, or leave the newer one, and in both
  cases newer messages are still to come. `HandlerFollows` carries the fact from the upsert,
  or from the decision to ignore a duplicate, to the commit.
* **AccountResolverProofs**: `ResolverTypeCorrect`, `AnswersFresh` (`AnswersAreFresh`), for
  every size of the cache, every choice of the TTLs and of the time limit. The
  invariant bounds the history by what the resolver knows: what a call carries was true
  no longer ago than the call has lasted, and what an entry says no longer ago than its
  age and the longest call together; both sides grow with the same tick.
* **ServiceProofs**, on ServiceProcess: `ProcessTypeCorrect`, `ProcessNeverIdle`
  (`NoIdleProcess`), `GivesUpOnlyOnPersistentFailure` (`GivesUpOnPersistentFailure`). That the
  error counts stay within their limit needs to know that a count which reached it
  stops the loop; that a serving kafka consumer has a consumer goroutine, that the consumer leaves its
  loop only through the channel or when main has cancelled it; that the loop gives up
  only on persistent failure, that the log of its calls ends with as many failures as are
  counted.
* **ServiceProofs**, on ApiServer: `ApiTypeCorrect`, `TenantIsolation` (`MessagesStayInTenant`),
  `StatusWasTrue` (`ReportedStatusWasTrue`). The invariant relates each stage of
  a request to the history: the org id of the lookup is the one the caller acts for,
  the current state of the table is always part of the history of a request in
  progress, and a request past its lookup had its connection within reach.
* **ConnectionListingProofs**: `ListingTypes`, `LinksLeadToPages`
  (`StrandedOnlyByRemoval`), `WalksMissOnlyShifted` (`WalkMissesOnlyShifted`), for any offset,
  limit, table and number of writes. The argument is about ranks: the order of a list
  is total, so ranks are positions (`RankBijection`), and a write shifts at most as many rows
  across a position as it takes out of the list, or puts into it (`ShiftBound`). The
  invariant counts the clients that stayed, were not listed, and are on the wrong side of
  the caller's position: those before it on the way forward are at most `gone`, those behind
  it on the way back at most `come`. For the links it says that, while nothing has left, the
  last total is still there and the offset of a way back is below it; this rests on
  `LastOffsetFacts`, the arithmetic of `calculateOffsetOfLastPage`. `ListingAssumption`
  has finitely many clients and a collation order that tells ids apart.

Each inductive invariant was checked with TLC on the instance of its run before it was
proved; `PipelineInv` also with 2 consumers and `Overlap = TRUE`.

Every safety property of the passing runs, invariant or action property, is stated by a
theorem. Only model-checked are the liveness properties (`InventoryInformed`,
`TenantlessSettled`, `EveryMessageForwarded`, `PipelineDrains`, `AnswersCatchUp`,
`ShutdownCompletes`, `ReconnectsInTheEnd`, `EveryRequestEnds`, `EveryWalkEnds`): TLAPS does
not treat fairness here. Facts that need an induction over data, and recursive
operators, are outside what the prover can do; the modules use neither. For the same
reason `Ordered` is defined by ranks and not by a sorting operator.

## 5. What is not modelled

* Message contents and the metadata of a status answer are payload. Messages that
  cannot be parsed are committed without effect, and those whose content is no object
  make the handler panic.
* `RefreshOnlyAfterReport` and `InventoryInformed` go by whether inventory was ever informed
  of a client, not of its latest connection.
* A message that the API publishes after its connection changed hands is within
  `MessagesStayInTenant`: the code does not look at the tenant again.
* The jobs (updaters) have no start and shutdown of interest: they run once and end.
* Sources entries are a set; that a replay skips their creation after a crash is in
  the model, but no document promises otherwise.
* Which configuration values the processes run with is left open where it matters
  (`Impl`, `generator`, `lostHandler`); reading and validating them is not modelled.
* Connection counter, Pendo reporter: read-only. Configuration, logging, metrics,
  TLS, migrations, test clients: no behaviour of their own.

## 6. Plan

1. Starvation in the stale timestamp updater, with ordered timestamps.
2. ServiceProcess as a refinement of the processes of KafkaMessageConsumer and
   MqttMessageConsumer.
3. Overlapping handlers in the pipeline: which part of `TableFollowsClients` survives a
   rebalance that takes the partition from a handler at work.
