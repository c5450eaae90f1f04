------------------------------ MODULE ApiServer ------------------------------
(***************************************************************************)
(* The requests of the API server about one connection: status queries,    *)
(* messages, pings, disconnects and reconnects, on a table that the        *)
(* consumers and updaters change meanwhile.  A request waits four times:   *)
(* for the tenant translator, twice for the database, for the MQTT broker. *)
(***************************************************************************)
EXTENDS ConnectionTable

CONSTANTS
    Request,        \* slots for requests in progress
    Account,        \* account numbers of the EBS
    NoAccount,      \* the empty account number
    OrgOf,          \* what the tenant translator knows, NoOrg for an unknown account
    Principal,      \* who may call
    RelaxedLookup,  \* ApiServerConnectionLookupImpl = "relaxed"
    MaxRows         \* bound on the rows of a client

MessageEndpoint == {"v1/message", "v2/message"}
V1Status == {"v1/connection_status", "connection/status"}
Command == {"connection/disconnect", "connection/reconnect"}
Management == {"connection/status", "connection/ping"} \cup Command
Endpoint == MessageEndpoint \cup V1Status \cup Management \cup {"v2/status"}
V2 == {"v2/message", "v2/status"}

\* What the headers say: who calls, with which kind of credentials, and whether
\* they are good (a decodable identity, the known key of the service).
PrincipalType == [auth    : {"identity", "associate", "psk"},
                  valid   : BOOLEAN,
                  account : Account \cup {NoAccount},
                  org_id  : OrgID \cup {NoOrg}]

\* body: as required; malformed, i.e. not JSON or without a required field; or
\* with a blank directive or a negative delay.
ApiRequest == [endpoint  : Endpoint,
               principal : Principal,
               account   : Account,
               client_id : ClientID,
               body      : {"ok", "malformed", "refused"}]

NoRequest == [endpoint |-> "none"]

ASSUME ApiAssumption ==
    /\ NoAccount \notin Account
    /\ OrgOf \in [Account -> OrgID \cup {NoOrg}]
    /\ Principal \subseteq PrincipalType
    /\ RelaxedLookup \in BOOLEAN
    /\ MaxRows \in Nat \ {0}

VARIABLES
    pc,        \* what each request waits for
    request,   \* the request itself
    lookupOrg, \* the org id that the lookup is made for
    sent,      \* its MQTT message
    answer,    \* the HTTP status and the connection status in the body
    held       \* history: was the connection within reach of the request, or not,
               \* at some time since it came in?

requestVars == <<pc, request, lookupOrg, sent, answer, held>>
apiVars == <<connections, requestVars>>

Answer == [code : {0, 200, 201, 400, 401, 403, 404, 500}, status : {"none", "connected", "disconnected"}]

NoAnswer == [code |-> 0, status |-> "none"]
Code(n) == [code |-> n, status |-> "none"]
Connected == [code |-> 200, status |-> "connected"]
Disconnected == [code |-> 200, status |-> "disconnected"]

ApiTypeOK ==
    /\ ConnectionsTypeOK
    /\ pc \in [Request -> {"idle", "translate", "prepare", "lookup", "publish", "wait",
                         "done", "aborted"}]
    /\ request \in [Request -> ApiRequest \cup {NoRequest}]
    /\ lookupOrg \in [Request -> OrgID \cup {NoOrg}]
    /\ sent \in [Request -> {"no", "inflight", "accepted", "failed"}]
    /\ answer \in [Request -> Answer]
    /\ held \in [Request -> SUBSET {"reachable", "unreachable"}]

ApiInit ==
    /\ ConnectionsInit
    /\ pc = [r \in Request |-> "idle"]
    /\ request = [r \in Request |-> NoRequest]
    /\ lookupOrg = [r \in Request |-> NoOrg]
    /\ sent = [r \in Request |-> "no"]
    /\ answer = [r \in Request |-> NoAnswer]
    /\ held = [r \in Request |-> {}]

-----------------------------------------------------------------------------
(* What a request may reach: the tenant that the caller acts for owns the    *)
(* connection or, where the lookup is relaxed, the connection is a           *)
(* satellite's and has a tenant.                                             *)

ActsFor(q) ==
    IF q.endpoint \in V2 THEN q.principal.org_id
    ELSE IF q.endpoint \in Management THEN OrgOf[q.account]
    ELSE IF q.principal.account = NoAccount THEN NoOrg ELSE OrgOf[q.principal.account]

MayReach(q, row) ==
    /\ row.org_id # NoOrg
    /\ \/ row.org_id = ActsFor(q)
       \/ /\ RelaxedLookup
          /\ q.endpoint \notin Management
          /\ "foreman_rh_cloud" \in row.dispatchers

Reach(q, t) ==
    IF \E i \in DOMAIN t[q.client_id] : MayReach(q, t[q.client_id][i]) THEN "reachable" ELSE "unreachable"

-----------------------------------------------------------------------------
(* The handlers *)

\* AuthMiddleware and its identity, Turnpike and pre-shared key variants.
Authenticated(q) ==
    /\ q.principal.valid
    /\ IF q.principal.auth = "psk"
       THEN IF q.endpoint \in V2 THEN q.principal.org_id # NoOrg ELSE q.principal.account # NoAccount
       ELSE q.endpoint \in Management => q.principal.auth = "associate"

\* GetPrincipal returns nil for an identity without an org id, and the handlers
\* call its methods all the same: net/http recovers from the panic and closes
\* the connection.
HasPrincipal(q) == q.principal.auth = "psk" \/ q.principal.org_id # NoOrg

\* The identity middleware answers a header that it cannot decode with 400; the
\* key and Turnpike checks answer with 401.
AuthenticationError(q) ==
    IF q.principal.auth # "psk" /\ ~q.principal.valid THEN Code(400) ELSE Code(401)

\* Mutant: the account of the body is taken as it is.
RefusalAnyAccount(q) ==
    CASE ~Authenticated(q) -> AuthenticationError(q)
      [] q.body = "malformed" /\ q.endpoint # "v2/status" -> Code(400)
      [] q.body = "refused" /\ q.endpoint \in MessageEndpoint \cup {"connection/reconnect"} -> Code(400)
      [] OTHER -> NoAnswer

\* The checks before the first wait, in their order; NoAnswer if all succeed.
Refusal(q) ==
    CASE ~Authenticated(q) -> AuthenticationError(q)
      [] q.body = "malformed" /\ q.endpoint # "v2/status" -> Code(400)
      [] /\ q.endpoint \in {"v1/message", "v1/connection_status"}
         /\ q.account # q.principal.account -> Code(403)
      [] q.body = "refused" /\ q.endpoint \in MessageEndpoint \cup {"connection/reconnect"} -> Code(400)
      [] OTHER -> NoAnswer

\* Mutant: the v2 status does not tell a failure from a missing connection.
FailureAnswerAnyError(e, failure) ==
    CASE e \in MessageEndpoint -> Code(404)
      [] e = "v2/status" -> Disconnected
      [] e \in V1Status -> IF failure = "untranslated" THEN Code(400) ELSE Disconnected
      [] e = "connection/ping" -> Disconnected
      [] e \in Command -> Code(400)

\* The answer when the account cannot be translated, when there is no such
\* connection, or when the database fails.
FailureAnswer(e, failure) ==
    CASE e \in MessageEndpoint -> Code(404)
      [] e = "v2/status" -> IF failure = "notFound" THEN Disconnected ELSE Code(404)
      [] e \in V1Status -> IF failure = "untranslated" THEN Code(400) ELSE Disconnected
      [] e = "connection/ping" -> Disconnected
      [] e \in Command -> Code(400)

\* Disconnect and Reconnect have their error thrown away.
PublishAnswer(e, failed) ==
    CASE e \in MessageEndpoint -> IF failed THEN Code(500) ELSE Code(201)
      [] e = "connection/ping" -> IF failed THEN Code(400) ELSE Connected
      [] e \in Command -> Code(200)

Receive(r, q) ==
    /\ pc[r] = "idle"
    /\ request' = [request EXCEPT ![r] = q]
    /\ pc' = [pc EXCEPT ![r] = IF Authenticated(q) /\ ~HasPrincipal(q) THEN "aborted"
                               ELSE IF Refusal(q) # NoAnswer THEN "done"
                               ELSE IF q.endpoint \in V2 THEN "prepare" ELSE "translate"]
    /\ answer' = [answer EXCEPT ![r] = IF Authenticated(q) /\ ~HasPrincipal(q) THEN NoAnswer ELSE Refusal(q)]
    /\ lookupOrg' = [lookupOrg EXCEPT ![r] = IF q.endpoint \in V2 THEN q.principal.org_id ELSE NoOrg]
    /\ held' = [held EXCEPT ![r] = {Reach(q, connections)}]
    /\ UNCHANGED <<connections, sent>>

\* The handler writes its answer and returns.
Respond(r, a) ==
    /\ pc' = [pc EXCEPT ![r] = "done"]
    /\ answer' = [answer EXCEPT ![r] = a]
    /\ UNCHANGED <<connections, request, lookupOrg, held>>

\* EANToOrgID
Translate(r) ==
    /\ pc[r] = "translate"
    /\ OrgOf[request[r].account] # NoOrg
    /\ pc' = [pc EXCEPT ![r] = "prepare"]
    /\ lookupOrg' = [lookupOrg EXCEPT ![r] = OrgOf[request[r].account]]
    /\ UNCHANGED <<connections, request, sent, answer, held>>

\* It does not know the account, or it fails, or it takes too long.
TranslateFails(r) ==
    /\ pc[r] = "translate"
    /\ Respond(r, FailureAnswer(request[r].endpoint, "untranslated"))
    /\ UNCHANGED sent

\* The lookup: verifyOrgId, and the statement is prepared.
Prepare(r) ==
    /\ pc[r] = "prepare"
    /\ lookupOrg[r] # NoOrg
    /\ pc' = [pc EXCEPT ![r] = "lookup"]
    /\ UNCHANGED <<connections, request, lookupOrg, sent, answer, held>>

PrepareFails(r) ==
    /\ pc[r] = "prepare"
    /\ Respond(r, FailureAnswer(request[r].endpoint, "error"))
    /\ UNCHANGED sent

\* Mutant: a satellite is within reach before it has a tenant.
MatchesTenantless(q, o, row) ==
    \/ row.org_id = o
    \/ RelaxedLookup /\ q.endpoint \notin Management /\ "foreman_rh_cloud" \in row.dispatchers

\* strictConnectionLookupQuery, which the management API always uses, and
\* relaxedConnectionLookupQuery
Matches(q, o, row) ==
    /\ \/ row.org_id = o
       \/ RelaxedLookup /\ q.endpoint \notin Management /\ "foreman_rh_cloud" \in row.dispatchers
    /\ row.org_id # NoOrg

Matching(r) == {row \in FindConnectionByClientID(connections, request[r].client_id) :
                  Matches(request[r], lookupOrg[r], row)}

\* The query returns a connection.
Lookup(r) ==
    /\ pc[r] = "lookup"
    /\ Matching(r) # {}
    /\ IF request[r].endpoint \in V1Status \cup {"v2/status"}
       THEN Respond(r, Connected)
       ELSE /\ pc' = [pc EXCEPT ![r] = "publish"]
            /\ UNCHANGED <<connections, request, lookupOrg, answer, held>>
    /\ UNCHANGED sent

\* It returns no row, or it fails (a database error, a time-out).
LookupFails(r) ==
    /\ pc[r] = "lookup"
    /\ \/ /\ Matching(r) = {}
          /\ Respond(r, FailureAnswer(request[r].endpoint, "notFound"))
       \/ Respond(r, FailureAnswer(request[r].endpoint, "error"))
    /\ UNCHANGED sent

\* The client proxy passes the message to the MQTT client library.
SendMessage(r) ==
    /\ pc[r] = "publish"
    /\ pc' = [pc EXCEPT ![r] = "wait"]
    /\ sent' = [sent EXCEPT ![r] = "inflight"]
    /\ UNCHANGED <<connections, request, lookupOrg, answer, held>>

\* The broker takes it, perhaps long after the request was answered (external).
BrokerAccepts(r) ==
    /\ sent[r] = "inflight"
    /\ sent' = [sent EXCEPT ![r] = "accepted"]
    /\ UNCHANGED <<connections, pc, request, lookupOrg, answer, held>>

\* Mutant: Wait in the place of WaitTimeout.
SendReturnsWhenAccepted(r) ==
    /\ pc[r] = "wait"
    /\ sent[r] = "accepted"
    /\ Respond(r, PublishAnswer(request[r].endpoint, FALSE))
    /\ UNCHANGED sent

\* sendMessage returns nil when the token is done without an error, and also when
\* WaitTimeout ran out of time.
SendReturns(r) ==
    /\ pc[r] = "wait"
    /\ Respond(r, PublishAnswer(request[r].endpoint, FALSE))
    /\ UNCHANGED sent

SendFails(r) ==
    /\ pc[r] = "wait"
    /\ sent[r] = "inflight"
    /\ sent' = [sent EXCEPT ![r] = "failed"]
    /\ Respond(r, PublishAnswer(request[r].endpoint, TRUE))

\* The caller has its answer, and the slot is free for another request; what
\* becomes of a message that is still in flight is not followed any further.
Close(r) ==
    /\ pc[r] \in {"done", "aborted"}
    /\ pc' = [pc EXCEPT ![r] = "idle"]
    /\ request' = [request EXCEPT ![r] = NoRequest]
    /\ lookupOrg' = [lookupOrg EXCEPT ![r] = NoOrg]
    /\ sent' = [sent EXCEPT ![r] = "no"]
    /\ answer' = [answer EXCEPT ![r] = NoAnswer]
    /\ held' = [held EXCEPT ![r] = {}]
    /\ UNCHANGED connections

-----------------------------------------------------------------------------
(* The other processes at work on the table *)

RequestsSee(t) ==
    /\ held' = [r \in Request |-> IF pc[r] \in {"idle", "done", "aborted"} THEN held[r]
                                  ELSE held[r] \cup {Reach(request[r], t)}]
    /\ UNCHANGED <<pc, request, lookupOrg, sent, answer>>

\* The consumers: an upsert of the rows that its snapshot holds, and a delete.
ConsumerWrites ==
    \E m \in Message :
      /\ \/ /\ m.state = "online"
            /\ \E o \in OrgID \cup {NoOrg}, seen \in 0 .. Len(connections[m.client_id]) :
                 connections' = Register(connections, m.client_id, m, o, seen)
         \/ m.state = "offline" /\ connections' = Unregister(connections, m.client_id)
      /\ Len(connections'[m.client_id]) <= MaxRows
      /\ RequestsSee(connections')

\* The updaters: a tenant is found, or lost.
UpdaterWrites ==
    \E c \in ClientID :
      /\ connections[c] # <<>>
      /\ \/ \E o \in OrgID : connections' = RecordSuccessfulTenantLookup(connections, c, o)
         \/ /\ \A i \in DOMAIN connections[c] :
                 connections[c][i].tenant_lookup_failure_count < MaxTenantLookupFailures
            /\ connections' = RecordFailedTenantLookup(connections, c)
      /\ RequestsSee(connections')

HandlerStep(r) ==
    \/ Translate(r) \/ TranslateFails(r) \/ Prepare(r) \/ PrepareFails(r) \/ Lookup(r) \/ LookupFails(r)
    \/ SendMessage(r) \/ SendReturns(r) \/ SendFails(r)

ApiNext ==
    \/ \E r \in Request :
         \/ \E q \in ApiRequest : Receive(r, q)
         \/ HandlerStep(r)
         \/ BrokerAccepts(r)
         \/ Close(r)
    \/ ConsumerWrites
    \/ UpdaterWrites

ApiSpec == ApiInit /\ [][ApiNext]_apiVars

\* The waits that a handler limits: by the time-outs of the translator, of the query
\* and of the publish.  Nothing is assumed of the broker, nor of Prepare, which is
\* called without the context on a connection that has no time-out of its own.
ApiFairness ==
    \A r \in Request :
      /\ WF_apiVars(Translate(r) \/ TranslateFails(r))
      /\ WF_apiVars(Lookup(r) \/ LookupFails(r))
      /\ WF_apiVars(SendMessage(r))
      /\ WF_apiVars(SendReturns(r))

FairApiSpec == ApiSpec /\ ApiFairness

-----------------------------------------------------------------------------
(* Properties *)

\* Tenant isolation: a message goes only to a connection that was within reach
\* of its request at some time while it was handled, although the tenant of the
\* connection may change between the lookup and the publish (createConnectorClientProxy).
MessagesStayInTenant ==
    \A r \in Request : sent[r] # "no" => "reachable" \in held[r]

\* A connection that is reported as connected was within reach at some time since
\* the request came in, and one that the v2 API reports as disconnected was, at
\* some time, not (getConnectionStatus, handleConnectionStatus, handleConnectionPing).
ReportedStatusWasTrue ==
    \A r \in Request :
      /\ answer[r].status = "connected" => "reachable" \in held[r]
      /\ answer[r].status = "disconnected" /\ request[r].endpoint = "v2/status" =>
           "unreachable" \in held[r]

\* A request is answered, or its connection closed, whatever the broker does.  One
\* thing can hold it up for ever: a database that does not answer Prepare.
EveryRequestEnds ==
    \A r \in Request :
      []<>(pc[r] \in {"idle", "done", "aborted"}) \/ <>[](pc[r] = "prepare")

\* The API says of 404: "No connection to the target connected client".
NotFoundMeansNoConnection ==
    \A r \in Request :
      answer[r].code = 404 /\ request[r].endpoint \in V2 => "unreachable" \in held[r]

\* A request that is answered with 201 had its message sent to the MQTT broker.
CreatedMeansSent ==
    \A r \in Request : answer[r].code = 201 => sent[r] = "accepted"
=============================================================================
