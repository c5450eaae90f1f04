--------------------------- MODULE ConnectionTable ---------------------------
(***************************************************************************)
(* The connections table of the PostgreSQL database and the statements     *)
(* that internal/connection_repository runs against it.                    *)
(*                                                                         *)
(* The table has no UNIQUE constraint on client_id, so a client owns a     *)
(* sequence of rows in insertion order: UPDATE ... WHERE client_id changes *)
(* all that its snapshot holds, DELETE removes them, INSERT appends one.   *)
(*                                                                         *)
(* Abstractions.  account always travels with org_id and tags with the     *)
(* dispatchers, so neither has a column of its own.  A timestamp column is *)
(* "recent" (not before the updaters' cutoff) or "old" (before it).        *)
(***************************************************************************)
EXTENDS Naturals, Sequences

CONSTANTS
    ClientID,           \* the clients (domain.ClientID)
    MessageID,          \* ids that clients put into their control messages
    OrgID,              \* the tenants, as non-empty org ids
    NoOrg,              \* the empty org id of a tenantless connection
    Fact,               \* canonical facts a client may report
    InvalidInsightsID,  \* facts that sanitizeCanonicalFacts removes
    BlankFact,          \* facts that cleanupCanonicalFacts removes
    Message,            \* the control messages clients may send
    MaxTenantLookupFailures

Dispatcher == {"rhc-worker-playbook", "package-manager", "rhc-worker-script", "catalog",
               "foreman_rh_cloud"}

\* A decoded control message.  "other" stands for everything the handlers
\* skip: no headers, a foreign topic, an empty or unparsable payload, an event,
\* an unknown message type, a missing or unknown connection state.  "malformed"
\* is a connection-status message whose content is not an object.
ControlMessage == [client_id       : ClientID,
                   state           : {"online", "offline", "other", "malformed"},
                   message_id      : MessageID,
                   sent            : Nat,
                   canonical_facts : SUBSET Fact,
                   dispatchers     : SUBSET Dispatcher]

ASSUME TableAssumption ==
    /\ NoOrg \notin OrgID
    /\ MaxTenantLookupFailures \in Nat \ {0}
    /\ Message \subseteq ControlMessage

Row == [message_id                  : MessageID,
        message_sent                : Nat,
        org_id                      : OrgID \cup {NoOrg},
        canonical_facts             : SUBSET Fact,
        dispatchers                 : SUBSET Dispatcher,
        stale_timestamp             : {"recent", "old"},
        tenant_lookup_timestamp     : {"null", "recent", "old"},
        tenant_lookup_failure_count : Nat]

VARIABLE connections    \* [ClientID -> Seq(Row)]

ConnectionsTypeOK == connections \in [ClientID -> Seq(Row)]

ConnectionsInit == connections = [c \in ClientID |-> <<>>]

\* UPDATE connections SET ... WHERE client_id = c, the SET clause being Set(_).
UpdateRows(t, c, Set(_)) ==
    [t EXCEPT ![c] = [i \in DOMAIN t[c] |-> Set(t[c][i])]]

-----------------------------------------------------------------------------
(* SqlConnectionRegistrar *)

\* sanitizeCanonicalFacts: absent facts become {}, a bad insights_id is dropped.
SanitizeCanonicalFacts(facts) == facts \ InvalidInsightsID

\* Mutant: the clock of the tenantless updater is not started.
TenantLookupTimestampUnset(org) == "null"

\* A registration without a tenant starts the clock of the tenantless updater.
TenantLookupTimestamp(org) == IF org = NoOrg THEN "recent" ELSE "null"

\* Mutant: the canonical facts are stored as the client sent them.
InsertedRowUnsanitized(m, org) ==
    [message_id                  |-> m.message_id,
     message_sent                |-> m.sent,
     org_id                      |-> org,
     canonical_facts             |-> m.canonical_facts,
     dispatchers                 |-> m.dispatchers,
     stale_timestamp             |-> "recent",
     tenant_lookup_timestamp     |-> TenantLookupTimestamp(org),
     tenant_lookup_failure_count |-> 0]

\* The INSERT of the upsert; the columns it leaves out take their defaults.
InsertedRow(m, org) ==
    [message_id                  |-> m.message_id,
     message_sent                |-> m.sent,
     org_id                      |-> org,
     canonical_facts             |-> SanitizeCanonicalFacts(m.canonical_facts),
     dispatchers                 |-> m.dispatchers,
     stale_timestamp             |-> "recent",
     tenant_lookup_timestamp     |-> TenantLookupTimestamp(org),
     tenant_lookup_failure_count |-> 0]

\* Mutant: the parameters of the statement are mixed up.
UpdatedRowMixedUp(r, m, org) ==
    [r EXCEPT !.message_id              = m.message_id,
              !.message_sent            = m.sent,
              !.org_id                  = m.client_id,
              !.dispatchers             = m.dispatchers,
              !.tenant_lookup_timestamp = TenantLookupTimestamp(org)]

\* Mutant: a column is missing in the SET clause.
UpdatedRowKeepsDispatchers(r, m, org) ==
    [r EXCEPT !.message_id              = m.message_id,
              !.message_sent            = m.sent,
              !.org_id                  = org,
              !.tenant_lookup_timestamp = TenantLookupTimestamp(org),
              !.tenant_lookup_failure_count = IF org = NoOrg THEN @ ELSE 0]

\* The UPDATE of the upsert: it sets neither canonical_facts nor
\* stale_timestamp, and resets the failure count only for a known tenant.
UpdatedRow(r, m, org) ==
    [r EXCEPT !.message_id              = m.message_id,
              !.message_sent            = m.sent,
              !.org_id                  = org,
              !.dispatchers             = m.dispatchers,
              !.tenant_lookup_timestamp = TenantLookupTimestamp(org),
              !.tenant_lookup_failure_count = IF org = NoOrg THEN @ ELSE 0]

\* Mutant: the INSERT lacks its WHERE NOT EXISTS.
RegisterInserts(t, c, m, org, seen) == [t EXCEPT ![c] = Append(@, InsertedRow(m, org))]

\* Register: the UPDATE works on the rows that the statement's snapshot saw and
\* that still exist, the first ones; when there are none, the INSERT adds a row.
Register(t, c, m, org, seen) ==
    IF seen > 0
    THEN [t EXCEPT ![c] = [i \in DOMAIN t[c] |-> IF i <= seen THEN UpdatedRow(t[c][i], m, org)
                                                 ELSE t[c][i]]]
    ELSE [t EXCEPT ![c] = Append(@, InsertedRow(m, org))]

Unregister(t, c) == [t EXCEPT ![c] = <<>>]

\* FindConnectionByClientID scans one row of the result, whichever comes first.
FindConnectionByClientID(t, c) == {t[c][i] : i \in DOMAIN t[c]}

\* Mutant: messages of an older clock are accepted.
IsDuplicateMessage(r, m) == r.message_id = m.message_id

\* isDuplicateOrOldMessage
IsDuplicateOrOldMessage(r, m) ==
    \/ r.message_id = m.message_id
    \/ m.sent < r.message_sent

\* The errors of ExecContext that the registrar tells apart, with the
\* SQLSTATE code and the condition name that lib/pq gives to it.
ExecError == {[code |-> "08006", name |-> "connection_failure"],
              [code |-> "57014", name |-> "query_canceled"]}

\* pgerrcode.IsConnectionException: membership in SQLSTATE class 08.
ConnectionExceptions == {"08000", "08001", "08003", "08004", "08006", "08007", "08P01"}

\* Register's test for a fatal Exec error looks the NAME up among the codes.
IsFatalExecError(e) == e.name \in ConnectionExceptions

-----------------------------------------------------------------------------
(* The statements of the tenantless and of the stale-timestamp updater *)

\* What the updaters read of a row into a domain.ConnectorClientState.
ConnectorClientState == [client_id       : ClientID,
                         org_id          : OrgID \cup {NoOrg},
                         canonical_facts : SUBSET Fact,
                         dispatchers     : SUBSET Dispatcher]

ClientState(c, r) == [client_id       |-> c,
                      org_id          |-> r.org_id,
                      canonical_facts |-> r.canonical_facts,
                      dispatchers     |-> r.dispatchers]

\* Mutant: off by one at the limit.
IsTenantlessDueAtLimit(r) ==
    /\ r.org_id = NoOrg
    /\ r.tenant_lookup_timestamp = "old"
    /\ r.tenant_lookup_failure_count <= MaxTenantLookupFailures

\* WHERE clause of ProcessTenantlessConnections.
IsTenantlessDue(r) ==
    /\ r.org_id = NoOrg
    /\ r.tenant_lookup_timestamp = "old"
    /\ r.tenant_lookup_failure_count < MaxTenantLookupFailures

\* Mutant: one of the two workers is forgotten.
IsStaleDuePlaybookOnly(r) ==
    /\ r.org_id # NoOrg
    /\ r.canonical_facts # {}
    /\ "rhc-worker-playbook" \in r.dispatchers
    /\ r.stale_timestamp = "old"

\* WHERE clause of ProcessStaleConnections.
IsStaleDue(r) ==
    /\ r.org_id # NoOrg
    /\ r.canonical_facts # {}
    /\ r.dispatchers \cap {"rhc-worker-playbook", "package-manager"} # {}
    /\ r.stale_timestamp = "old"

\* The rows a SELECT with WHERE clause Due(_) returns, before LIMIT.
SelectClients(t, Due(_)) ==
    UNION {{ClientState(c, t[c][i]) : i \in {j \in DOMAIN t[c] : Due(t[c][j])}} : c \in ClientID}

\* Mutant: the failure count is not reset.
WithTenantKeepsCount(r, org) == [r EXCEPT !.org_id = org, !.tenant_lookup_timestamp = "null"]

\* SET clauses of RecordSuccessfulTenantLookup and RecordFailedTenantLookup.
WithTenant(r, org) == [r EXCEPT !.org_id = org,
                                !.tenant_lookup_timestamp = "null",
                                !.tenant_lookup_failure_count = 0]

WithoutTenant(r) == [r EXCEPT !.org_id = NoOrg,
                              !.tenant_lookup_timestamp = "recent",
                              !.tenant_lookup_failure_count = @ + 1]

\* Mutant: the WHERE clause does not look at the tenant.
WithFreshTimestampAnyTenant(r, org) == [r EXCEPT !.stale_timestamp = "recent",
                                                 !.tenant_lookup_timestamp = "null",
                                                 !.tenant_lookup_failure_count = 0]

\* RecordUpdatedStaleTimestamp also has WHERE org_id = $1: a row that changed its
\* tenant since the updater read it is left alone.
WithFreshTimestamp(r, org) ==
    IF r.org_id = org
    THEN [r EXCEPT !.stale_timestamp = "recent",
                   !.tenant_lookup_timestamp = "null",
                   !.tenant_lookup_failure_count = 0]
    ELSE r

RecordSuccessfulTenantLookup(t, c, org) == UpdateRows(t, c, LAMBDA r : WithTenant(r, org))

\* Mutant: the rows are purged on a failed lookup.
PurgeOnFailedTenantLookup(t, c) == [t EXCEPT ![c] = <<>>]

RecordFailedTenantLookup(t, c) == UpdateRows(t, c, WithoutTenant)

RecordUpdatedStaleTimestamp(t, c, org) == UpdateRows(t, c, LAMBDA r : WithFreshTimestamp(r, org))

-----------------------------------------------------------------------------
\* Time passes: the stale timestamps, or the lookup timestamps, of the rows
\* fall behind the cutoff of the updater that reads them.
WithOldTimestamp(r) == [r EXCEPT !.stale_timestamp = "old"]

WithOldLookup(r) == [r EXCEPT !.tenant_lookup_timestamp = IF @ = "null" THEN "null" ELSE "old"]

AgeRows(t, Aged(_)) == [c \in ClientID |-> [i \in DOMAIN t[c] |-> Aged(t[c][i])]]

AgeStaleTimestamps(t) == AgeRows(t, WithOldTimestamp)

AgeTenantLookupTimestamps(t) == AgeRows(t, WithOldLookup)
=============================================================================
