-------------------------- MODULE ConnectionUpdaters --------------------------
(***************************************************************************)
(* The two cron jobs that repair what the Kafka message consumers could    *)
(* not do when a client came online: the tenantless connection updater     *)
(* looks the tenant up again, the inventory stale timestamp updater keeps  *)
(* the host alive in inventory.  The scheduler runs one instance of each.  *)
(*                                                                         *)
(* A run of a job is the set of rows its SELECT returned, each with the    *)
(* progress made on it; no run is under way when the set is empty.  The    *)
(* rows are copies: the table may have changed when a row's turn comes.    *)
(***************************************************************************)
EXTENDS ConnectedClientRecorder, FiniteSets

CONSTANT ChunkSize  \* LIMIT of both SELECT statements

ASSUME UpdaterAssumption == ChunkSize \in Nat \ {0}

VARIABLES
    tenantlessRun,  \* set of Work
    staleRun        \* set of Work

updaterVars == <<tenantlessRun, staleRun>>

Work == [client : ConnectorClientState,
         stage  : {"selected", "resolved", "unresolved", "sent"},
         org_id : OrgID \cup {NoOrg}]   \* the tenant that the lookup found

UpdaterTypeOK ==
    /\ tenantlessRun \subseteq Work
    /\ staleRun \subseteq Work

UpdaterInit ==
    /\ tenantlessRun = {}
    /\ staleRun = {}

\* ORDER BY timestamp LIMIT ChunkSize: all rows, or as many as the limit allows.
Chunks(clients) ==
    {chunk \in SUBSET clients :
       \/ chunk = clients /\ Cardinality(chunk) <= ChunkSize
       \/ Cardinality(chunk) = ChunkSize}

Selected(chunk) == {[client |-> s, stage |-> "selected", org_id |-> NoOrg] : s \in chunk}

\* Rows are processed one after the other.
NextRow(run, w) ==
    /\ w.stage = "selected"
    /\ \A v \in run : v.stage = "selected"

\* Mutant: the results of the resolver are mixed up.
ResolvedMixedUp(w, result) ==
    [w EXCEPT !.stage  = IF result.identity THEN "resolved" ELSE "unresolved",
              !.org_id = w.client.client_id]

\* The answer of the account resolver is stored with the row.
Resolved(w, result) ==
    [w EXCEPT !.stage  = IF result.identity THEN "resolved" ELSE "unresolved",
              !.org_id = result.org_id]

-----------------------------------------------------------------------------
(* startTenantlessConnectionUpdater *)

SelectTenantless ==
    /\ tenantlessRun = {}
    /\ \E chunk \in Chunks(SelectClients(connections, IsTenantlessDue)) :
         tenantlessRun' = Selected(chunk)
    /\ UNCHANGED <<connections, inventory, staleRun>>

LookupTenant(w) ==
    /\ NextRow(tenantlessRun, w)
    /\ \E result \in MapClientIdToAccountId :
         tenantlessRun' = (tenantlessRun \ {w}) \cup {Resolved(w, result)}
    /\ UNCHANGED <<connections, inventory, staleRun>>

\* The UPDATE of the outcome; an error of it is logged and the loop goes on.
RecordTenantLookup(w) ==
    /\ w.stage \in {"resolved", "unresolved"}
    /\ \/ connections' = IF w.stage = "resolved"
                         THEN RecordSuccessfulTenantLookup(connections, w.client.client_id, w.org_id)
                         ELSE RecordFailedTenantLookup(connections, w.client.client_id)
       \/ UNCHANGED connections
    /\ tenantlessRun' = tenantlessRun \ {w}
    /\ UNCHANGED <<inventory, staleRun>>

\* The job is killed, or the query timeout that also covers rows.Next expires.
EndTenantlessRun ==
    /\ tenantlessRun # {}
    /\ tenantlessRun' = {}
    /\ UNCHANGED <<connections, inventory, staleRun>>

-----------------------------------------------------------------------------
(* startInventoryStaleTimestampUpdater *)

SelectStale ==
    /\ staleRun = {}
    /\ \E chunk \in Chunks(SelectClients(connections, IsStaleDue)) :
         staleRun' = Selected(chunk)
    /\ UNCHANGED <<connections, inventory, tenantlessRun>>

LookupIdentity(w) ==
    /\ NextRow(staleRun, w)
    /\ \E result \in MapClientIdToAccountId :
         staleRun' = (staleRun \ {w}) \cup {Resolved(w, result)}
    /\ UNCHANGED <<connections, inventory, tenantlessRun>>

\* RecordFailedTenantLookup, whose error is logged only.
RecordLookupFailure(w) ==
    /\ w.stage = "unresolved"
    /\ \/ connections' = RecordFailedTenantLookup(connections, w.client.client_id)
       \/ UNCHANGED connections
    /\ staleRun' = staleRun \ {w}
    /\ UNCHANGED <<inventory, tenantlessRun>>

SendToInventory(w) ==
    /\ w.stage = "resolved"
    /\ RecordConnectedClient(w.client.client_id, TRUE, w.client.canonical_facts, w.client.dispatchers)
    /\ staleRun' = (staleRun \ {w}) \cup {[w EXCEPT !.stage = "sent"]}
    /\ UNCHANGED <<connections, tenantlessRun>>

\* Mutant: the error is logged and the job goes on with the row.
SendToInventoryErrorIgnored(w) ==
    /\ w.stage = "resolved"
    /\ RecordConnectedClientFails(w.client.client_id, TRUE, w.client.canonical_facts, w.client.dispatchers)
    /\ staleRun' = (staleRun \ {w}) \cup {[w EXCEPT !.stage = "sent"]}
    /\ UNCHANGED <<connections, tenantlessRun>>

\* On an error the row keeps its old timestamp and is selected again later.
SendToInventoryFails(w) ==
    /\ w.stage = "resolved"
    /\ RecordConnectedClientFails(w.client.client_id, TRUE, w.client.canonical_facts, w.client.dispatchers)
    /\ staleRun' = staleRun \ {w}
    /\ UNCHANGED <<connections, tenantlessRun>>

RecordStaleTimestamp(w) ==
    /\ w.stage = "sent"
    /\ connections' = RecordUpdatedStaleTimestamp(connections, w.client.client_id, w.client.org_id)
    /\ staleRun' = staleRun \ {w}
    /\ UNCHANGED <<inventory, tenantlessRun>>

\* The job is killed, its query timeout expires, or the UPDATE of the stale
\* timestamp fails, which ends the process.
EndStaleRun ==
    /\ staleRun # {}
    /\ staleRun' = {}
    /\ UNCHANGED <<connections, inventory, tenantlessRun>>

-----------------------------------------------------------------------------
(* The passing of time *)

StaleTimestampsExpire ==
    /\ connections' = AgeStaleTimestamps(connections)
    /\ connections' # connections
    /\ UNCHANGED <<inventory, tenantlessRun, staleRun>>

TenantLookupTimestampsExpire ==
    /\ connections' = AgeTenantLookupTimestamps(connections)
    /\ connections' # connections
    /\ UNCHANGED <<inventory, tenantlessRun, staleRun>>

UpdaterNext ==
    \/ SelectTenantless \/ EndTenantlessRun
    \/ SelectStale \/ EndStaleRun
    \/ \E w \in tenantlessRun : LookupTenant(w) \/ RecordTenantLookup(w)
    \/ \E w \in staleRun : LookupIdentity(w) \/ RecordLookupFailure(w) \/ SendToInventory(w)
                             \/ SendToInventoryFails(w) \/ RecordStaleTimestamp(w)
    \/ StaleTimestampsExpire \/ TenantLookupTimestampsExpire
=============================================================================
