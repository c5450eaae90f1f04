---------------------------- MODULE CloudConnector ----------------------------
(***************************************************************************)
(* The Kafka message consumers and the two updater jobs at work on the     *)
(* same connections table and the same inventory.  They share no lock and  *)
(* no transaction: any step of one may fall between two steps of another.  *)
(***************************************************************************)
EXTENDS KafkaMessageConsumer, ConnectionUpdaters

vars == <<connections, inventory, kafkaVars, updaterVars>>

TypeOK == ConsumerTypeOK /\ UpdaterTypeOK

Init == ConsumerInit /\ UpdaterInit

Next ==
    \/ ConsumerNext /\ UNCHANGED updaterVars
    \/ UpdaterNext /\ UNCHANGED kafkaVars

Spec == Init /\ [][Next]_vars

-----------------------------------------------------------------------------
(* Properties *)

Rows == UNION {FindConnectionByClientID(connections, c) : c \in ClientID}

\* A row with a tenant carries no trace of failed lookups, whichever of Register,
\* RecordSuccessfulTenantLookup, RecordFailedTenantLookup and
\* RecordUpdatedStaleTimestamp touched it last, and on however old a copy.
TenantedRowsAreClean ==
    \A r \in Rows : r.org_id # NoOrg =>
      /\ r.tenant_lookup_timestamp = "null"
      /\ r.tenant_lookup_failure_count = 0

\* A row without a tenant stays visible to the tenantless updater: its lookup
\* timestamp is set (WHERE clause of ProcessTenantlessConnections).
TenantlessRowsAreRetried ==
    \A r \in Rows : r.org_id = NoOrg => r.tenant_lookup_timestamp # "null"

\* Lookups of a tenant stop after the configured number of failures; a stale
\* updater that read the row while it had a tenant can add one more.
FailureCountBounded ==
    \A r \in Rows : r.tenant_lookup_failure_count <= MaxTenantLookupFailures + 1

\* Inventory never receives an invalid insights_id or an empty fact, be it from
\* a consumer that has the message or from the stale updater, which has the row
\* (sanitizeCanonicalFacts before Register, cleanupCanonicalFacts before the write).
InventoryFactsValid ==
    \A c \in ClientID :
      inventory[c].canonical_facts \cap (InvalidInsightsID \cup BlankFact) = {}

\* The stale updater refreshes the timestamp of a row only for a client that
\* inventory was informed of, now or earlier (RecordConnectedClient before
\* RecordUpdatedStaleTimestamp).  It looks at the first row of the client.
RefreshOnlyAfterReport ==
    [][\A c \in ClientID :
         (/\ connections[c] # <<>> /\ connections[c][1].stale_timestamp = "old"
          /\ connections'[c] # <<>> /\ connections'[c][1].stale_timestamp = "recent")
         => inventory[c].reported]_vars

-----------------------------------------------------------------------------
(* Liveness *)

\* The scheduler starts the jobs again and again, time passes, and what a job
\* tries over and over again is not interrupted and does not fail every time.
\* That includes Prepare, which the code does not limit in time: the database is
\* assumed to answer.
UpdaterFairness ==
    /\ WF_vars(StaleTimestampsExpire /\ UNCHANGED kafkaVars)
    /\ WF_vars(TenantLookupTimestampsExpire /\ UNCHANGED kafkaVars)
    /\ WF_vars(SelectTenantless /\ UNCHANGED kafkaVars)
    /\ WF_vars(SelectStale /\ UNCHANGED kafkaVars)
    /\ SF_vars(\E w \in tenantlessRun : LookupTenant(w) /\ UNCHANGED kafkaVars)
    /\ SF_vars(\E w \in tenantlessRun :
                 RecordTenantLookup(w) /\ connections' # connections /\ UNCHANGED kafkaVars)
    /\ SF_vars(\E w \in staleRun : LookupIdentity(w) /\ UNCHANGED kafkaVars)
    /\ SF_vars(\E w \in staleRun : /\ LookupIdentity(w)
                                   /\ \E v \in staleRun' : v.stage = "resolved"
                                   /\ UNCHANGED kafkaVars)
    /\ SF_vars(\E w \in staleRun :
                 RecordLookupFailure(w) /\ connections' # connections /\ UNCHANGED kafkaVars)
    /\ SF_vars(\E w \in staleRun : SendToInventory(w) /\ UNCHANGED kafkaVars)
    /\ SF_vars(\E w \in staleRun : RecordStaleTimestamp(w) /\ UNCHANGED kafkaVars)

FairSpec == Spec /\ UpdaterFairness

\* The client is connected, with a tenant, and is a host that the consumer
\* would have registered with inventory.
BelongsInInventory(c) ==
    \E r \in FindConnectionByClientID(connections, c) :
      /\ r.org_id # NoOrg
      /\ ShouldHostBeRegisteredWithInventory(TRUE, r.canonical_facts, r.dispatchers)

\* The client is disconnected, or its lookups used up the failures allowed.
GoneOrGivenUp(c) ==
    \A r \in FindConnectionByClientID(connections, c) :
      r.org_id = NoOrg /\ r.tenant_lookup_failure_count >= MaxTenantLookupFailures

\* A host that belongs in inventory gets there, even when the consumer failed to
\* send it or crashed before: the stale updater makes up for it.
InventoryInformed ==
    \A c \in ClientID :
      BelongsInInventory(c) ~> inventory[c].reported \/ GoneOrGivenUp(c)

\* A tenantless connection gets its tenant, unless the client leaves or the
\* lookup fails as often as allowed (the tenantless updater).
TenantlessSettled ==
    \A c \in ClientID :
      (\E r \in FindConnectionByClientID(connections, c) : r.org_id = NoOrg)
        ~> GoneOrGivenUp(c) \/ \E r \in FindConnectionByClientID(connections, c) : r.org_id # NoOrg
=============================================================================
