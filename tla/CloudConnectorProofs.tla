------------------------ MODULE CloudConnectorProofs ------------------------
(***************************************************************************)
(* Invariants of the consumers and the updater jobs at work together, for  *)
(* any number of consumers, clients, messages and rows and any chunk size. *)
(* Handlers may overlap, unless a theorem says otherwise: that the whole   *)
(* implements ConnectionLedger, and that failure counts are bounded.       *)
(*                                                                         *)
(* An invariant of the rows is proved as "the rows belong to R" for a set  *)
(* R that every statement stays in (Closed), with the help of what is      *)
(* known of the copies that the updaters hold (ClosedForRuns).             *)
(***************************************************************************)
EXTENDS CloudConnector, KafkaMessageConsumerProofs

\* The statements that need no knowledge of the updaters' copies stay in R.
Closed(R) ==
    /\ \A m \in ControlMessage : \A org \in OrgID \cup {NoOrg} :
         /\ InsertedRow(m, org) \in R
         /\ \A r \in R : UpdatedRow(r, m, org) \in R
    /\ \A r \in R : /\ WithoutTenant(r) \in R
                    /\ WithOldTimestamp(r) \in R
                    /\ WithOldLookup(r) \in R

\* Recording what the updaters hold stays in R.
ClosedForRuns(R) ==
    /\ \A w \in tenantlessRun : w.stage = "resolved" => \A r \in R : WithTenant(r, w.org_id) \in R
    /\ \A w \in staleRun : \A r \in R : WithFreshTimestamp(r, w.client.org_id) \in R

\* A step of a consumer changes the table by a registration, a deletion or not
\* at all, and so keeps the rows in R.
LEMMA ConsumerRowsIn ==
    ASSUME NEW R, TypeInv, connections \in Tables(R), Closed(R),
           ConsumerNext
    PROVE  connections' \in Tables(R)
<1>1. ASSUME NEW p \in Consumer, proc[p].pc \in Busy, Upsert(p)
      PROVE  connections' \in Tables(R)
  <2> DEFINE m == Msg(p)
             org == proc[p].result.org_id
             seen == proc[p].seen
  <2>1. proc[p] \in Process
    BY DEF TypeInv, ConsumerTypeOK
  <2>2. org \in OrgID \cup {NoOrg} /\ seen \in Nat
    BY <2>1 DEF Process, Resolution
  <2>3. m \in ControlMessage /\ m.client_id \in ClientID
    BY <1>1, MsgType
  <2>4. connections' = Register(connections, m.client_id, m, org, seen)
    BY <1>1 DEF Upsert
  <2> HIDE DEF m, org, seen
  <2>5. InsertedRow(m, org) \in R /\ \A r \in R : UpdatedRow(r, m, org) \in R
    BY <2>2, <2>3 DEF Closed
  <2> QED
    BY <2>2, <2>3, <2>4, <2>5, RegisterIn
<1>2. ASSUME NEW p \in Consumer, UnregisterClient(p) \/ UnregisterReplyLost(p)
      PROVE  connections' \in Tables(R)
  <2>1. Msg(p).client_id \in ClientID
    BY <1>2, MsgType DEF UnregisterClient, UnregisterReplyLost, Busy
  <2> QED
    BY <1>2, <2>1, UnregisterIn DEF UnregisterClient, UnregisterReplyLost
<1>3. ASSUME NEW p \in Consumer, ExecUpsert(p) \/ ExecUpsertFails(p)
      PROVE  connections' \in Tables(R)
  <2>1. proc[p].pc \in Busy /\ (Upsert(p) \/ connections' = connections)
    BY <1>3 DEF ExecUpsert, ExecUpsertFails, Busy
  <2> QED
    BY <1>1, <2>1
<1>4. ASSUME NEW p \in Consumer,
             HandlerStep(p), ~UnregisterClient(p), ~UnregisterReplyLost(p),
             ~ExecUpsert(p), ~ExecUpsertFails(p)
      PROVE  connections' = connections
  BY <1>4 DEF HandlerStep, FetchMessage, HandlerPanics, IgnoreDuplicate, AcceptMessage, ResolveTenant,
              PrepareUpsert, DatabaseFails, RecordClient, RecordClientFails, SourceExists,
              SourceNotFound, CreateSource, CommitMessage, CommitFails, FatalProcessingError
<1>5. ASSUME NEW p \in Consumer, Start(p) \/ Rebalance(p) \/ Crash(p)
      PROVE  connections' = connections
  BY <1>5 DEF Start, Rebalance, Crash
<1>6. ASSUME NEW m \in Message, Publish(m)
      PROVE  connections' = connections
  BY <1>6 DEF Publish
<1> QED
  BY <1>2, <1>3, <1>4, <1>5, <1>6 DEF ConsumerNext

\* A step of an updater keeps the rows in R.
LEMMA UpdaterRowsIn ==
    ASSUME NEW R, UpdaterTypeOK, connections \in Tables(R), Closed(R), ClosedForRuns(R),
           UpdaterNext
    PROVE  connections' \in Tables(R)
<1>1. \A w \in tenantlessRun \cup staleRun : w.client.client_id \in ClientID
  BY DEF UpdaterTypeOK, Work, ConnectorClientState
<1>2. ASSUME NEW w \in tenantlessRun, LookupTenant(w) \/ RecordTenantLookup(w)
      PROVE  connections' \in Tables(R)
  <2>1. w.client.client_id \in ClientID
    BY <1>1
  <2>2. CASE connections' = connections
    BY <2>2
  <2>3. CASE /\ connections' = RecordSuccessfulTenantLookup(connections, w.client.client_id, w.org_id)
             /\ w.stage = "resolved"
    BY <2>1, <2>3, RecordSuccessIn DEF ClosedForRuns
  <2>4. CASE connections' = RecordFailedTenantLookup(connections, w.client.client_id)
    BY <2>1, <2>4, RecordFailureIn DEF Closed
  <2> QED
    BY <1>2, <2>2, <2>3, <2>4 DEF LookupTenant, RecordTenantLookup
<1>3. ASSUME NEW w \in staleRun,
             LookupIdentity(w) \/ RecordLookupFailure(w) \/ SendToInventory(w)
               \/ SendToInventoryFails(w) \/ RecordStaleTimestamp(w)
      PROVE  connections' \in Tables(R)
  <2>1. w.client.client_id \in ClientID
    BY <1>1
  <2>2. CASE connections' = connections
    BY <2>2
  <2>3. CASE connections' = RecordUpdatedStaleTimestamp(connections, w.client.client_id, w.client.org_id)
    BY <2>1, <2>3, RecordStaleIn DEF ClosedForRuns
  <2>4. CASE connections' = RecordFailedTenantLookup(connections, w.client.client_id)
    BY <2>1, <2>4, RecordFailureIn DEF Closed
  <2> QED
    BY <1>3, <2>2, <2>3, <2>4
       DEF LookupIdentity, RecordLookupFailure, SendToInventory, SendToInventoryFails,
           RecordStaleTimestamp
<1>4. CASE SelectTenantless \/ EndTenantlessRun \/ SelectStale \/ EndStaleRun
  BY <1>4 DEF SelectTenantless, EndTenantlessRun, SelectStale, EndStaleRun
<1>5. CASE StaleTimestampsExpire
  BY <1>5, AgeStaleIn DEF Closed, StaleTimestampsExpire
<1>6. CASE TenantLookupTimestampsExpire
  BY <1>6, AgeLookupIn DEF Closed, TenantLookupTimestampsExpire
<1> QED
  BY <1>2, <1>3, <1>4, <1>5, <1>6 DEF UpdaterNext

\* Every step keeps the rows in R.
LEMMA RowsIn ==
    ASSUME NEW R, TypeInv, UpdaterTypeOK, connections \in Tables(R), Closed(R), ClosedForRuns(R),
           [Next]_vars
    PROVE  connections' \in Tables(R)
<1>1. CASE UNCHANGED vars
  BY <1>1 DEF vars
<1> QED
  BY <1>1, ConsumerRowsIn, UpdaterRowsIn DEF Next

-----------------------------------------------------------------------------
(* Types, and what is known of the copies in the hands of the updaters *)

\* The answer of the resolver is stored with a well-formed piece of work (Resolved).
LEMMA ResolvedType ==
    ASSUME NEW w \in Work, NEW result \in Resolution
    PROVE  /\ Resolved(w, result) \in Work
           /\ Resolved(w, result).client = w.client
           /\ Resolved(w, result).org_id = result.org_id
           /\ Resolved(w, result).stage = "resolved" => result.identity
BY DEF Resolved, Work, Resolution

\* A SELECT returns copies of rows that satisfy its WHERE clause
\* (ProcessTenantlessConnections).
LEMMA SelectTenantlessType ==
    ASSUME ConnectionsTypeOK, SelectTenantless
    PROVE  /\ tenantlessRun' \subseteq Work
           /\ \A w \in tenantlessRun' : w.stage = "selected"
<1>1. PICK chunk \in Chunks(SelectClients(connections, IsTenantlessDue)) :
        tenantlessRun' = Selected(chunk)
  BY DEF SelectTenantless
<1>2. chunk \subseteq SelectClients(connections, IsTenantlessDue)
  BY <1>1 DEF Chunks
<1>3. ASSUME NEW s \in SelectClients(connections, IsTenantlessDue)
      PROVE  s \in ConnectorClientState
  <2>1. PICK c \in ClientID : \E i \in DOMAIN connections[c] : s = ClientState(c, connections[c][i])
    BY <1>3 DEF SelectClients
  <2>2. PICK i \in DOMAIN connections[c] : s = ClientState(c, connections[c][i])
    BY <2>1
  <2>3. connections[c][i] \in Row
    BY <2>2 DEF ConnectionsTypeOK
  <2> QED
    BY <2>2, <2>3 DEF ClientState, ConnectorClientState, Row
<1> QED
  BY <1>1, <1>2, <1>3 DEF Selected, Work

\* A SELECT returns copies of rows that satisfy its WHERE clause
\* (ProcessStaleConnections).
LEMMA SelectStaleType ==
    ASSUME NEW R \in SUBSET Row, connections \in Tables(R), SelectStale
    PROVE  /\ staleRun' \subseteq Work
           /\ \A w \in staleRun' :
                \E r \in R : /\ r.org_id # NoOrg
                             /\ w.client.org_id = r.org_id
                             /\ w.client.canonical_facts = r.canonical_facts
<1>1. PICK chunk \in Chunks(SelectClients(connections, IsStaleDue)) :
        staleRun' = Selected(chunk)
  BY DEF SelectStale
<1>2. chunk \subseteq SelectClients(connections, IsStaleDue)
  BY <1>1 DEF Chunks
<1>3. ASSUME NEW s \in SelectClients(connections, IsStaleDue)
      PROVE  /\ s \in ConnectorClientState
             /\ \E r \in R : /\ r.org_id # NoOrg
                             /\ s.org_id = r.org_id
                             /\ s.canonical_facts = r.canonical_facts
  <2>1. PICK c \in ClientID :
          \E i \in DOMAIN connections[c] :
            s = ClientState(c, connections[c][i]) /\ IsStaleDue(connections[c][i])
    BY <1>3 DEF SelectClients
  <2>2. PICK i \in DOMAIN connections[c] :
          s = ClientState(c, connections[c][i]) /\ IsStaleDue(connections[c][i])
    BY <2>1
  <2>3. connections[c][i] \in R
    BY <2>2 DEF Tables
  <2>4. connections[c][i].org_id # NoOrg
    BY <2>2 DEF IsStaleDue
  <2>5. s \in ConnectorClientState
    BY <2>2, <2>3 DEF ClientState, ConnectorClientState, Row
  <2>6. /\ s.org_id = connections[c][i].org_id
        /\ s.canonical_facts = connections[c][i].canonical_facts
    BY <2>2 DEF ClientState
  <2> QED
    BY <2>3, <2>4, <2>5, <2>6
<1> QED
  BY <1>1, <1>2, <1>3 DEF Selected, Work

\* After a step of an updater, the stale updater holds copies it held before or
\* copies of rows with a tenant, and a tenant that the tenantless updater is
\* about to record is one it held before or an answer of the resolver.
LEMMA RunsStep ==
    ASSUME NEW R \in SUBSET Row, connections \in Tables(R), UpdaterTypeOK, UpdaterNext
    PROVE  /\ UpdaterTypeOK'
           /\ \A w \in staleRun' :
                \/ \E v \in staleRun : w.client = v.client
                \/ \E r \in R : /\ r.org_id # NoOrg
                                /\ w.client.org_id = r.org_id
                                /\ w.client.canonical_facts = r.canonical_facts
           /\ \A w \in tenantlessRun' : w.stage = "resolved" =>
                \/ w \in tenantlessRun
                \/ \E result \in MapClientIdToAccountId :
                     result.identity /\ w.org_id = result.org_id
<1> DEFINE Conclusion ==
             /\ UpdaterTypeOK'
             /\ \A w \in staleRun' :
                  \/ \E v \in staleRun : w.client = v.client
                  \/ \E r \in R : /\ r.org_id # NoOrg
                                  /\ w.client.org_id = r.org_id
                                  /\ w.client.canonical_facts = r.canonical_facts
             /\ \A w \in tenantlessRun' : w.stage = "resolved" =>
                  \/ w \in tenantlessRun
                  \/ \E result \in MapClientIdToAccountId :
                       result.identity /\ w.org_id = result.org_id
<1>1. CASE staleRun' \subseteq staleRun /\ tenantlessRun' \subseteq tenantlessRun
  BY <1>1 DEF UpdaterTypeOK
<1>2. CASE SelectTenantless
  <2>1. ConnectionsTypeOK
    BY DEF Tables, ConnectionsTypeOK
  <2>2. tenantlessRun' \subseteq Work /\ \A w \in tenantlessRun' : w.stage = "selected"
    BY <1>2, <2>1, SelectTenantlessType
  <2>3. staleRun' = staleRun
    BY <1>2 DEF SelectTenantless
  <2> QED
    BY <2>2, <2>3 DEF UpdaterTypeOK
<1>3. CASE SelectStale
  <2>1. tenantlessRun' = tenantlessRun
    BY <1>3 DEF SelectStale
  <2> QED
    BY <1>3, <2>1, SelectStaleType DEF UpdaterTypeOK
<1>4. ASSUME NEW w \in tenantlessRun, LookupTenant(w)
      PROVE  Conclusion
  <2>1. PICK result \in MapClientIdToAccountId :
          tenantlessRun' = (tenantlessRun \ {w}) \cup {Resolved(w, result)}
    BY <1>4 DEF LookupTenant
  <2>2. w \in Work /\ result \in Resolution
    BY ResolutionType DEF UpdaterTypeOK
  <2>3. /\ Resolved(w, result) \in Work
        /\ Resolved(w, result).org_id = result.org_id
        /\ Resolved(w, result).stage = "resolved" => result.identity
    BY <2>2, ResolvedType
  <2>4. staleRun' = staleRun
    BY <1>4 DEF LookupTenant
  <2> QED
    BY <2>1, <2>3, <2>4 DEF UpdaterTypeOK
<1>5. ASSUME NEW w \in staleRun, LookupIdentity(w)
      PROVE  Conclusion
  <2>1. PICK result \in MapClientIdToAccountId :
          staleRun' = (staleRun \ {w}) \cup {Resolved(w, result)}
    BY <1>5 DEF LookupIdentity
  <2>2. w \in Work /\ result \in Resolution
    BY ResolutionType DEF UpdaterTypeOK
  <2>3. Resolved(w, result) \in Work /\ Resolved(w, result).client = w.client
    BY <2>2, ResolvedType
  <2>4. tenantlessRun' = tenantlessRun
    BY <1>5 DEF LookupIdentity
  <2> QED
    BY <2>1, <2>3, <2>4 DEF UpdaterTypeOK
<1>6. ASSUME NEW w \in staleRun, SendToInventory(w)
      PROVE  Conclusion
  <2>1. w \in Work
    BY DEF UpdaterTypeOK
  <2>2. [w EXCEPT !.stage = "sent"] \in Work /\ [w EXCEPT !.stage = "sent"].client = w.client
    BY <2>1 DEF Work
  <2>3. /\ staleRun' = (staleRun \ {w}) \cup {[w EXCEPT !.stage = "sent"]}
        /\ tenantlessRun' = tenantlessRun
    BY <1>6 DEF SendToInventory
  <2> QED
    BY <2>2, <2>3 DEF UpdaterTypeOK
<1>7. ASSUME NEW w \in tenantlessRun, RecordTenantLookup(w)
      PROVE  Conclusion
  BY <1>1, <1>7 DEF RecordTenantLookup
<1>8. ASSUME NEW w \in staleRun,
             RecordLookupFailure(w) \/ SendToInventoryFails(w) \/ RecordStaleTimestamp(w)
      PROVE  Conclusion
  BY <1>1, <1>8 DEF RecordLookupFailure, SendToInventoryFails, RecordStaleTimestamp
<1>9. CASE EndTenantlessRun \/ EndStaleRun \/ StaleTimestampsExpire \/ TenantLookupTimestampsExpire
  BY <1>1, <1>9 DEF EndTenantlessRun, EndStaleRun, StaleTimestampsExpire, TenantLookupTimestampsExpire
<1> QED
  BY <1>2, <1>3, <1>4, <1>5, <1>6, <1>7, <1>8, <1>9 DEF UpdaterNext

-----------------------------------------------------------------------------
(* Type correctness *)

\* The set of all rows is closed under the statements.
LEMMA RowClosed ==
    ASSUME UpdaterTypeOK
    PROVE  Closed(Row) /\ ClosedForRuns(Row)
<1>1. Closed(Row)
  BY UpdatedRowType, InsertedRowType, UpdaterRowType DEF Closed
<1>2. ClosedForRuns(Row)
  <2>1. \A w \in Work : w.org_id \in OrgID \cup {NoOrg} /\ w.client.org_id \in OrgID \cup {NoOrg}
    BY DEF Work, ConnectorClientState
  <2> QED
    BY <2>1, UpdaterRowType DEF ClosedForRuns, UpdaterTypeOK
<1> QED
  BY <1>1, <1>2

\* An updater leaves inventory well-formed.
LEMMA UpdaterInventoryType ==
    ASSUME UpdaterTypeOK, InventoryTypeOK, UpdaterNext
    PROVE  InventoryTypeOK'
<1>1. ASSUME NEW w \in staleRun, SendToInventory(w) \/ SendToInventoryFails(w)
      PROVE  InventoryTypeOK'
  <2>1. w.client.client_id \in ClientID /\ w.client.canonical_facts \in SUBSET Fact
    BY DEF UpdaterTypeOK, Work, ConnectorClientState
  <2>2. CASE AddHost(w.client.client_id, w.client.canonical_facts)
    BY <2>1, <2>2, AddHostType
  <2>3. CASE inventory' = inventory
    BY <2>3 DEF InventoryTypeOK
  <2> QED
    BY <1>1, <2>2, <2>3
       DEF SendToInventory, SendToInventoryFails, RecordConnectedClient, RecordConnectedClientFails
<1>2. CASE inventory' = inventory
  BY <1>2 DEF InventoryTypeOK
<1> QED
  BY <1>1, <1>2
     DEF UpdaterNext, SelectTenantless, EndTenantlessRun, SelectStale, EndStaleRun, LookupTenant,
         RecordTenantLookup, LookupIdentity, RecordLookupFailure, RecordStaleTimestamp,
         StaleTimestampsExpire, TenantLookupTimestampsExpire

FullTypeInv == TypeInv /\ UpdaterTypeOK

\* Every step of the system keeps types and offsets right.
LEMMA FullTypeStep ==
    ASSUME FullTypeInv, [Next]_vars
    PROVE  FullTypeInv'
<1>1. CASE ConsumerNext /\ UNCHANGED updaterVars
  BY <1>1, TypeStep, ConsumerSteps DEF FullTypeInv, updaterVars, UpdaterTypeOK
<1>2. CASE UpdaterNext /\ UNCHANGED kafkaVars
  <2>1. connections \in Tables(Row)
    BY DEF FullTypeInv, TypeInv, ConsumerTypeOK, ConnectionsTypeOK, Tables
  <2>2. connections' \in Tables(Row)
    BY <1>2, <2>1, RowClosed, UpdaterRowsIn DEF FullTypeInv
  <2>3. ConnectionsTypeOK'
    BY <2>2 DEF ConnectionsTypeOK, Tables
  <2>4. InventoryTypeOK'
    BY <1>2, UpdaterInventoryType DEF FullTypeInv, TypeInv, ConsumerTypeOK
  <2>5. TypeInv'
    BY <1>2, <2>3, <2>4 DEF FullTypeInv, TypeInv, ConsumerTypeOK, OffsetsInLog, kafkaVars
  <2>6. UpdaterTypeOK'
    <3>1. Row \in SUBSET Row
      OBVIOUS
    <3> QED
      BY <1>2, <2>1, <3>1, RunsStep DEF FullTypeInv
  <2> QED
    BY <2>5, <2>6 DEF FullTypeInv
<1>3. CASE UNCHANGED vars
  BY <1>3 DEF vars, kafkaVars, updaterVars, FullTypeInv, TypeInv, ConsumerTypeOK,
              ConnectionsTypeOK, InventoryTypeOK, OffsetsInLog, UpdaterTypeOK
<1> QED
  BY <1>1, <1>2, <1>3 DEF Next

\* Types and offsets are right at the start.
LEMMA FullTypeInit ==
    ASSUME Init
    PROVE  FullTypeInv
BY TypeInit DEF Init, FullTypeInv, UpdaterInit, UpdaterTypeOK

\* The variables of the whole system keep their types (TypeOK).
THEOREM TypeCorrect == Spec => []TypeOK
<1>1. Init => FullTypeInv
  BY FullTypeInit
<1>2. FullTypeInv /\ [Next]_vars => FullTypeInv'
  BY FullTypeStep
<1>3. FullTypeInv => TypeOK
  BY DEF FullTypeInv, TypeInv, TypeOK
<1> QED
  BY <1>1, <1>2, <1>3, PTL DEF Spec

-----------------------------------------------------------------------------
(* Rows with a tenant *)

CleanRow ==
    {r \in Row : r.org_id # NoOrg => /\ r.tenant_lookup_timestamp = "null"
                                     /\ r.tenant_lookup_failure_count = 0}

\* No statement leaves a trace of failed lookups in a row with a tenant, whatever
\* the updaters hold.
LEMMA CleanRowClosed ==
    ASSUME UpdaterTypeOK
    PROVE  Closed(CleanRow) /\ ClosedForRuns(CleanRow)
<1>1. ASSUME NEW m \in ControlMessage, NEW org \in OrgID \cup {NoOrg}
      PROVE  /\ InsertedRow(m, org) \in CleanRow
             /\ \A r \in CleanRow : UpdatedRow(r, m, org) \in CleanRow
  <2>1. InsertedRow(m, org) \in CleanRow
    BY InsertedRowType DEF CleanRow, InsertedRow, TenantLookupTimestamp
  <2>2. ASSUME NEW r \in CleanRow
        PROVE  UpdatedRow(r, m, org) \in CleanRow
    <3>1. r \in Row
      BY DEF CleanRow
    <3>2. /\ UpdatedRow(r, m, org).org_id = org
          /\ org # NoOrg => /\ UpdatedRow(r, m, org).tenant_lookup_timestamp = "null"
                            /\ UpdatedRow(r, m, org).tenant_lookup_failure_count = 0
      BY <3>1 DEF UpdatedRow, Row, TenantLookupTimestamp
    <3> QED
      BY <3>1, <3>2, UpdatedRowType DEF CleanRow
  <2> QED
    BY <2>1, <2>2
<1>2. ASSUME NEW r \in CleanRow, NEW org \in OrgID \cup {NoOrg}
      PROVE  /\ WithTenant(r, org) \in CleanRow
             /\ WithoutTenant(r) \in CleanRow
             /\ WithFreshTimestamp(r, org) \in CleanRow
             /\ WithOldTimestamp(r) \in CleanRow
             /\ WithOldLookup(r) \in CleanRow
  <2>1. r \in Row
    BY DEF CleanRow
  <2>2. WithTenant(r, org) \in CleanRow
    BY <2>1, UpdaterRowType DEF CleanRow, WithTenant, Row
  <2>3. WithoutTenant(r) \in CleanRow
    <3>1. WithoutTenant(r).org_id = NoOrg
      BY <2>1 DEF WithoutTenant, Row
    <3> QED
      BY <2>1, <3>1, UpdaterRowType DEF CleanRow
  <2>4. WithFreshTimestamp(r, org) \in CleanRow
    BY <2>1, UpdaterRowType DEF CleanRow, WithFreshTimestamp, Row
  <2>5. WithOldTimestamp(r) \in CleanRow
    BY <2>1, UpdaterRowType DEF CleanRow, WithOldTimestamp, Row
  <2>6. WithOldLookup(r) \in CleanRow
    BY <2>1, UpdaterRowType DEF CleanRow, WithOldLookup, Row
  <2> QED
    BY <2>2, <2>3, <2>4, <2>5, <2>6
<1>3. Closed(CleanRow)
  BY <1>1, <1>2 DEF Closed
<1>4. \A w \in Work : w.org_id \in OrgID \cup {NoOrg} /\ w.client.org_id \in OrgID \cup {NoOrg}
  BY DEF Work, ConnectorClientState
<1>5. ClosedForRuns(CleanRow)
  BY <1>2, <1>4 DEF ClosedForRuns, UpdaterTypeOK
<1> QED
  BY <1>3, <1>5

\* An empty table is a table of rows of any kind.
LEMMA InitRows ==
    ASSUME NEW R, Init
    PROVE  connections \in Tables(R)
BY DEF Init, ConsumerInit, ConnectionsInit, Tables

\* The rows of a table of rows in R are in R.
LEMMA RowsOfTable ==
    ASSUME NEW R, connections \in Tables(R)
    PROVE  Rows \subseteq R
<1> SUFFICES ASSUME NEW r \in Rows
             PROVE  r \in R
  OBVIOUS
<1>1. PICK c \in ClientID : \E i \in DOMAIN connections[c] : r = connections[c][i]
  BY DEF Rows, FindConnectionByClientID
<1>2. connections[c] \in Seq(R)
  BY DEF Tables
<1> QED
  BY <1>1, <1>2

\* A row with a tenant never carries a trace of failed lookups, however the steps
\* of consumers and updaters interleave (TenantedRowsAreClean).
THEOREM TenantedClean == Spec => []TenantedRowsAreClean
<1> DEFINE Inv == FullTypeInv /\ connections \in Tables(CleanRow)
<1>1. Init => Inv
  BY FullTypeInit, InitRows
<1>2. Inv /\ [Next]_vars => Inv'
  <2> SUFFICES ASSUME Inv, [Next]_vars
               PROVE  Inv'
    OBVIOUS
  <2>1. FullTypeInv'
    BY FullTypeStep
  <2>2. connections' \in Tables(CleanRow)
    BY CleanRowClosed, RowsIn DEF FullTypeInv
  <2> QED
    BY <2>1, <2>2 DEF Tables
<1>3. Inv => TenantedRowsAreClean
  <2>1. Inv => Rows \subseteq CleanRow
    BY RowsOfTable
  <2> QED
    BY <2>1 DEF CleanRow, TenantedRowsAreClean
<1> QED
  BY <1>1, <1>2, <1>3, PTL DEF Spec

-----------------------------------------------------------------------------
(* At-least-once processing next to the updaters *)

\* The updaters do not endanger at-least-once processing: they may change rows
\* but no offset (CommittedMessagesHandled).
THEOREM AtLeastOnceWithUpdaters == Spec => []CommittedMessagesHandled
<1> DEFINE Inv == FullTypeInv /\ GapInv
<1>1. Init => Inv
  BY FullTypeInit, GapInit DEF Init
<1>2. Inv /\ [Next]_vars => Inv'
  <2> SUFFICES ASSUME Inv, [Next]_vars
               PROVE  Inv'
    OBVIOUS
  <2>1. FullTypeInv'
    BY FullTypeStep
  <2>2. CASE ConsumerNext
    BY <2>1, <2>2, GapStep, ConsumerSteps
  <2>3. CASE UNCHANGED kafkaVars
    BY <2>1, <2>3 DEF kafkaVars, FullTypeInv, GapInv, CommittedMessagesHandled, ConsumerGapFree
  <2> QED
    BY <2>2, <2>3 DEF Next, vars
<1>3. Inv => CommittedMessagesHandled
  BY DEF GapInv
<1> QED
  BY <1>1, <1>2, <1>3, PTL DEF Spec

-----------------------------------------------------------------------------
(* Rows without a tenant *)

RetriedRow == {r \in Row : r.org_id = NoOrg => r.tenant_lookup_timestamp # "null"}

\* The updaters record tenants, not the empty org id.
TenantsInHand ==
    /\ \A w \in tenantlessRun : w.stage = "resolved" => w.org_id # NoOrg
    /\ \A w \in staleRun : w.client.org_id # NoOrg

\* With a tenant in hand, no statement hides a row without a tenant from the
\* tenantless updater.
LEMMA RetriedRowClosed ==
    ASSUME UpdaterTypeOK, TenantsInHand
    PROVE  Closed(RetriedRow) /\ ClosedForRuns(RetriedRow)
<1>1. ASSUME NEW m \in ControlMessage, NEW org \in OrgID \cup {NoOrg}
      PROVE  /\ InsertedRow(m, org) \in RetriedRow
             /\ \A r \in RetriedRow : UpdatedRow(r, m, org) \in RetriedRow
  <2>1. InsertedRow(m, org) \in RetriedRow
    BY InsertedRowType DEF RetriedRow, InsertedRow, TenantLookupTimestamp
  <2>2. ASSUME NEW r \in RetriedRow
        PROVE  UpdatedRow(r, m, org) \in RetriedRow
    <3>1. r \in Row
      BY DEF RetriedRow
    <3>2. /\ UpdatedRow(r, m, org).org_id = org
          /\ org = NoOrg => UpdatedRow(r, m, org).tenant_lookup_timestamp = "recent"
      BY <3>1 DEF UpdatedRow, Row, TenantLookupTimestamp
    <3> QED
      BY <3>1, <3>2, UpdatedRowType DEF RetriedRow
  <2> QED
    BY <2>1, <2>2
<1>2. ASSUME NEW r \in RetriedRow
      PROVE  /\ WithoutTenant(r) \in RetriedRow
             /\ WithOldTimestamp(r) \in RetriedRow
             /\ WithOldLookup(r) \in RetriedRow
  <2>1. r \in Row
    BY DEF RetriedRow
  <2>2. WithoutTenant(r) \in RetriedRow
    <3>1. WithoutTenant(r).tenant_lookup_timestamp = "recent"
      BY <2>1 DEF WithoutTenant, Row
    <3> QED
      BY <2>1, <3>1, UpdaterRowType DEF RetriedRow
  <2>3. WithOldTimestamp(r) \in RetriedRow
    BY <2>1, UpdaterRowType DEF RetriedRow, WithOldTimestamp, Row
  <2>4. WithOldLookup(r) \in RetriedRow
    BY <2>1, UpdaterRowType DEF RetriedRow, WithOldLookup, Row
  <2> QED
    BY <2>2, <2>3, <2>4
<1>3. Closed(RetriedRow)
  BY <1>1, <1>2 DEF Closed
<1>4. ASSUME NEW r \in RetriedRow, NEW org \in OrgID
      PROVE  /\ WithTenant(r, org) \in RetriedRow
             /\ WithFreshTimestamp(r, org) \in RetriedRow
  <2>1. r \in Row /\ org # NoOrg
    BY TableAssumption DEF RetriedRow
  <2>2. WithTenant(r, org) \in RetriedRow
    BY <2>1, UpdaterRowType DEF RetriedRow, WithTenant, Row
  <2>3. WithFreshTimestamp(r, org) \in RetriedRow
    BY <2>1, UpdaterRowType DEF RetriedRow, WithFreshTimestamp, Row
  <2> QED
    BY <2>2, <2>3
<1>5. \A w \in Work : w.org_id \in OrgID \cup {NoOrg} /\ w.client.org_id \in OrgID \cup {NoOrg}
  BY DEF Work, ConnectorClientState
<1>6. ClosedForRuns(RetriedRow)
  BY <1>4, <1>5 DEF ClosedForRuns, UpdaterTypeOK, TenantsInHand
<1> QED
  BY <1>3, <1>6

\* Every step keeps tenants in the hands of the updaters, because the stale updater
\* selects rows with a tenant and the resolver does not answer with an empty org id.
LEMMA TenantsInHandStep ==
    ASSUME ~EmptyOrgAnswers, FullTypeInv, TenantsInHand, [Next]_vars
    PROVE  TenantsInHand'
<1>1. CASE UNCHANGED updaterVars
  BY <1>1 DEF TenantsInHand, updaterVars
<1>2. CASE UpdaterNext
  <2>1. connections \in Tables(Row) /\ Row \in SUBSET Row
    BY DEF FullTypeInv, TypeInv, ConsumerTypeOK, ConnectionsTypeOK, Tables
  <2>2. /\ \A w \in staleRun' :
             \/ \E v \in staleRun : w.client = v.client
             \/ \E r \in Row : r.org_id # NoOrg /\ w.client.org_id = r.org_id
        /\ \A w \in tenantlessRun' : w.stage = "resolved" =>
             \/ w \in tenantlessRun
             \/ \E result \in MapClientIdToAccountId :
                  result.identity /\ w.org_id = result.org_id
    BY <1>2, <2>1, RunsStep DEF FullTypeInv
  <2>3. \A result \in MapClientIdToAccountId : result.identity => result.org_id # NoOrg
    BY TableAssumption DEF MapClientIdToAccountId, LookupError
  <2> QED
    BY <2>2, <2>3 DEF TenantsInHand
<1> QED
  BY <1>1, <1>2 DEF Next, vars

\* If the resolver never answers with an empty org id, a row without a tenant
\* stays visible to the tenantless updater (TenantlessRowsAreRetried).
THEOREM TenantlessRetried ==
    ASSUME ~EmptyOrgAnswers
    PROVE  Spec => []TenantlessRowsAreRetried
<1> DEFINE Inv == FullTypeInv /\ TenantsInHand /\ connections \in Tables(RetriedRow)
<1>1. Init => Inv
  BY FullTypeInit, InitRows DEF Init, UpdaterInit, TenantsInHand
<1>2. Inv /\ [Next]_vars => Inv'
  <2> SUFFICES ASSUME Inv, [Next]_vars
               PROVE  Inv'
    OBVIOUS
  <2>1. FullTypeInv'
    BY FullTypeStep
  <2>2. connections' \in Tables(RetriedRow)
    BY RetriedRowClosed, RowsIn DEF FullTypeInv
  <2>3. TenantsInHand'
    BY TenantsInHandStep
  <2> QED
    BY <2>1, <2>2, <2>3 DEF Tables
<1>3. Inv => TenantlessRowsAreRetried
  <2>1. Inv => Rows \subseteq RetriedRow
    BY RowsOfTable
  <2> QED
    BY <2>1 DEF RetriedRow, TenantlessRowsAreRetried
<1> QED
  BY <1>1, <1>2, <1>3, PTL DEF Spec

-----------------------------------------------------------------------------
(* What inventory is told *)

SanitizedRow == {r \in Row : r.canonical_facts \cap InvalidInsightsID = {}}

CopiesSanitized == \A w \in staleRun : w.client.canonical_facts \cap InvalidInsightsID = {}

\* Only the INSERT writes canonical facts, and it writes sanitized ones.
LEMMA SanitizedRowClosed ==
    ASSUME UpdaterTypeOK
    PROVE  Closed(SanitizedRow) /\ ClosedForRuns(SanitizedRow)
<1>1. ASSUME NEW m \in ControlMessage, NEW org \in OrgID \cup {NoOrg}
      PROVE  InsertedRow(m, org) \in SanitizedRow
  BY InsertedRowType DEF SanitizedRow, InsertedRow, SanitizeCanonicalFacts
<1>2. ASSUME NEW r \in SanitizedRow, NEW m \in ControlMessage, NEW org \in OrgID \cup {NoOrg}
      PROVE  UpdatedRow(r, m, org) \in SanitizedRow
  <2>1. r \in Row
    BY DEF SanitizedRow
  <2>2. UpdatedRow(r, m, org).canonical_facts = r.canonical_facts
    BY <2>1 DEF UpdatedRow, Row
  <2> QED
    BY <2>1, <2>2, UpdatedRowType DEF SanitizedRow
<1>3. ASSUME NEW r \in SanitizedRow, NEW org \in OrgID \cup {NoOrg}
      PROVE  /\ WithTenant(r, org) \in SanitizedRow
             /\ WithoutTenant(r) \in SanitizedRow
             /\ WithFreshTimestamp(r, org) \in SanitizedRow
             /\ WithOldTimestamp(r) \in SanitizedRow
             /\ WithOldLookup(r) \in SanitizedRow
  <2>1. r \in Row
    BY DEF SanitizedRow
  <2>2. /\ WithTenant(r, org).canonical_facts = r.canonical_facts
        /\ WithFreshTimestamp(r, org).canonical_facts = r.canonical_facts
        /\ WithOldTimestamp(r).canonical_facts = r.canonical_facts
        /\ WithOldLookup(r).canonical_facts = r.canonical_facts
    BY <2>1 DEF WithTenant, WithFreshTimestamp, WithOldTimestamp, WithOldLookup, Row
  <2>3. WithoutTenant(r).canonical_facts = r.canonical_facts
    BY <2>1 DEF WithoutTenant, Row
  <2> QED
    BY <2>1, <2>2, <2>3, UpdaterRowType DEF SanitizedRow
<1>4. Closed(SanitizedRow)
  BY <1>1, <1>2, <1>3 DEF Closed
<1>5. \A w \in Work : w.org_id \in OrgID \cup {NoOrg} /\ w.client.org_id \in OrgID \cup {NoOrg}
  BY DEF Work, ConnectorClientState
<1>6. ClosedForRuns(SanitizedRow)
  BY <1>3, <1>5 DEF ClosedForRuns, UpdaterTypeOK
<1> QED
  BY <1>4, <1>6

\* A write of sanitized facts keeps inventory free of bad facts (AddHost).
LEMMA AddHostValid ==
    ASSUME InventoryTypeOK, InventoryFactsValid, NEW c \in ClientID, NEW facts,
           facts \cap InvalidInsightsID = {}, AddHost(c, facts)
    PROVE  InventoryFactsValid'
<1> DEFINE host == [reported |-> TRUE, canonical_facts |-> CleanupCanonicalFacts(facts)]
<1>1. host.canonical_facts \cap (InvalidInsightsID \cup BlankFact) = {}
  BY DEF CleanupCanonicalFacts
<1>2. inventory' = [inventory EXCEPT ![c] = host] /\ inventory \in [ClientID -> HostData]
  BY DEF AddHost, InventoryTypeOK
<1> HIDE DEF host
<1> QED
  BY <1>1, <1>2 DEF InventoryFactsValid

\* Every step keeps inventory free of bad facts.
LEMMA InventoryStep ==
    ASSUME FullTypeInv, CopiesSanitized, InventoryFactsValid, [Next]_vars
    PROVE  InventoryFactsValid'
<1>1. InventoryTypeOK
  BY DEF FullTypeInv, TypeInv, ConsumerTypeOK
<1>2. CASE inventory' = inventory
  BY <1>2 DEF InventoryFactsValid
<1>3. ASSUME NEW p \in Consumer, RecordClient(p) \/ RecordClientFails(p)
      PROVE  InventoryFactsValid'
  <2> DEFINE facts == SanitizeCanonicalFacts(Msg(p).canonical_facts)
  <2>1. Msg(p).client_id \in ClientID
    BY <1>3, MsgType DEF RecordClient, RecordClientFails, Busy, FullTypeInv
  <2>2. facts \cap InvalidInsightsID = {}
    BY DEF SanitizeCanonicalFacts
  <2>3. inventory' = inventory \/ AddHost(Msg(p).client_id, facts)
    BY <1>3 DEF RecordClient, RecordClientFails, RecordConnectedClient, RecordConnectedClientFails
  <2> HIDE DEF facts
  <2> QED
    BY <1>1, <1>2, <2>1, <2>2, <2>3, AddHostValid
<1>4. ASSUME NEW w \in staleRun, SendToInventory(w) \/ SendToInventoryFails(w)
      PROVE  InventoryFactsValid'
  <2>1. w.client.client_id \in ClientID
    BY DEF FullTypeInv, UpdaterTypeOK, Work, ConnectorClientState
  <2>2. w.client.canonical_facts \cap InvalidInsightsID = {}
    BY DEF CopiesSanitized
  <2>3. inventory' = inventory \/ AddHost(w.client.client_id, w.client.canonical_facts)
    BY <1>4
       DEF SendToInventory, SendToInventoryFails, RecordConnectedClient, RecordConnectedClientFails
  <2> QED
    BY <1>1, <1>2, <2>1, <2>2, <2>3, AddHostValid
<1>5. CASE ConsumerNext
  <2>1. ASSUME NEW p \in Consumer, HandlerStep(p), ~RecordClient(p), ~RecordClientFails(p)
        PROVE  inventory' = inventory
    BY <2>1 DEF HandlerStep, FetchMessage, HandlerPanics, IgnoreDuplicate, AcceptMessage, ResolveTenant,
                PrepareUpsert, ExecUpsert, ExecUpsertFails, DatabaseFails, SourceExists,
                SourceNotFound, CreateSource, UnregisterClient, UnregisterReplyLost, CommitMessage, CommitFails,
                FatalProcessingError
  <2>2. ASSUME NEW p \in Consumer, Start(p) \/ Rebalance(p) \/ Crash(p)
        PROVE  inventory' = inventory
    BY <2>2 DEF Start, Rebalance, Crash
  <2>3. ASSUME NEW m \in Message, Publish(m)
        PROVE  inventory' = inventory
    BY <2>3 DEF Publish
  <2> QED
    BY <1>2, <1>3, <1>5, <2>1, <2>2, <2>3 DEF ConsumerNext
<1>6. CASE UpdaterNext
  BY <1>2, <1>4, <1>6
     DEF UpdaterNext, SelectTenantless, EndTenantlessRun, SelectStale, EndStaleRun, LookupTenant,
         RecordTenantLookup, LookupIdentity, RecordLookupFailure, RecordStaleTimestamp,
         StaleTimestampsExpire, TenantLookupTimestampsExpire
<1> QED
  BY <1>2, <1>5, <1>6 DEF Next, vars

\* Inventory never receives an invalid insights_id or an empty fact, from the
\* consumers or from the stale updater (InventoryFactsValid).
THEOREM InventoryValid == Spec => []InventoryFactsValid
<1> DEFINE Inv == /\ FullTypeInv
                  /\ connections \in Tables(SanitizedRow)
                  /\ CopiesSanitized
                  /\ InventoryFactsValid
<1>1. Init => Inv
  <2>1. Init => CopiesSanitized
    BY DEF Init, UpdaterInit, CopiesSanitized
  <2>2. Init => InventoryFactsValid
    <3> DEFINE host == [reported |-> FALSE, canonical_facts |-> {}]
    <3>1. host.canonical_facts \cap (InvalidInsightsID \cup BlankFact) = {}
      OBVIOUS
    <3>2. Init => inventory = [c \in ClientID |-> host]
      BY DEF Init, ConsumerInit, InventoryInit
    <3> HIDE DEF host
    <3> QED
      BY <3>1, <3>2 DEF InventoryFactsValid
  <2> QED
    BY <2>1, <2>2, FullTypeInit, InitRows
<1>2. Inv /\ [Next]_vars => Inv'
  <2> SUFFICES ASSUME Inv, [Next]_vars
               PROVE  Inv'
    OBVIOUS
  <2>1. FullTypeInv'
    BY FullTypeStep
  <2>2. connections' \in Tables(SanitizedRow)
    BY SanitizedRowClosed, RowsIn DEF FullTypeInv
  <2>3. CopiesSanitized'
    <3>1. CASE UNCHANGED updaterVars
      BY <3>1 DEF CopiesSanitized, updaterVars
    <3>2. CASE UpdaterNext
      <4>1. SanitizedRow \in SUBSET Row
        BY DEF SanitizedRow
      <4>2. \A w \in staleRun' :
              \/ \E v \in staleRun : w.client = v.client
              \/ \E r \in SanitizedRow : w.client.canonical_facts = r.canonical_facts
        BY <3>2, <4>1, RunsStep DEF FullTypeInv
      <4> QED
        BY <4>2 DEF CopiesSanitized, SanitizedRow
    <3> QED
      BY <3>1, <3>2 DEF Next, vars
  <2>4. InventoryFactsValid'
    BY InventoryStep
  <2> QED
    BY <2>1, <2>2, <2>3, <2>4 DEF Tables
<1>3. Inv => InventoryFactsValid
  OBVIOUS
<1> QED
  BY <1>1, <1>2, <1>3, PTL DEF Spec

-----------------------------------------------------------------------------
(* The ledger next to the updaters *)

\* What becomes of the table, and of the piece of work in hand, in a step of an
\* updater.
LEMMA UpdaterTableSteps ==
    ASSUME ConnectionsTypeOK, UpdaterTypeOK, UpdaterNext
    PROVE  \/ connections' = connections
           \/ \E w \in tenantlessRun :
                /\ Changed(connections, connections', {w.client.client_id},
                           [r \in Row |-> WithTenant(r, w.org_id)])
                /\ tenantlessRun' = tenantlessRun \ {w} /\ staleRun' = staleRun
           \/ \E w \in tenantlessRun :
                /\ Changed(connections, connections', {w.client.client_id},
                           [r \in Row |-> WithoutTenant(r)])
                /\ tenantlessRun' = tenantlessRun \ {w} /\ staleRun' = staleRun
           \/ \E w \in staleRun :
                /\ Changed(connections, connections', {w.client.client_id},
                           [r \in Row |-> WithoutTenant(r)])
                /\ staleRun' = staleRun \ {w} /\ tenantlessRun' = tenantlessRun
           \/ \E w \in staleRun :
                /\ w.stage = "sent"
                /\ Changed(connections, connections', {w.client.client_id},
                           [r \in Row |-> WithFreshTimestamp(r, w.client.org_id)])
                /\ staleRun' = staleRun \ {w} /\ tenantlessRun' = tenantlessRun
           \/ /\ Changed(connections, connections', ClientID, [r \in Row |-> WithOldTimestamp(r)])
              /\ UNCHANGED updaterVars
           \/ /\ Changed(connections, connections', ClientID, [r \in Row |-> WithOldLookup(r)])
              /\ UNCHANGED updaterVars
<1>1. connections \in Tables(Row)
  BY DEF ConnectionsTypeOK, Tables
<1>2. \A w \in tenantlessRun \cup staleRun :
        /\ w.client.client_id \in ClientID
        /\ w.org_id \in OrgID \cup {NoOrg} /\ w.client.org_id \in OrgID \cup {NoOrg}
  BY DEF UpdaterTypeOK, Work, ConnectorClientState
<1>3. ASSUME NEW w \in tenantlessRun, RecordTenantLookup(w)
      PROVE  \/ connections' = connections
             \/ /\ \/ Changed(connections, connections', {w.client.client_id},
                              [r \in Row |-> WithTenant(r, w.org_id)])
                   \/ Changed(connections, connections', {w.client.client_id},
                              [r \in Row |-> WithoutTenant(r)])
                /\ tenantlessRun' = tenantlessRun \ {w} /\ staleRun' = staleRun
  BY <1>1, <1>2, <1>3, RecordSuccessChanges, RecordFailureChanges DEF RecordTenantLookup
<1>4. ASSUME NEW w \in staleRun, RecordLookupFailure(w)
      PROVE  \/ connections' = connections
             \/ /\ Changed(connections, connections', {w.client.client_id},
                           [r \in Row |-> WithoutTenant(r)])
                /\ staleRun' = staleRun \ {w} /\ tenantlessRun' = tenantlessRun
  BY <1>1, <1>2, <1>4, RecordFailureChanges DEF RecordLookupFailure
<1>5. ASSUME NEW w \in staleRun, RecordStaleTimestamp(w)
      PROVE  /\ w.stage = "sent"
             /\ Changed(connections, connections', {w.client.client_id},
                        [r \in Row |-> WithFreshTimestamp(r, w.client.org_id)])
             /\ staleRun' = staleRun \ {w} /\ tenantlessRun' = tenantlessRun
  BY <1>1, <1>2, <1>5, RecordStaleChanges DEF RecordStaleTimestamp
<1>6. ASSUME StaleTimestampsExpire
      PROVE  /\ Changed(connections, connections', ClientID, [r \in Row |-> WithOldTimestamp(r)])
             /\ UNCHANGED updaterVars
  BY <1>1, <1>6, AgeStaleChanges DEF StaleTimestampsExpire, updaterVars
<1>7. ASSUME TenantLookupTimestampsExpire
      PROVE  /\ Changed(connections, connections', ClientID, [r \in Row |-> WithOldLookup(r)])
             /\ UNCHANGED updaterVars
  BY <1>1, <1>7, AgeLookupChanges DEF TenantLookupTimestampsExpire, updaterVars
<1>8. ASSUME SelectTenantless \/ EndTenantlessRun \/ SelectStale \/ EndStaleRun
      PROVE  connections' = connections
  BY <1>8 DEF SelectTenantless, EndTenantlessRun, SelectStale, EndStaleRun
<1>9. ASSUME NEW w \in tenantlessRun, LookupTenant(w)
      PROVE  connections' = connections
  BY <1>9 DEF LookupTenant
<1>10. ASSUME NEW w \in staleRun,
              LookupIdentity(w) \/ SendToInventory(w) \/ SendToInventoryFails(w)
       PROVE  connections' = connections
  BY <1>10 DEF LookupIdentity, SendToInventory, SendToInventoryFails
<1> QED
  BY <1>3, <1>4, <1>5, <1>6, <1>7, <1>8, <1>9, <1>10 DEF UpdaterNext

\* No updater touches the columns that came with a message.
LEMMA UpdatersKeepMessages ==
    ASSUME ConnectionsTypeOK, UpdaterTypeOK, UpdaterNext
    PROVE  SameMessages(connections, connections')
<1>1. connections \in Tables(Row)
  BY DEF ConnectionsTypeOK, Tables
<1>2. CASE connections' = connections
  BY <1>2 DEF SameMessages, KeepsMessage
<1>3. ASSUME NEW C, NEW org,
             \/ Changed(connections, connections', C, [r \in Row |-> WithTenant(r, org)])
             \/ Changed(connections, connections', C, [r \in Row |-> WithFreshTimestamp(r, org)])
             \/ Changed(connections, connections', C, [r \in Row |-> WithoutTenant(r)])
             \/ Changed(connections, connections', C, [r \in Row |-> WithOldTimestamp(r)])
             \/ Changed(connections, connections', C, [r \in Row |-> WithOldLookup(r)])
      PROVE  SameMessages(connections, connections')
  <2>1. PICK f : /\ Changed(connections, connections', C, f)
                 /\ \A r \in Row : KeepsMessage(r, f[r])
    BY <1>3, UpdaterRowKeeps
  <2> QED
    BY <1>1, <2>1, ChangedKeepsMessages
<1> QED
  BY <1>2, <1>3, UpdaterTableSteps

\* What is known of the table as far as messages are concerned survives a step of
\* an updater, and so does the ledger.
LEMMA UpdaterLedgerStep ==
    ASSUME FullTypeInv, LedgerInv, UpdaterNext, UNCHANGED kafkaVars
    PROVE  LedgerInv' /\ UNCHANGED Ledger!ledgerVars
<1>1. FullTypeInv'
  BY FullTypeStep DEF Next
<1>2. SameMessages(connections, connections')
  BY UpdatersKeepMessages DEF FullTypeInv, TypeInv, ConsumerTypeOK
<1>3. UNCHANGED <<log, committed, owner, position, proc, applied, handled>>
  BY DEF kafkaVars
<1>4. ASSUME NEW c \in ClientID
      PROVE  /\ connections'[c] = <<>> <=> connections[c] = <<>>
             /\ \A r \in FindConnectionByClientID(connections', c) :
                  \E s \in FindConnectionByClientID(connections, c) : KeepsMessage(s, r)
  BY <1>2 DEF SameMessages, FindConnectionByClientID
<1>5. OneRowPerClient'
  BY <1>2 DEF LedgerInv, OneRowPerClient, SameMessages
<1>6. EffectVisible'
  <2> SUFFICES ASSUME applied = committed + 1
               PROVE  /\ log[applied].state = "online" =>
                           /\ connections'[log[applied].client_id] # <<>>
                           /\ \A r \in FindConnectionByClientID(connections', log[applied].client_id) :
                                r.message_id = log[applied].message_id
                      /\ log[applied].state = "offline" => connections'[log[applied].client_id] = <<>>
    BY <1>3 DEF EffectVisible
  <2>1. applied \in 1..applied
    BY DEF LedgerInv, TypeInv, ConsumerTypeOK
  <2>2. log[applied].client_id \in ClientID
    BY <2>1, AppliedClients
  <2> QED
    BY <1>4, <2>2 DEF LedgerInv, EffectVisible, KeepsMessage
<1>7. OfflineTookEffect'
  BY <1>3, <1>4, AppliedClients DEF LedgerInv, OfflineTookEffect
<1>8. ASSUME NEW p \in Consumer
      PROVE  /\ StateInHand(p)' /\ HandlerExclusive(p)' /\ FindingsCurrent(p)'
  <2>1. StateInHand(p)' /\ HandlerExclusive(p)'
    BY <1>3 DEF LedgerInv, StateInHand, HandlerExclusive, Msg
  <2>2. CASE proc[p].pc \notin Busy
    BY <1>3, <2>1, <2>2, IdleFindings
  <2>3. CASE proc[p].pc \in Busy
    <3>1. Msg(p).client_id \in ClientID /\ Msg(p)' = Msg(p) /\ FindingsCurrent(p)
      BY <1>3, <2>3, MsgType DEF LedgerInv, Msg
    <3>2. proc[p].pc \in AcceptedCalls =>
            \A r \in FindConnectionByClientID(connections', Msg(p).client_id) :
              ~IsDuplicateOrOldMessage(r, Msg(p))
      BY <1>4, <3>1 DEF FindingsCurrent, IsDuplicateOrOldMessage, KeepsMessage
    <3>3. /\ proc[p].pc \in AcceptedCalls => applied = committed
          /\ proc[p].pc = "commit" /\ Msg(p).state = "offline" => applied = proc[p].offset
      BY <3>1 DEF FindingsCurrent
    <3>4. proc[p].pc = "exec" => proc[p].seen = Len(connections'[Msg(p).client_id])
      BY <1>2, <3>1 DEF FindingsCurrent, SameMessages
    <3>5. FindingsCurrent(p)'
      BY <1>3, <3>1, <3>2, <3>3, <3>4 DEF FindingsCurrent
    <3> QED
      BY <2>1, <3>5
  <2> QED
    BY <2>2, <2>3
<1>9. LedgerInv'
  <2>1. ReplayIsOneMessage' /\ applied' <= Len(log)'
    BY <1>3 DEF LedgerInv, ReplayIsOneMessage
  <2> QED
    BY <1>1, <1>5, <1>6, <1>7, <1>8, <2>1 DEF LedgerInv, FullTypeInv
<1>10. Registry' = Registry
  <2>1. ASSUME NEW c \in ClientID
        PROVE  Registry'[c] = Registry[c]
    <3>1. /\ DOMAIN connections'[c] = DOMAIN connections[c]
          /\ \A i \in DOMAIN connections[c] :
               RegisteredConnection(connections'[c][i]) = RegisteredConnection(connections[c][i])
      BY <1>2 DEF SameMessages, KeepsMessage, RegisteredConnection
    <3>2. {RegisteredConnection(connections'[c][i]) : i \in DOMAIN connections'[c]}
            = {RegisteredConnection(connections[c][i]) : i \in DOMAIN connections[c]}
      BY <3>1
    <3> QED
      BY <3>2, RegistryEntry, Zenon
  <2> QED
    BY <2>1 DEF Registry
<1> QED
  BY <1>3, <1>9, <1>10 DEF Ledger!ledgerVars

\* Every step of the whole system keeps the invariant of the ledger.
LEMMA FullLedgerStep ==
    ASSUME ~Overlap, FullTypeInv, LedgerInv, [Next]_vars
    PROVE  FullTypeInv' /\ LedgerInv' /\ [Ledger!Next]_(Ledger!ledgerVars)
<1>1. FullTypeInv'
  BY FullTypeStep
<1>2. CASE ConsumerNext \/ UNCHANGED vars
  <2>1. [ConsumerNext]_consumerVars
    BY <1>2 DEF vars, consumerVars, kafkaVars
  <2> QED
    BY <1>1, <2>1, LedgerStep, LedgerNext, ConsumerSteps, OrderlySteps
<1>3. CASE UpdaterNext /\ UNCHANGED kafkaVars
  BY <1>1, <1>3, UpdaterLedgerStep
<1> QED
  BY <1>2, <1>3 DEF Next

\* The whole system implements the ledger: whatever the updater jobs do to the
\* rows meanwhile, each message takes effect once and in order, and only an
\* online message can be dropped, as long as handlers do not overlap.
THEOREM SystemImplementsLedger ==
    ASSUME ~Overlap
    PROVE  Spec => ImplementsLedger
<1>1. Init => FullTypeInv /\ LedgerInv
  BY FullTypeInit, LedgerInit DEF Init
<1>2. FullTypeInv /\ LedgerInv /\ [Next]_vars => (FullTypeInv /\ LedgerInv)'
  BY FullLedgerStep
<1>3. Init => Ledger!Init
  BY LedgerStart DEF Init
<1>4. FullTypeInv /\ LedgerInv /\ [Next]_vars => [Ledger!Next]_(Ledger!ledgerVars)
  BY FullLedgerStep
<1> QED
  BY <1>1, <1>2, <1>3, <1>4, PTL DEF Spec, ImplementsLedger, Ledger!Spec

-----------------------------------------------------------------------------
(* The number of failed lookups *)

\* An updater has the client c in hand.
InHand(run, c) == \E w \in run : w.client.client_id = c

\* A run has one piece of work for a client at most.
OneWorkPerClient(run) ==
    \A v, w \in run : v.client.client_id = w.client.client_id => v = w

\* The failures that a row of c can still collect: one from each updater that has
\* the client in hand.
WithinBudget(r, c, run1, run2) ==
    /\ r.tenant_lookup_failure_count <= MaxTenantLookupFailures + 1
    /\ InHand(run1, c) \/ InHand(run2, c) =>
         r.tenant_lookup_failure_count <= MaxTenantLookupFailures
    /\ InHand(run1, c) /\ InHand(run2, c) =>
         r.tenant_lookup_failure_count < MaxTenantLookupFailures

BudgetKept ==
    /\ OneWorkPerClient(tenantlessRun) /\ OneWorkPerClient(staleRun)
    /\ \A c \in ClientID : \A i \in DOMAIN connections[c] :
         WithinBudget(connections[c][i], c, tenantlessRun, staleRun)

\* A step of a consumer leaves stale timestamps alone and counts no failure.
LEMMA ConsumerBookkeeping ==
    ASSUME TypeInv, ConsumerNext
    PROVE  KeepsBookkeeping(connections, connections')
<1>1. connections \in Tables(Row)
  BY DEF TypeInv, ConsumerTypeOK, ConnectionsTypeOK, Tables
<1>2. CASE connections' = connections
  BY <1>2 DEF KeepsBookkeeping
<1>3. ASSUME NEW p \in Consumer, ExecUpsert(p) \/ ExecUpsertFails(p)
      PROVE  KeepsBookkeeping(connections, connections')
  <2>1. proc[p].pc \in Busy /\ (Upsert(p) \/ connections' = connections)
    BY <1>3 DEF ExecUpsert, ExecUpsertFails, Busy
  <2>2. CASE Upsert(p)
    <3>1. connections' = Register(connections, Msg(p).client_id, Msg(p), proc[p].result.org_id,
                                  proc[p].seen)
      BY <2>2 DEF Upsert
    <3>2. proc[p].seen \in Nat /\ Msg(p).client_id \in ClientID
      BY <2>1, MsgType DEF TypeInv, ConsumerTypeOK, Process
    <3> QED
      BY <1>1, <3>1, <3>2, RegisterKeepsBookkeeping
  <2> QED
    BY <1>2, <2>1, <2>2
<1>4. ASSUME NEW p \in Consumer, UnregisterClient(p) \/ UnregisterReplyLost(p)
      PROVE  KeepsBookkeeping(connections, connections')
  <2>1. Msg(p).client_id \in ClientID
    BY <1>4, MsgType DEF UnregisterClient, UnregisterReplyLost, Busy
  <2>2. connections' = Unregister(connections, Msg(p).client_id)
    BY <1>4 DEF UnregisterClient, UnregisterReplyLost
  <2> QED
    BY <1>1, <2>1, <2>2, UnregisterKeepsBookkeeping
<1>5. ASSUME NEW p \in Consumer,
             HandlerStep(p), ~UnregisterClient(p), ~UnregisterReplyLost(p),
             ~ExecUpsert(p), ~ExecUpsertFails(p)
      PROVE  connections' = connections
  BY <1>5 DEF HandlerStep, FetchMessage, HandlerPanics, IgnoreDuplicate, AcceptMessage, ResolveTenant,
              PrepareUpsert, DatabaseFails, RecordClient, RecordClientFails, SourceExists,
              SourceNotFound, CreateSource, CommitMessage, CommitFails, FatalProcessingError
<1>6. ASSUME NEW p \in Consumer, Start(p) \/ Rebalance(p) \/ Crash(p)
      PROVE  connections' = connections
  BY <1>6 DEF Start, Rebalance, Crash
<1>7. ASSUME NEW m \in Message, Publish(m)
      PROVE  connections' = connections
  BY <1>7 DEF Publish
<1> QED
  BY <1>2, <1>3, <1>4, <1>5, <1>6, <1>7 DEF ConsumerNext

\* A piece of work that makes progress stays the only one for its client.
LEMMA WorkReplaced ==
    ASSUME NEW run, OneWorkPerClient(run), NEW w \in run, NEW v, v.client = w.client
    PROVE  /\ OneWorkPerClient((run \ {w}) \cup {v})
           /\ \A c : InHand((run \ {w}) \cup {v}, c) => InHand(run, c)
BY DEF OneWorkPerClient, InHand

\* With its only piece of work a client leaves the hands of an updater.
LEMMA WorkRemoved ==
    ASSUME NEW run, OneWorkPerClient(run), NEW w \in run
    PROVE  /\ OneWorkPerClient(run \ {w})
           /\ ~InHand(run \ {w}, w.client.client_id)
           /\ \A c : InHand(run \ {w}, c) => InHand(run, c)
BY DEF OneWorkPerClient, InHand

\* Copies of the rows of clients with one row each make one piece of work per client.
LEMMA SelectedOnce ==
    ASSUME ConnectionsTypeOK, OneRowPerClient, NEW run,
           \A w \in run : /\ w \in [client : ConnectorClientState, stage : {"selected"}, org_id : {NoOrg}]
                          /\ \E c \in ClientID : \E i \in DOMAIN connections[c] :
                               w.client = ClientState(c, connections[c][i])
    PROVE  OneWorkPerClient(run)
<1> SUFFICES ASSUME NEW v \in run, NEW w \in run, v.client.client_id = w.client.client_id
             PROVE  v = w
  BY DEF OneWorkPerClient
<1>1. PICK c \in ClientID : \E i \in DOMAIN connections[c] : v.client = ClientState(c, connections[c][i])
  OBVIOUS
<1>2. PICK d \in ClientID : \E i \in DOMAIN connections[d] : w.client = ClientState(d, connections[d][i])
  OBVIOUS
<1>3. c = d
  BY <1>1, <1>2 DEF ClientState
<1>4. connections[c] \in Seq(Row) /\ connections[c] # <<>> /\ Len(connections[c]) <= 1
  BY <1>1 DEF ConnectionsTypeOK, OneRowPerClient
<1>5. DOMAIN connections[c] = {1}
  BY <1>4, OneElement
<1>6. v.client = w.client
  BY <1>1, <1>2, <1>3, <1>5
<1> QED
  BY <1>6

\* As long as clients have one row each, what the SELECT takes in hand are clients
\* all of whose rows satisfy its WHERE clause (ProcessTenantlessConnections).
LEMMA SelectTenantlessBudget ==
    ASSUME ConnectionsTypeOK, OneRowPerClient, SelectTenantless
    PROVE  /\ OneWorkPerClient(tenantlessRun')
           /\ \A c \in ClientID : InHand(tenantlessRun', c) =>
                \A i \in DOMAIN connections[c] : IsTenantlessDue(connections[c][i])
<1>1. PICK chunk \in Chunks(SelectClients(connections, IsTenantlessDue)) :
        tenantlessRun' = Selected(chunk)
  BY DEF SelectTenantless
<1>2. chunk \subseteq SelectClients(connections, IsTenantlessDue)
  BY <1>1 DEF Chunks
<1>3. ASSUME NEW s \in SelectClients(connections, IsTenantlessDue)
      PROVE  /\ s \in ConnectorClientState
             /\ \E c \in ClientID : \E i \in DOMAIN connections[c] :
                  s = ClientState(c, connections[c][i]) /\ IsTenantlessDue(connections[c][i])
  <2>1. PICK c \in ClientID : \E i \in DOMAIN connections[c] :
          s = ClientState(c, connections[c][i]) /\ IsTenantlessDue(connections[c][i])
    BY <1>3 DEF SelectClients
  <2>2. \A i \in DOMAIN connections[c] : connections[c][i] \in Row
    BY DEF ConnectionsTypeOK
  <2>3. \A r \in Row : ClientState(c, r) \in ConnectorClientState
    BY DEF ClientState, ConnectorClientState, Row
  <2> QED
    BY <2>1, <2>2, <2>3
<1>4. ASSUME NEW w \in tenantlessRun'
      PROVE  /\ w \in [client : ConnectorClientState, stage : {"selected"}, org_id : {NoOrg}]
             /\ \E c \in ClientID : \E i \in DOMAIN connections[c] :
                  w.client = ClientState(c, connections[c][i]) /\ IsTenantlessDue(connections[c][i])
  <2>1. PICK s \in SelectClients(connections, IsTenantlessDue) :
          w = [client |-> s, stage |-> "selected", org_id |-> NoOrg]
    BY <1>1, <1>2 DEF Selected
  <2>2. w.client = s
    BY <2>1
  <2> QED
    BY <1>3, <2>1, <2>2
<1>5. OneWorkPerClient(tenantlessRun')
  BY <1>4, SelectedOnce
<1>6. ASSUME NEW c \in ClientID, InHand(tenantlessRun', c), NEW i \in DOMAIN connections[c]
      PROVE  IsTenantlessDue(connections[c][i])
  <2>1. PICK w \in tenantlessRun' : w.client.client_id = c
    BY <1>6 DEF InHand
  <2>2. PICK d \in ClientID : \E j \in DOMAIN connections[d] :
          w.client = ClientState(d, connections[d][j]) /\ IsTenantlessDue(connections[d][j])
    BY <1>4
  <2>3. d = c
    BY <2>1, <2>2 DEF ClientState
  <2>4. connections[c] \in Seq(Row) /\ connections[c] # <<>> /\ Len(connections[c]) <= 1
    BY <1>6 DEF ConnectionsTypeOK, OneRowPerClient
  <2>5. DOMAIN connections[c] = {1}
    BY <2>4, OneElement
  <2> QED
    BY <2>2, <2>3, <2>5
<1> QED
  BY <1>5, <1>6

\* As long as clients have one row each, what the SELECT takes in hand are clients
\* all of whose rows satisfy its WHERE clause (ProcessStaleConnections).
LEMMA SelectStaleBudget ==
    ASSUME ConnectionsTypeOK, OneRowPerClient, SelectStale
    PROVE  /\ OneWorkPerClient(staleRun')
           /\ \A c \in ClientID : InHand(staleRun', c) =>
                \A i \in DOMAIN connections[c] : IsStaleDue(connections[c][i])
<1>1. PICK chunk \in Chunks(SelectClients(connections, IsStaleDue)) :
        staleRun' = Selected(chunk)
  BY DEF SelectStale
<1>2. chunk \subseteq SelectClients(connections, IsStaleDue)
  BY <1>1 DEF Chunks
<1>3. ASSUME NEW s \in SelectClients(connections, IsStaleDue)
      PROVE  /\ s \in ConnectorClientState
             /\ \E c \in ClientID : \E i \in DOMAIN connections[c] :
                  s = ClientState(c, connections[c][i]) /\ IsStaleDue(connections[c][i])
  <2>1. PICK c \in ClientID : \E i \in DOMAIN connections[c] :
          s = ClientState(c, connections[c][i]) /\ IsStaleDue(connections[c][i])
    BY <1>3 DEF SelectClients
  <2>2. \A i \in DOMAIN connections[c] : connections[c][i] \in Row
    BY DEF ConnectionsTypeOK
  <2>3. \A r \in Row : ClientState(c, r) \in ConnectorClientState
    BY DEF ClientState, ConnectorClientState, Row
  <2> QED
    BY <2>1, <2>2, <2>3
<1>4. ASSUME NEW w \in staleRun'
      PROVE  /\ w \in [client : ConnectorClientState, stage : {"selected"}, org_id : {NoOrg}]
             /\ \E c \in ClientID : \E i \in DOMAIN connections[c] :
                  w.client = ClientState(c, connections[c][i]) /\ IsStaleDue(connections[c][i])
  <2>1. PICK s \in SelectClients(connections, IsStaleDue) :
          w = [client |-> s, stage |-> "selected", org_id |-> NoOrg]
    BY <1>1, <1>2 DEF Selected
  <2>2. w.client = s
    BY <2>1
  <2> QED
    BY <1>3, <2>1, <2>2
<1>5. OneWorkPerClient(staleRun')
  BY <1>4, SelectedOnce
<1>6. ASSUME NEW c \in ClientID, InHand(staleRun', c), NEW i \in DOMAIN connections[c]
      PROVE  IsStaleDue(connections[c][i])
  <2>1. PICK w \in staleRun' : w.client.client_id = c
    BY <1>6 DEF InHand
  <2>2. PICK d \in ClientID : \E j \in DOMAIN connections[d] :
          w.client = ClientState(d, connections[d][j]) /\ IsStaleDue(connections[d][j])
    BY <1>4
  <2>3. d = c
    BY <2>1, <2>2 DEF ClientState
  <2>4. connections[c] \in Seq(Row) /\ connections[c] # <<>> /\ Len(connections[c]) <= 1
    BY <1>6 DEF ConnectionsTypeOK, OneRowPerClient
  <2>5. DOMAIN connections[c] = {1}
    BY <2>4, OneElement
  <2> QED
    BY <2>2, <2>3, <2>5
<1> QED
  BY <1>5, <1>6

\* Unless it selects, an updater takes no further client in hand.
LEMMA RunsShrink ==
    ASSUME UpdaterTypeOK, UpdaterNext, ~SelectTenantless, ~SelectStale,
           OneWorkPerClient(tenantlessRun), OneWorkPerClient(staleRun)
    PROVE  /\ OneWorkPerClient(tenantlessRun') /\ OneWorkPerClient(staleRun')
           /\ \A c : InHand(tenantlessRun', c) => InHand(tenantlessRun, c)
           /\ \A c : InHand(staleRun', c) => InHand(staleRun, c)
<1> DEFINE Kept(run, run2) == OneWorkPerClient(run2) /\ \A c : InHand(run2, c) => InHand(run, c)
<1> SUFFICES Kept(tenantlessRun, tenantlessRun') /\ Kept(staleRun, staleRun')
  OBVIOUS
<1>1. ASSUME NEW run, OneWorkPerClient(run)
      PROVE  /\ Kept(run, run) /\ Kept(run, {})
             /\ \A w \in run : Kept(run, run \ {w})
             /\ \A w \in run : \A v : v.client = w.client => Kept(run, (run \ {w}) \cup {v})
  <2>1. Kept(run, run) /\ Kept(run, {})
    BY <1>1 DEF OneWorkPerClient, InHand
  <2> QED
    BY <1>1, <2>1, WorkRemoved, WorkReplaced
<1>2. \A w \in Work : /\ \A result \in Resolution : Resolved(w, result).client = w.client
                      /\ [w EXCEPT !.stage = "sent"].client = w.client
  BY ResolvedType DEF Work
<1> HIDE DEF Kept
<1>3. ASSUME NEW w \in tenantlessRun, LookupTenant(w) \/ RecordTenantLookup(w)
      PROVE  Kept(tenantlessRun, tenantlessRun') /\ Kept(staleRun, staleRun')
  <2>1. w \in Work /\ MapClientIdToAccountId \subseteq Resolution
    BY ResolutionType DEF UpdaterTypeOK
  <2> QED
    BY <1>1, <1>2, <1>3, <2>1 DEF LookupTenant, RecordTenantLookup
<1>4. ASSUME NEW w \in staleRun,
             LookupIdentity(w) \/ RecordLookupFailure(w) \/ SendToInventory(w)
               \/ SendToInventoryFails(w) \/ RecordStaleTimestamp(w)
      PROVE  Kept(tenantlessRun, tenantlessRun') /\ Kept(staleRun, staleRun')
  <2>1. w \in Work /\ MapClientIdToAccountId \subseteq Resolution
    BY ResolutionType DEF UpdaterTypeOK
  <2>2. CASE LookupIdentity(w)
    BY <1>1, <1>2, <2>1, <2>2 DEF LookupIdentity
  <2>3. CASE SendToInventory(w)
    <3>1. /\ staleRun' = (staleRun \ {w}) \cup {[w EXCEPT !.stage = "sent"]}
          /\ tenantlessRun' = tenantlessRun
      BY <2>3 DEF SendToInventory
    <3>2. PICK v : v = [w EXCEPT !.stage = "sent"] /\ v.client = w.client
      BY <1>2, <2>1
    <3> QED
      BY <1>1, <3>1, <3>2
  <2>4. CASE RecordLookupFailure(w) \/ SendToInventoryFails(w) \/ RecordStaleTimestamp(w)
    BY <1>1, <2>4 DEF RecordLookupFailure, SendToInventoryFails, RecordStaleTimestamp
  <2> QED
    BY <1>4, <2>2, <2>3, <2>4
<1>5. CASE EndTenantlessRun \/ EndStaleRun \/ StaleTimestampsExpire \/ TenantLookupTimestampsExpire
  BY <1>1, <1>5 DEF EndTenantlessRun, EndStaleRun, StaleTimestampsExpire, TenantLookupTimestampsExpire
<1> QED
  BY <1>3, <1>4, <1>5 DEF UpdaterNext

\* A row that collects no failure stays within its budget.
LEMMA BudgetHolds ==
    ASSUME NEW r \in Row, NEW s \in Row, NEW c, NEW t1, NEW t2, NEW u1, NEW u2,
           s.tenant_lookup_failure_count \in {0, r.tenant_lookup_failure_count},
           InHand(u1, c) => InHand(t1, c), InHand(u2, c) => InHand(t2, c),
           WithinBudget(r, c, t1, t2)
    PROVE  WithinBudget(s, c, u1, u2)
<1>1. /\ r.tenant_lookup_failure_count \in Nat /\ s.tenant_lookup_failure_count \in Nat
      /\ MaxTenantLookupFailures \in Nat \ {0}
  BY TableAssumption DEF Row
<1> QED
  BY <1>1 DEF WithinBudget

\* A failure is counted on behalf of a piece of work, with which the client leaves
\* the hands of that updater.
LEMMA CountedFailure ==
    ASSUME NEW r \in Row, NEW c, NEW t1, NEW t2, NEW u1, NEW u2,
           WithinBudget(r, c, t1, t2),
           InHand(u1, c) => InHand(t1, c), InHand(u2, c) => InHand(t2, c),
           \/ InHand(t1, c) /\ ~InHand(u1, c)
           \/ InHand(t2, c) /\ ~InHand(u2, c)
    PROVE  WithinBudget(WithoutTenant(r), c, u1, u2)
<1>1. /\ r.tenant_lookup_failure_count \in Nat
      /\ MaxTenantLookupFailures \in Nat \ {0}
  BY TableAssumption DEF Row
<1>2. WithoutTenant(r).tenant_lookup_failure_count = r.tenant_lookup_failure_count + 1
  BY DEF WithoutTenant, Row
<1> QED
  BY <1>1, <1>2 DEF WithinBudget

\* The SET clauses of the updaters that count no failure.
LEMMA UncountedChange ==
    ASSUME NEW r \in Row, NEW org \in OrgID \cup {NoOrg}
    PROVE  /\ WithTenant(r, org).tenant_lookup_failure_count \in {0, r.tenant_lookup_failure_count}
           /\ WithFreshTimestamp(r, org).tenant_lookup_failure_count
                \in {0, r.tenant_lookup_failure_count}
           /\ WithOldTimestamp(r).tenant_lookup_failure_count \in {0, r.tenant_lookup_failure_count}
           /\ WithOldLookup(r).tenant_lookup_failure_count \in {0, r.tenant_lookup_failure_count}
<1>1. WithTenant(r, org).tenant_lookup_failure_count = 0
  BY DEF WithTenant, Row
<1>2. WithFreshTimestamp(r, org).tenant_lookup_failure_count
        \in {0, r.tenant_lookup_failure_count}
  BY DEF WithFreshTimestamp, Row
<1>3. WithOldTimestamp(r).tenant_lookup_failure_count = r.tenant_lookup_failure_count
  BY DEF WithOldTimestamp, Row
<1>4. WithOldLookup(r).tenant_lookup_failure_count = r.tenant_lookup_failure_count
  BY DEF WithOldLookup, Row
<1> QED
  BY <1>1, <1>2, <1>3, <1>4

\* A change that counts no failure, in a step that takes no client in hand.
LEMMA UncountedStep ==
    ASSUME FullTypeInv, FullTypeInv', BudgetKept, NEW C, NEW f,
           Changed(connections, connections', C, f),
           \A r \in Row : f[r].tenant_lookup_failure_count \in {0, r.tenant_lookup_failure_count},
           OneWorkPerClient(tenantlessRun'), OneWorkPerClient(staleRun'),
           \A c : InHand(tenantlessRun', c) => InHand(tenantlessRun, c),
           \A c : InHand(staleRun', c) => InHand(staleRun, c)
    PROVE  BudgetKept'
<1> SUFFICES ASSUME NEW c \in ClientID, NEW i \in DOMAIN connections'[c]
             PROVE  WithinBudget(connections'[c][i], c, tenantlessRun', staleRun')
  BY DEF BudgetKept, WithinBudget, InHand
<1>1. connections'[c][i] \in Row
  BY DEF FullTypeInv, TypeInv, ConsumerTypeOK, ConnectionsTypeOK
<1>2. i \in DOMAIN connections[c] /\ connections'[c][i] \in {f[connections[c][i]], connections[c][i]}
  BY DEF Changed
<1>3. connections[c][i] \in Row
  BY <1>2 DEF FullTypeInv, TypeInv, ConsumerTypeOK, ConnectionsTypeOK
<1>4. connections'[c][i].tenant_lookup_failure_count
        \in {0, connections[c][i].tenant_lookup_failure_count}
  BY <1>2, <1>3
<1>5. WithinBudget(connections[c][i], c, tenantlessRun, staleRun)
  BY <1>2 DEF BudgetKept
<1> QED
  BY <1>1, <1>3, <1>4, <1>5, BudgetHolds

\* A failure counted for the client c, which leaves the hands of one updater.
LEMMA CountedStep ==
    ASSUME FullTypeInv, BudgetKept, NEW c \in ClientID,
           Changed(connections, connections', {c}, [r \in Row |-> WithoutTenant(r)]),
           OneWorkPerClient(tenantlessRun'), OneWorkPerClient(staleRun'),
           \A d : InHand(tenantlessRun', d) => InHand(tenantlessRun, d),
           \A d : InHand(staleRun', d) => InHand(staleRun, d),
           \/ InHand(tenantlessRun, c) /\ ~InHand(tenantlessRun', c)
           \/ InHand(staleRun, c) /\ ~InHand(staleRun', c)
    PROVE  BudgetKept'
<1> SUFFICES ASSUME NEW d \in ClientID, NEW i \in DOMAIN connections'[d]
             PROVE  WithinBudget(connections'[d][i], d, tenantlessRun', staleRun')
  BY DEF BudgetKept, WithinBudget, InHand
<1>1. i \in DOMAIN connections[d]
  BY DEF Changed
<1>2. connections[d][i] \in Row
  BY <1>1 DEF FullTypeInv, TypeInv, ConsumerTypeOK, ConnectionsTypeOK
<1>3. WithinBudget(connections[d][i], d, tenantlessRun, staleRun)
  BY <1>1 DEF BudgetKept
<1>4. CASE d = c
  <2>1. connections'[d][i] = WithoutTenant(connections[d][i])
    BY <1>1, <1>2, <1>4 DEF Changed
  <2> QED
    BY <1>2, <1>3, <1>4, <2>1, CountedFailure
<1>5. CASE d # c
  <2>1. connections'[d][i] = connections[d][i]
    BY <1>1, <1>5 DEF Changed
  <2> QED
    BY <1>2, <1>3, <2>1, BudgetHolds
<1> QED
  BY <1>4, <1>5

\* Every step keeps every row within its budget.
LEMMA BudgetStep ==
    ASSUME FullTypeInv, connections \in Tables(CleanRow), OneRowPerClient, BudgetKept,
           [Next]_vars
    PROVE  BudgetKept'
<1>1. FullTypeInv'
  BY FullTypeStep
<1>2. ASSUME NEW c \in ClientID, NEW i \in DOMAIN connections[c]
      PROVE  /\ connections[c][i] \in Row /\ connections[c][i] \in CleanRow
             /\ WithinBudget(connections[c][i], c, tenantlessRun, staleRun)
  <2>1. connections[c] \in Seq(CleanRow)
    BY DEF Tables
  <2>2. connections[c][i] \in CleanRow
    BY <2>1
  <2> QED
    BY <2>2 DEF CleanRow, BudgetKept
<1>3. CASE ConsumerNext /\ UNCHANGED updaterVars
  <2>1. KeepsBookkeeping(connections, connections')
    BY <1>3, ConsumerBookkeeping DEF FullTypeInv
  <2>2. UNCHANGED <<tenantlessRun, staleRun>>
    BY <1>3 DEF updaterVars
  <2> SUFFICES ASSUME NEW c \in ClientID, NEW i \in DOMAIN connections'[c]
               PROVE  WithinBudget(connections'[c][i], c, tenantlessRun, staleRun)
    BY <2>2 DEF BudgetKept
  <2>3. connections'[c][i] \in Row
    BY <1>1 DEF FullTypeInv, TypeInv, ConsumerTypeOK, ConnectionsTypeOK
  <2>4. CASE /\ i \in DOMAIN connections[c]
             /\ connections'[c][i].tenant_lookup_failure_count
                  \in {0, connections[c][i].tenant_lookup_failure_count}
    BY <1>2, <2>3, <2>4, BudgetHolds
  <2>5. CASE connections'[c][i].tenant_lookup_failure_count = 0
    BY <2>5, TableAssumption DEF WithinBudget
  <2> QED
    BY <2>1, <2>4, <2>5 DEF KeepsBookkeeping
<1>4. CASE SelectTenantless
  <2>1. UNCHANGED <<connections, staleRun>> /\ tenantlessRun = {}
    BY <1>4 DEF SelectTenantless
  <2>2. /\ OneWorkPerClient(tenantlessRun')
        /\ \A c \in ClientID : InHand(tenantlessRun', c) =>
             \A i \in DOMAIN connections[c] : IsTenantlessDue(connections[c][i])
    BY <1>4, SelectTenantlessBudget DEF FullTypeInv, TypeInv, ConsumerTypeOK
  <2> SUFFICES ASSUME NEW c \in ClientID, NEW i \in DOMAIN connections[c]
               PROVE  WithinBudget(connections[c][i], c, tenantlessRun', staleRun)
    BY <2>1, <2>2 DEF BudgetKept, WithinBudget, InHand
  <2>3. CASE ~InHand(tenantlessRun', c)
    BY <1>2, <2>3, BudgetHolds
  <2>4. CASE InHand(tenantlessRun', c)
    <3>1. connections[c][i].tenant_lookup_failure_count < MaxTenantLookupFailures
      BY <2>2, <2>4 DEF IsTenantlessDue
    <3>2. connections[c][i].tenant_lookup_failure_count \in Nat /\ MaxTenantLookupFailures \in Nat
      BY <1>2, TableAssumption DEF Row
    <3> QED
      BY <3>1, <3>2 DEF WithinBudget
  <2> QED
    BY <2>3, <2>4
<1>5. CASE SelectStale
  <2>1. UNCHANGED <<connections, tenantlessRun>> /\ staleRun = {}
    BY <1>5 DEF SelectStale
  <2>2. /\ OneWorkPerClient(staleRun')
        /\ \A c \in ClientID : InHand(staleRun', c) =>
             \A i \in DOMAIN connections[c] : IsStaleDue(connections[c][i])
    BY <1>5, SelectStaleBudget DEF FullTypeInv, TypeInv, ConsumerTypeOK
  <2> SUFFICES ASSUME NEW c \in ClientID, NEW i \in DOMAIN connections[c]
               PROVE  WithinBudget(connections[c][i], c, tenantlessRun, staleRun')
    BY <2>1, <2>2 DEF BudgetKept, WithinBudget, InHand
  <2>3. CASE ~InHand(staleRun', c)
    BY <1>2, <2>3, BudgetHolds
  <2>4. CASE InHand(staleRun', c)
    <3>1. connections[c][i].tenant_lookup_failure_count = 0
      BY <1>2, <2>2, <2>4 DEF IsStaleDue, CleanRow
    <3> QED
      BY <3>1, TableAssumption DEF WithinBudget
  <2> QED
    BY <2>3, <2>4
<1>6. CASE UpdaterNext /\ ~SelectTenantless /\ ~SelectStale
  <2>1. ConnectionsTypeOK /\ UpdaterTypeOK
    BY DEF FullTypeInv, TypeInv, ConsumerTypeOK
  <2>2. OneWorkPerClient(tenantlessRun) /\ OneWorkPerClient(staleRun)
    BY DEF BudgetKept
  <2>3. /\ OneWorkPerClient(tenantlessRun') /\ OneWorkPerClient(staleRun')
        /\ \A c : InHand(tenantlessRun', c) => InHand(tenantlessRun, c)
        /\ \A c : InHand(staleRun', c) => InHand(staleRun, c)
    BY <1>6, <2>1, <2>2, RunsShrink
  <2>4. CASE connections' = connections
    <3> SUFFICES ASSUME NEW c \in ClientID, NEW i \in DOMAIN connections[c]
                 PROVE  WithinBudget(connections[c][i], c, tenantlessRun', staleRun')
      BY <2>3, <2>4 DEF BudgetKept, WithinBudget, InHand
    <3> QED
      BY <1>2, <2>3, BudgetHolds
  <2>5. ASSUME NEW w \in tenantlessRun \cup staleRun, NEW C, NEW org \in {w.org_id, w.client.org_id},
               \/ Changed(connections, connections', C, [r \in Row |-> WithTenant(r, org)])
               \/ Changed(connections, connections', C, [r \in Row |-> WithFreshTimestamp(r, org)])
        PROVE  BudgetKept'
    <3>1. org \in OrgID \cup {NoOrg}
      BY <2>1 DEF UpdaterTypeOK, Work, ConnectorClientState
    <3>2. PICK f : /\ Changed(connections, connections', C, f)
                   /\ \A r \in Row : f[r].tenant_lookup_failure_count
                                      \in {0, r.tenant_lookup_failure_count}
      BY <2>5, <3>1, UncountedChange
    <3> QED
      BY <1>1, <2>3, <3>2, UncountedStep
  <2>6. ASSUME \/ Changed(connections, connections', ClientID, [r \in Row |-> WithOldTimestamp(r)])
               \/ Changed(connections, connections', ClientID, [r \in Row |-> WithOldLookup(r)])
        PROVE  BudgetKept'
    <3>1. PICK f : /\ Changed(connections, connections', ClientID, f)
                   /\ \A r \in Row : f[r].tenant_lookup_failure_count
                                      \in {0, r.tenant_lookup_failure_count}
      BY <2>6, UncountedChange
    <3> QED
      BY <1>1, <2>3, <3>1, UncountedStep
  <2>7. ASSUME NEW w \in tenantlessRun,
               Changed(connections, connections', {w.client.client_id}, [r \in Row |-> WithoutTenant(r)]),
               tenantlessRun' = tenantlessRun \ {w}
        PROVE  BudgetKept'
    <3>1. w.client.client_id \in ClientID
      BY <2>1 DEF UpdaterTypeOK, Work, ConnectorClientState
    <3>2. InHand(tenantlessRun, w.client.client_id) /\ ~InHand(tenantlessRun', w.client.client_id)
      BY <2>2, <2>7, WorkRemoved DEF InHand
    <3> QED
      BY <2>3, <2>7, <3>1, <3>2, CountedStep
  <2>8. ASSUME NEW w \in staleRun,
               Changed(connections, connections', {w.client.client_id}, [r \in Row |-> WithoutTenant(r)]),
               staleRun' = staleRun \ {w}
        PROVE  BudgetKept'
    <3>1. w.client.client_id \in ClientID
      BY <2>1 DEF UpdaterTypeOK, Work, ConnectorClientState
    <3>2. InHand(staleRun, w.client.client_id) /\ ~InHand(staleRun', w.client.client_id)
      BY <2>2, <2>8, WorkRemoved DEF InHand
    <3> QED
      BY <2>3, <2>8, <3>1, <3>2, CountedStep
  <2> QED
    BY <1>6, <2>1, <2>4, <2>5, <2>6, <2>7, <2>8, UpdaterTableSteps
<1>7. CASE UNCHANGED vars
  BY <1>7 DEF vars, updaterVars, BudgetKept
<1> QED
  BY <1>3, <1>4, <1>5, <1>6, <1>7 DEF Next

\* A row collects one failure more than configured at most, as long as handlers do
\* not overlap: with one row per client an updater has a client in hand once, and
\* the stale updater takes it in hand with no failures counted (FailureCountBounded).
THEOREM FailuresBounded ==
    ASSUME ~Overlap
    PROVE  Spec => []FailureCountBounded
<1> DEFINE Inv == /\ FullTypeInv
                  /\ LedgerInv
                  /\ connections \in Tables(CleanRow)
                  /\ BudgetKept
<1>1. Init => Inv
  <2>1. Init => BudgetKept
    <3> SUFFICES ASSUME Init
                 PROVE  BudgetKept
      OBVIOUS
    <3>1. tenantlessRun = {} /\ staleRun = {} /\ \A c \in ClientID : connections[c] = <<>>
      BY DEF Init, UpdaterInit, ConsumerInit, ConnectionsInit
    <3>2. ASSUME NEW c \in ClientID
          PROVE  DOMAIN connections[c] = {}
      <4>1. connections[c] = <<>> /\ DOMAIN <<>> = {}
        BY <3>1
      <4> QED
        BY <4>1, Zenon
    <3>3. OneWorkPerClient({})
      BY DEF OneWorkPerClient
    <3>4. ASSUME NEW c \in ClientID, NEW i \in DOMAIN connections[c]
          PROVE  WithinBudget(connections[c][i], c, tenantlessRun, staleRun)
      BY <3>2, <3>4
    <3> QED
      BY <3>1, <3>3, <3>4, Zenon DEF BudgetKept
  <2> QED
    BY <2>1, FullTypeInit, LedgerInit, InitRows DEF Init
<1>2. Inv /\ [Next]_vars => Inv'
  <2> SUFFICES ASSUME Inv, [Next]_vars
               PROVE  Inv'
    OBVIOUS
  <2>1. FullTypeInv' /\ LedgerInv'
    BY FullLedgerStep
  <2>2. connections' \in Tables(CleanRow)
    BY CleanRowClosed, RowsIn DEF FullTypeInv
  <2>3. BudgetKept'
    BY BudgetStep DEF LedgerInv
  <2> QED
    BY <2>1, <2>2, <2>3 DEF Tables
<1>3. Inv => FailureCountBounded
  <2> SUFFICES ASSUME Inv, NEW r \in Rows
               PROVE  r.tenant_lookup_failure_count <= MaxTenantLookupFailures + 1
    BY DEF FailureCountBounded
  <2>1. PICK c \in ClientID : \E i \in DOMAIN connections[c] : r = connections[c][i]
    BY DEF Rows, FindConnectionByClientID
  <2> QED
    BY <2>1 DEF BudgetKept, WithinBudget
<1> QED
  BY <1>1, <1>2, <1>3, PTL DEF Spec

-----------------------------------------------------------------------------
(* Stale timestamps are refreshed after inventory was informed *)

\* The stale updater has copies of hosts in hand that RecordConnectedClient does not
\* skip: what its SELECT asks for is what shouldHostBeRegisteredWithInventory asks for.
HostsInHand ==
    \A w \in staleRun :
      /\ w.client.canonical_facts # {}
      /\ w.client.dispatchers \cap {"rhc-worker-playbook", "package-manager"} # {}

\* Inventory was informed of the hosts whose timestamp is about to be refreshed.
SentReported == \A w \in staleRun : w.stage = "sent" => inventory[w.client.client_id].reported

\* Every step writes one host to inventory at most.
LEMMA InventoryChanges ==
    ASSUME FullTypeInv, [Next]_vars
    PROVE  inventory' = inventory \/ \E c \in ClientID : \E facts \in SUBSET Fact : AddHost(c, facts)
<1> DEFINE Written == \E c \in ClientID : \E facts \in SUBSET Fact : AddHost(c, facts)
<1>1. ASSUME NEW p \in Consumer, RecordClient(p) \/ RecordClientFails(p)
      PROVE  inventory' = inventory \/ Written
  <2>1. Msg(p).client_id \in ClientID /\ Msg(p) \in ControlMessage
    BY <1>1, MsgType DEF RecordClient, RecordClientFails, Busy, FullTypeInv
  <2>2. SanitizeCanonicalFacts(Msg(p).canonical_facts) \in SUBSET Fact
    BY <2>1 DEF ControlMessage, SanitizeCanonicalFacts
  <2>3. \/ inventory' = inventory
        \/ AddHost(Msg(p).client_id, SanitizeCanonicalFacts(Msg(p).canonical_facts))
    BY <1>1 DEF RecordClient, RecordClientFails, RecordConnectedClient, RecordConnectedClientFails
  <2> QED
    BY <2>1, <2>2, <2>3
<1>2. ASSUME NEW w \in staleRun, SendToInventory(w) \/ SendToInventoryFails(w)
      PROVE  inventory' = inventory \/ Written
  <2>1. w.client.client_id \in ClientID /\ w.client.canonical_facts \in SUBSET Fact
    BY DEF FullTypeInv, UpdaterTypeOK, Work, ConnectorClientState
  <2>2. inventory' = inventory \/ AddHost(w.client.client_id, w.client.canonical_facts)
    BY <1>2
       DEF SendToInventory, SendToInventoryFails, RecordConnectedClient, RecordConnectedClientFails
  <2> QED
    BY <2>1, <2>2
<1>3. CASE ConsumerNext
  <2>1. ASSUME NEW p \in Consumer, HandlerStep(p), ~RecordClient(p), ~RecordClientFails(p)
        PROVE  inventory' = inventory
    BY <2>1 DEF HandlerStep, FetchMessage, HandlerPanics, IgnoreDuplicate, AcceptMessage, ResolveTenant,
                PrepareUpsert, ExecUpsert, ExecUpsertFails, DatabaseFails, SourceExists,
                SourceNotFound, CreateSource, UnregisterClient, UnregisterReplyLost,
                CommitMessage, CommitFails, FatalProcessingError
  <2>2. ASSUME NEW p \in Consumer, Start(p) \/ Rebalance(p) \/ Crash(p)
        PROVE  inventory' = inventory
    BY <2>2 DEF Start, Rebalance, Crash
  <2>3. ASSUME NEW m \in Message, Publish(m)
        PROVE  inventory' = inventory
    BY <2>3 DEF Publish
  <2> QED
    BY <1>1, <1>3, <2>1, <2>2, <2>3 DEF ConsumerNext
<1>4. CASE UpdaterNext
  BY <1>2, <1>4
     DEF UpdaterNext, SelectTenantless, EndTenantlessRun, SelectStale, EndStaleRun, LookupTenant,
         RecordTenantLookup, LookupIdentity, RecordLookupFailure, RecordStaleTimestamp,
         StaleTimestampsExpire, TenantLookupTimestampsExpire
<1> QED
  BY <1>3, <1>4 DEF Next, vars

\* What inventory was told is not taken back.
LEMMA ReportedStays ==
    ASSUME FullTypeInv, [Next]_vars, NEW c \in ClientID, inventory[c].reported
    PROVE  inventory'[c].reported
<1>1. inventory \in [ClientID -> HostData]
  BY DEF FullTypeInv, TypeInv, ConsumerTypeOK, InventoryTypeOK
<1>2. ASSUME NEW d \in ClientID, NEW facts, AddHost(d, facts)
      PROVE  inventory'[c].reported
  <2>1. inventory'[c] = IF c = d THEN [reported |-> TRUE,
                                       canonical_facts |-> CleanupCanonicalFacts(facts)]
                        ELSE inventory[c]
    BY <1>1, <1>2 DEF AddHost
  <2> QED
    BY <2>1
<1> QED
  BY <1>2, InventoryChanges

\* Every step keeps the copies in hand, and what was reported of them, in order.
LEMMA SentReportedStep ==
    ASSUME FullTypeInv, HostsInHand, SentReported, [Next]_vars
    PROVE  HostsInHand' /\ SentReported'
<1> DEFINE Host(s) == /\ s.canonical_facts # {}
                      /\ s.dispatchers \cap {"rhc-worker-playbook", "package-manager"} # {}
<1>1. \A w \in staleRun : /\ w \in Work /\ w.client.client_id \in ClientID
                          /\ w.client \in ConnectorClientState
  BY DEF FullTypeInv, UpdaterTypeOK, Work, ConnectorClientState
<1>2. \A w \in staleRun : w.stage = "sent" => inventory'[w.client.client_id].reported
  BY <1>1, ReportedStays DEF SentReported
<1>3. CASE staleRun' \subseteq staleRun
  BY <1>2, <1>3 DEF HostsInHand, SentReported
<1>4. CASE SelectStale
  <2>1. PICK chunk \in Chunks(SelectClients(connections, IsStaleDue)) : staleRun' = Selected(chunk)
    BY <1>4 DEF SelectStale
  <2>2. chunk \subseteq SelectClients(connections, IsStaleDue)
    BY <2>1 DEF Chunks
  <2>3. \A s \in SelectClients(connections, IsStaleDue) : Host(s)
    BY DEF SelectClients, IsStaleDue, ClientState
  <2>4. \A w \in staleRun' : w.stage = "selected" /\ Host(w.client)
    BY <2>1, <2>2, <2>3 DEF Selected
  <2> QED
    BY <2>4 DEF HostsInHand, SentReported
<1>5. ASSUME NEW w \in staleRun, LookupIdentity(w)
      PROVE  HostsInHand' /\ SentReported'
  <2>1. PICK result \in MapClientIdToAccountId :
          staleRun' = (staleRun \ {w}) \cup {Resolved(w, result)}
    BY <1>5 DEF LookupIdentity
  <2> DEFINE v == Resolved(w, result)
  <2>2. v.client = w.client /\ v.stage # "sent"
    BY <1>1 DEF Resolved, Work
  <2> HIDE DEF v
  <2>3. \A u \in staleRun' : u \in staleRun \/ u = v
    BY <2>1 DEF v
  <2>4. \A u \in staleRun' : Host(u.client)
    BY <2>2, <2>3 DEF HostsInHand
  <2>5. \A u \in staleRun' : u.stage = "sent" => inventory'[u.client.client_id].reported
    BY <1>2, <2>2, <2>3
  <2> QED
    BY <2>4, <2>5 DEF HostsInHand, SentReported
<1>6. ASSUME NEW w \in staleRun, SendToInventory(w)
      PROVE  HostsInHand' /\ SentReported'
  <2>1. ShouldHostBeRegisteredWithInventory(TRUE, w.client.canonical_facts, w.client.dispatchers)
    BY DEF HostsInHand, ShouldHostBeRegisteredWithInventory
  <2>2. AddHost(w.client.client_id, w.client.canonical_facts)
    BY <1>6, <2>1 DEF SendToInventory, RecordConnectedClient
  <2>3. inventory'[w.client.client_id].reported
    <3>1. inventory \in [ClientID -> HostData]
      BY DEF FullTypeInv, TypeInv, ConsumerTypeOK, InventoryTypeOK
    <3>2. inventory'[w.client.client_id]
            = [reported |-> TRUE, canonical_facts |-> CleanupCanonicalFacts(w.client.canonical_facts)]
      BY <1>1, <2>2, <3>1 DEF AddHost
    <3> QED
      BY <3>2
  <2> DEFINE v == [w EXCEPT !.stage = "sent"]
  <2>4. v.client = w.client
    BY <1>1 DEF Work
  <2>5. \A u \in staleRun' : u \in staleRun \/ u = v
    BY <1>6 DEF SendToInventory
  <2> HIDE DEF v
  <2>6. \A u \in staleRun' : Host(u.client)
    BY <2>4, <2>5 DEF HostsInHand
  <2>7. \A u \in staleRun' : u.stage = "sent" => inventory'[u.client.client_id].reported
    BY <1>2, <2>3, <2>4, <2>5
  <2> QED
    BY <2>6, <2>7 DEF HostsInHand, SentReported
<1>7. ASSUME NEW w \in staleRun,
             RecordLookupFailure(w) \/ SendToInventoryFails(w) \/ RecordStaleTimestamp(w)
      PROVE  HostsInHand' /\ SentReported'
  BY <1>3, <1>7 DEF RecordLookupFailure, SendToInventoryFails, RecordStaleTimestamp
<1>8. ASSUME NEW w \in tenantlessRun, LookupTenant(w) \/ RecordTenantLookup(w)
      PROVE  HostsInHand' /\ SentReported'
  BY <1>3, <1>8 DEF LookupTenant, RecordTenantLookup
<1>9. CASE SelectTenantless \/ EndTenantlessRun \/ EndStaleRun
             \/ StaleTimestampsExpire \/ TenantLookupTimestampsExpire
  BY <1>3, <1>9 DEF SelectTenantless, EndTenantlessRun, EndStaleRun, StaleTimestampsExpire,
                    TenantLookupTimestampsExpire
<1>10. CASE UNCHANGED updaterVars
  BY <1>3, <1>10 DEF updaterVars
<1>11. CASE UpdaterNext
  BY <1>4, <1>5, <1>6, <1>7, <1>8, <1>9, <1>11 DEF UpdaterNext
<1> QED
  BY <1>10, <1>11 DEF Next, vars

\* A step refreshes the first row of a client only on behalf of a host that
\* inventory was informed of.
LEMMA RefreshStep ==
    ASSUME FullTypeInv, SentReported, [Next]_vars, NEW c \in ClientID,
           connections[c] # <<>>, connections[c][1].stale_timestamp = "old",
           connections'[c] # <<>>, connections'[c][1].stale_timestamp = "recent"
    PROVE  inventory[c].reported
<1>1. connections[c] \in Seq(Row) /\ ConnectionsTypeOK /\ UpdaterTypeOK
  BY DEF FullTypeInv, TypeInv, ConsumerTypeOK, ConnectionsTypeOK
<1>2. 1 \in DOMAIN connections[c] /\ connections[c][1] \in Row
  <2>1. 1 \in DOMAIN connections[c]
    BY <1>1
  <2> QED
    BY <1>1, <2>1
<1>3. CASE UNCHANGED vars
  BY <1>3 DEF vars
<1>4. CASE ConsumerNext
  <2>1. connections'[c] \in Seq(Row)
    BY FullTypeStep DEF FullTypeInv, TypeInv, ConsumerTypeOK, ConnectionsTypeOK
  <2>2. 1 \in DOMAIN connections'[c]
    BY <2>1
  <2>3. connections'[c][1].stale_timestamp = connections[c][1].stale_timestamp
    BY <1>2, <1>4, <2>2, ConsumerBookkeeping DEF FullTypeInv, KeepsBookkeeping
  <2> QED
    BY <2>3
<1>5. ASSUME NEW C, NEW org,
             \/ Changed(connections, connections', C, [r \in Row |-> WithTenant(r, org)])
             \/ Changed(connections, connections', C, [r \in Row |-> WithoutTenant(r)])
             \/ Changed(connections, connections', C, [r \in Row |-> WithOldTimestamp(r)])
             \/ Changed(connections, connections', C, [r \in Row |-> WithOldLookup(r)])
      PROVE  FALSE
  <2>1. \A r \in Row : /\ WithTenant(r, org).stale_timestamp = r.stale_timestamp
                       /\ WithOldTimestamp(r).stale_timestamp = "old"
                       /\ WithOldLookup(r).stale_timestamp = r.stale_timestamp
    BY DEF WithTenant, WithOldTimestamp, WithOldLookup, Row
  <2>2. \A r \in Row : WithoutTenant(r).stale_timestamp = r.stale_timestamp
    BY DEF WithoutTenant, Row
  <2>3. PICK f : /\ Changed(connections, connections', C, f)
                 /\ \A r \in Row : r.stale_timestamp = "old" => f[r].stale_timestamp = "old"
    BY <1>5, <2>1, <2>2
  <2>4. connections'[c][1].stale_timestamp = "old"
    BY <1>2, <2>3 DEF Changed
  <2> QED
    BY <2>4
<1>6. ASSUME NEW w \in staleRun, w.stage = "sent", NEW f,
             Changed(connections, connections', {w.client.client_id}, f)
      PROVE  inventory[c].reported
  <2>1. CASE c = w.client.client_id
    BY <1>6, <2>1 DEF SentReported
  <2>2. CASE c # w.client.client_id
    <3>1. connections'[c][1] = connections[c][1]
      BY <1>2, <1>6, <2>2 DEF Changed
    <3> QED
      BY <3>1
  <2> QED
    BY <2>1, <2>2
<1>7. CASE UpdaterNext
  <2>1. CASE connections' = connections
    BY <2>1
  <2> QED
    BY <1>1, <1>5, <1>6, <1>7, <2>1, UpdaterTableSteps
<1> QED
  BY <1>3, <1>4, <1>7 DEF Next

\* The stale updater refreshes the timestamp of a row only after inventory was
\* informed, also with overlapping handlers (RefreshOnlyAfterReport): what it
\* selects is never skipped by RecordConnectedClient, and what inventory was told
\* is not taken back before the row is written.
THEOREM RefreshAfterReport == Spec => RefreshOnlyAfterReport
<1> DEFINE Inv == FullTypeInv /\ HostsInHand /\ SentReported
<1>1. Init => Inv
  BY FullTypeInit DEF Init, UpdaterInit, HostsInHand, SentReported
<1>2. Inv /\ [Next]_vars => Inv'
  BY FullTypeStep, SentReportedStep
<1>3. Inv /\ [Next]_vars =>
        [\A c \in ClientID :
           (/\ connections[c] # <<>> /\ connections[c][1].stale_timestamp = "old"
            /\ connections'[c] # <<>> /\ connections'[c][1].stale_timestamp = "recent")
           => inventory[c].reported]_vars
  BY RefreshStep
<1> QED
  BY <1>1, <1>2, <1>3, PTL DEF Spec, RefreshOnlyAfterReport
=============================================================================
