------------------------ MODULE ConnectionTableProofs ------------------------
(***************************************************************************)
(* What the statements of ConnectionTable preserve.  Each lemma is about a *)
(* table whose rows all belong to a set R that the SET clause of the       *)
(* statement stays in: with R the set of all rows it is about types, with  *)
(* R the rows that satisfy an invariant it is about that invariant.  The   *)
(* statements of the updaters moreover keep the rows there are and the     *)
(* messages they come from.                                                *)
(***************************************************************************)
EXTENDS ConnectionTable, TLAPS

Tables(R) == [ClientID -> Seq(R)]

\* Register keeps the rows of the table in R.
LEMMA RegisterIn ==
    ASSUME NEW R, NEW t \in Tables(R), NEW c \in ClientID, NEW m,
           NEW org, NEW seen \in Nat,
           \A r \in R : UpdatedRow(r, m, org) \in R,
           InsertedRow(m, org) \in R
    PROVE  Register(t, c, m, org, seen) \in Tables(R)
<1>1. t[c] \in Seq(R)
  BY DEF Tables
<1>2. [i \in DOMAIN t[c] |-> IF i <= seen THEN UpdatedRow(t[c][i], m, org) ELSE t[c][i]]
        \in Seq(R)
  BY <1>1
<1>3. Append(t[c], InsertedRow(m, org)) \in Seq(R)
  BY <1>1
<1> QED
  BY <1>2, <1>3 DEF Register, Tables

\* Unregister keeps the rows of the table in R.
LEMMA UnregisterIn ==
    ASSUME NEW R, NEW t \in Tables(R), NEW c \in ClientID
    PROVE  Unregister(t, c) \in Tables(R)
BY DEF Unregister, Tables

\* A recorded tenant keeps the rows in R (RecordSuccessfulTenantLookup).
LEMMA RecordSuccessIn ==
    ASSUME NEW R, NEW t \in Tables(R), NEW c \in ClientID, NEW org,
           \A r \in R : WithTenant(r, org) \in R
    PROVE  RecordSuccessfulTenantLookup(t, c, org) \in Tables(R)
<1>1. t[c] \in Seq(R)
  BY DEF Tables
<1>2. [i \in DOMAIN t[c] |-> WithTenant(t[c][i], org)] \in Seq(R)
  BY <1>1
<1> QED
  BY <1>2 DEF RecordSuccessfulTenantLookup, UpdateRows, Tables

\* A recorded failure keeps the rows in R (RecordFailedTenantLookup).
LEMMA RecordFailureIn ==
    ASSUME NEW R, NEW t \in Tables(R), NEW c \in ClientID,
           \A r \in R : WithoutTenant(r) \in R
    PROVE  RecordFailedTenantLookup(t, c) \in Tables(R)
<1>1. t[c] \in Seq(R)
  BY DEF Tables
<1>2. [i \in DOMAIN t[c] |-> WithoutTenant(t[c][i])] \in Seq(R)
  BY <1>1
<1> QED
  BY <1>2 DEF RecordFailedTenantLookup, UpdateRows, Tables

\* A refreshed stale timestamp keeps the rows in R (RecordUpdatedStaleTimestamp).
LEMMA RecordStaleIn ==
    ASSUME NEW R, NEW t \in Tables(R), NEW c \in ClientID, NEW org,
           \A r \in R : WithFreshTimestamp(r, org) \in R
    PROVE  RecordUpdatedStaleTimestamp(t, c, org) \in Tables(R)
<1>1. t[c] \in Seq(R)
  BY DEF Tables
<1>2. [i \in DOMAIN t[c] |-> WithFreshTimestamp(t[c][i], org)] \in Seq(R)
  BY <1>1
<1> QED
  BY <1>2 DEF RecordUpdatedStaleTimestamp, UpdateRows, Tables

\* Expiring stale timestamps keep the rows in R (AgeStaleTimestamps).
LEMMA AgeStaleIn ==
    ASSUME NEW R, NEW t \in Tables(R), \A r \in R : WithOldTimestamp(r) \in R
    PROVE  AgeStaleTimestamps(t) \in Tables(R)
<1>1. ASSUME NEW c \in ClientID
      PROVE  [i \in DOMAIN t[c] |-> WithOldTimestamp(t[c][i])] \in Seq(R)
  <2>1. t[c] \in Seq(R)
    BY DEF Tables
  <2> QED
    BY <2>1
<1> QED
  BY <1>1 DEF AgeStaleTimestamps, AgeRows, Tables

\* Expiring lookup timestamps keep the rows in R (AgeTenantLookupTimestamps).
LEMMA AgeLookupIn ==
    ASSUME NEW R, NEW t \in Tables(R), \A r \in R : WithOldLookup(r) \in R
    PROVE  AgeTenantLookupTimestamps(t) \in Tables(R)
<1>1. ASSUME NEW c \in ClientID
      PROVE  [i \in DOMAIN t[c] |-> WithOldLookup(t[c][i])] \in Seq(R)
  <2>1. t[c] \in Seq(R)
    BY DEF Tables
  <2> QED
    BY <2>1
<1> QED
  BY <1>1 DEF AgeTenantLookupTimestamps, AgeRows, Tables

-----------------------------------------------------------------------------
(* Which message the rows of a client are from *)

\* The row carries the metadata of the message (the parameters of the upsert).
IsFrom(r, m) ==
    /\ r.message_id = m.message_id
    /\ r.message_sent = m.sent
    /\ r.dispatchers = m.dispatchers

\* Whatever the upsert writes carries the metadata of its message.
LEMMA WrittenRowsAreFrom ==
    ASSUME NEW r \in Row, NEW m, NEW org
    PROVE  IsFrom(UpdatedRow(r, m, org), m) /\ IsFrom(InsertedRow(m, org), m)
BY DEF IsFrom, UpdatedRow, InsertedRow, Row

\* Register touches the rows of no other client.
LEMMA RegisterElsewhere ==
    ASSUME NEW R, NEW t \in Tables(R), NEW c \in ClientID, NEW m, NEW org,
           NEW seen \in Nat, NEW d \in ClientID, d # c
    PROVE  Register(t, c, m, org, seen)[d] = t[d]
BY DEF Register, Tables

\* After Register a row of the client is from the message, or was there before.
LEMMA RegisterRows ==
    ASSUME NEW t \in Tables(Row), NEW c \in ClientID, NEW m, NEW org,
           NEW seen \in Nat,
           NEW r \in FindConnectionByClientID(Register(t, c, m, org, seen), c)
    PROVE  IsFrom(r, m) \/ r \in FindConnectionByClientID(t, c)
<1> DEFINE s == t[c]
           new == InsertedRow(m, org)
           up == [i \in DOMAIN s |-> IF i <= seen THEN UpdatedRow(s[i], m, org) ELSE s[i]]
<1>1. s \in Seq(Row)
  BY DEF Tables
<1>2. CASE seen > 0
  <2>1. Register(t, c, m, org, seen)[c] = up
    BY <1>2 DEF Register, Tables
  <2>2. PICK i \in DOMAIN up : r = up[i]
    BY <2>1 DEF FindConnectionByClientID
  <2>3. i \in DOMAIN s /\ s[i] \in Row
    BY <1>1, <2>2
  <2>4. CASE i <= seen
    <3>1. r = UpdatedRow(s[i], m, org)
      BY <2>2, <2>4
    <3> QED
      BY <2>3, <3>1, WrittenRowsAreFrom
  <2>5. CASE ~(i <= seen)
    <3>1. r = s[i]
      BY <2>2, <2>5
    <3> QED
      BY <2>3, <3>1 DEF FindConnectionByClientID
  <2> QED
    BY <2>4, <2>5
<1>3. CASE ~(seen > 0)
  <2>1. Register(t, c, m, org, seen)[c] = Append(s, new)
    BY <1>3 DEF Register, Tables
  <2>2. PICK i \in DOMAIN Append(s, new) : r = Append(s, new)[i]
    BY <2>1 DEF FindConnectionByClientID
  <2> HIDE DEF new
  <2>3. Len(s) \in Nat /\ DOMAIN s = 1..Len(s) /\ DOMAIN Append(s, new) = 1..(Len(s) + 1)
    BY <1>1
  <2>4. CASE i = Len(s) + 1
    <3>1. r = new
      BY <1>1, <2>2, <2>4
    <3>2. IsFrom(new, m)
      BY DEF new, IsFrom, InsertedRow
    <3> QED
      BY <3>1, <3>2
  <2>5. CASE i # Len(s) + 1
    <3>1. i \in DOMAIN s /\ r = s[i]
      BY <1>1, <2>2, <2>3, <2>5
    <3> QED
      BY <3>1 DEF FindConnectionByClientID
  <2> QED
    BY <2>4, <2>5
<1> QED
  BY <1>2, <1>3

\* Register inserts one row when its snapshot holds none, and otherwise none.
LEMMA RegisterLength ==
    ASSUME NEW t \in Tables(Row), NEW c \in ClientID, NEW m, NEW org, NEW seen \in Nat
    PROVE  Len(Register(t, c, m, org, seen)[c]) = IF seen > 0 THEN Len(t[c]) ELSE Len(t[c]) + 1
<1> DEFINE s == t[c]
           new == InsertedRow(m, org)
           up == [i \in DOMAIN s |-> IF i <= seen THEN UpdatedRow(s[i], m, org) ELSE s[i]]
<1>1. s \in Seq(Row)
  BY DEF Tables
<1>2. CASE seen > 0
  <2>1. Register(t, c, m, org, seen)[c] = up
    BY <1>2 DEF Register, Tables
  <2>2. DOMAIN up = 1..Len(s) /\ Len(s) \in Nat
    BY <1>1
  <2>3. up \in Seq({up[i] : i \in DOMAIN s})
    <3>1. \A i \in DOMAIN s : up[i] \in {up[j] : j \in DOMAIN s}
      OBVIOUS
    <3> QED
      BY <2>2, <3>1
  <2> HIDE DEF up
  <2>4. DOMAIN up = 1..Len(up) /\ Len(up) \in Nat
    BY <2>3
  <2> DEFINE k == Len(up)
             l == Len(s)
  <2>5. 1..k = 1..l /\ k \in Nat /\ l \in Nat
    BY <2>2, <2>4
  <2> HIDE DEF k, l
  <2>6. k = l
    BY <2>5
  <2> QED
    BY <1>2, <2>1, <2>6 DEF k, l
<1>3. CASE ~(seen > 0)
  <2>1. Register(t, c, m, org, seen)[c] = Append(s, new)
    BY <1>3 DEF Register, Tables
  <2> HIDE DEF new
  <2> QED
    BY <1>1, <1>3, <2>1
<1> QED
  BY <1>2, <1>3

\* A sequence with at most one element, and not empty, has one.
LEMMA OneElement ==
    ASSUME NEW S, NEW s \in Seq(S), s # <<>>, Len(s) <= 1
    PROVE  Len(s) = 1 /\ DOMAIN s = {1} /\ s[1] \in S
<1> DEFINE n == Len(s)
<1>1. n \in Nat /\ n # 0 /\ n <= 1
  OBVIOUS
<1> HIDE DEF n
<1>2. n = 1
  BY <1>1
<1> QED
  BY <1>2 DEF n

\* When the client has at most one row, and the snapshot of the statement saw
\* it, Register leaves exactly one, which is from the message.
LEMMA RegisterOneRow ==
    ASSUME NEW t \in Tables(Row), NEW c \in ClientID, NEW m, NEW org,
           NEW seen \in Nat,
           Len(t[c]) <= 1, seen = Len(t[c])
    PROVE  LET rows == Register(t, c, m, org, seen)[c] IN
             Len(rows) = 1 /\ DOMAIN rows = {1} /\ IsFrom(rows[1], m)
<1> DEFINE s == t[c]
           new == InsertedRow(m, org)
           up == [i \in DOMAIN s |-> IF i <= seen THEN UpdatedRow(s[i], m, org) ELSE s[i]]
<1>1. s \in Seq(Row) /\ Len(s) \in Nat /\ Len(s) <= 1
  BY DEF Tables
<1>2. CASE s # <<>>
  <2>0. seen = 1 /\ DOMAIN s = {1} /\ s[1] \in Row
    BY <1>1, <1>2, OneElement
  <2>1. Register(t, c, m, org, seen)[c] = up
    BY <2>0 DEF Register, Tables
  <2> DEFINE new1 == UpdatedRow(s[1], m, org)
  <2>2. IsFrom(new1, m)
    BY <2>0, WrittenRowsAreFrom
  <2>3. up = [i \in {1} |-> new1] /\ IsFrom(new1, m)
    BY <2>0, <2>2
  <2> HIDE DEF new1
  <2>4. [i \in {1} |-> new1] = <<new1>>
    OBVIOUS
  <2> QED
    BY <2>1, <2>3, <2>4
<1>3. CASE s = <<>>
  <2>0. ~(seen > 0)
    BY <1>3
  <2>1. Register(t, c, m, org, seen)[c] = Append(s, new)
    BY <2>0 DEF Register, Tables
  <2>2. IsFrom(new, m)
    BY DEF IsFrom, InsertedRow
  <2> HIDE DEF new
  <2>3. Append(s, new) = <<new>>
    BY <1>3
  <2> QED
    BY <2>1, <2>2, <2>3
<1> QED
  BY <1>2, <1>3

-----------------------------------------------------------------------------
\* A row updated by a registration is a row (UpdatedRow).
LEMMA UpdatedRowType ==
    ASSUME NEW r \in Row, NEW m \in ControlMessage, NEW org \in OrgID \cup {NoOrg}
    PROVE  UpdatedRow(r, m, org) \in Row
BY DEF UpdatedRow, Row, ControlMessage, TenantLookupTimestamp

\* A row inserted by a registration is a row (InsertedRow).
LEMMA InsertedRowType ==
    ASSUME NEW m \in ControlMessage, NEW org \in OrgID \cup {NoOrg}
    PROVE  InsertedRow(m, org) \in Row
BY DEF InsertedRow, Row, ControlMessage, TenantLookupTimestamp, SanitizeCanonicalFacts

\* The SET clauses of the updaters and the passing of time turn rows into rows.
LEMMA UpdaterRowType ==
    ASSUME NEW r \in Row, NEW org \in OrgID \cup {NoOrg}
    PROVE  /\ WithTenant(r, org) \in Row
           /\ WithoutTenant(r) \in Row
           /\ WithFreshTimestamp(r, org) \in Row
           /\ WithOldTimestamp(r) \in Row
           /\ WithOldLookup(r) \in Row
<1>1. WithTenant(r, org) \in Row
  BY DEF WithTenant, Row
<1>2. WithoutTenant(r) \in Row
  <2>1. r.tenant_lookup_failure_count + 1 \in Nat
    BY DEF Row
  <2> QED
    BY <2>1 DEF WithoutTenant, Row
<1>3. WithFreshTimestamp(r, org) \in Row
  BY DEF WithFreshTimestamp, Row
<1>4. WithOldTimestamp(r) \in Row
  BY DEF WithOldTimestamp, Row
<1>5. WithOldLookup(r) \in Row
  BY DEF WithOldLookup, Row
<1> QED
  BY <1>1, <1>2, <1>3, <1>4, <1>5

-----------------------------------------------------------------------------
(* The statements of the updaters change rows, not which rows there are *)

\* Two sequences of rows over the same positions are equally long.
LEMMA SamePositions ==
    ASSUME NEW s \in Seq(Row), NEW u \in Seq(Row), DOMAIN u = DOMAIN s
    PROVE  Len(u) = Len(s) /\ (u = <<>> <=> s = <<>>)
<1>1. Len(s) \in Nat /\ Len(u) \in Nat /\ DOMAIN s = 1..Len(s) /\ DOMAIN u = 1..Len(u)
  OBVIOUS
<1> DEFINE m == Len(s)
           n == Len(u)
<1>2. m \in Nat /\ n \in Nat /\ 1..m = 1..n
  BY <1>1
<1> HIDE DEF m, n
<1>3. m = n
  <2>1. m <= n
    <3>1. m = 0 \/ m \in 1..m
      BY <1>2
    <3> QED
      BY <1>2, <3>1
  <2>2. n <= m
    <3>1. n = 0 \/ n \in 1..n
      BY <1>2
    <3> QED
      BY <1>2, <3>1
  <2> QED
    BY <1>2, <2>1, <2>2
<1>4. (u = <<>> <=> Len(u) = 0) /\ (s = <<>> <=> Len(s) = 0)
  OBVIOUS
<1> QED
  BY <1>3, <1>4 DEF m, n

\* t2 has the rows of t, those of the clients in C changed by f.
Changed(t, t2, C, f) ==
    \A c \in ClientID :
      /\ Len(t2[c]) = Len(t[c]) /\ DOMAIN t2[c] = DOMAIN t[c] /\ (t2[c] = <<>> <=> t[c] = <<>>)
      /\ \A i \in DOMAIN t[c] : t2[c][i] = IF c \in C THEN f[t[c][i]] ELSE t[c][i]

\* An UPDATE changes the rows of its clients by its SET clause.
LEMMA RowsChanged ==
    ASSUME NEW t \in Tables(Row), NEW t2 \in Tables(Row), NEW C, NEW f,
           \A c \in ClientID :
             t2[c] = IF c \in C THEN [i \in DOMAIN t[c] |-> f[t[c][i]]] ELSE t[c]
    PROVE  Changed(t, t2, C, f)
<1> SUFFICES ASSUME NEW c \in ClientID
             PROVE  /\ Len(t2[c]) = Len(t[c]) /\ DOMAIN t2[c] = DOMAIN t[c]
                    /\ (t2[c] = <<>> <=> t[c] = <<>>)
                    /\ \A i \in DOMAIN t[c] : t2[c][i] = IF c \in C THEN f[t[c][i]] ELSE t[c][i]
  BY DEF Changed
<1>1. t[c] \in Seq(Row) /\ t2[c] \in Seq(Row)
  BY DEF Tables
<1>2. /\ DOMAIN t2[c] = DOMAIN t[c]
      /\ \A i \in DOMAIN t[c] : t2[c][i] = IF c \in C THEN f[t[c][i]] ELSE t[c][i]
  OBVIOUS
<1> QED
  BY <1>1, <1>2, SamePositions

\* RecordSuccessfulTenantLookup gives the rows of its client their tenant.
LEMMA RecordSuccessChanges ==
    ASSUME NEW t \in Tables(Row), NEW c \in ClientID, NEW org \in OrgID \cup {NoOrg}
    PROVE  Changed(t, RecordSuccessfulTenantLookup(t, c, org), {c},
                   [r \in Row |-> WithTenant(r, org)])
<1> DEFINE t2 == RecordSuccessfulTenantLookup(t, c, org)
           f == [r \in Row |-> WithTenant(r, org)]
<1>1. t2 \in Tables(Row)
  BY RecordSuccessIn, UpdaterRowType
<1>2. ASSUME NEW d \in ClientID
      PROVE  t2[d] = IF d \in {c} THEN [i \in DOMAIN t[d] |-> f[t[d][i]]] ELSE t[d]
  <2>1. \A i \in DOMAIN t[c] : t[c][i] \in Row
    BY DEF Tables
  <2> QED
    BY <2>1 DEF RecordSuccessfulTenantLookup, UpdateRows, Tables
<1> HIDE DEF t2, f
<1>3. Changed(t, t2, {c}, f)
  BY <1>1, <1>2, RowsChanged
<1> QED
  BY <1>3 DEF t2, f

\* RecordFailedTenantLookup counts a failure in the rows of its client.
LEMMA RecordFailureChanges ==
    ASSUME NEW t \in Tables(Row), NEW c \in ClientID
    PROVE  Changed(t, RecordFailedTenantLookup(t, c), {c}, [r \in Row |-> WithoutTenant(r)])
<1> DEFINE t2 == RecordFailedTenantLookup(t, c)
           f == [r \in Row |-> WithoutTenant(r)]
<1>1. t2 \in Tables(Row)
  BY RecordFailureIn, UpdaterRowType
<1>2. ASSUME NEW d \in ClientID
      PROVE  t2[d] = IF d \in {c} THEN [i \in DOMAIN t[d] |-> f[t[d][i]]] ELSE t[d]
  <2>1. \A i \in DOMAIN t[c] : t[c][i] \in Row
    BY DEF Tables
  <2> QED
    BY <2>1 DEF RecordFailedTenantLookup, UpdateRows, Tables
<1> HIDE DEF t2, f
<1>3. Changed(t, t2, {c}, f)
  BY <1>1, <1>2, RowsChanged
<1> QED
  BY <1>3 DEF t2, f

\* RecordUpdatedStaleTimestamp refreshes the rows of its client and tenant.
LEMMA RecordStaleChanges ==
    ASSUME NEW t \in Tables(Row), NEW c \in ClientID, NEW org \in OrgID \cup {NoOrg}
    PROVE  Changed(t, RecordUpdatedStaleTimestamp(t, c, org), {c},
                   [r \in Row |-> WithFreshTimestamp(r, org)])
<1> DEFINE t2 == RecordUpdatedStaleTimestamp(t, c, org)
           f == [r \in Row |-> WithFreshTimestamp(r, org)]
<1>1. t2 \in Tables(Row)
  BY RecordStaleIn, UpdaterRowType
<1>2. ASSUME NEW d \in ClientID
      PROVE  t2[d] = IF d \in {c} THEN [i \in DOMAIN t[d] |-> f[t[d][i]]] ELSE t[d]
  <2>1. \A i \in DOMAIN t[c] : t[c][i] \in Row
    BY DEF Tables
  <2> QED
    BY <2>1 DEF RecordUpdatedStaleTimestamp, UpdateRows, Tables
<1> HIDE DEF t2, f
<1>3. Changed(t, t2, {c}, f)
  BY <1>1, <1>2, RowsChanged
<1> QED
  BY <1>3 DEF t2, f

\* The stale timestamps of all rows expire.
LEMMA AgeStaleChanges ==
    ASSUME NEW t \in Tables(Row)
    PROVE  Changed(t, AgeStaleTimestamps(t), ClientID, [r \in Row |-> WithOldTimestamp(r)])
<1> DEFINE t2 == AgeStaleTimestamps(t)
           f == [r \in Row |-> WithOldTimestamp(r)]
<1>1. t2 \in Tables(Row)
  BY AgeStaleIn, UpdaterRowType
<1>2. ASSUME NEW d \in ClientID
      PROVE  t2[d] = IF d \in ClientID THEN [i \in DOMAIN t[d] |-> f[t[d][i]]] ELSE t[d]
  <2>1. \A i \in DOMAIN t[d] : t[d][i] \in Row
    BY DEF Tables
  <2> QED
    BY <2>1 DEF AgeStaleTimestamps, AgeRows
<1> HIDE DEF t2, f
<1>3. Changed(t, t2, ClientID, f)
  BY <1>1, <1>2, RowsChanged
<1> QED
  BY <1>3 DEF t2, f

\* The lookup timestamps of all rows expire.
LEMMA AgeLookupChanges ==
    ASSUME NEW t \in Tables(Row)
    PROVE  Changed(t, AgeTenantLookupTimestamps(t), ClientID, [r \in Row |-> WithOldLookup(r)])
<1> DEFINE t2 == AgeTenantLookupTimestamps(t)
           f == [r \in Row |-> WithOldLookup(r)]
<1>1. t2 \in Tables(Row)
  BY AgeLookupIn, UpdaterRowType
<1>2. ASSUME NEW d \in ClientID
      PROVE  t2[d] = IF d \in ClientID THEN [i \in DOMAIN t[d] |-> f[t[d][i]]] ELSE t[d]
  <2>1. \A i \in DOMAIN t[d] : t[d][i] \in Row
    BY DEF Tables
  <2> QED
    BY <2>1 DEF AgeTenantLookupTimestamps, AgeRows
<1> HIDE DEF t2, f
<1>3. Changed(t, t2, ClientID, f)
  BY <1>1, <1>2, RowsChanged
<1> QED
  BY <1>3 DEF t2, f

\* What the updaters never change in a row.
KeepsMessage(r, s) ==
    /\ s.message_id = r.message_id
    /\ s.message_sent = r.message_sent
    /\ s.canonical_facts = r.canonical_facts
    /\ s.dispatchers = r.dispatchers

\* The SET clauses of the updaters leave the columns of the message alone.
LEMMA UpdaterRowKeeps ==
    ASSUME NEW r \in Row, NEW org
    PROVE  /\ KeepsMessage(r, WithTenant(r, org))
           /\ KeepsMessage(r, WithoutTenant(r))
           /\ KeepsMessage(r, WithFreshTimestamp(r, org))
           /\ KeepsMessage(r, WithOldTimestamp(r))
           /\ KeepsMessage(r, WithOldLookup(r))
<1>1. KeepsMessage(r, WithTenant(r, org))
  BY DEF KeepsMessage, WithTenant, Row
<1>2. KeepsMessage(r, WithoutTenant(r))
  BY DEF KeepsMessage, WithoutTenant, Row
<1>3. KeepsMessage(r, WithFreshTimestamp(r, org))
  BY DEF KeepsMessage, WithFreshTimestamp, Row
<1>4. KeepsMessage(r, WithOldTimestamp(r))
  BY DEF KeepsMessage, WithOldTimestamp, Row
<1>5. KeepsMessage(r, WithOldLookup(r))
  BY DEF KeepsMessage, WithOldLookup, Row
<1> QED
  BY <1>1, <1>2, <1>3, <1>4, <1>5

\* The tables have the same rows as far as their messages are concerned.
SameMessages(t, t2) ==
    \A c \in ClientID :
      /\ Len(t2[c]) = Len(t[c]) /\ DOMAIN t2[c] = DOMAIN t[c] /\ (t2[c] = <<>> <=> t[c] = <<>>)
      /\ \A i \in DOMAIN t[c] : KeepsMessage(t[c][i], t2[c][i])

\* A change of columns other than those of the message.
LEMMA ChangedKeepsMessages ==
    ASSUME NEW t \in Tables(Row), NEW t2, NEW C, NEW f, Changed(t, t2, C, f),
           \A r \in Row : KeepsMessage(r, f[r])
    PROVE  SameMessages(t, t2)
<1>1. \A c \in ClientID : \A i \in DOMAIN t[c] : t[c][i] \in Row
  BY DEF Tables
<1>2. \A r \in Row : KeepsMessage(r, r)
  BY DEF KeepsMessage
<1> QED
  BY <1>1, <1>2 DEF Changed, SameMessages

-----------------------------------------------------------------------------
(* The columns that the registrar leaves to the updaters *)

\* A row that was there before keeps its stale timestamp, and its failure count
\* unless that is reset; a row that was not starts without failures.
KeepsBookkeeping(t, t2) ==
    \A c \in ClientID : \A i \in DOMAIN t2[c] :
      \/ /\ i \in DOMAIN t[c]
         /\ t2[c][i].stale_timestamp = t[c][i].stale_timestamp
         /\ t2[c][i].tenant_lookup_failure_count \in {0, t[c][i].tenant_lookup_failure_count}
      \/ i \notin DOMAIN t[c] /\ t2[c][i].tenant_lookup_failure_count = 0

\* A registration leaves stale timestamps alone and counts no failure.
LEMMA RegisterKeepsBookkeeping ==
    ASSUME NEW t \in Tables(Row), NEW c \in ClientID, NEW m, NEW org, NEW seen \in Nat
    PROVE  KeepsBookkeeping(t, Register(t, c, m, org, seen))
<1> DEFINE t2 == Register(t, c, m, org, seen)
           s == t[c]
           new == InsertedRow(m, org)
           up == [i \in DOMAIN s |-> IF i <= seen THEN UpdatedRow(s[i], m, org) ELSE s[i]]
<1>1. s \in Seq(Row)
  BY DEF Tables
<1>2. ASSUME NEW d \in ClientID, d # c
      PROVE  t2[d] = t[d]
  BY <1>2, RegisterElsewhere
<1>3. ASSUME NEW i \in DOMAIN t2[c]
      PROVE  \/ /\ i \in DOMAIN s
                /\ t2[c][i].stale_timestamp = s[i].stale_timestamp
                /\ t2[c][i].tenant_lookup_failure_count \in {0, s[i].tenant_lookup_failure_count}
             \/ i \notin DOMAIN s /\ t2[c][i].tenant_lookup_failure_count = 0
  <2>1. CASE seen > 0
    <3>1. t2[c] = up
      BY <2>1 DEF Register, Tables
    <3>2. i \in DOMAIN s /\ t2[c][i] \in {UpdatedRow(s[i], m, org), s[i]} /\ s[i] \in Row
      BY <1>1, <1>3, <3>1
    <3>3. \A r \in Row : /\ UpdatedRow(r, m, org).stale_timestamp = r.stale_timestamp
                         /\ UpdatedRow(r, m, org).tenant_lookup_failure_count
                              \in {0, r.tenant_lookup_failure_count}
      BY DEF UpdatedRow, Row
    <3> QED
      BY <3>2, <3>3
  <2>2. CASE ~(seen > 0)
    <3>1. t2[c] = Append(s, new)
      BY <2>2 DEF Register, Tables
    <3>2. new.tenant_lookup_failure_count = 0
      BY DEF InsertedRow
    <3> HIDE DEF new
    <3>3. Len(s) \in Nat /\ DOMAIN s = 1..Len(s) /\ DOMAIN Append(s, new) = 1..(Len(s) + 1)
      BY <1>1
    <3>4. CASE i = Len(s) + 1
      <4>1. t2[c][i] = new /\ i \notin DOMAIN s
        BY <1>1, <3>1, <3>3, <3>4
      <4> QED
        BY <3>2, <4>1
    <3>5. CASE i # Len(s) + 1
      <4>1. i \in DOMAIN Append(s, new)
        BY <1>3, <3>1
      <4>2. i \in DOMAIN s /\ Append(s, new)[i] = s[i]
        BY <1>1, <3>3, <3>5, <4>1
      <4> QED
        BY <3>1, <4>2
    <3> QED
      BY <3>4, <3>5
  <2> QED
    BY <2>1, <2>2
<1> HIDE DEF t2
<1>4. KeepsBookkeeping(t, t2)
  BY <1>2, <1>3 DEF KeepsBookkeeping
<1> QED
  BY <1>4 DEF t2

\* A deletion leaves no row to keep anything of.
LEMMA UnregisterKeepsBookkeeping ==
    ASSUME NEW t \in Tables(Row), NEW c \in ClientID
    PROVE  KeepsBookkeeping(t, Unregister(t, c))
<1>1. Unregister(t, c)[c] = <<>> /\ \A d \in ClientID : d # c => Unregister(t, c)[d] = t[d]
  BY DEF Unregister, Tables
<1>2. DOMAIN Unregister(t, c)[c] = {}
  BY <1>1
<1> QED
  BY <1>1, <1>2 DEF KeepsBookkeeping
=============================================================================
