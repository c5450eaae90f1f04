----------------------- MODULE ConnectionListingProofs -----------------------
(***************************************************************************)
(* Walks along the links of a list of connections, for any number of       *)
(* clients, rows and tenants, any offset and limit and any number of       *)
(* writes to the table while the caller is under way.                      *)
(*                                                                         *)
(* The argument is about ranks.  The rows of a list are totally ordered,   *)
(* so that the rank of a row is its position, and a write shifts at most   *)
(* as many rows across a given position as it takes out of the list, or    *)
(* puts into it.                                                           *)
(***************************************************************************)
EXTENDS ConnectionListing, ConnectionTableProofs, FiniteSetTheorems, SequenceTheorems

\* The rows of a list.
Entry == [client : ClientID, row : Nat, org : OrgID]

-----------------------------------------------------------------------------
(* The order of a list *)

\* ORDER BY org_id, client_id is a strict total order on the rows.
LEMMA PrecedesIsOrder ==
    ASSUME NEW e \in Entry, NEW f \in Entry, NEW g \in Entry
    PROVE  /\ ~Precedes(e, e)
           /\ Precedes(e, f) /\ Precedes(f, g) => Precedes(e, g)
           /\ e # f => Precedes(e, f) \/ Precedes(f, e)
<1>1. /\ ClientRank[e.client] \in Nat /\ ClientRank[f.client] \in Nat /\ ClientRank[g.client] \in Nat
      /\ OrgRank[e.org] \in Nat /\ OrgRank[f.org] \in Nat /\ OrgRank[g.org] \in Nat
      /\ e.row \in Nat /\ f.row \in Nat /\ g.row \in Nat
  BY ListingAssumption DEF Entry
<1>2. /\ ClientRank[e.client] = ClientRank[f.client] => e.client = f.client
      /\ OrgRank[e.org] = OrgRank[f.org] => e.org = f.org
  BY ListingAssumption DEF Entry
<1>3. e.client = f.client /\ e.row = f.row /\ e.org = f.org => e = f
  BY DEF Entry
<1>4. ~Precedes(e, e)
  BY <1>1 DEF Precedes
<1>5. Precedes(e, f) /\ Precedes(f, g) => Precedes(e, g)
  BY <1>1 DEF Precedes
<1>6. e # f => Precedes(e, f) \/ Precedes(f, e)
  BY <1>1, <1>2, <1>3 DEF Precedes
<1> QED
  BY <1>4, <1>5, <1>6

\* Ranks are positions from zero on, and follow the order.
LEMMA RankFacts ==
    ASSUME NEW S \in SUBSET Entry, IsFiniteSet(S), NEW e \in S
    PROVE  /\ Rank(S, e) \in Nat /\ Rank(S, e) < Cardinality(S)
           /\ \A f \in S : Precedes(e, f) => Rank(S, e) < Rank(S, f)
<1>1. ASSUME NEW f \in S
      PROVE  LET P == {g \in S : Precedes(g, f)}
             IN  /\ IsFiniteSet(P) /\ P \subseteq S /\ f \notin P
                 /\ Rank(S, f) = Cardinality(P) /\ Rank(S, f) \in Nat
  <2> DEFINE P == {g \in S : Precedes(g, f)}
  <2>1. P \in SUBSET S /\ f \notin P
    BY PrecedesIsOrder
  <2>2. IsFiniteSet(P)
    BY <2>1, FS_Subset
  <2> QED
    BY <2>1, <2>2, FS_CardinalityType DEF Rank
<1> DEFINE P == {g \in S : Precedes(g, e)}
<1>2. Cardinality(S) \in Nat
  BY FS_CardinalityType
<1>3. Rank(S, e) \in Nat /\ Rank(S, e) < Cardinality(S)
  <2>1. P \in SUBSET S /\ e \notin P /\ P # S /\ Rank(S, e) = Cardinality(P) /\ Rank(S, e) \in Nat
    BY <1>1
  <2>2. Cardinality(P) <= Cardinality(S) /\ Cardinality(S) # Cardinality(P)
    BY <2>1, FS_Subset
  <2> QED
    BY <1>2, <2>1, <2>2
<1>4. ASSUME NEW f \in S, Precedes(e, f)
      PROVE  Rank(S, e) < Rank(S, f)
  <2> DEFINE Q == {g \in S : Precedes(g, f)}
  <2>1. /\ Rank(S, e) = Cardinality(P) /\ Rank(S, e) \in Nat
        /\ Rank(S, f) = Cardinality(Q) /\ Rank(S, f) \in Nat
        /\ IsFiniteSet(Q) /\ e \notin P
    BY <1>1
  <2>2. P \in SUBSET Q
    BY <1>4, PrecedesIsOrder
  <2>3. e \in Q
    BY <1>4
  <2>4. P # Q
    BY <2>1, <2>3
  <2>5. Cardinality(P) <= Cardinality(Q) /\ Cardinality(Q) # Cardinality(P)
    BY <2>1, <2>2, <2>4, FS_Subset
  <2> QED
    BY <2>1, <2>5
<1> QED
  BY <1>3, <1>4

\* Every rank below the number of rows is the rank of exactly one row.
LEMMA RankBijection ==
    ASSUME NEW S \in SUBSET Entry, IsFiniteSet(S)
    PROVE  [e \in S |-> Rank(S, e)] \in Bijection(S, 0 .. Cardinality(S) - 1)
<1> DEFINE n == Cardinality(S)
           T == 0 .. n - 1
           r == [e \in S |-> Rank(S, e)]
<1>1. n \in Nat
  BY FS_CardinalityType
<1>2. r \in [S -> T]
  <2>1. \A e \in S : Rank(S, e) \in Nat /\ Rank(S, e) < n
    BY RankFacts
  <2> HIDE DEF n
  <2>2. \A e \in S : Rank(S, e) \in T
    BY <1>1, <2>1
  <2> QED
    BY <2>2
<1>3. \A e, f \in S : r[e] = r[f] => e = f
  <2> SUFFICES ASSUME NEW e \in S, NEW f \in S, Rank(S, e) = Rank(S, f), e # f
               PROVE  FALSE
    OBVIOUS
  <2>1. Precedes(e, f) \/ Precedes(f, e)
    BY PrecedesIsOrder
  <2>2. /\ Rank(S, e) \in Nat /\ Rank(S, f) \in Nat
        /\ Precedes(e, f) => Rank(S, e) < Rank(S, f)
        /\ Precedes(f, e) => Rank(S, f) < Rank(S, e)
    BY RankFacts
  <2> QED
    BY <2>1, <2>2
<1> HIDE DEF r
<1>4. r \in Injection(S, T)
  BY <1>2, <1>3 DEF Injection, IsInjective
<1>5. IsFiniteSet(T) /\ Cardinality(T) = n
  <2>1. 0 \in Int /\ n - 1 \in Int
    BY <1>1
  <2>2. IsFiniteSet(T) /\ Cardinality(T) = IF 0 > n - 1 THEN 0 ELSE (n - 1) - 0 + 1
    BY <2>1, FS_Interval
  <2> HIDE DEF n
  <2> QED
    BY <1>1, <2>2
<1>6. r \in Surjection(S, T)
  BY <1>4, <1>5, FS_Injection
<1>7. r \in Bijection(S, T)
  BY <1>4, <1>6 DEF Bijection
<1> QED
  BY <1>7 DEF r

-----------------------------------------------------------------------------
(* What a write does to positions *)

\* The first k rows of S.
First(S, k) == {e \in S : Rank(S, e) < k}

\* There are k first rows, unless there are fewer rows.
LEMMA FirstCount ==
    ASSUME NEW S \in SUBSET Entry, IsFiniteSet(S), NEW k \in Nat
    PROVE  /\ IsFiniteSet(First(S, k)) /\ Cardinality(First(S, k)) <= k
           /\ (\E e \in S : Rank(S, e) >= k) => Cardinality(First(S, k)) = k
<1> DEFINE F == First(S, k)
           T == 0 .. k - 1
           n == Cardinality(S)
           r == [e \in S |-> Rank(S, e)]
           g == [e \in F |-> Rank(S, e)]
<1>1. /\ r \in [S -> 0 .. n - 1]
      /\ \A e, f \in S : r[e] = r[f] => e = f
      /\ \A i \in 0 .. n - 1 : \E e \in S : r[e] = i
  <2>1. r \in Bijection(S, 0 .. n - 1)
    BY RankBijection
  <2> HIDE DEF r, n
  <2> QED
    BY <2>1 DEF Bijection, Injection, Surjection, IsInjective
<1>2. IsFiniteSet(T) /\ Cardinality(T) = k
  <2>1. 0 \in Int /\ k - 1 \in Int
    OBVIOUS
  <2>2. IsFiniteSet(T) /\ Cardinality(T) = IF 0 > k - 1 THEN 0 ELSE (k - 1) - 0 + 1
    BY <2>1, FS_Interval
  <2> QED
    BY <2>2
<1>3. \A e \in S : Rank(S, e) \in Nat /\ Rank(S, e) < n
  BY RankFacts
<1>4. g \in Injection(F, T)
  <2>1. \A e \in F : e \in S /\ Rank(S, e) \in T
    BY <1>3 DEF First
  <2>2. \A e, f \in F : g[e] = g[f] => e = f
    BY <1>1, <2>1
  <2>3. g \in [F -> T]
    BY <2>1
  <2> HIDE DEF g
  <2> QED
    BY <2>2, <2>3 DEF Injection, IsInjective
<1>5. IsFiniteSet(F) /\ Cardinality(F) <= k
  <2> HIDE DEF g, F, T
  <2> QED
    BY <1>2, <1>4, FS_Injection
<1>6. ASSUME NEW d \in S, Rank(S, d) >= k
      PROVE  Cardinality(F) = k
  <2>1. \A i \in T : i \in 0 .. n - 1
    <3>1. n \in Nat
      BY FS_CardinalityType
    <3> HIDE DEF n
    <3> QED
      BY <1>3, <1>6, <3>1
  <2>2. \A i \in T : \E e \in F : g[e] = i
    <3> SUFFICES ASSUME NEW i \in T
                 PROVE  \E e \in F : Rank(S, e) = i
      OBVIOUS
    <3>1. PICK e \in S : Rank(S, e) = i
      BY <1>1, <2>1
    <3>2. e \in F
      BY <3>1 DEF First
    <3> QED
      BY <3>1, <3>2
  <2>3. g \in [F -> T]
    BY <1>4 DEF Injection
  <2> HIDE DEF g, F, T
  <2>4. g \in Surjection(F, T)
    BY <2>2, <2>3 DEF Surjection
  <2> QED
    BY <1>2, <1>4, <2>4, FS_Injection
<1> QED
  BY <1>5, <1>6

\* When S becomes T, the rows that get from behind position k to its front are at
\* most as many as left the list.
Shifted(S, T, k) == {e \in S \cap T : Rank(S, e) >= k /\ Rank(T, e) < k}

\* Fewer rows are shifted across a position than leave the list, or as many.
LEMMA ShiftBound ==
    ASSUME NEW S \in SUBSET Entry, IsFiniteSet(S), NEW T \in SUBSET Entry, IsFiniteSet(T),
           NEW k \in Nat
    PROVE  IsFiniteSet(Shifted(S, T, k)) /\ Cardinality(Shifted(S, T, k)) <= Cardinality(S \ T)
<1> DEFINE N == Shifted(S, T, k)
           A == First(T, k)
           B == First(S, k)
<1>1. N \in SUBSET S /\ IsFiniteSet(N) /\ Cardinality(N) \in Nat
  <2>1. N \in SUBSET S
    BY DEF Shifted
  <2> QED
    BY <2>1, FS_Subset, FS_CardinalityType
<1>2. IsFiniteSet(S \ T) /\ Cardinality(S \ T) \in Nat
  BY FS_Difference, FS_CardinalityType
<1>3. CASE N = {}
  BY <1>1, <1>2, <1>3, FS_EmptySet
<1>4. ASSUME NEW d \in N
      PROVE  Cardinality(N) <= Cardinality(S \ T)
  <2>1. d \in S /\ d \in T /\ Rank(S, d) >= k /\ Rank(T, d) < k
    BY <1>4 DEF Shifted
  <2>2. /\ IsFiniteSet(B) /\ Cardinality(B) = k
        /\ IsFiniteSet(A) /\ Cardinality(A) <= k /\ Cardinality(A) \in Nat
    BY <2>1, FirstCount, FS_CardinalityType
  <2>3. B \cap T \subseteq A
    <3> SUFFICES ASSUME NEW b \in B, b \in T
                 PROVE  b \in A
      OBVIOUS
    <3>1. b \in S /\ Rank(S, b) < k
      BY DEF First
    <3>2. Rank(S, b) \in Nat /\ Rank(S, d) \in Nat
      BY <2>1, <3>1, RankFacts
    <3>3. b # d /\ ~Precedes(d, b)
      BY <2>1, <3>1, <3>2, RankFacts
    <3>4. Precedes(b, d)
      BY <2>1, <3>1, <3>3, PrecedesIsOrder
    <3>5. Rank(T, b) < Rank(T, d) /\ Rank(T, b) \in Nat /\ Rank(T, d) \in Nat
      BY <2>1, <3>4, RankFacts
    <3>6. Rank(T, b) < k
      BY <2>1, <3>5
    <3> QED
      BY <3>6 DEF First
  <2>4. N \subseteq A /\ N \cap B = {}
    <3>1. \A e \in S : Rank(S, e) \in Nat
      BY RankFacts
    <3> QED
      BY <3>1 DEF Shifted, First
  <2> HIDE DEF N, A, B
  <2>5. /\ IsFiniteSet(B \cap T) /\ Cardinality(B \cap T) \in Nat
        /\ IsFiniteSet(B \ T) /\ Cardinality(B \ T) \in Nat
        /\ Cardinality(B \ T) = Cardinality(B) - Cardinality(B \cap T)
    BY <2>2, FS_Intersection, FS_Difference, FS_CardinalityType
  <2>6. Cardinality((B \cap T) \cup N) = Cardinality(B \cap T) + Cardinality(N)
    <3>1. (B \cap T) \cap N = {}
      BY <2>4
    <3>2. Cardinality((B \cap T) \cup N)
            = Cardinality(B \cap T) + Cardinality(N) - Cardinality((B \cap T) \cap N)
      BY <1>1, <2>5, FS_Union
    <3>3. Cardinality((B \cap T) \cap N) = 0
      BY <3>1, FS_EmptySet
    <3> QED
      BY <1>1, <2>5, <3>2, <3>3
  <2>7. Cardinality((B \cap T) \cup N) <= Cardinality(A)
    <3>1. (B \cap T) \cup N \in SUBSET A
      BY <2>3, <2>4
    <3> QED
      BY <2>2, <3>1, FS_Subset
  <2>8. Cardinality(B \ T) <= Cardinality(S \ T)
    <3>1. B \ T \in SUBSET (S \ T)
      BY DEF B, First
    <3> QED
      BY <1>2, <3>1, FS_Subset
  <2> QED
    BY <1>1, <1>2, <2>2, <2>5, <2>6, <2>7, <2>8
<1> QED
  BY <1>1, <1>3, <1>4

-----------------------------------------------------------------------------
(* The rows that a query selects *)

\* The rows of a client, as those of a list.
RowsOf(t, c) == {[client |-> c, row |-> i, org |-> t[c][i].org_id] : i \in DOMAIN t[c]}

\* The table has finitely many rows, each of a client and at a position of its own.
LEMMA RowsFacts ==
    ASSUME NEW t \in Tables(Row)
    PROVE  /\ IsFiniteSet(Rows(t)) /\ Cardinality(Rows(t)) \in Nat
           /\ \A e \in Rows(t) : /\ e.client \in ClientID /\ e.row \in DOMAIN t[e.client]
                                 /\ e.row \in Nat /\ e.org \in OrgID \cup {NoOrg}
                                 /\ e = [client |-> e.client, row |-> e.row, org |-> e.org]
                                 /\ e.org = t[e.client][e.row].org_id
           /\ \A c \in ClientID : \A i \in DOMAIN t[c] :
                [client |-> c, row |-> i, org |-> t[c][i].org_id] \in Rows(t)
<1> DEFINE U == {RowsOf(t, c) : c \in ClientID}
<1>1. Rows(t) = UNION U
  BY DEF Rows, RowsOf
<1>2. ASSUME NEW c \in ClientID
      PROVE  IsFiniteSet(RowsOf(t, c))
  <2> DEFINE s == t[c]
             T == RowsOf(t, c)
             f == [i \in 1 .. Len(s) |-> [client |-> c, row |-> i, org |-> s[i].org_id]]
  <2>1. s \in Seq(Row)
    BY DEF Tables
  <2>2. DOMAIN s = 1 .. Len(s) /\ Len(s) \in Nat
    BY <2>1
  <2>3. f \in Surjection(1 .. Len(s), T)
    <3>1. f \in [1 .. Len(s) -> T]
      BY <2>2 DEF RowsOf
    <3>2. \A e \in T : \E i \in 1 .. Len(s) : f[i] = e
      BY <2>2 DEF RowsOf
    <3> HIDE DEF f, T, s
    <3> QED
      BY <3>1, <3>2 DEF Surjection
  <2>4. IsFiniteSet(1 .. Len(s))
    <3>1. 1 \in Int /\ Len(s) \in Int
      BY <2>2
    <3> QED
      BY <3>1, FS_Interval
  <2> HIDE DEF f, s
  <2> QED
    BY <2>3, <2>4, FS_Surjection
<1>3. IsFiniteSet(U)
  <2> DEFINE f == [c \in ClientID |-> RowsOf(t, c)]
  <2>1. f \in Surjection(ClientID, U)
    <3>1. f \in [ClientID -> U]
      OBVIOUS
    <3>2. \A x \in U : \E c \in ClientID : f[c] = x
      OBVIOUS
    <3> HIDE DEF f, U
    <3> QED
      BY <3>1, <3>2 DEF Surjection
  <2> HIDE DEF f, U
  <2> QED
    BY <2>1, ListingAssumption, FS_Surjection
<1>4. \A T \in U : IsFiniteSet(T)
  BY <1>2
<1>5. IsFiniteSet(Rows(t)) /\ Cardinality(Rows(t)) \in Nat
  <2> HIDE DEF U
  <2> QED
    BY <1>1, <1>3, <1>4, FS_UNION, FS_CardinalityType
<1>6. ASSUME NEW e \in Rows(t)
      PROVE  /\ e.client \in ClientID /\ e.row \in DOMAIN t[e.client]
             /\ e.row \in Nat /\ e.org \in OrgID \cup {NoOrg}
             /\ e = [client |-> e.client, row |-> e.row, org |-> e.org]
             /\ e.org = t[e.client][e.row].org_id
  <2>1. PICK c \in ClientID : e \in RowsOf(t, c)
    BY <1>1
  <2>2. PICK i \in DOMAIN t[c] : e = [client |-> c, row |-> i, org |-> t[c][i].org_id]
    BY <2>1 DEF RowsOf
  <2>3. t[c] \in Seq(Row)
    BY DEF Tables
  <2>4. t[c][i] \in Row /\ i \in Nat
    BY <2>3
  <2>5. t[c][i].org_id \in OrgID \cup {NoOrg}
    BY <2>4 DEF Row
  <2> QED
    BY <2>2, <2>4, <2>5
<1>7. ASSUME NEW c \in ClientID, NEW i \in DOMAIN t[c]
      PROVE  [client |-> c, row |-> i, org |-> t[c][i].org_id] \in Rows(t)
  BY DEF Rows
<1> QED
  BY <1>5, <1>6, <1>7

\* What the WHERE clauses select are finitely many rows with tenants.
LEMMA SelectedFacts ==
    ASSUME NEW t \in Tables(Row), NEW scope \in Scope \cup {Everything}
    PROVE  /\ Selected(t, scope) \in SUBSET Entry
           /\ IsFiniteSet(Selected(t, scope))
           /\ Cardinality(Selected(t, scope)) \in Nat
           /\ Cardinality(Selected(t, scope)) <= Cardinality(Rows(t))
<1> DEFINE S == Selected(t, scope)
<1>1. S \in SUBSET Rows(t)
  BY DEF Selected
<1>2. ASSUME NEW e \in S
      PROVE  e \in Entry
  <2>1. /\ e.client \in ClientID /\ e.row \in Nat /\ e.org \in OrgID \cup {NoOrg}
        /\ e = [client |-> e.client, row |-> e.row, org |-> e.org]
    BY <1>1, RowsFacts
  <2>2. e.org # NoOrg
    BY ListingAssumption, TableAssumption DEF Selected
  <2>3. e.org \in OrgID
    BY <2>1, <2>2
  <2> QED
    BY <2>1, <2>3 DEF Entry
<1>3. IsFiniteSet(S) /\ Cardinality(S) \in Nat /\ Cardinality(S) <= Cardinality(Rows(t))
  <2> HIDE DEF S
  <2> QED
    BY <1>1, RowsFacts, FS_Subset, FS_CardinalityType
<1> QED
  BY <1>2, <1>3

\* An UPDATE does not add rows.
LEMMA ChangedKeepsRowCount ==
    ASSUME NEW t \in Tables(Row), NEW t2 \in Tables(Row), NEW C, NEW f, Changed(t, t2, C, f)
    PROVE  Cardinality(Rows(t2)) <= Cardinality(Rows(t))
<1> DEFINE g == [e \in Rows(t) |->
                   [client |-> e.client, row |-> e.row, org |-> t2[e.client][e.row].org_id]]
<1>1. g \in [Rows(t) -> Rows(t2)]
  <2>1. ASSUME NEW e \in Rows(t)
        PROVE  [client |-> e.client, row |-> e.row, org |-> t2[e.client][e.row].org_id] \in Rows(t2)
    <3>1. e.client \in ClientID /\ e.row \in DOMAIN t[e.client]
      BY RowsFacts
    <3>2. e.row \in DOMAIN t2[e.client]
      BY <3>1 DEF Changed
    <3> QED
      BY <3>1, <3>2, RowsFacts
  <2> QED
    BY <2>1
<1>2. ASSUME NEW d \in Rows(t2)
      PROVE  \E e \in Rows(t) : g[e] = d
  <2>1. /\ d.client \in ClientID /\ d.row \in DOMAIN t2[d.client]
        /\ d = [client |-> d.client, row |-> d.row, org |-> d.org]
        /\ d.org = t2[d.client][d.row].org_id
    BY RowsFacts
  <2>2. d.row \in DOMAIN t[d.client]
    BY <2>1 DEF Changed
  <2> DEFINE e == [client |-> d.client, row |-> d.row, org |-> t[d.client][d.row].org_id]
  <2>3. e \in Rows(t)
    BY <2>1, <2>2, RowsFacts
  <2>4. g[e] = [client |-> e.client, row |-> e.row, org |-> t2[e.client][e.row].org_id]
    BY <2>3
  <2>5. e.client = d.client /\ e.row = d.row
    OBVIOUS
  <2>6. g[e] = d
    BY <2>1, <2>4, <2>5
  <2> QED
    BY <2>3, <2>6
<1> HIDE DEF g
<1>3. g \in Surjection(Rows(t), Rows(t2))
  BY <1>1, <1>2 DEF Surjection
<1> QED
  BY <1>3, RowsFacts, FS_Surjection

-----------------------------------------------------------------------------
(* Pages *)

\* The i-th row of a result is the one with rank i - 1.
LEMMA OrderedFacts ==
    ASSUME NEW t \in Tables(Row), NEW scope \in Scope \cup {Everything}
    PROVE  LET S == Selected(t, scope)
               s == Ordered(t, scope)
           IN  /\ s \in Seq(S) /\ Len(s) = Cardinality(S)
               /\ \A i \in 1 .. Len(s) : s[i] \in S /\ Rank(S, s[i]) = i - 1
               /\ \A e \in S : Rank(S, e) + 1 \in 1 .. Len(s) /\ s[Rank(S, e) + 1] = e
<1> DEFINE S == Selected(t, scope)
           n == Cardinality(S)
           s == Ordered(t, scope)
           r == [e \in S |-> Rank(S, e)]
<1>1. S \in SUBSET Entry /\ IsFiniteSet(S) /\ n \in Nat
  BY SelectedFacts
<1>2. s = [i \in 1 .. n |-> CHOOSE e \in S : Rank(S, e) = i - 1]
  BY DEF Ordered
<1> HIDE DEF S
<1>3. /\ \A e \in S : r[e] \in 0 .. n - 1
      /\ \A e, f \in S : r[e] = r[f] => e = f
      /\ \A i \in 0 .. n - 1 : \E e \in S : r[e] = i
  <2>1. r \in Bijection(S, 0 .. n - 1)
    BY <1>1, RankBijection
  <2> HIDE DEF r, n
  <2> QED
    BY <2>1 DEF Bijection, Injection, Surjection, IsInjective
<1> HIDE DEF n, s
<1>4. ASSUME NEW i \in 1 .. n
      PROVE  s[i] \in S /\ Rank(S, s[i]) = i - 1
  <2>1. i - 1 \in 0 .. n - 1
    BY <1>1
  <2>2. \E e \in S : Rank(S, e) = i - 1
    BY <1>3, <2>1
  <2>3. s[i] = CHOOSE e \in S : Rank(S, e) = i - 1
    BY <1>2
  <2> QED
    BY <2>2, <2>3
<1>5. s \in Seq(S) /\ Len(s) = n
  BY <1>1, <1>2, <1>4
<1>6. ASSUME NEW e \in S
      PROVE  Rank(S, e) + 1 \in 1 .. n /\ s[Rank(S, e) + 1] = e
  <2>1. Rank(S, e) \in 0 .. n - 1
    BY <1>3
  <2>2. Rank(S, e) + 1 \in 1 .. n /\ (Rank(S, e) + 1) - 1 = Rank(S, e)
    BY <1>1, <2>1
  <2>3. s[Rank(S, e) + 1] \in S /\ Rank(S, s[Rank(S, e) + 1]) = Rank(S, e)
    BY <1>4, <2>2
  <2> QED
    BY <1>3, <2>2, <2>3
<1> QED
  BY <1>4, <1>5, <1>6 DEF S, n, s

\* A page, whole or cut short, is of rows of the list, and its total is that of the
\* list or zero.
LEMMA PageFacts ==
    ASSUME NEW t \in Tables(Row), NEW w \in Walk, w.offset >= 0
    PROVE  LET S == Selected(t, w.scope)
               rows == Page(t, w)
           IN  /\ rows \in Seq(S)
               /\ \A k \in 0 .. Len(rows) - 1 : SubSeq(rows, 1, k) \in Seq(S)
               /\ \A part : TotalConnections(t, w, part) \in {0, Cardinality(S)}
               /\ w.limit > 0 =>
                    /\ \A e \in S : Rank(S, e) >= w.offset /\ Rank(S, e) < w.offset + w.limit
                         => e.client \in Clients(rows)
                    /\ TotalConnections(t, w, rows)
                         = IF w.offset < Cardinality(S) THEN Cardinality(S) ELSE 0
<1> DEFINE S == Selected(t, w.scope)
           s == Ordered(t, w.scope)
           n == Cardinality(S)
           a == w.offset + 1
           b == IF w.offset + w.limit < n THEN w.offset + w.limit ELSE n
           rows == Page(t, w)
<1>1. w.scope \in Scope \cup {Everything} /\ w.offset \in Nat /\ w.limit \in Int
  BY ListingAssumption DEF Walk, Param
<1>2. /\ s \in Seq(S) /\ Len(s) = n
      /\ \A i \in 1 .. n : s[i] \in S
      /\ \A e \in S : Rank(S, e) + 1 \in 1 .. n /\ s[Rank(S, e) + 1] = e
  BY <1>1, OrderedFacts
<1>3. n \in Nat /\ S \in SUBSET Entry /\ IsFiniteSet(S)
  BY <1>1, SelectedFacts
<1>4. rows = SubSeq(s, a, b)
  BY <1>2 DEF Page
<1>5. \A part : TotalConnections(t, w, part) = IF part = <<>> THEN 0 ELSE n
  BY <1>2 DEF TotalConnections
<1>6. \A e \in S : Rank(S, e) \in Nat
  BY <1>3, RankFacts
<1> HIDE DEF S, s, n, rows
<1>7. a \in Int /\ b \in Int /\ b <= n
  BY <1>1, <1>3
<1>8. /\ rows \in Seq(S)
      /\ Len(rows) = IF a <= b THEN b - a + 1 ELSE 0
      /\ \A i \in 1 .. b - a + 1 : rows[i] = s[a + i - 1]
  <2>1. \A i \in a .. b : s[i] \in S
    BY <1>1, <1>2, <1>3
  <2> HIDE DEF a, b
  <2> QED
    BY <1>4, <1>7, <2>1, SubSeqProperties
<1>9. ASSUME NEW k \in 0 .. Len(rows) - 1
      PROVE  SubSeq(rows, 1, k) \in Seq(S)
  <2>1. \A i \in 1 .. k : rows[i] \in S
    BY <1>8
  <2>2. 1 \in Int /\ k \in Int
    OBVIOUS
  <2> QED
    BY <2>1, <2>2, SubSeqProperties
<1>10. ASSUME w.limit > 0, NEW e \in S, Rank(S, e) >= w.offset, Rank(S, e) < w.offset + w.limit
       PROVE  e.client \in Clients(rows)
  <2> DEFINE i == Rank(S, e) - w.offset + 1
  <2>1. Rank(S, e) \in Nat /\ Rank(S, e) + 1 \in 1 .. n /\ s[Rank(S, e) + 1] = e
    BY <1>2, <1>6
  <2>2. i \in 1 .. b - a + 1 /\ a + i - 1 = Rank(S, e) + 1 /\ a <= b
    BY <1>1, <1>3, <1>10, <2>1
  <2> HIDE DEF i, a, b
  <2>3. rows[i] = e
    BY <1>8, <2>1, <2>2
  <2>4. i \in 1 .. Len(rows)
    BY <1>7, <1>8, <2>2
  <2>5. i \in DOMAIN rows
    BY <1>8, <2>4
  <2> QED
    BY <2>3, <2>5 DEF Clients
<1>11. ASSUME w.limit > 0
       PROVE  TotalConnections(t, w, rows) = IF w.offset < n THEN n ELSE 0
  <2>1. a <= b <=> w.offset < n
    BY <1>1, <1>3, <1>11
  <2>2. Len(rows) = 0 <=> ~(a <= b)
    <3> HIDE DEF a, b
    <3> QED
      BY <1>7, <1>8
  <2>3. rows = <<>> <=> Len(rows) = 0
    BY <1>8
  <2> HIDE DEF a, b
  <2> QED
    BY <1>5, <2>1, <2>2, <2>3
<1> QED
  BY <1>5, <1>8, <1>9, <1>10, <1>11 DEF S, n, rows

\* The clients of rows of the list are clients.
LEMMA ClientsOfRows ==
    ASSUME NEW S \in SUBSET Entry, NEW rows \in Seq(S)
    PROVE  Clients(rows) \subseteq ClientID
<1>1. \A i \in DOMAIN rows : rows[i] \in Entry
  OBVIOUS
<1> QED
  BY <1>1 DEF Clients, Entry

\* The last link of a total leads to a row, and its page reaches the end
\* (calculateOffsetOfLastPage).
LEMMA LastOffsetFacts ==
    ASSUME NEW total \in Nat, NEW limit \in Nat, total > 0, limit > 0
    PROVE  /\ LastOffset(total, limit) \in Nat
           /\ LastOffset(total, limit) < total
           /\ LastOffset(total, limit) + limit >= total
<1> DEFINE q == (total - 1) \div limit
           r == (total - 1) % limit
<1>1. q \in Nat /\ r \in 0 .. limit - 1 /\ total - 1 = limit * q + r
  OBVIOUS
<1>2. LastOffset(total, limit) = q * limit
  BY DEF LastOffset
<1> HIDE DEF q, r
<1>3. q * limit = limit * q /\ limit * q \in Nat
  BY <1>1
<1> QED
  BY <1>1, <1>2, <1>3

-----------------------------------------------------------------------------
(* Clients on one side of a position *)

\* The clients of C all of whose rows in S are before position k.
Before(S, C, k) == {c \in C : \A e \in S : e.client = c => Rank(S, e) < k}

\* The clients of C all of whose rows in S are at position k or behind it.
Behind(S, C, k) == {c \in C : \A e \in S : e.client = c => Rank(S, e) >= k}

\* Clients that are in A or have one of the rows of N.
LEMMA CoveredCount ==
    ASSUME NEW A, IsFiniteSet(A), NEW N, IsFiniteSet(N), NEW B, IsFiniteSet(B),
           \A c \in B \ A : \E e \in N : e.client = c
    PROVE  Cardinality(B) <= Cardinality(A) + Cardinality(N)
<1> DEFINE X == B \ A
           M == {e \in N : e.client \in X}
           f == [e \in M |-> e.client]
<1>1. f \in Surjection(M, X)
  <2>1. f \in [M -> X]
    OBVIOUS
  <2>2. \A c \in X : \E e \in M : f[e] = c
    OBVIOUS
  <2> HIDE DEF f, M, X
  <2> QED
    BY <2>1, <2>2 DEF Surjection
<1>2. /\ IsFiniteSet(M) /\ Cardinality(M) <= Cardinality(N)
      /\ Cardinality(M) \in Nat /\ Cardinality(N) \in Nat
  <2>1. M \in SUBSET N
    OBVIOUS
  <2> HIDE DEF M
  <2> QED
    BY <2>1, FS_Subset, FS_CardinalityType
<1>3. /\ Cardinality(X) = Cardinality(B) - Cardinality(B \cap A) /\ Cardinality(X) \in Nat
      /\ Cardinality(B) \in Nat
  BY FS_Difference, FS_CardinalityType
<1>4. Cardinality(B \cap A) <= Cardinality(A) /\ Cardinality(B \cap A) \in Nat /\ Cardinality(A) \in Nat
  <2>1. B \cap A \in SUBSET A
    OBVIOUS
  <2> QED
    BY <2>1, FS_Subset, FS_CardinalityType
<1>5. Cardinality(X) <= Cardinality(M)
  <2> HIDE DEF X, M, f
  <2> QED
    BY <1>1, <1>2, FS_Surjection
<1> HIDE DEF X, M
<1> QED
  BY <1>2, <1>3, <1>4, <1>5

\* Sets of clients are finite.
LEMMA ClientsFinite ==
    ASSUME NEW C \in SUBSET ClientID
    PROVE  IsFiniteSet(C) /\ Cardinality(C) \in Nat
BY ListingAssumption, FS_Subset, FS_CardinalityType

\* Fewer clients are fewer to be missed.
LEMMA FewerClients ==
    ASSUME NEW C \in SUBSET ClientID, NEW D \in SUBSET C
    PROVE  Cardinality(D) <= Cardinality(C)
BY ClientsFinite, FS_Subset

\* When S becomes T and only clients whose rows in S are all in T are looked at, as
\* many of them get before position k as rows left, or fewer ...
LEMMA BeforeShifts ==
    ASSUME NEW S \in SUBSET Entry, IsFiniteSet(S), NEW T \in SUBSET Entry, IsFiniteSet(T),
           NEW k \in Nat, NEW C \in SUBSET ClientID, NEW D \in SUBSET C,
           \A e \in S \ T : e.client \notin D
    PROVE  Cardinality(Before(T, D, k)) <= Cardinality(Before(S, C, k)) + Cardinality(S \ T)
<1> DEFINE A == Before(S, C, k)
           B == Before(T, D, k)
           N == Shifted(S, T, k)
<1>1. A \in SUBSET ClientID /\ B \in SUBSET ClientID
  BY DEF Before
<1>2. \A c \in B \ A : \E e \in N : e.client = c
  <2> SUFFICES ASSUME NEW c \in B, c \notin A
               PROVE  \E e \in N : e.client = c
    OBVIOUS
  <2>1. c \in D /\ c \in C /\ \A e \in T : e.client = c => Rank(T, e) < k
    BY DEF Before
  <2>2. PICK e \in S : e.client = c /\ ~(Rank(S, e) < k)
    BY <2>1 DEF Before
  <2>3. Rank(S, e) >= k
    BY <2>2, RankFacts
  <2>4. e \in T
    BY <2>1, <2>2
  <2> QED
    BY <2>1, <2>2, <2>3, <2>4 DEF Shifted
<1>3. IsFiniteSet(N) /\ Cardinality(N) <= Cardinality(S \ T)
  BY ShiftBound
<1>4. IsFiniteSet(A) /\ Cardinality(A) \in Nat /\ IsFiniteSet(B) /\ Cardinality(B) \in Nat
  BY <1>1, ClientsFinite
<1>5. Cardinality(N) \in Nat /\ Cardinality(S \ T) \in Nat
  BY <1>3, FS_Difference, FS_CardinalityType
<1> HIDE DEF A, B, N
<1>6. Cardinality(B) <= Cardinality(A) + Cardinality(N)
  BY <1>2, <1>3, <1>4, CoveredCount
<1>7. Cardinality(B) <= Cardinality(A) + Cardinality(S \ T)
  BY <1>3, <1>4, <1>5, <1>6
<1> QED
  BY <1>7 DEF A, B

\* ... and as many get behind it as rows came, or fewer.
LEMMA BehindShifts ==
    ASSUME NEW S \in SUBSET Entry, IsFiniteSet(S), NEW T \in SUBSET Entry, IsFiniteSet(T),
           NEW k \in Nat, NEW C \in SUBSET ClientID, NEW D \in SUBSET C,
           \A e \in S \ T : e.client \notin D
    PROVE  Cardinality(Behind(T, D, k)) <= Cardinality(Behind(S, C, k)) + Cardinality(T \ S)
<1> DEFINE A == Behind(S, C, k)
           B == Behind(T, D, k)
           N == Shifted(T, S, k)
<1>1. A \in SUBSET ClientID /\ B \in SUBSET ClientID
  BY DEF Behind
<1>2. \A c \in B \ A : \E e \in N : e.client = c
  <2> SUFFICES ASSUME NEW c \in B, c \notin A
               PROVE  \E e \in N : e.client = c
    OBVIOUS
  <2>1. c \in D /\ c \in C /\ \A e \in T : e.client = c => Rank(T, e) >= k
    BY DEF Behind
  <2>2. PICK e \in S : e.client = c /\ ~(Rank(S, e) >= k)
    BY <2>1 DEF Behind
  <2>3. Rank(S, e) < k
    BY <2>2, RankFacts
  <2>4. e \in T
    BY <2>1, <2>2
  <2> QED
    BY <2>1, <2>2, <2>3, <2>4 DEF Shifted
<1>3. IsFiniteSet(N) /\ Cardinality(N) <= Cardinality(T \ S)
  BY ShiftBound
<1>4. IsFiniteSet(A) /\ Cardinality(A) \in Nat /\ IsFiniteSet(B) /\ Cardinality(B) \in Nat
  BY <1>1, ClientsFinite
<1>5. Cardinality(N) \in Nat /\ Cardinality(T \ S) \in Nat
  BY <1>3, FS_Difference, FS_CardinalityType
<1> HIDE DEF A, B, N
<1>6. Cardinality(B) <= Cardinality(A) + Cardinality(N)
  BY <1>2, <1>3, <1>4, CoveredCount
<1>7. Cardinality(B) <= Cardinality(A) + Cardinality(T \ S)
  BY <1>3, <1>4, <1>5, <1>6
<1> QED
  BY <1>7 DEF A, B

\* A caller that is told of the rows from position k up to position k + l.
LEMMA PagePassed ==
    ASSUME NEW S \in SUBSET Entry, IsFiniteSet(S), NEW k \in Nat, NEW l \in Nat,
           NEW C \in SUBSET ClientID, NEW D \in SUBSET C,
           \A e \in S : Rank(S, e) >= k /\ Rank(S, e) < k + l => e.client \notin D
    PROVE  /\ Cardinality(Before(S, D, k + l)) <= Cardinality(Before(S, C, k))
           /\ Cardinality(Behind(S, D, k)) <= Cardinality(Behind(S, C, k + l))
<1>1. \A e \in S : Rank(S, e) \in Nat
  BY RankFacts
<1>2. Before(S, D, k + l) \in SUBSET Before(S, C, k)
  <2> SUFFICES ASSUME NEW c \in D, \A e \in S : e.client = c => Rank(S, e) < k + l,
                      NEW e \in S, e.client = c
               PROVE  Rank(S, e) < k
    BY DEF Before
  <2> QED
    BY <1>1
<1>3. Behind(S, D, k) \in SUBSET Behind(S, C, k + l)
  <2> SUFFICES ASSUME NEW c \in D, \A e \in S : e.client = c => Rank(S, e) >= k,
                      NEW e \in S, e.client = c
               PROVE  Rank(S, e) >= k + l
    BY DEF Behind
  <2> QED
    BY <1>1
<1>4. Before(S, C, k) \in SUBSET ClientID /\ Behind(S, C, k + l) \in SUBSET ClientID
  BY DEF Before, Behind
<1> QED
  BY <1>2, <1>3, <1>4, FewerClients

\* The ends of a list: nobody is before its beginning or behind its end.
LEMMA EndsOfList ==
    ASSUME NEW S \in SUBSET Entry, IsFiniteSet(S), NEW k \in Nat, NEW C \in SUBSET ClientID
    PROVE  /\ Cardinality(S) <= k => Before(S, C, k) = C
           /\ Behind(S, C, 0) = C
           /\ (\A c \in C : \E e \in S : e.client = c /\ Rank(S, e) >= k)
                => Cardinality(Before(S, C, k)) = 0
           /\ (\A c \in C : \E e \in S : e.client = c /\ Rank(S, e) < k)
                => Cardinality(Behind(S, C, k)) = 0
<1>1. \A e \in S : Rank(S, e) \in Nat /\ Rank(S, e) < Cardinality(S)
  BY RankFacts
<1>2. Cardinality(S) \in Nat
  BY FS_CardinalityType
<1>3. Cardinality(S) <= k => Before(S, C, k) = C
  BY <1>1, <1>2 DEF Before
<1>4. Behind(S, C, 0) = C
  BY <1>1 DEF Behind
<1>5. (\A c \in C : \E e \in S : e.client = c /\ Rank(S, e) >= k) => Before(S, C, k) = {}
  BY <1>1 DEF Before
<1>6. (\A c \in C : \E e \in S : e.client = c /\ Rank(S, e) < k) => Behind(S, C, k) = {}
  BY <1>1 DEF Behind
<1> QED
  BY <1>3, <1>4, <1>5, <1>6, FS_EmptySet

\* Fewer clients are behind a later position.
LEMMA BehindLater ==
    ASSUME NEW S \in SUBSET Entry, IsFiniteSet(S), NEW k \in Nat, NEW l \in Nat, k <= l,
           NEW C \in SUBSET ClientID
    PROVE  Cardinality(Behind(S, C, l)) <= Cardinality(Behind(S, C, k))
<1>1. \A e \in S : Rank(S, e) \in Nat
  BY RankFacts
<1>2. Behind(S, C, l) \in SUBSET Behind(S, C, k) /\ Behind(S, C, k) \in SUBSET ClientID
  BY <1>1 DEF Behind
<1> QED
  BY <1>2, FewerClients

-----------------------------------------------------------------------------
(* The inductive invariant of a walk *)

Listing == Selected(connections, walk.scope)

\* The table holds no more rows than it may, and a caller between requests has
\* forgotten its last walk.
WalkKept ==
    /\ Cardinality(Rows(connections)) <= MaxRows
    /\ pc = "idle" => listed = {} /\ gone = 0 /\ come = 0
    /\ pc \in {"query", "answered", "complete", "stranded"} => walk \in Walk
    /\ pc \in {"query", "answered"} => walk.limit >= 0

\* While no row has left the list: what the last answer counted is still there,
\* and the pages that the last and previous links lead to have rows.
PagesExist ==
    Trusted /\ gone = 0 =>
      /\ pc = "answered" =>
           /\ count <= Cardinality(Listing)
           /\ count > 0 => walk.offset < Cardinality(Listing)
           /\ walk.way = "backward" => count > 0
      /\ pc = "query" /\ walk.way = "backward" => walk.offset < Cardinality(Listing)
      /\ pc = "stranded" => walk.way # "backward"

\* The clients that stayed have rows in the list.
StayedPresent ==
    pc \in {"query", "answered"} => \A c \in stayed : \E e \in Listing : e.client = c

\* The clients that a walk along the next links has passed by without being told of
\* them are no more than the rows that left.
ForwardMisses ==
    Trusted /\ walk.way = "forward" =>
      /\ pc = "query" => Cardinality(Before(Listing, stayed \ listed, walk.offset)) <= gone
      /\ pc = "answered" =>
           /\ Cardinality(Before(Listing, stayed \ listed, walk.offset + walk.limit)) <= gone
           /\ count <= walk.offset + walk.limit => Cardinality(stayed \ listed) <= gone

\* Those that a walk along the previous links has passed by are no more than the
\* rows that came.
BackwardMisses ==
    Trusted /\ walk.way \in {"toFirst", "backward"} =>
      /\ pc = "query" =>
           Cardinality(Behind(Listing, stayed \ listed, walk.offset + walk.limit)) <= come
      /\ pc = "answered" => Cardinality(Behind(Listing, stayed \ listed, walk.offset)) <= come

\* The total that the last link is computed from leaves out no more clients than
\* rows came since.
LastPageMisses ==
    Trusted /\ walk.way = "toLast" /\ pc = "answered" =>
      /\ count > 0 => Cardinality(Behind(Listing, stayed \ listed, count)) <= come
      /\ count = 0 /\ walk.offset = 0 => stayed = {}

TypeInv == ListingTypeOK /\ WalkKept

\* What a walk in the listing states is.
LEMMA WalkFacts ==
    ASSUME TypeInv, pc \in {"query", "answered"}
    PROVE  /\ walk \in Walk /\ walk # NoWalk
           /\ walk.offset \in Nat /\ walk.limit \in Nat
           /\ walk.scope \in Scope \cup {Everything}
           /\ walk.way \in {"forward", "toFirst", "toLast", "backward"}
           /\ connections \in Tables(Row)
           /\ Listing \in SUBSET Entry /\ IsFiniteSet(Listing) /\ Cardinality(Listing) \in Nat
           /\ Cardinality(Listing) <= Cardinality(Rows(connections))
<1>1. walk \in Walk
  BY DEF TypeInv, WalkKept
<1>2. walk # NoWalk
  <2>1. "none" \notin Endpoint
    BY ListingAssumption
  <2>2. walk.endpoint \in Endpoint
    BY <1>1 DEF Walk
  <2> QED
    BY <2>1, <2>2 DEF NoWalk
<1>3. walk.offset \in Nat /\ walk.limit \in Nat
  BY <1>1, ListingAssumption DEF TypeInv, ListingTypeOK, WalkKept, Walk, Param
<1>4. /\ walk.scope \in Scope \cup {Everything}
      /\ walk.way \in {"forward", "toFirst", "toLast", "backward"}
  BY <1>1 DEF Walk
<1>5. connections \in Tables(Row)
  BY DEF TypeInv, ListingTypeOK, ConnectionsTypeOK, Tables
<1>6. /\ Listing \in SUBSET Entry /\ IsFiniteSet(Listing) /\ Cardinality(Listing) \in Nat
      /\ Cardinality(Listing) <= Cardinality(Rows(connections))
  BY <1>4, <1>5, SelectedFacts DEF Listing
<1> QED
  BY <1>1, <1>2, <1>3, <1>4, <1>5, <1>6

\* The writes leave a table behind that is not too large.
LEMMA WriteFacts ==
    ASSUME TypeInv, ConsumerWrites \/ UpdaterWrites
    PROVE  /\ connections' \in Tables(Row)
           /\ Cardinality(Rows(connections')) <= MaxRows
           /\ WalkSees(connections')
<1>1. connections \in Tables(Row)
  BY DEF TypeInv, ListingTypeOK, ConnectionsTypeOK, Tables
<1>2. CASE ConsumerWrites
  <2>1. PICK m \in Message :
          /\ \/ \E o \in OrgID \cup {NoOrg}, seen \in 0 .. Len(connections[m.client_id]) :
                  connections' = Register(connections, m.client_id, m, o, seen)
             \/ connections' = Unregister(connections, m.client_id)
          /\ Cardinality(Rows(connections')) <= MaxRows
          /\ WalkSees(connections')
    BY <1>2, Zenon DEF ConsumerWrites
  <2>2. m \in ControlMessage
    BY TableAssumption
  <2>3. m.client_id \in ClientID
    BY <2>2 DEF ControlMessage
  <2>4. ASSUME NEW o \in OrgID \cup {NoOrg}, NEW seen \in 0 .. Len(connections[m.client_id])
        PROVE  Register(connections, m.client_id, m, o, seen) \in Tables(Row)
    <3>1. seen \in Nat
      BY <1>1, <2>3 DEF Tables
    <3> QED
      BY <1>1, <2>2, <2>3, <3>1, RegisterIn, UpdatedRowType, InsertedRowType
  <2>5. Unregister(connections, m.client_id) \in Tables(Row)
    BY <1>1, <2>3, UnregisterIn
  <2> QED
    BY <2>1, <2>4, <2>5
<1>3. CASE UpdaterWrites
  <2>1. PICK c \in ClientID :
          /\ \/ \E o \in OrgID : connections' = RecordSuccessfulTenantLookup(connections, c, o)
             \/ connections' = RecordFailedTenantLookup(connections, c)
          /\ WalkSees(connections')
    BY <1>3, Zenon DEF UpdaterWrites
  <2>2. PICK C, f : connections' \in Tables(Row) /\ Changed(connections, connections', C, f)
    <3>1. ASSUME NEW o \in OrgID
          PROVE  /\ RecordSuccessfulTenantLookup(connections, c, o) \in Tables(Row)
                 /\ Changed(connections, RecordSuccessfulTenantLookup(connections, c, o), {c},
                            [r \in Row |-> WithTenant(r, o)])
      BY <1>1, RecordSuccessIn, RecordSuccessChanges, UpdaterRowType
    <3>2. /\ RecordFailedTenantLookup(connections, c) \in Tables(Row)
          /\ Changed(connections, RecordFailedTenantLookup(connections, c), {c},
                     [r \in Row |-> WithoutTenant(r)])
      BY <1>1, RecordFailureIn, RecordFailureChanges, UpdaterRowType
    <3> QED
      BY <2>1, <3>1, <3>2, Zenon
  <2>3. Cardinality(Rows(connections')) <= Cardinality(Rows(connections))
    BY <1>1, <2>2, ChangedKeepsRowCount
  <2>4. Cardinality(Rows(connections)) <= MaxRows
    BY DEF TypeInv, WalkKept
  <2>5. Cardinality(Rows(connections')) \in Nat /\ Cardinality(Rows(connections)) \in Nat /\ MaxRows \in Nat
    BY <1>1, <2>2, RowsFacts, ListingAssumption
  <2> QED
    BY <2>1, <2>2, <2>3, <2>4, <2>5
<1> QED
  BY <1>2, <1>3

\* A write while the caller is under way.
LEMMA WalkSeesFacts ==
    ASSUME TypeInv, ConsumerWrites \/ UpdaterWrites, pc \in {"query", "answered"}
    PROVE  /\ Listing' = Selected(connections', walk.scope)
           /\ Listing' \in SUBSET Entry /\ IsFiniteSet(Listing') /\ Cardinality(Listing') \in Nat
           /\ Cardinality(Listing \ Listing') \in Nat /\ Cardinality(Listing' \ Listing) \in Nat
           /\ gone' = gone + Cardinality(Listing \ Listing')
           /\ come' = come + Cardinality(Listing' \ Listing)
           /\ writes < MaxWrites /\ writes' = writes + 1
           /\ stayed' \subseteq stayed
           /\ \A e \in Listing \ Listing' : e.client \notin stayed'
           /\ \A c \in stayed \ stayed' : \E e \in Listing \ Listing' : e.client = c
           /\ UNCHANGED <<pc, walk, count, listed, cut>>
<1>1. /\ connections' \in Tables(Row) /\ WalkSees(connections')
  BY WriteFacts
<1> DEFINE S == Selected(connections, walk.scope)
           T == Selected(connections', walk.scope)
<1>2. /\ writes < MaxWrites /\ writes' = writes + 1
      /\ gone' = gone + Cardinality(S \ T)
      /\ come' = come + Cardinality(T \ S)
      /\ stayed' = stayed \ {e.client : e \in S \ T}
      /\ UNCHANGED <<pc, walk, count, listed, cut>>
  BY <1>1 DEF WalkSees
<1>3. Listing = S /\ Listing' = T
  BY <1>2 DEF Listing
<1>4. T \in SUBSET Entry /\ IsFiniteSet(T) /\ Cardinality(T) \in Nat
  BY <1>1, WalkFacts, SelectedFacts
<1>5. IsFiniteSet(S)
  BY <1>3, WalkFacts
<1> HIDE DEF S, T
<1>6. Cardinality(S \ T) \in Nat /\ Cardinality(T \ S) \in Nat
  BY <1>4, <1>5, FS_Difference, FS_CardinalityType
<1>7. /\ stayed' \subseteq stayed
      /\ \A e \in S \ T : e.client \notin stayed'
      /\ \A c \in stayed \ stayed' : \E e \in S \ T : e.client = c
  BY <1>2
<1> QED
  BY <1>2, <1>3, <1>4, <1>6, <1>7 DEF T

-----------------------------------------------------------------------------
(* Types *)

\* A request starts a walk, or is refused.
LEMMA RequestFacts ==
    ASSUME TypeInv, NEW w \in ListRequest, Request(w)
    PROVE  /\ w \in Walk /\ walk' = w /\ w.way \in {"forward", "toFirst", "toLast"}
           /\ w.offset \in Int /\ w.limit \in Int /\ w.scope \in Scope \cup {Everything}
           /\ pc' \in {"refused", "query"}
           /\ pc' = "query" => w.offset >= 0 /\ w.limit >= 0
           /\ stayed' \subseteq ClientID
           /\ LET S == Selected(connections, w.scope)
              IN  \A c \in stayed' :
                    \E e \in S : /\ e.client = c
                                 /\ w.way = "forward" => Rank(S, e) >= w.offset
                                 /\ w.way = "toFirst" => Rank(S, e) < w.offset + w.limit
           /\ pc = "idle"
           /\ UNCHANGED <<connections, count, listed, gone, come, cut, writes>>
<1> DEFINE S == Selected(connections, w.scope)
           s == Ordered(connections, w.scope)
           first == IF w.way = "forward" THEN w.offset + 1 ELSE 1
           last == IF w.way = "toFirst" THEN w.offset + w.limit ELSE Len(s)
<1>1. /\ w.endpoint \in Endpoint /\ w.scope \in Scope \cup {Everything}
      /\ w.offset \in Int /\ w.limit \in Int /\ w.offset \in Param /\ w.limit \in Param
      /\ w.way \in {"forward", "toFirst", "toLast"}
  BY ListingAssumption DEF ListRequest, Param
<1>2. w = [endpoint |-> w.endpoint, scope |-> w.scope, offset |-> w.offset, limit |-> w.limit,
           way |-> w.way]
  BY DEF ListRequest
<1>3. w \in Walk
  BY <1>1, <1>2 DEF Walk
<1>4. /\ pc = "idle" /\ walk' = w
      /\ pc' \in {"refused", "query"}
      /\ pc' = "query" => ~(w.limit < 0 \/ w.offset < 0)
      /\ stayed' = {s[i].client : i \in DOMAIN s \cap first .. last}
      /\ UNCHANGED <<connections, count, listed, gone, come, cut, writes>>
  BY DEF Request
<1>5. connections \in Tables(Row)
  BY DEF TypeInv, ListingTypeOK, ConnectionsTypeOK, Tables
<1>6. /\ s \in Seq(S)
      /\ \A i \in 1 .. Len(s) : s[i] \in S /\ Rank(S, s[i]) = i - 1
  BY <1>1, <1>5, OrderedFacts
<1>7. S \in SUBSET Entry
  BY <1>1, <1>5, SelectedFacts
<1> HIDE DEF S, s
<1>8. ASSUME NEW c \in stayed'
      PROVE  /\ c \in ClientID
             /\ \E e \in S : /\ e.client = c
                             /\ w.way = "forward" => Rank(S, e) >= w.offset
                             /\ w.way = "toFirst" => Rank(S, e) < w.offset + w.limit
  <2>1. PICK i \in DOMAIN s \cap first .. last : c = s[i].client
    BY <1>4
  <2>2. i \in 1 .. Len(s) /\ Len(s) \in Nat
    BY <1>6, <2>1
  <2>3. s[i] \in S /\ Rank(S, s[i]) = i - 1
    BY <1>6, <2>2
  <2>4. /\ w.way = "forward" => i - 1 >= w.offset
        /\ w.way = "toFirst" => i - 1 < w.offset + w.limit
    BY <1>1, <2>1, <2>2
  <2>5. s[i] \in Entry
    BY <1>7, <2>3
  <2>6. c \in ClientID
    BY <2>1, <2>5 DEF Entry
  <2> QED
    BY <2>1, <2>3, <2>4, <2>6
<1> HIDE DEF first, last
<1>9. stayed' \subseteq ClientID
  BY <1>8
<1>10. pc' = "query" => w.offset >= 0 /\ w.limit >= 0
  BY <1>1, <1>4
<1> QED
  BY <1>1, <1>3, <1>4, <1>8, <1>9, <1>10 DEF S

\* A query is answered, with a page of the list or without, or fails.
LEMMA QueryFacts ==
    ASSUME TypeInv, Query \/ QueryInterrupted \/ QueryFails
    PROVE  /\ pc = "query" /\ pc' \in {"answered", "failed"}
           /\ UNCHANGED <<connections, walk, stayed, gone, come, writes>>
           /\ cut' \in BOOLEAN
           /\ count' \in Nat /\ count' <= MaxRows
           /\ listed' \subseteq ClientID
           /\ ~cut' /\ pc' = "answered" => Query
<1>1. pc = "query"
  BY DEF Query, QueryInterrupted, QueryFails
<1> DEFINE S == Selected(connections, walk.scope)
           page == Page(connections, walk)
<1>2. /\ walk \in Walk /\ walk.offset \in Nat /\ connections \in Tables(Row)
      /\ S \in SUBSET Entry /\ Cardinality(S) \in Nat /\ Cardinality(S) <= Cardinality(Rows(connections))
  BY <1>1, WalkFacts DEF Listing
<1>3. Cardinality(S) <= MaxRows
  <2>1. Cardinality(Rows(connections)) <= MaxRows /\ Cardinality(Rows(connections)) \in Nat
    BY <1>2, RowsFacts DEF TypeInv, WalkKept
  <2>2. MaxRows \in Nat
    BY ListingAssumption
  <2> HIDE DEF S
  <2> QED
    BY <1>2, <2>1, <2>2
<1>4. /\ page \in Seq(S) /\ \A k \in 0 .. Len(page) - 1 : SubSeq(page, 1, k) \in Seq(S)
      /\ \A rows : TotalConnections(connections, walk, rows) \in {0, Cardinality(S)}
  BY <1>2, PageFacts
<1>5. listed \subseteq ClientID /\ count \in Nat /\ count <= MaxRows /\ cut \in BOOLEAN /\ MaxRows \in Nat
  BY ListingAssumption DEF TypeInv, ListingTypeOK
<1>6. ASSUME NEW rows \in Seq(S), NEW total \in {0, Cardinality(S)}, Answer(rows, total)
      PROVE  /\ pc' = "answered" /\ UNCHANGED <<connections, walk, stayed, gone, come, writes>>
             /\ count' \in Nat /\ count' <= MaxRows /\ listed' \subseteq ClientID
  <2>1. count' = total /\ (listed' = listed \/ listed' = listed \cup Clients(rows))
    BY <1>6 DEF Answer
  <2>2. total \in Nat /\ total <= MaxRows
    BY <1>2, <1>3, <1>5
  <2>3. Clients(rows) \subseteq ClientID
    BY <1>2, ClientsOfRows
  <2>4. listed' \subseteq ClientID
    BY <1>5, <2>1, <2>3
  <2>5. pc' = "answered" /\ UNCHANGED <<connections, walk, stayed, gone, come, writes>>
    BY <1>6 DEF Answer
  <2> QED
    BY <2>1, <2>2, <2>4, <2>5
<1> HIDE DEF S, page
<1>7. CASE Query
  <2>1. Answer(page, TotalConnections(connections, walk, page)) /\ cut' = cut
    BY <1>7 DEF Query, page
  <2>2. page \in Seq(S) /\ TotalConnections(connections, walk, page) \in {0, Cardinality(S)}
    BY <1>4
  <2>3. cut' \in BOOLEAN
    BY <1>5, <2>1
  <2>4. /\ pc' = "answered" /\ UNCHANGED <<connections, walk, stayed, gone, come, writes>>
        /\ count' \in Nat /\ count' <= MaxRows /\ listed' \subseteq ClientID
    BY <1>6, <2>1, <2>2
  <2> QED
    BY <1>1, <1>7, <2>3, <2>4, Zenon
<1>8. CASE QueryInterrupted
  <2>1. PICK k \in 0 .. Len(page) - 1 :
          Answer(SubSeq(page, 1, k), TotalConnections(connections, walk, SubSeq(page, 1, k)))
    BY <1>8 DEF QueryInterrupted, page
  <2>2. cut' = TRUE
    BY <1>8 DEF QueryInterrupted
  <2> QED
    BY <1>1, <1>4, <1>6, <2>1, <2>2
<1>9. CASE QueryFails
  <2>1. CASE Answer(<<>>, 0) /\ cut' = TRUE
    <3>1. <<>> \in Seq(S) /\ 0 \in {0, Cardinality(S)}
      OBVIOUS
    <3> QED
      BY <1>1, <1>6, <2>1, <3>1
  <2>2. CASE pc' = "failed" /\ UNCHANGED <<connections, walk, count, listed, stayed, gone, come, cut, writes>>
    BY <1>1, <1>5, <2>2
  <2> QED
    BY <1>9, <2>1, <2>2 DEF QueryFails
<1> QED
  BY <1>7, <1>8, <1>9

\* The offsets of the links are offsets.
LEMMA FollowFacts ==
    ASSUME TypeInv, FollowNext \/ FollowLast \/ FollowPrev
    PROVE  /\ pc = "answered" /\ pc' = "query"
           /\ walk' \in Walk /\ walk'.offset \in Nat
           /\ walk'.scope = walk.scope /\ walk'.limit = walk.limit
           /\ FollowNext => /\ walk.way = "forward" /\ walk'.way = "forward"
                            /\ walk'.offset = walk.offset + walk.limit
           /\ FollowLast => /\ walk.way = "toLast" /\ walk'.way = "backward" /\ count > 0
                            /\ walk'.offset = LastOffset(count, walk.limit)
           /\ FollowPrev => /\ walk.way \in {"toFirst", "backward"} /\ walk'.way = "backward"
                            /\ count > 0 /\ walk.offset > 0 /\ walk'.offset = PrevOffset(walk)
           /\ UNCHANGED <<connections, count, listed, stayed, gone, come, cut, writes>>
<1>1. pc = "answered"
  BY DEF FollowNext, FollowLast, FollowPrev
<1>2. walk \in Walk /\ walk.offset \in Nat /\ walk.limit \in Nat
  BY <1>1, WalkFacts
<1>3. count \in Nat
  BY DEF TypeInv, ListingTypeOK
<1>4. ASSUME NEW offset \in Nat, NEW way \in {"forward", "backward"}, Follow(offset, way)
      PROVE  /\ pc' = "query" /\ walk' \in Walk
             /\ walk'.offset = offset /\ walk'.way = way
             /\ walk'.scope = walk.scope /\ walk'.limit = walk.limit
             /\ UNCHANGED <<connections, count, listed, stayed, gone, come, cut, writes>>
  <2>1. walk' = [walk EXCEPT !.offset = offset, !.way = way]
    BY <1>4 DEF Follow
  <2>2. /\ walk' \in Walk /\ walk'.offset = offset /\ walk'.way = way
        /\ walk'.scope = walk.scope /\ walk'.limit = walk.limit
    <3> DEFINE v == [endpoint |-> walk.endpoint, scope |-> walk.scope, offset |-> offset,
                     limit |-> walk.limit, way |-> way]
    <3>1. walk' = v
      BY <1>2, <2>1 DEF Walk
    <3>2. walk.endpoint \in Endpoint /\ walk.scope \in Scope \cup {Everything} /\ walk.limit \in Param
      BY <1>2 DEF Walk
    <3>3. v \in Walk
      BY <3>2 DEF Walk
    <3> QED
      BY <3>1, <3>3
  <2> QED
    BY <1>4, <2>2 DEF Follow
<1>5. walk.offset + walk.limit \in Nat /\ PrevOffset(walk) \in Nat
  BY <1>2 DEF PrevOffset
<1>6. count > 0 => LastOffset(count, walk.limit) \in Nat
  <2>1. CASE walk.limit = 0
    BY <2>1 DEF LastOffset
  <2>2. CASE walk.limit > 0
    BY <1>2, <1>3, <2>2, LastOffsetFacts
  <2> QED
    BY <1>2, <2>1, <2>2
<1>7. /\ FollowNext => walk.way = "forward" /\ Follow(walk.offset + walk.limit, "forward")
      /\ FollowLast => walk.way = "toLast" /\ count > 0 /\ Follow(LastOffset(count, walk.limit), "backward")
      /\ FollowPrev => /\ walk.way \in {"toFirst", "backward"} /\ count > 0 /\ walk.offset > 0
                       /\ Follow(PrevOffset(walk), "backward")
  BY DEF FollowNext, FollowLast, FollowPrev, HasPrev
<1>8. ~(FollowNext /\ FollowLast) /\ ~(FollowNext /\ FollowPrev) /\ ~(FollowLast /\ FollowPrev)
  BY <1>7
<1>9. CASE FollowNext
  BY <1>1, <1>4, <1>5, <1>7, <1>8, <1>9
<1>10. CASE FollowLast
  BY <1>1, <1>4, <1>6, <1>7, <1>8, <1>10
<1>11. CASE FollowPrev
  BY <1>1, <1>4, <1>5, <1>7, <1>8, <1>11
<1> QED
  BY <1>9, <1>10, <1>11

\* Every step keeps the types and the bound on the rows.
LEMMA TypeStep ==
    ASSUME TypeInv, [ListingNext]_listingVars
    PROVE  TypeInv'
<1> DEFINE Rest == /\ count \in 0 .. MaxRows /\ listed \subseteq ClientID /\ stayed \subseteq ClientID
                   /\ gone \in Nat /\ come \in Nat /\ writes \in 0 .. MaxWrites
           Table == connections \in Tables(Row) /\ Cardinality(Rows(connections)) <= MaxRows
           Where == /\ pc \in {"idle", "query", "answered", "complete", "stranded", "refused", "failed"}
                    /\ walk \in Walk \cup {NoWalk}
                    /\ pc \in {"query", "answered"} => walk.offset >= 0 /\ walk.limit >= 0
                    /\ pc \in {"query", "answered", "complete", "stranded"} => walk \in Walk
                    /\ pc = "idle" => listed = {} /\ gone = 0 /\ come = 0
<1>1. TypeInv <=> Rest /\ Table /\ Where /\ cut \in BOOLEAN
  BY DEF TypeInv, ListingTypeOK, WalkKept, ConnectionsTypeOK, Tables
<1>2. TypeInv' <=> Rest' /\ Table' /\ Where' /\ cut' \in BOOLEAN
  BY DEF TypeInv, ListingTypeOK, WalkKept, ConnectionsTypeOK, Tables
<1>3. Rest /\ Table /\ Where /\ cut \in BOOLEAN /\ MaxRows \in Nat /\ MaxWrites \in Nat
  BY <1>1, ListingAssumption
<1>4. SUFFICES Rest' /\ Table' /\ Where' /\ cut' \in BOOLEAN
  BY <1>2
<1>5. ASSUME NEW w \in ListRequest, Request(w)
      PROVE  Rest' /\ Table' /\ Where' /\ cut' \in BOOLEAN
  <2>1. /\ w \in Walk /\ walk' = w /\ pc' \in {"refused", "query"}
        /\ pc' = "query" => w.offset >= 0 /\ w.limit >= 0
        /\ stayed' \subseteq ClientID
        /\ UNCHANGED <<connections, count, listed, gone, come, cut, writes>>
    BY <1>5, RequestFacts
  <2> QED
    BY <1>3, <2>1
<1>6. ASSUME Query \/ QueryInterrupted \/ QueryFails
      PROVE  Rest' /\ Table' /\ Where' /\ cut' \in BOOLEAN
  <2>1. /\ pc = "query" /\ pc' \in {"answered", "failed"}
        /\ UNCHANGED <<connections, walk, stayed, gone, come, writes>>
        /\ count' \in Nat /\ count' <= MaxRows
        /\ listed' \subseteq ClientID
    BY <1>6, QueryFacts
  <2>2. cut' \in BOOLEAN
    BY <1>6, QueryFacts
  <2>3. Rest' /\ Table' /\ Where'
    BY <1>3, <2>1
  <2> QED
    BY <2>2, <2>3
<1>7. ASSUME FollowNext \/ FollowLast \/ FollowPrev
      PROVE  Rest' /\ Table' /\ Where' /\ cut' \in BOOLEAN
  <2>1. /\ pc = "answered" /\ pc' = "query"
        /\ walk' \in Walk /\ walk'.offset \in Nat /\ walk'.limit = walk.limit
        /\ UNCHANGED <<connections, count, listed, stayed, gone, come, cut, writes>>
    BY <1>7, FollowFacts
  <2>2. walk.limit >= 0
    BY <1>3, <2>1
  <2> QED
    BY <1>3, <2>1, <2>2
<1>8. CASE Finish
  <2>1. /\ pc = "answered" /\ pc' \in {"stranded", "complete"}
        /\ UNCHANGED <<connections, walk, count, listed, stayed, gone, come, cut, writes>>
    BY <1>8 DEF Finish
  <2> QED
    BY <1>3, <2>1
<1>9. CASE Close
  <2>1. /\ pc' = "idle" /\ walk' = NoWalk /\ count' = 0 /\ listed' = {} /\ stayed' = {}
        /\ gone' = 0 /\ come' = 0 /\ cut' = FALSE /\ writes' = 0 /\ UNCHANGED connections
    BY <1>9 DEF Close
  <2>2. cut' \in BOOLEAN
    BY <2>1, Zenon
  <2>3. Rest' /\ Table'
    BY <1>3, <2>1
  <2>4. Where'
    BY <2>1
  <2> QED
    BY <2>2, <2>3, <2>4
<1>10. ASSUME ConsumerWrites \/ UpdaterWrites
       PROVE  Rest' /\ Table' /\ Where' /\ cut' \in BOOLEAN
  <2>1. /\ connections' \in Tables(Row) /\ Cardinality(Rows(connections')) <= MaxRows
        /\ WalkSees(connections')
    BY <1>10, WriteFacts
  <2>2. CASE pc \in {"query", "answered"}
    <3>1. /\ Cardinality(Listing \ Listing') \in Nat /\ Cardinality(Listing' \ Listing) \in Nat
          /\ gone' = gone + Cardinality(Listing \ Listing')
          /\ come' = come + Cardinality(Listing' \ Listing)
          /\ writes < MaxWrites /\ writes' = writes + 1
          /\ stayed' \subseteq stayed
          /\ UNCHANGED <<pc, walk, count, listed, cut>>
      BY <1>10, <2>2, WalkSeesFacts
    <3>2. Rest'
      BY <1>3, <3>1
    <3>3. Where' /\ cut' \in BOOLEAN
      BY <1>3, <2>2, <3>1
    <3> QED
      BY <2>1, <3>2, <3>3
  <2>3. CASE pc \notin {"query", "answered"}
    <3>1. UNCHANGED <<pc, walk, count, listed, stayed, gone, come, cut, writes>>
      BY <2>1, <2>3 DEF WalkSees, walkVars
    <3> QED
      BY <1>3, <2>1, <3>1
  <2> QED
    BY <2>2, <2>3
<1>11. CASE UNCHANGED listingVars
  BY <1>3, <1>11 DEF listingVars, walkVars
<1> QED
  BY <1>5, <1>6, <1>7, <1>8, <1>9, <1>10, <1>11 DEF ListingNext

\* The table starts empty and nobody asks for it.
LEMMA TypeInit ==
    ASSUME ListingInit
    PROVE  TypeInv
<1>1. /\ connections = [c \in ClientID |-> <<>>] /\ pc = "idle" /\ walk = NoWalk /\ count = 0
      /\ listed = {} /\ stayed = {} /\ gone = 0 /\ come = 0 /\ cut = FALSE /\ writes = 0
  BY DEF ListingInit, ConnectionsInit
<1>2. MaxRows \in Nat /\ MaxWrites \in Nat
  BY ListingAssumption
<1>3. connections \in [ClientID -> Seq(Row)]
  BY <1>1
<1>4. Rows(connections) = {}
  <2>1. connections \in Tables(Row)
    BY <1>3 DEF Tables
  <2>2. DOMAIN <<>> = {}
    OBVIOUS
  <2> SUFFICES ASSUME NEW e \in Rows(connections)
               PROVE  FALSE
    OBVIOUS
  <2>3. e.client \in ClientID /\ e.row \in DOMAIN connections[e.client]
    BY <2>1, RowsFacts
  <2>4. connections[e.client] = <<>>
    BY <1>1, <2>3
  <2> QED
    BY <2>2, <2>3, <2>4
<1>5. Cardinality(Rows(connections)) <= MaxRows
  BY <1>2, <1>4, FS_EmptySet
<1>6. ListingTypeOK
  <2>1. cut \in BOOLEAN
    BY <1>1, Zenon
  <2>2. /\ pc \in {"idle", "query", "answered", "complete", "stranded", "refused", "failed"}
        /\ walk \in Walk \cup {NoWalk}
        /\ pc \in {"query", "answered"} => walk.offset >= 0
        /\ listed \subseteq ClientID /\ stayed \subseteq ClientID
    BY <1>1
  <2>3. count \in 0 .. MaxRows /\ gone \in Nat /\ come \in Nat /\ writes \in 0 .. MaxWrites
    BY <1>1, <1>2
  <2> QED
    BY <1>3, <2>1, <2>2, <2>3 DEF ListingTypeOK, ConnectionsTypeOK
<1> QED
  BY <1>1, <1>5, <1>6 DEF TypeInv, WalkKept

\* The handlers of the lists, their callers and the writers of the table keep to
\* their types; a total never exceeds the size of the table (TotalConnections) and an
\* offset that a link asks for is never negative (buildNavigationLinks).
THEOREM ListingTypes == ListingSpec => []ListingTypeOK
<1>1. ListingInit => TypeInv
  BY TypeInit
<1>2. TypeInv /\ [ListingNext]_listingVars => TypeInv'
  BY TypeStep
<1>3. TypeInv => ListingTypeOK
  BY DEF TypeInv
<1> QED
  BY <1>1, <1>2, <1>3, PTL DEF ListingSpec

-----------------------------------------------------------------------------
(* The pages that links lead to *)

\* What an undisturbed query tells the caller.
LEMMA AnswerFacts ==
    ASSUME TypeInv, Query, walk.limit > 0
    PROVE  /\ pc = "query" /\ pc' = "answered" /\ Listing' = Listing
           /\ UNCHANGED <<connections, walk, stayed, gone, come, cut, writes>>
           /\ count' = IF walk.offset < Cardinality(Listing) THEN Cardinality(Listing) ELSE 0
           /\ listed \subseteq listed'
           /\ walk.way # "toLast" =>
                \A e \in Listing : Rank(Listing, e) >= walk.offset /\ Rank(Listing, e) < walk.offset + walk.limit
                  => e.client \in listed'
<1> DEFINE page == Page(connections, walk)
<1>1. /\ pc = "query" /\ cut' = cut /\ Answer(page, TotalConnections(connections, walk, page))
  BY DEF Query
<1>2. walk \in Walk /\ walk.offset \in Nat /\ connections \in Tables(Row)
  BY <1>1, WalkFacts
<1>3. /\ \A e \in Listing : Rank(Listing, e) >= walk.offset /\ Rank(Listing, e) < walk.offset + walk.limit
           => e.client \in Clients(page)
      /\ TotalConnections(connections, walk, page)
           = IF walk.offset < Cardinality(Listing) THEN Cardinality(Listing) ELSE 0
  BY <1>2, PageFacts DEF Listing
<1> HIDE DEF page
<1>4. /\ pc' = "answered" /\ UNCHANGED <<connections, walk, stayed, gone, come, writes>>
      /\ count' = TotalConnections(connections, walk, page)
      /\ listed' = IF walk.way = "toLast" THEN listed ELSE listed \cup Clients(page)
  BY <1>1 DEF Answer
<1>5. Listing' = Listing
  BY <1>4 DEF Listing
<1> QED
  BY <1>1, <1>3, <1>4, <1>5

\* Every step keeps the links in order.
LEMMA PagesStep ==
    ASSUME TypeInv, TypeInv', PagesExist, [ListingNext]_listingVars
    PROVE  PagesExist'
<1> SUFFICES ASSUME walk' # NoWalk, walk'.limit > 0, ~cut', gone' = 0
             PROVE  /\ pc' = "answered" =>
                         /\ count' <= Cardinality(Listing')
                         /\ count' > 0 => walk'.offset < Cardinality(Listing')
                         /\ walk'.way = "backward" => count' > 0
                    /\ pc' = "query" /\ walk'.way = "backward" => walk'.offset < Cardinality(Listing')
                    /\ pc' = "stranded" => walk'.way # "backward"
  BY DEF PagesExist, Trusted
<1>1. ASSUME walk = walk' \/ (walk # NoWalk /\ walk.limit = walk'.limit), cut' = cut, gone = 0
      PROVE  /\ pc = "answered" =>
                  /\ count <= Cardinality(Listing)
                  /\ count > 0 => walk.offset < Cardinality(Listing)
                  /\ walk.way = "backward" => count > 0
             /\ pc = "query" /\ walk.way = "backward" => walk.offset < Cardinality(Listing)
             /\ pc = "stranded" => walk.way # "backward"
  BY <1>1 DEF PagesExist, Trusted
<1>2. ASSUME NEW w \in ListRequest, Request(w)
      PROVE  pc' \in {"query", "refused"} /\ walk'.way # "backward"
  BY <1>2, RequestFacts
<1>3. ASSUME Query \/ QueryInterrupted \/ QueryFails, pc' = "answered"
      PROVE  /\ count' <= Cardinality(Listing')
             /\ count' > 0 => walk'.offset < Cardinality(Listing')
             /\ walk'.way = "backward" => count' > 0
  <2>1. Query /\ pc = "query" /\ walk' = walk
    BY <1>3, QueryFacts
  <2>2. /\ Listing' = Listing /\ gone' = gone /\ cut' = cut
        /\ count' = IF walk.offset < Cardinality(Listing) THEN Cardinality(Listing) ELSE 0
    BY <2>1, AnswerFacts
  <2>3. walk.offset \in Nat /\ Cardinality(Listing) \in Nat
    BY <2>1, WalkFacts
  <2>4. walk.way = "backward" => walk.offset < Cardinality(Listing)
    BY <1>1, <2>1, <2>2
  <2> QED
    BY <2>1, <2>2, <2>3, <2>4
<1>4. ASSUME Query \/ QueryInterrupted \/ QueryFails
      PROVE  pc' \in {"answered", "failed"}
  BY <1>4, QueryFacts
<1>5. ASSUME FollowNext \/ FollowLast \/ FollowPrev
      PROVE  pc' = "query" /\ (walk'.way = "backward" => walk'.offset < Cardinality(Listing'))
  <2>1. /\ pc = "answered" /\ pc' = "query" /\ walk'.limit = walk.limit /\ walk'.scope = walk.scope
        /\ UNCHANGED <<connections, count, gone, cut>>
    BY <1>5, FollowFacts
  <2>2. Listing' = Listing
    BY <2>1 DEF Listing
  <2>3. /\ walk \in Walk /\ walk # NoWalk /\ walk.offset \in Nat /\ walk.limit \in Nat
        /\ Cardinality(Listing) \in Nat
    BY <2>1, WalkFacts
  <2>4. /\ count <= Cardinality(Listing)
        /\ count > 0 => walk.offset < Cardinality(Listing)
    BY <1>1, <2>1, <2>3
  <2>5. count \in Nat
    BY DEF TypeInv, ListingTypeOK
  <2>6. CASE FollowNext
    <3>1. walk'.way = "forward"
      BY <2>6, FollowFacts
    <3> QED
      BY <2>1, <3>1
  <2>7. CASE FollowLast
    <3>1. count > 0 /\ walk'.offset = LastOffset(count, walk.limit)
      BY <2>7, FollowFacts
    <3>2. walk'.offset < count /\ walk'.offset \in Nat
      BY <2>1, <2>3, <2>5, <3>1, LastOffsetFacts
    <3> QED
      BY <2>1, <2>2, <2>3, <2>4, <2>5, <3>2
  <2>8. CASE FollowPrev
    <3>1. count > 0 /\ walk.offset > 0 /\ walk'.offset = PrevOffset(walk)
      BY <2>8, FollowFacts
    <3>2. PrevOffset(walk) < walk.offset /\ PrevOffset(walk) \in Nat
      BY <2>1, <2>3, <3>1 DEF PrevOffset
    <3> QED
      BY <2>1, <2>2, <2>3, <2>4, <3>1, <3>2
  <2> QED
    BY <1>5, <2>6, <2>7, <2>8
<1>6. CASE Finish
  <2>1. /\ pc = "answered" /\ pc' \in {"stranded", "complete"}
        /\ UNCHANGED <<walk, count, gone, cut>>
    BY <1>6 DEF Finish
  <2>2. walk.way = "backward" => count > 0
    BY <1>1, <2>1
  <2>3. pc' = "stranded" /\ walk.way = "backward" => ~HasPrev(walk, count) /\ walk.offset > 0
    BY <1>6 DEF Finish
  <2>4. ~(pc' = "stranded" /\ walk.way = "backward")
    BY <2>2, <2>3 DEF HasPrev
  <2> QED
    BY <2>1, <2>4
<1>7. CASE Close
  BY <1>7 DEF Close
<1>8. ASSUME ConsumerWrites \/ UpdaterWrites, pc \in {"query", "answered"}
      PROVE  /\ pc' = pc
             /\ pc' = "answered" =>
                  /\ count' <= Cardinality(Listing')
                  /\ count' > 0 => walk'.offset < Cardinality(Listing')
                  /\ walk'.way = "backward" => count' > 0
             /\ pc' = "query" /\ walk'.way = "backward" => walk'.offset < Cardinality(Listing')
  <2>1. /\ IsFiniteSet(Listing') /\ Cardinality(Listing') \in Nat
        /\ Cardinality(Listing \ Listing') \in Nat
        /\ gone' = gone + Cardinality(Listing \ Listing')
        /\ UNCHANGED <<pc, walk, count, cut>>
    BY <1>8, WalkSeesFacts
  <2>2. /\ walk.offset \in Nat /\ IsFiniteSet(Listing) /\ Cardinality(Listing) \in Nat
    BY <1>8, WalkFacts
  <2>3. gone \in Nat /\ count \in Nat
    BY DEF TypeInv, ListingTypeOK
  <2>4. gone = 0 /\ Cardinality(Listing \ Listing') = 0
    BY <2>1, <2>3
  <2>5. Listing \in SUBSET Listing'
    <3>1. IsFiniteSet(Listing \ Listing')
      BY <2>2, FS_Difference
    <3>2. Listing \ Listing' = {}
      BY <2>4, <3>1, FS_EmptySet
    <3> QED
      BY <3>2
  <2>6. Cardinality(Listing) <= Cardinality(Listing')
    BY <2>1, <2>5, FS_Subset
  <2>7. /\ pc = "answered" =>
             /\ count <= Cardinality(Listing)
             /\ count > 0 => walk.offset < Cardinality(Listing)
             /\ walk.way = "backward" => count > 0
        /\ pc = "query" /\ walk.way = "backward" => walk.offset < Cardinality(Listing)
    BY <1>1, <2>1, <2>4
  <2> DEFINE m == Cardinality(Listing)
             n == Cardinality(Listing')
  <2>8. m \in Nat /\ n \in Nat /\ m <= n
    BY <2>1, <2>2, <2>6
  <2>9. /\ pc = "answered" =>
             /\ count <= m
             /\ count > 0 => walk.offset < m
             /\ walk.way = "backward" => count > 0
        /\ pc = "query" /\ walk.way = "backward" => walk.offset < m
    BY <2>7
  <2>10. pc' = pc /\ walk' = walk /\ count' = count
    BY <2>1
  <2> HIDE DEF m, n
  <2>11. /\ pc = "answered" =>
             /\ count <= n
             /\ count > 0 => walk.offset < n
             /\ walk.way = "backward" => count > 0
         /\ pc = "query" /\ walk.way = "backward" => walk.offset < n
    BY <2>2, <2>3, <2>8, <2>9
  <2> QED
    BY <2>10, <2>11 DEF n
<1>9. ASSUME ConsumerWrites \/ UpdaterWrites, pc \notin {"query", "answered"}
      PROVE  /\ pc' = pc /\ (pc' = "stranded" => walk'.way # "backward")
  <2>1. UNCHANGED <<pc, walk, gone, cut>>
    BY <1>9, WriteFacts DEF WalkSees, walkVars
  <2> QED
    BY <1>1, <2>1
<1>10. CASE UNCHANGED listingVars
  <2>1. pc' = pc /\ walk' = walk /\ count' = count /\ gone' = gone /\ connections' = connections
    BY <1>10 DEF listingVars, walkVars
  <2>2. cut' = cut
    BY <1>10, Zenon DEF listingVars, walkVars
  <2>3. Listing' = Listing
    BY <2>1 DEF Listing
  <2>4. gone = 0
    BY <2>1
  <2> QED
    BY <1>1, <2>1, <2>2, <2>3, <2>4
<1> QED
  BY <1>2, <1>3, <1>4, <1>5, <1>6, <1>7, <1>8, <1>9, <1>10 DEF ListingNext

\* The last and previous links lead to pages that exist: a caller who follows them is
\* left on an empty page without links only when rows have left the list meanwhile
\* (buildNavigationLinks, calculateOffsetOfLastPage).
THEOREM LinksLeadToPages == ListingSpec => []StrandedOnlyByRemoval
<1>1. ListingInit => TypeInv /\ PagesExist
  <2>1. ListingInit => walk = NoWalk
    BY DEF ListingInit
  <2> QED
    BY <2>1, TypeInit DEF PagesExist, Trusted
<1>2. TypeInv /\ PagesExist /\ [ListingNext]_listingVars => TypeInv' /\ PagesExist'
  BY TypeStep, PagesStep
<1>3. TypeInv /\ PagesExist => StrandedOnlyByRemoval
  <2>1. TypeInv => gone \in Nat
    BY DEF TypeInv, ListingTypeOK
  <2> QED
    BY <2>1 DEF PagesExist, StrandedOnlyByRemoval
<1> QED
  BY <1>1, <1>2, <1>3, PTL DEF ListingSpec

-----------------------------------------------------------------------------
(* What a walk misses *)

\* Clients that stayed keep a row in the list.
LEMMA PresentStep ==
    ASSUME TypeInv, StayedPresent, [ListingNext]_listingVars
    PROVE  StayedPresent'
<1> SUFFICES ASSUME pc' \in {"query", "answered"}, NEW c \in stayed'
             PROVE  \E e \in Listing' : e.client = c
  BY DEF StayedPresent
<1>1. ASSUME pc \in {"query", "answered"}, c \in stayed
      PROVE  \E e \in Listing : e.client = c
  BY <1>1 DEF StayedPresent
<1>2. ASSUME NEW w \in ListRequest, Request(w)
      PROVE  \E e \in Listing' : e.client = c
  <2>1. walk' = w /\ connections' = connections
    BY <1>2, RequestFacts
  <2>2. \E e \in Selected(connections, w.scope) : e.client = c
    BY <1>2, RequestFacts
  <2>3. Listing' = Selected(connections, w.scope)
    BY <2>1 DEF Listing
  <2> QED
    BY <2>2, <2>3
<1>3. ASSUME Query \/ QueryInterrupted \/ QueryFails
      PROVE  \E e \in Listing' : e.client = c
  <2>1. pc = "query" /\ UNCHANGED <<connections, walk, stayed>>
    BY <1>3, QueryFacts
  <2>2. Listing' = Listing
    BY <2>1 DEF Listing
  <2> QED
    BY <1>1, <2>1, <2>2
<1>4. ASSUME FollowNext \/ FollowLast \/ FollowPrev
      PROVE  \E e \in Listing' : e.client = c
  <2>1. pc = "answered" /\ walk'.scope = walk.scope /\ UNCHANGED <<connections, stayed>>
    BY <1>4, FollowFacts
  <2>2. Listing' = Listing
    BY <2>1 DEF Listing
  <2> QED
    BY <1>1, <2>1, <2>2
<1>5. CASE Finish \/ Close
  BY <1>5 DEF Finish, Close
<1>6. ASSUME ConsumerWrites \/ UpdaterWrites, pc \in {"query", "answered"}
      PROVE  \E e \in Listing' : e.client = c
  <2>1. stayed' \subseteq stayed /\ \A e \in Listing \ Listing' : e.client \notin stayed'
    BY <1>6, WalkSeesFacts
  <2>2. PICK e \in Listing : e.client = c
    BY <1>1, <1>6, <2>1
  <2>3. e \in Listing'
    BY <2>1, <2>2
  <2> QED
    BY <2>2, <2>3
<1>7. ASSUME ConsumerWrites \/ UpdaterWrites, pc \notin {"query", "answered"}
      PROVE  FALSE
  <2>1. pc' = pc
    BY <1>7, WriteFacts DEF WalkSees, walkVars
  <2> QED
    BY <1>7, <2>1
<1>8. CASE UNCHANGED listingVars
  <2>1. UNCHANGED <<pc, walk, stayed, connections>>
    BY <1>8 DEF listingVars, walkVars
  <2>2. Listing' = Listing
    BY <2>1 DEF Listing
  <2> QED
    BY <1>1, <2>1, <2>2
<1> QED
  BY <1>2, <1>3, <1>4, <1>5, <1>6, <1>7, <1>8 DEF ListingNext

\* The counts of a walk and the sets they are about.
LEMMA MissFacts ==
    ASSUME TypeInv
    PROVE  /\ stayed \subseteq ClientID /\ stayed \ listed \in SUBSET ClientID
           /\ gone \in Nat /\ come \in Nat /\ count \in Nat
           /\ Cardinality(stayed \ listed) \in Nat
           /\ \A S, k : Cardinality(Before(S, stayed \ listed, k)) \in Nat
           /\ \A S, k : Cardinality(Behind(S, stayed \ listed, k)) \in Nat
<1>1. stayed \subseteq ClientID /\ gone \in Nat /\ come \in Nat /\ count \in Nat
  BY DEF TypeInv, ListingTypeOK
<1>2. stayed \ listed \in SUBSET ClientID
  BY <1>1
<1>3. ASSUME NEW S, NEW k
      PROVE  Before(S, stayed \ listed, k) \in SUBSET ClientID /\ Behind(S, stayed \ listed, k) \in SUBSET ClientID
  BY <1>2 DEF Before, Behind
<1> QED
  BY <1>1, <1>2, <1>3, ClientsFinite

Misses == ForwardMisses /\ BackwardMisses /\ LastPageMisses /\ WalkMissesOnlyShifted

\* A walk that begins has missed nothing.
LEMMA RequestMisses ==
    ASSUME TypeInv, NEW w \in ListRequest, Request(w)
    PROVE  Misses'
<1>1. /\ walk' = w /\ pc = "idle" /\ pc' \in {"refused", "query"} /\ connections' = connections
      /\ w.way \in {"forward", "toFirst", "toLast"}
      /\ w.offset \in Int /\ w.limit \in Int /\ w.scope \in Scope \cup {Everything}
      /\ pc' = "query" => w.offset >= 0 /\ w.limit >= 0
      /\ stayed' \subseteq ClientID
      /\ listed' = listed /\ gone' = gone /\ come' = come
  BY RequestFacts
<1>2. listed = {} /\ gone = 0 /\ come = 0
  BY <1>1 DEF TypeInv, WalkKept
<1> DEFINE S == Selected(connections, w.scope)
           D == stayed' \ listed'
<1>3. Listing' = S
  BY <1>1 DEF Listing
<1>4. S \in SUBSET Entry /\ IsFiniteSet(S)
  <2>1. connections \in Tables(Row)
    BY DEF TypeInv, ListingTypeOK, ConnectionsTypeOK, Tables
  <2> QED
    BY <1>1, <2>1, SelectedFacts
<1>5. \A c \in D : \E e \in S : /\ e.client = c
                                /\ w.way = "forward" => Rank(S, e) >= w.offset
                                /\ w.way = "toFirst" => Rank(S, e) < w.offset + w.limit
  BY RequestFacts
<1>6. D \in SUBSET ClientID
  BY <1>1
<1> HIDE DEF S, D
<1>7. ASSUME pc' = "query", w.way = "forward"
      PROVE  Cardinality(Before(S, D, w.offset)) = 0
  <2>1. w.offset \in Nat
    BY <1>1, <1>7
  <2>2. \A c \in D : \E e \in S : e.client = c /\ Rank(S, e) >= w.offset
    BY <1>5, <1>7
  <2> QED
    BY <1>4, <1>6, <2>1, <2>2, EndsOfList
<1>8. ASSUME pc' = "query", w.way = "toFirst"
      PROVE  Cardinality(Behind(S, D, w.offset + w.limit)) = 0
  <2>1. w.offset + w.limit \in Nat
    BY <1>1, <1>8
  <2>2. \A c \in D : \E e \in S : e.client = c /\ Rank(S, e) < w.offset + w.limit
    BY <1>5, <1>8
  <2> QED
    BY <1>4, <1>6, <2>1, <2>2, EndsOfList
<1>9. ForwardMisses'
  BY <1>1, <1>2, <1>3, <1>7 DEF ForwardMisses, D
<1>10. BackwardMisses'
  BY <1>1, <1>2, <1>3, <1>8 DEF BackwardMisses, D
<1>11. LastPageMisses' /\ WalkMissesOnlyShifted'
  BY <1>1 DEF LastPageMisses, WalkMissesOnlyShifted
<1> QED
  BY <1>9, <1>10, <1>11 DEF Misses

\* A page lists the clients of its positions.
LEMMA QueryMisses ==
    ASSUME TypeInv, TypeInv', StayedPresent, Misses, Query \/ QueryInterrupted \/ QueryFails
    PROVE  Misses'
<1>1. pc = "query" /\ pc' \in {"answered", "failed"} /\ walk' = walk
  BY QueryFacts
<1>2. WalkMissesOnlyShifted'
  BY <1>1 DEF WalkMissesOnlyShifted
<1>3. CASE pc' = "failed" \/ ~Trusted'
  BY <1>2, <1>3 DEF Misses, ForwardMisses, BackwardMisses, LastPageMisses
<1>4. CASE pc' = "answered" /\ Trusted'
  <2>1. Query /\ walk # NoWalk /\ walk.limit > 0
    BY <1>1, <1>4, QueryFacts DEF Trusted
  <2>2. /\ Listing' = Listing
        /\ stayed' = stayed /\ gone' = gone /\ come' = come /\ cut' = cut
        /\ count' = IF walk.offset < Cardinality(Listing) THEN Cardinality(Listing) ELSE 0
        /\ listed \subseteq listed'
        /\ walk.way # "toLast" =>
             \A e \in Listing : Rank(Listing, e) >= walk.offset /\ Rank(Listing, e) < walk.offset + walk.limit
               => e.client \in listed'
    BY <2>1, AnswerFacts
  <2>3. Trusted
    BY <1>4, <2>1, <2>2 DEF Trusted
  <2> DEFINE S == Listing
             C == stayed \ listed
             D == stayed \ listed'
             o == walk.offset
             l == walk.limit
  <2>4. /\ o \in Nat /\ l \in Nat /\ S \in SUBSET Entry /\ IsFiniteSet(S) /\ Cardinality(S) \in Nat
        /\ walk.way \in {"forward", "toFirst", "toLast", "backward"}
    BY <1>1, WalkFacts
  <2>5. C \in SUBSET ClientID /\ D \in SUBSET C /\ gone \in Nat /\ come \in Nat
    BY <2>2, MissFacts
  <2>6. /\ Cardinality(Before(S, C, o)) \in Nat /\ Cardinality(Before(S, D, o + l)) \in Nat
        /\ Cardinality(Behind(S, C, o + l)) \in Nat /\ Cardinality(Behind(S, D, o)) \in Nat
    <3>1. Before(S, C, o) \in SUBSET ClientID /\ Behind(S, C, o + l) \in SUBSET ClientID
      BY <2>5 DEF Before, Behind
    <3>2. Before(S, D, o + l) \in SUBSET ClientID /\ Behind(S, D, o) \in SUBSET ClientID
      BY <2>5 DEF Before, Behind
    <3> QED
      BY <3>1, <3>2, ClientsFinite
  <2>7. /\ walk.way = "forward" => Cardinality(Before(S, C, o)) <= gone
        /\ walk.way \in {"toFirst", "backward"} => Cardinality(Behind(S, C, o + l)) <= come
    BY <1>1, <2>3 DEF Misses, ForwardMisses, BackwardMisses
  <2>8. ASSUME walk.way # "toLast"
        PROVE  /\ Cardinality(Before(S, D, o + l)) <= Cardinality(Before(S, C, o))
               /\ Cardinality(Behind(S, D, o)) <= Cardinality(Behind(S, C, o + l))
    <3>1. \A e \in S : Rank(S, e) >= o /\ Rank(S, e) < o + l => e.client \notin D
      BY <2>2, <2>8
    <3> HIDE DEF S, C, D, o, l
    <3> QED
      BY <2>4, <2>5, <3>1, PagePassed
  <2>9. \A c \in stayed : \E e \in S : e.client = c
    BY <1>1 DEF StayedPresent
  <2>10. ForwardMisses'
    <3> SUFFICES ASSUME walk.way = "forward"
                 PROVE  /\ Cardinality(Before(S, D, o + l)) <= gone
                        /\ count' <= o + l => Cardinality(D) <= gone
      BY <1>1, <1>4, <2>2 DEF ForwardMisses
    <3>1. Cardinality(Before(S, D, o + l)) <= gone
      <4> HIDE DEF S, C, D, o, l
      <4> QED
        BY <2>5, <2>6, <2>7, <2>8
    <3>2. count' <= o + l => Cardinality(S) <= o + l
      <4> DEFINE n == Cardinality(S)
      <4>1. n \in Nat /\ count' = IF o < n THEN n ELSE 0
        BY <2>2, <2>4
      <4> HIDE DEF n, o, l
      <4>2. count' <= o + l => n <= o + l
        BY <2>4, <4>1
      <4> QED
        BY <4>2 DEF n
    <3>3. Cardinality(S) <= o + l => Before(S, D, o + l) = D
      <4>1. o + l \in Nat /\ D \in SUBSET ClientID
        BY <2>4, <2>5
      <4> HIDE DEF S, D, o, l
      <4> QED
        BY <2>4, <4>1, EndsOfList
    <3> HIDE DEF S, D, o, l
    <3> QED
      BY <3>1, <3>2, <3>3
  <2>11. BackwardMisses'
    <3> SUFFICES ASSUME walk.way \in {"toFirst", "backward"}
                 PROVE  Cardinality(Behind(S, D, o)) <= come
      BY <1>1, <1>4, <2>2 DEF BackwardMisses
    <3> HIDE DEF S, C, D, o, l
    <3> QED
      BY <2>5, <2>6, <2>7, <2>8
  <2>12. LastPageMisses'
    <3> SUFFICES ASSUME walk.way = "toLast"
                 PROVE  /\ count' > 0 => Cardinality(Behind(S, D, count')) <= come
                        /\ count' = 0 /\ o = 0 => stayed = {}
      BY <1>1, <1>4, <2>2 DEF LastPageMisses
    <3>1. ASSUME count' > 0
          PROVE  Cardinality(Behind(S, D, count')) <= come
      <4>1. count' = Cardinality(S) /\ D \in SUBSET ClientID
        BY <2>2, <2>5, <3>1
      <4>2. \A c \in D : \E e \in S : e.client = c /\ Rank(S, e) < Cardinality(S)
        BY <2>4, <2>9, RankFacts
      <4> HIDE DEF S, D
      <4>3. Cardinality(Behind(S, D, Cardinality(S))) = 0
        BY <2>4, <4>1, <4>2, EndsOfList
      <4> QED
        BY <2>5, <4>1, <4>3
    <3>2. ASSUME count' = 0, o = 0
          PROVE  stayed = {}
      <4> DEFINE n == Cardinality(S)
      <4>1. n \in Nat /\ count' = IF o < n THEN n ELSE 0
        BY <2>2, <2>4
      <4> HIDE DEF n, o
      <4>2. n = 0
        BY <3>2, <4>1
      <4>3. S = {}
        BY <2>4, <4>2, FS_EmptySet DEF n
      <4> QED
        BY <2>9, <4>3
    <3> QED
      BY <3>1, <3>2
  <2> QED
    BY <1>2, <2>10, <2>11, <2>12 DEF Misses
<1> QED
  BY <1>1, <1>3, <1>4

\* Links lead from a page to the one next to it, or one that overlaps with it.
LEMMA FollowMisses ==
    ASSUME TypeInv, TypeInv', Misses, FollowNext \/ FollowLast \/ FollowPrev
    PROVE  Misses'
<1>1. /\ pc = "answered" /\ pc' = "query" /\ walk'.offset \in Nat
      /\ walk'.scope = walk.scope /\ walk'.limit = walk.limit
      /\ UNCHANGED <<connections, count, listed, stayed, gone, come, cut, writes>>
  BY FollowFacts
<1>2. LastPageMisses' /\ WalkMissesOnlyShifted'
  BY <1>1 DEF LastPageMisses, WalkMissesOnlyShifted
<1>3. CASE ~Trusted'
  BY <1>2, <1>3 DEF Misses, ForwardMisses, BackwardMisses
<1>4. CASE Trusted'
  <2> DEFINE S == Listing
             C == stayed \ listed
             o == walk.offset
             l == walk.limit
             p == walk'.offset
  <2>1. /\ o \in Nat /\ l \in Nat /\ S \in SUBSET Entry /\ IsFiniteSet(S)
        /\ walk # NoWalk
    BY <1>1, WalkFacts
  <2>2. Listing' = Listing
    BY <1>1 DEF Listing
  <2>3. Trusted /\ l > 0
    BY <1>1, <1>4, <2>1 DEF Trusted
  <2>4. C \in SUBSET ClientID /\ come \in Nat /\ count \in Nat
        /\ \A k : Cardinality(Behind(S, C, k)) \in Nat
    BY MissFacts
  <2>5. ASSUME NEW k \in Nat, k <= p + l, Cardinality(Behind(S, C, k)) <= come
        PROVE  Cardinality(Behind(S, C, p + l)) <= come
    <3>1. p + l \in Nat
      BY <1>1, <2>1
    <3> HIDE DEF S, C, l, p
    <3>2. Cardinality(Behind(S, C, p + l)) <= Cardinality(Behind(S, C, k))
      BY <2>1, <2>4, <2>5, <3>1, BehindLater
    <3>3. Cardinality(Behind(S, C, p + l)) \in Nat /\ Cardinality(Behind(S, C, k)) \in Nat
      BY <2>4
    <3> QED
      BY <2>4, <2>5, <3>2, <3>3
  <2>6. CASE FollowNext
    <3>1. walk.way = "forward" /\ walk'.way = "forward" /\ p = o + l
      BY <2>6, FollowFacts
    <3>2. Cardinality(Before(S, C, o + l)) <= gone
      BY <1>1, <2>3, <3>1 DEF Misses, ForwardMisses
    <3>3. ForwardMisses'
      BY <1>1, <2>2, <3>1, <3>2 DEF ForwardMisses
    <3>4. BackwardMisses'
      BY <3>1 DEF BackwardMisses
    <3> QED
      BY <1>2, <3>3, <3>4 DEF Misses
  <2>7. ASSUME walk'.way = "backward", Cardinality(Behind(S, C, p + l)) <= come
        PROVE  Misses'
    <3>1. ForwardMisses'
      BY <2>7 DEF ForwardMisses
    <3>2. BackwardMisses'
      BY <1>1, <2>2, <2>7 DEF BackwardMisses
    <3> QED
      BY <1>2, <3>1, <3>2 DEF Misses
  <2>8. CASE FollowLast
    <3>1. walk.way = "toLast" /\ walk'.way = "backward" /\ count > 0 /\ p = LastOffset(count, l)
      BY <2>8, FollowFacts
    <3>2. Cardinality(Behind(S, C, count)) <= come
      BY <1>1, <2>3, <3>1 DEF Misses, LastPageMisses
    <3>3. count <= p + l
      <4>1. p \in Nat /\ p + l >= count
        BY <1>1, <2>1, <2>3, <2>4, <3>1, LastOffsetFacts
      <4> QED
        BY <2>1, <2>4, <4>1
    <3> QED
      BY <2>4, <2>5, <2>7, <3>1, <3>2, <3>3
  <2>9. CASE FollowPrev
    <3>1. walk.way \in {"toFirst", "backward"} /\ walk'.way = "backward" /\ p = PrevOffset(walk)
      BY <2>9, FollowFacts
    <3>2. Cardinality(Behind(S, C, o)) <= come
      BY <1>1, <2>3, <3>1 DEF Misses, BackwardMisses
    <3>3. o <= p + l
      BY <2>1, <3>1 DEF PrevOffset
    <3> QED
      BY <2>1, <2>5, <2>7, <3>1, <3>2, <3>3
  <2> QED
    BY <2>6, <2>8, <2>9
<1> QED
  BY <1>3, <1>4

\* A walk ends at an end of the list.
LEMMA FinishMisses ==
    ASSUME TypeInv, Misses, Finish
    PROVE  Misses'
<1>1. /\ pc = "answered" /\ pc' \in {"stranded", "complete"}
      /\ UNCHANGED <<connections, walk, count, listed, stayed, gone, come, cut, writes>>
  BY DEF Finish
<1>2. ForwardMisses' /\ BackwardMisses' /\ LastPageMisses'
  BY <1>1 DEF ForwardMisses, BackwardMisses, LastPageMisses
<1>3. ASSUME pc' = "complete", Trusted'
      PROVE  Cardinality(stayed \ listed) <= IF walk.way = "forward" THEN gone ELSE come
  <2>1. Trusted
    BY <1>1, <1>3 DEF Trusted
  <2>2. /\ walk.offset \in Nat /\ walk.limit \in Nat /\ walk.way \in {"forward", "toFirst", "toLast", "backward"}
        /\ Listing \in SUBSET Entry /\ IsFiniteSet(Listing)
    BY <1>1, WalkFacts
  <2>3. count \in Nat /\ gone \in Nat /\ come \in Nat /\ stayed \ listed \in SUBSET ClientID
    BY MissFacts
  <2>4. CASE walk.way = "forward"
    <3>1. ~(walk.offset + walk.limit < count)
      BY <2>4 DEF Finish, HasNext
    <3>2. count <= walk.offset + walk.limit
      BY <2>2, <2>3, <3>1
    <3> QED
      BY <1>1, <2>1, <2>4, <3>2 DEF Misses, ForwardMisses
  <2>5. walk.way # "forward" => walk.offset = 0
    <3>1. walk.way # "forward" => ~(walk.offset > 0)
      BY <1>3 DEF Finish
    <3> QED
      BY <2>2, <3>1
  <2>6. CASE walk.way = "toLast"
    <3>1. count = 0
      BY <2>6 DEF Finish
    <3>2. stayed = {}
      BY <1>1, <2>1, <2>5, <2>6, <3>1 DEF Misses, LastPageMisses
    <3>3. Cardinality(stayed \ listed) = 0
      BY <3>2, FS_EmptySet
    <3> QED
      BY <2>3, <2>6, <3>3
  <2>7. CASE walk.way \in {"toFirst", "backward"}
    <3>1. Cardinality(Behind(Listing, stayed \ listed, 0)) <= come
      BY <1>1, <2>1, <2>5, <2>7 DEF Misses, BackwardMisses
    <3>2. Behind(Listing, stayed \ listed, 0) = stayed \ listed
      BY <2>2, <2>3, EndsOfList
    <3> QED
      BY <2>7, <3>1, <3>2
  <2> QED
    BY <2>2, <2>4, <2>6, <2>7
<1>4. WalkMissesOnlyShifted'
  BY <1>1, <1>3 DEF WalkMissesOnlyShifted
<1> QED
  BY <1>2, <1>4 DEF Misses

\* A write shifts as many clients across the caller's position as rows left or came.
LEMMA WriteMisses ==
    ASSUME TypeInv, TypeInv', Misses, ConsumerWrites \/ UpdaterWrites, pc \in {"query", "answered"}
    PROVE  Misses'
<1> DEFINE S == Listing
           T == Listing'
           C == stayed \ listed
           D == stayed' \ listed
           o == walk.offset
           l == walk.limit
           left == Cardinality(S \ T)
           new == Cardinality(T \ S)
<1>1. /\ T \in SUBSET Entry /\ IsFiniteSet(T) /\ left \in Nat /\ new \in Nat
      /\ gone' = gone + left /\ come' = come + new
      /\ stayed' \subseteq stayed
      /\ \A e \in S \ T : e.client \notin stayed'
      /\ pc' = pc /\ walk' = walk /\ count' = count /\ listed' = listed /\ cut' = cut
  BY WalkSeesFacts
<1>2. S \in SUBSET Entry /\ IsFiniteSet(S) /\ o \in Nat /\ l \in Nat
  BY WalkFacts
<1>3. /\ C \in SUBSET ClientID /\ gone \in Nat /\ come \in Nat /\ count \in Nat
      /\ Cardinality(C) \in Nat
      /\ \A k : Cardinality(Before(S, C, k)) \in Nat /\ Cardinality(Behind(S, C, k)) \in Nat
  BY MissFacts
<1>4. D \in SUBSET C /\ \A e \in S \ T : e.client \notin D
  BY <1>1
<1>5. D \in SUBSET ClientID
  BY <1>3, <1>4
<1>6. \A k : Cardinality(Before(T, D, k)) \in Nat /\ Cardinality(Behind(T, D, k)) \in Nat
  <2> SUFFICES ASSUME NEW k
               PROVE  Cardinality(Before(T, D, k)) \in Nat /\ Cardinality(Behind(T, D, k)) \in Nat
    OBVIOUS
  <2>1. Before(T, D, k) \in SUBSET ClientID /\ Behind(T, D, k) \in SUBSET ClientID
    BY <1>5 DEF Before, Behind
  <2> QED
    BY <2>1, ClientsFinite
<1>7. Cardinality(D) \in Nat /\ Cardinality(D) <= Cardinality(C)
  BY <1>3, <1>4, <1>5, ClientsFinite, FewerClients
<1>8. ASSUME NEW k \in Nat
      PROVE  /\ Cardinality(Before(S, C, k)) <= gone => Cardinality(Before(T, D, k)) <= gone + left
             /\ Cardinality(Behind(S, C, k)) <= come => Cardinality(Behind(T, D, k)) <= come + new
  <2> HIDE DEF S, T, C, D
  <2>1. /\ Cardinality(Before(T, D, k)) <= Cardinality(Before(S, C, k)) + Cardinality(S \ T)
        /\ Cardinality(Behind(T, D, k)) <= Cardinality(Behind(S, C, k)) + Cardinality(T \ S)
    BY <1>1, <1>2, <1>3, <1>4, BeforeShifts, BehindShifts
  <2>2. /\ Cardinality(Before(S, C, k)) \in Nat /\ Cardinality(Before(T, D, k)) \in Nat
        /\ Cardinality(Behind(S, C, k)) \in Nat /\ Cardinality(Behind(T, D, k)) \in Nat
    BY <1>3, <1>6
  <2> QED
    BY <1>1, <1>3, <2>1, <2>2
<1>9. o + l \in Nat
  BY <1>2
<1>10. WalkMissesOnlyShifted'
  BY <1>1 DEF WalkMissesOnlyShifted
<1>11. ASSUME Trusted'
       PROVE  Trusted
  BY <1>1, <1>11 DEF Trusted
<1>12. ForwardMisses'
  <2> SUFFICES ASSUME Trusted', walk.way = "forward"
               PROVE  /\ pc = "query" => Cardinality(Before(T, D, o)) <= gone + left
                      /\ pc = "answered" =>
                           /\ Cardinality(Before(T, D, o + l)) <= gone + left
                           /\ count <= o + l => Cardinality(D) <= gone + left
    BY <1>1 DEF ForwardMisses
  <2>1. /\ pc = "query" => Cardinality(Before(S, C, o)) <= gone
        /\ pc = "answered" =>
             /\ Cardinality(Before(S, C, o + l)) <= gone
             /\ count <= o + l => Cardinality(C) <= gone
    BY <1>11 DEF Misses, ForwardMisses
  <2> HIDE DEF S, T, C, D, o, l, left
  <2>2. Cardinality(C) <= gone => Cardinality(D) <= gone + left
    BY <1>1, <1>3, <1>7
  <2> QED
    BY <1>2, <1>8, <1>9, <2>1, <2>2
<1>13. BackwardMisses'
  <2> SUFFICES ASSUME Trusted', walk.way \in {"toFirst", "backward"}
               PROVE  /\ pc = "query" => Cardinality(Behind(T, D, o + l)) <= come + new
                      /\ pc = "answered" => Cardinality(Behind(T, D, o)) <= come + new
    BY <1>1 DEF BackwardMisses
  <2>1. /\ pc = "query" => Cardinality(Behind(S, C, o + l)) <= come
        /\ pc = "answered" => Cardinality(Behind(S, C, o)) <= come
    BY <1>11 DEF Misses, BackwardMisses
  <2> HIDE DEF S, T, C, D, o, l, new
  <2> QED
    BY <1>2, <1>8, <1>9, <2>1
<1>14. LastPageMisses'
  <2> SUFFICES ASSUME Trusted', walk.way = "toLast", pc = "answered"
               PROVE  /\ count > 0 => Cardinality(Behind(T, D, count)) <= come + new
                      /\ count = 0 /\ o = 0 => stayed' = {}
    BY <1>1 DEF LastPageMisses
  <2>1. /\ count > 0 => Cardinality(Behind(S, C, count)) <= come
        /\ count = 0 /\ o = 0 => stayed = {}
    BY <1>11 DEF Misses, LastPageMisses
  <2>2. stayed = {} => stayed' = {}
    BY <1>1
  <2> HIDE DEF S, T, C, D, o, new
  <2> QED
    BY <1>3, <1>8, <2>1, <2>2
<1> QED
  BY <1>10, <1>12, <1>13, <1>14 DEF Misses

\* Every step keeps what a walk misses within its bound.
LEMMA MissStep ==
    ASSUME TypeInv, TypeInv', StayedPresent, Misses, [ListingNext]_listingVars
    PROVE  Misses'
<1>1. ASSUME NEW w \in ListRequest, Request(w)
      PROVE  Misses'
  BY <1>1, RequestMisses
<1>2. CASE Query \/ QueryInterrupted \/ QueryFails
  BY <1>2, QueryMisses
<1>3. CASE FollowNext \/ FollowLast \/ FollowPrev
  BY <1>3, FollowMisses
<1>4. CASE Finish
  BY <1>4, FinishMisses
<1>5. CASE Close
  <2>1. pc' = "idle"
    BY <1>5 DEF Close
  <2> QED
    BY <2>1 DEF Misses, ForwardMisses, BackwardMisses, LastPageMisses, WalkMissesOnlyShifted
<1>6. CASE (ConsumerWrites \/ UpdaterWrites) /\ pc \in {"query", "answered"}
  BY <1>6, WriteMisses
<1>7. CASE (ConsumerWrites \/ UpdaterWrites) /\ pc \notin {"query", "answered"}
  <2>1. UNCHANGED walkVars
    BY <1>7, WriteFacts DEF WalkSees
  <2>2. /\ pc' = pc /\ walk' = walk /\ listed' = listed /\ stayed' = stayed
        /\ gone' = gone /\ come' = come
    BY <2>1 DEF walkVars
  <2>3. cut' = cut
    BY <2>1, Zenon DEF walkVars
  <2>4. ForwardMisses' /\ BackwardMisses' /\ LastPageMisses'
    BY <1>7, <2>2 DEF ForwardMisses, BackwardMisses, LastPageMisses
  <2>5. Trusted' <=> Trusted
    BY <2>2, <2>3 DEF Trusted
  <2>6. WalkMissesOnlyShifted'
    BY <2>2, <2>5 DEF Misses, WalkMissesOnlyShifted
  <2> QED
    BY <2>4, <2>6 DEF Misses
<1>8. CASE UNCHANGED listingVars
  <2>1. /\ pc' = pc /\ walk' = walk /\ listed' = listed /\ stayed' = stayed /\ count' = count
        /\ gone' = gone /\ come' = come /\ connections' = connections
    BY <1>8 DEF listingVars, walkVars
  <2>2. cut' = cut
    BY <1>8, Zenon DEF listingVars, walkVars
  <2>3. Listing' = Listing
    BY <2>1 DEF Listing
  <2>4. Trusted' <=> Trusted
    BY <2>1, <2>2 DEF Trusted
  <2>5. ForwardMisses'
    BY <2>1, <2>3, <2>4 DEF Misses, ForwardMisses
  <2>6. BackwardMisses'
    BY <2>1, <2>3, <2>4 DEF Misses, BackwardMisses
  <2>7. LastPageMisses'
    BY <2>1, <2>3, <2>4 DEF Misses, LastPageMisses
  <2>8. WalkMissesOnlyShifted'
    BY <2>1, <2>4 DEF Misses, WalkMissesOnlyShifted
  <2> QED
    BY <2>5, <2>6, <2>7, <2>8 DEF Misses
<1> QED
  BY <1>1, <1>2, <1>3, <1>4, <1>5, <1>6, <1>7, <1>8 DEF ListingNext

\* Every page is a query of its own, and yet a caller who follows the next links misses
\* at most one client that was there all the time for every row that left the list, and
\* one who follows the previous links at most one for every row that came into it,
\* whatever was written in between (Ordered, buildNavigationLinks).
THEOREM WalksMissOnlyShifted == ListingSpec => []WalkMissesOnlyShifted
<1>1. ListingInit => TypeInv /\ StayedPresent /\ Misses
  <2>1. ListingInit => pc = "idle"
    BY DEF ListingInit
  <2>2. pc = "idle" => StayedPresent /\ Misses
    BY DEF StayedPresent, Misses, ForwardMisses, BackwardMisses, LastPageMisses, WalkMissesOnlyShifted
  <2> QED
    BY <2>1, <2>2, TypeInit
<1>2. TypeInv /\ StayedPresent /\ Misses /\ [ListingNext]_listingVars
        => TypeInv' /\ StayedPresent' /\ Misses'
  BY TypeStep, PresentStep, MissStep
<1>3. Misses => WalkMissesOnlyShifted
  BY DEF Misses
<1> QED
  BY <1>1, <1>2, <1>3, PTL DEF ListingSpec
=============================================================================
