-------------------------- MODULE ConnectionListing --------------------------
(***************************************************************************)
(* The paginated lists of connections, and a caller that follows their     *)
(* links page by page while consumers and updaters change the table: every *)
(* page is a query of its own, with an OFFSET into the rows of its moment. *)
(***************************************************************************)
EXTENDS ConnectionTable, Integers, FiniteSets

CONSTANTS
    ClientRank,  \* the collation order of the client ids
    OrgRank,     \* and of the org ids
    Endpoint,    \* the lists that are asked for
    Scope,       \* the org ids that are asked for
    Everything,  \* the scope of the list of all connections
    MaxParam,    \* bound on the offsets and limits asked for
    MaxRows,     \* bound on the rows of the table
    MaxWrites    \* bound on the writes to the table during a walk

ASSUME ListingAssumption ==
    /\ IsFiniteSet(ClientID)
    /\ ClientRank \in [ClientID -> Nat]
    /\ \A c, d \in ClientID : ClientRank[c] = ClientRank[d] => c = d
    /\ OrgRank \in [OrgID -> Nat]
    /\ \A o, q \in OrgID : OrgRank[o] = OrgRank[q] => o = q
    /\ Endpoint \subseteq {"connection", "connection/id", "v2/connections"}
    /\ Scope \subseteq OrgID
    /\ Everything \notin OrgID \cup {NoOrg}
    /\ {MaxParam, MaxRows, MaxWrites} \subseteq Nat

VARIABLES
    pc,      \* what the caller waits for
    walk,    \* its request, and in which direction it follows the links
    count,   \* meta.count of the last answer
    listed,  \* the clients it was told of
    stayed,  \* history: the clients it asked for that have been there all the time
    gone,    \* history: how many rows left the list, or moved in it, since it began
    come,    \* history: how many rows came into the list, or moved in it
    cut,     \* history: was a page answered without rows that it should have had?
    writes   \* history: the writes to the table since it began

walkVars == <<pc, walk, count, listed, stayed, gone, come, cut, writes>>
listingVars == <<connections, walkVars>>

Param == -1 .. MaxParam

\* The first request of a walk: along the next links, along the previous links, or
\* to the last page and back.
ListRequest == {w \in [endpoint : Endpoint, scope : Scope \cup {Everything},
                       offset : Param, limit : Param, way : {"forward", "toFirst", "toLast"}] :
                  w.endpoint = "connection" <=> w.scope = Everything}

Walk == [endpoint : Endpoint, scope : Scope \cup {Everything}, offset : Int, limit : Param,
         way : {"forward", "toFirst", "toLast", "backward"}]

NoWalk == [endpoint |-> "none"]

ListingTypeOK ==
    /\ ConnectionsTypeOK
    /\ pc \in {"idle", "query", "answered", "complete", "stranded", "refused", "failed"}
    /\ walk \in Walk \cup {NoWalk}
    /\ pc \in {"query", "answered"} => walk.offset >= 0
    /\ count \in 0 .. MaxRows
    /\ listed \subseteq ClientID
    /\ stayed \subseteq ClientID
    /\ gone \in Nat
    /\ come \in Nat
    /\ cut \in BOOLEAN
    /\ writes \in 0 .. MaxWrites

ListingInit ==
    /\ ConnectionsInit
    /\ pc = "idle"
    /\ walk = NoWalk
    /\ count = 0
    /\ listed = {}
    /\ stayed = {}
    /\ gone = 0
    /\ come = 0
    /\ cut = FALSE
    /\ writes = 0

-----------------------------------------------------------------------------
(* The queries of NewSqlGetConnectionsByOrgID and NewGetAllConnections *)

Rows(t) == UNION {{[client |-> c, row |-> i, org |-> t[c][i].org_id] : i \in DOMAIN t[c]} : c \in ClientID}

\* The rows that the WHERE clause selects.
Selected(t, scope) ==
    {e \in Rows(t) : IF scope = Everything THEN e.org # NoOrg ELSE e.org = scope}

\* ORDER BY org_id, client_id.  The rows of one client are in no particular
\* order, which makes no difference to the answer.
Precedes(e, f) ==
    \/ OrgRank[e.org] < OrgRank[f.org]
    \/ e.org = f.org /\ ClientRank[e.client] < ClientRank[f.client]
    \/ e.org = f.org /\ e.client = f.client /\ e.row < f.row

\* The number of rows of a result that come before e.
Rank(rows, e) == Cardinality({f \in rows : Precedes(f, e)})

\* The result as a sequence: the i-th row is the one that i - 1 others precede.
Ordered(t, scope) ==
    LET rows == Selected(t, scope)
    IN  [i \in 1 .. Cardinality(rows) |-> CHOOSE e \in rows : Rank(rows, e) = i - 1]

\* OFFSET and LIMIT
Page(t, w) ==
    LET rows == Ordered(t, w.scope)
    IN  SubSeq(rows, w.offset + 1, IF w.offset + w.limit < Len(rows) THEN w.offset + w.limit ELSE Len(rows))

Clients(rows) == {rows[i].client : i \in DOMAIN rows}

\* Mutant: the total is counted by a query of its own.
TotalConnectionsCounted(t, w, rows) == Len(Ordered(t, w.scope))

\* COUNT(*) OVER() is a column of the page: without a row there is no total.
TotalConnections(t, w, rows) == IF rows = <<>> THEN 0 ELSE Len(Ordered(t, w.scope))

-----------------------------------------------------------------------------
(* buildNavigationLinks.  There are no links at all when the total is zero. *)

\* Mutant: a last page that is full is taken for one that is not.
LastOffsetBeyondEnd(total, limit) == (total \div limit) * limit

\* calculateOffsetOfLastPage, for a positive total.  With a limit of zero it multiplies
\* the integer of an infinite or undefined quotient by zero.
LastOffset(total, limit) == IF limit = 0 THEN 0 ELSE ((total - 1) \div limit) * limit

\* Mutant: the last row of the list is taken for the end of the page.
HasNextButLast(w, total) == w.offset + w.limit < total - 1

HasNext(w, total) == w.offset + w.limit < total

HasPrev(w, total) == total > 0 /\ w.offset > 0

\* Mutant: the offset is not kept from falling below zero.
PrevOffsetBelowZero(w) == w.offset - w.limit

PrevOffset(w) == IF w.offset < w.limit THEN 0 ELSE w.offset - w.limit

-----------------------------------------------------------------------------
(* A walk *)

\* getOffsetAndLimitFromQueryParams refuses negative values (and what is not a
\* number); the account of connection/id may be unknown to the tenant translator.
Request(w) ==
    /\ pc = "idle"
    /\ walk' = w
    /\ pc' \in IF w.limit < 0 \/ w.offset < 0 THEN {"refused"}
               ELSE IF w.endpoint = "connection/id" THEN {"refused", "query"} ELSE {"query"}
    /\ stayed' = LET rows == Ordered(connections, w.scope)
                     first == IF w.way = "forward" THEN w.offset + 1 ELSE 1
                     last == IF w.way = "toFirst" THEN w.offset + w.limit ELSE Len(rows)
                 IN  {rows[i].client : i \in DOMAIN rows \cap first .. last}
    /\ UNCHANGED <<connections, count, listed, gone, come, cut, writes>>

\* The handler answers with the page and its total.
Answer(rows, total) ==
    /\ pc' = "answered"
    /\ count' = total
    /\ listed' = IF walk.way = "toLast" THEN listed ELSE listed \cup Clients(rows)
    /\ UNCHANGED <<connections, walk, stayed, gone, come, writes>>

Query ==
    /\ pc = "query"
    /\ LET rows == Page(connections, walk)
       IN  Answer(rows, TotalConnections(connections, walk, rows))
    /\ UNCHANGED cut

\* The query times out or loses its connection while its rows are read: Next
\* returns false, Err is not asked, and the rows so far are the page.
QueryInterrupted ==
    /\ pc = "query"
    /\ \E k \in 0 .. Len(Page(connections, walk)) - 1 :
         LET rows == SubSeq(Page(connections, walk), 1, k)
         IN  Answer(rows, TotalConnections(connections, walk, rows))
    /\ cut' = TRUE

\* Mutant: the error is lost in the v2 API, too.
QueryFailsUnnoticed ==
    /\ pc = "query"
    /\ Answer(<<>>, 0)
    /\ cut' = (walk.endpoint # "v2/connections")

\* The query fails.  The v2 API answers with 500 (and appends an empty page to
\* the error); the management API throws the error away and answers with 200.
QueryFails ==
    /\ pc = "query"
    /\ \/ /\ walk.endpoint = "v2/connections"
          /\ pc' = "failed"
          /\ UNCHANGED <<connections, walk, count, listed, stayed, gone, come, cut, writes>>
       \/ /\ walk.endpoint # "v2/connections"
          /\ Answer(<<>>, 0)
          /\ cut' = TRUE

\* The caller follows a link of the answer.
Follow(offset, way) ==
    /\ pc' = "query"
    /\ walk' = [walk EXCEPT !.offset = offset, !.way = way]
    /\ UNCHANGED <<connections, count, listed, stayed, gone, come, cut, writes>>

FollowNext ==
    /\ pc = "answered" /\ walk.way = "forward"
    /\ HasNext(walk, count)
    /\ Follow(walk.offset + walk.limit, "forward")

FollowLast ==
    /\ pc = "answered" /\ walk.way = "toLast"
    /\ count > 0
    /\ Follow(LastOffset(count, walk.limit), "backward")

FollowPrev ==
    /\ pc = "answered" /\ walk.way \in {"toFirst", "backward"}
    /\ HasPrev(walk, count)
    /\ Follow(PrevOffset(walk), "backward")

\* There is no link to follow.  A caller on its way back that is not at the
\* beginning of the list is stranded.
Finish ==
    /\ pc = "answered"
    /\ CASE walk.way = "forward" -> ~HasNext(walk, count)
         [] walk.way = "toLast" -> count = 0
         [] walk.way \in {"toFirst", "backward"} -> ~HasPrev(walk, count)
    /\ pc' = IF walk.way # "forward" /\ walk.offset > 0 THEN "stranded" ELSE "complete"
    /\ UNCHANGED <<connections, walk, count, listed, stayed, gone, come, cut, writes>>

\* The caller may start again.
Close ==
    /\ pc \in {"complete", "stranded", "refused", "failed"}
    /\ pc' = "idle"
    /\ walk' = NoWalk
    /\ count' = 0
    /\ listed' = {}
    /\ stayed' = {}
    /\ gone' = 0
    /\ come' = 0
    /\ cut' = FALSE
    /\ writes' = 0
    /\ UNCHANGED connections

-----------------------------------------------------------------------------
(* The other processes at work on the table *)

WalkSees(t) ==
    IF pc \notin {"query", "answered"} THEN UNCHANGED walkVars
    ELSE LET before == Selected(connections, walk.scope)
             after == Selected(t, walk.scope)
         IN  /\ writes < MaxWrites
             /\ writes' = writes + 1
             /\ gone' = gone + Cardinality(before \ after)
             /\ come' = come + Cardinality(after \ before)
             /\ stayed' = stayed \ {e.client : e \in before \ after}
             /\ UNCHANGED <<pc, walk, count, listed, cut>>

\* The consumers: an upsert of the rows that its snapshot holds, and a delete.
ConsumerWrites ==
    \E m \in Message :
      /\ \/ /\ m.state = "online"
            /\ \E o \in OrgID \cup {NoOrg}, seen \in 0 .. Len(connections[m.client_id]) :
                 connections' = Register(connections, m.client_id, m, o, seen)
         \/ m.state = "offline" /\ connections' = Unregister(connections, m.client_id)
      /\ connections' # connections
      /\ Cardinality(Rows(connections')) <= MaxRows
      /\ WalkSees(connections')

\* The updaters: a tenant is found, or lost.
UpdaterWrites ==
    \E c \in ClientID :
      /\ \/ \E o \in OrgID : connections' = RecordSuccessfulTenantLookup(connections, c, o)
         \/ /\ \A i \in DOMAIN connections[c] :
                 connections[c][i].tenant_lookup_failure_count < MaxTenantLookupFailures
            /\ connections' = RecordFailedTenantLookup(connections, c)
      /\ connections' # connections
      /\ WalkSees(connections')

ListingNext ==
    \/ \E w \in ListRequest : Request(w)
    \/ Query
    \/ QueryInterrupted
    \/ QueryFails
    \/ FollowNext
    \/ FollowLast
    \/ FollowPrev
    \/ Finish
    \/ Close
    \/ ConsumerWrites
    \/ UpdaterWrites

ListingSpec == ListingInit /\ [][ListingNext]_listingVars

\* The caller follows its links to the end.  Nothing is assumed of the database: a
\* query is limited in time, but the Prepare before it is not.
ListingFairness == WF_listingVars(FollowNext \/ FollowLast \/ FollowPrev \/ Finish)

FairListingSpec == ListingSpec /\ ListingFairness

-----------------------------------------------------------------------------
(* Properties *)

Trusted == walk # NoWalk /\ walk.limit > 0 /\ ~cut

\* Pages are not cut from one snapshot, but the list is ordered and every total is
\* of its page's moment: a walk along the next links misses at most one client that
\* was there all the time for every row that left the list, and a walk along the
\* previous links, from the last page or any other, at most one for every row that
\* came into it (buildNavigationLinks).
WalkMissesOnlyShifted ==
    pc = "complete" /\ Trusted =>
      Cardinality(stayed \ listed) <= IF walk.way = "forward" THEN gone ELSE come

\* The last and previous links lead to pages that exist: a caller is left on an
\* empty page without links only when rows have left the list meanwhile.
StrandedOnlyByRemoval == pc = "stranded" /\ walk.way = "backward" /\ Trusted => gone > 0

\* A walk does not go round in circles, whatever limit it was started with: it ends,
\* or waits for the database for ever.  For a limit of zero the next link would lead
\* to the same page again; there is none because an empty page has no total.
EveryWalkEnds == []<>(pc \notin {"query", "answered"}) \/ <>[](pc = "query")

\* A complete walk with no changes of the table in between has the list of
\* connections available to the org id.
CompleteListing ==
    /\ pc = "complete" /\ walk.limit > 0 /\ walk.endpoint = "v2/connections"
    /\ gone = 0 /\ come = 0
    => stayed \subseteq listed

\* The total of an answer is the number of connections, whatever page it is about.
CountIsTotal ==
    pc = "answered" /\ writes = 0 /\ ~cut => count = Len(Ordered(connections, walk.scope))
=============================================================================
