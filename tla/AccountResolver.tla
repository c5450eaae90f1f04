--------------------------- MODULE AccountResolver ---------------------------
(***************************************************************************)
(* The account id resolver of one process: MapClientIdToAccountId as it is *)
(* answered by the auth gateway (BOPAccountIdResolver) or from a           *)
(* configuration file (ConfigurableAccountIdResolver), either of them with *)
(* or without the cache of ExpirableCachedAccountIdResolver in front.      *)
(*                                                                         *)
(* ConnectedClientRecorder lets every lookup of its callers succeed or     *)
(* fail anew.  This module has the time that passes: an answer of the      *)
(* cache, or of a slow gateway, is about the past.                         *)
(*                                                                         *)
(* Abstractions.  Account and identity of an answer travel with its org    *)
(* id, and an identity without auth_type is given one.  The errors of a    *)
(* lookup are all alike.  Time is counted in ticks; the processes call the *)
(* resolver from one goroutine, so there is one call at a time.            *)
(***************************************************************************)
EXTENDS Naturals, FiniteSets

CONSTANTS
    ClientID,
    OrgID,             \* the tenants, as non-empty org ids
    NoOrg,             \* the empty org id
    DefaultOrg,        \* of the configuration, for clients the file does not name
    Error,             \* the lookup failed
    Pending,           \* no answer yet
    Impl,              \* the implementations a process may be configured with
    CacheSize,         \* entries of the cache (1000 in the code)
    ValidTTL,          \* life of a cache entry in ticks (10 minutes in the code)
    ErrorTTL,          \* for how long a cached error is used (10 seconds in the code)
    GatewayTimeout,    \* limit of a call to the gateway (15 seconds in the code)
    MaxDisturbances    \* bound: changes at the gateway, failed calls, restarts

Outcome == OrgID \cup {NoOrg, Error}

\* Bound: the history does not tell ages from here on apart.
Horizon == ValidTTL + GatewayTimeout + 1

ASSUME ResolverAssumption ==
    /\ DefaultOrg \in OrgID \cup {NoOrg}
    /\ NoOrg \notin OrgID
    /\ Error \notin OrgID \cup {NoOrg}
    /\ Pending \notin Outcome \cup ClientID
    /\ Impl \subseteq {"config_file_based", "config_file_based_with_cache",
                       "bop", "bop_with_cache"}
    /\ CacheSize \in Nat \ {0}
    /\ ValidTTL \in Nat
    /\ ErrorTTL \in Nat
    /\ GatewayTimeout \in Nat
    /\ MaxDisturbances \in Nat

VARIABLES
    impl,          \* the configured implementation
    directory,     \* what the gateway, or the loaded file, has on each client
    cache,         \* the cached results: a partial function of the clients
    call,          \* the call to the base resolver that is under way
    answer,        \* the latest answer, and how old it was when it was given
    since,         \* history: ticks since an outcome was last true of a client
    disturbances   \* number of disturbances so far

resolverVars == <<impl, directory, cache, call, answer, since, disturbances>>

Cached == impl \in {"config_file_based_with_cache", "bop_with_cache"}

UsesGateway == impl \in {"bop", "bop_with_cache"}

CachedResult == [outcome : Outcome, age : 0..ValidTTL]

\* outcome is Pending until the base resolver has answered.
Call == [client : ClientID, outcome : Outcome \cup {Pending}, elapsed : 0..GatewayTimeout]

NoCall == [client |-> Pending, outcome |-> Pending, elapsed |-> 0]

InCall == call.client # Pending

Answered == [client : ClientID, outcome : Outcome, age : 0..Horizon]

NoAnswer == [client |-> Pending, outcome |-> Pending, age |-> 0]

\* The resolver's state is well-formed; in particular the cache keeps to its
\* size, no entry outlives its TTL and no call its time limit.
ResolverTypeOK ==
    /\ impl \in Impl
    /\ directory \in [ClientID -> Outcome]
    /\ DOMAIN cache \subseteq ClientID
    /\ Cardinality(DOMAIN cache) <= CacheSize
    /\ \A c \in DOMAIN cache : cache[c] \in CachedResult
    /\ call \in Call \cup {NoCall}
    /\ answer \in Answered \cup {NoAnswer}
    /\ since \in [ClientID -> [Outcome -> 0..Horizon]]
    /\ disturbances \in 0..MaxDisturbances

-----------------------------------------------------------------------------
(* The base resolvers *)

\* ConfigurableAccountIdResolver.MapClientIdToAccountId: an entry's org id goes
\* before its error, and what has neither gets the configured defaults.
Configured(entry) ==
    CASE entry.listed /\ entry.org_id # NoOrg -> entry.org_id
      [] entry.listed /\ entry.org_id = NoOrg /\ entry.error -> Error
      [] OTHER -> DefaultOrg

ConfigFile == [ClientID -> [listed : BOOLEAN, org_id : OrgID \cup {NoOrg}, error : BOOLEAN]]

\* init loads the file once; the gateway has what it has.
Directories(i) ==
    IF i \in {"bop", "bop_with_cache"}
    THEN [ClientID -> Outcome]
    ELSE {[c \in ClientID |-> Configured(file[c])] : file \in ConfigFile}

\* History: what is true in the directory d is of age 0.
Observe(s, d) == [c \in ClientID |-> [s[c] EXCEPT ![d[c]] = 0]]

ResolverInit ==
    /\ impl \in Impl
    /\ directory \in Directories(impl)
    /\ cache = << >>
    /\ call = NoCall
    /\ answer = NoAnswer
    /\ since = Observe([c \in ClientID |-> [o \in Outcome |-> Horizon]], directory)
    /\ disturbances = 0

-----------------------------------------------------------------------------
(* Time and the environment (external) *)

Older(age) == IF age < Horizon THEN age + 1 ELSE Horizon

Aged(o, age, truth) == IF o = truth THEN 0 ELSE Older(age)

\* Mutant: an entry stays in the cache until another one needs its place.
NeverExpires(entry) == FALSE

\* The expirable LRU does not return an entry whose TTL is over.
Expires(entry) == entry.age >= ValidTTL

Disturb ==
    /\ disturbances < MaxDisturbances
    /\ disturbances' = disturbances + 1

\* A tick passes.  A call to the gateway is cut off at its time limit; a look into
\* the loaded file takes no time.
Tick ==
    /\ InCall => UsesGateway /\ call.elapsed < GatewayTimeout
    /\ call' = IF InCall THEN [call EXCEPT !.elapsed = @ + 1] ELSE call
    /\ cache' = [c \in {d \in DOMAIN cache : ~Expires(cache[d])} |->
                   [cache[c] EXCEPT !.age = @ + 1]]
    /\ since' = [c \in ClientID |->
                   [o \in Outcome |-> Aged(o, since[c][o], directory[c])]]
    /\ UNCHANGED <<impl, directory, answer, disturbances>>

\* A client gets another tenant, becomes known or unknown to the gateway, or the
\* gateway fails for it and recovers.
GatewayChanges ==
    /\ UsesGateway
    /\ Disturb
    /\ \E c \in ClientID, o \in Outcome :
         /\ o # directory[c]
         /\ directory' = [directory EXCEPT ![c] = o]
         /\ since' = [since EXCEPT ![c][o] = 0]
    /\ UNCHANGED <<impl, cache, call, answer>>

\* The process starts again with its configuration, and with the file as it is
\* now.  (When the file cannot be loaded the process ends, and is started again.)
NewAccountIdResolver ==
    /\ Disturb
    /\ directory' \in IF UsesGateway THEN {directory} ELSE Directories(impl)
    /\ since' = Observe(since, directory')
    /\ cache' = << >>
    /\ call' = NoCall
    /\ UNCHANGED <<impl, answer>>

-----------------------------------------------------------------------------
(* MapClientIdToAccountId *)

\* MapClientIdToAccountId returns.
Answer(c, o) == answer' = [client |-> c, outcome |-> o, age |-> since[c][o]]

\* Mutant: a cached error is as good as a cached tenant.
UsableWhileCached(c) == Cached /\ c \in DOMAIN cache

\* An entry is used while the cache has it, an error only within errorTTL.
Usable(c) ==
    /\ Cached
    /\ c \in DOMAIN cache
    /\ cache[c].outcome = Error => cache[c].age < ErrorTTL

\* Mutant: a hit renews the entry.
CacheHitRenews(c) ==
    /\ ~InCall
    /\ Usable(c)
    /\ Answer(c, cache[c].outcome)
    /\ cache' = [cache EXCEPT ![c].age = 0]
    /\ UNCHANGED <<impl, directory, call, since, disturbances>>

CacheHit(c) ==
    /\ ~InCall
    /\ Usable(c)
    /\ Answer(c, cache[c].outcome)
    /\ UNCHANGED <<impl, directory, cache, call, since, disturbances>>

\* Nothing usable is cached: the base resolver is called.
CacheMiss(c) ==
    /\ ~InCall
    /\ ~Usable(c)
    /\ call' = [client |-> c, outcome |-> Pending, elapsed |-> 0]
    /\ UNCHANGED <<impl, directory, cache, answer, since, disturbances>>

\* The gateway, or the loaded file, has the answer.
BaseAnswers ==
    /\ InCall
    /\ call.outcome = Pending
    /\ call' = [call EXCEPT !.outcome = directory[call.client]]
    /\ UNCHANGED <<impl, directory, cache, answer, since, disturbances>>

\* The gateway cannot be reached in time, or its answer cannot be read.
GatewayCallFails ==
    /\ InCall
    /\ UsesGateway
    /\ Disturb
    /\ call' = [call EXCEPT !.outcome = Error]
    /\ since' = [since EXCEPT ![call.client][Error] = 0]
    /\ UNCHANGED <<impl, directory, cache, answer>>

\* LRU.Add: the entry is renewed; a full cache drops another one (external).
Add(c, o) ==
    LET with(kept) == [d \in kept \cup {c} |->
                         IF d = c THEN [outcome |-> o, age |-> 0] ELSE cache[d]]
    IN \/ /\ Cardinality(DOMAIN cache \cup {c}) <= CacheSize
          /\ cache' = with(DOMAIN cache)
       \/ /\ Cardinality(DOMAIN cache \cup {c}) > CacheSize
          /\ \E d \in DOMAIN cache \ {c} : cache' = with(DOMAIN cache \ {d})

\* The base resolver returns, with a result or an error, and either is cached.
BaseReturns ==
    /\ InCall
    /\ call.outcome # Pending
    /\ Answer(call.client, call.outcome)
    /\ IF Cached THEN Add(call.client, call.outcome) ELSE UNCHANGED cache
    /\ call' = NoCall
    /\ UNCHANGED <<impl, directory, since, disturbances>>

MapClientIdToAccountId(c) == CacheHit(c) \/ CacheMiss(c)

ResolverNext ==
    \/ Tick \/ GatewayChanges \/ NewAccountIdResolver
    \/ \E c \in ClientID : CacheHit(c) \/ CacheMiss(c)
    \/ BaseAnswers \/ GatewayCallFails \/ BaseReturns

ResolverSpec == ResolverInit /\ [][ResolverNext]_resolverVars

-----------------------------------------------------------------------------
(* Properties *)

\* How old an answer can be: the time of the call, and the life of its entry.
Allowed(o) ==
    CASE ~Cached -> GatewayTimeout
      [] Cached /\ o = Error -> GatewayTimeout + (IF ErrorTTL = 0 THEN 0 ELSE ErrorTTL - 1)
      [] Cached /\ o # Error -> GatewayTimeout + ValidTTL

\* No answer is older than the TTLs say: a tenant that is returned was the tenant
\* of this very client, and an error that is returned was a failure of its lookup,
\* not longer ago than entry and call may last, however often the entry was hit and
\* whatever was evicted (ExpirableCachedAccountIdResolver.MapClientIdToAccountId).
AnswersAreFresh == answer # NoAnswer => answer.age <= Allowed(answer.outcome)

\* Time passes, calls return, and the callers go on asking, for one client or
\* another.
ResolverFairness ==
    /\ WF_resolverVars(Tick)
    /\ WF_resolverVars(BaseAnswers)
    /\ WF_resolverVars(BaseReturns)
    /\ WF_resolverVars(\E c \in ClientID : MapClientIdToAccountId(c))

FairResolverSpec == ResolverSpec /\ ResolverFairness

\* The cache does not hold on to the past: once the gateway has settled on a tenant
\* for a client, or on refusing it, the callers that ask for it again and again are
\* told so for good, although every lookup of theirs may hit the cache (the TTLs of
\* NewExpirableCachedAccountIdResolver).
AnswersCatchUp ==
    \A c \in ClientID, o \in Outcome :
      []<>(answer.client = c) /\ <>[](directory[c] = o) =>
        <>[](answer.client = c => answer.outcome = o)
=============================================================================
