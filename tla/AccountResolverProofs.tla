------------------------ MODULE AccountResolverProofs ------------------------
(***************************************************************************)
(* Theorems about AccountResolver, for every set of clients and tenants,   *)
(* every size of the cache, all TTLs and every time limit of the gateway.  *)
(***************************************************************************)
EXTENDS AccountResolver, FiniteSetTheorems, TLAPS

\* The type invariant without the bound on the size of the cache.
ResolverTypes ==
    /\ impl \in Impl
    /\ directory \in [ClientID -> Outcome]
    /\ DOMAIN cache \subseteq ClientID
    /\ \A c \in DOMAIN cache : cache[c] \in CachedResult
    /\ call \in Call \cup {NoCall}
    /\ answer \in Answered \cup {NoAnswer}
    /\ since \in [ClientID -> [Outcome -> 0..Horizon]]
    /\ disturbances \in 0..MaxDisturbances

CacheBounded == IsFiniteSet(DOMAIN cache) /\ Cardinality(DOMAIN cache) <= CacheSize

\* What is cached was true when its call was under way: the age of an entry starts
\* with the end of the call.
EntriesAreFresh ==
    \A c \in DOMAIN cache : since[c][cache[c].outcome] <= cache[c].age + GatewayTimeout

\* What a call is about to return was true while it was under way.
CallIsFresh ==
    InCall /\ call.outcome # Pending => since[call.client][call.outcome] <= call.elapsed

\* History: what the directory says now is of age 0.
TruthIsNow == \A c \in ClientID : since[c][directory[c]] = 0

ResolverInv ==
    /\ ResolverTypes
    /\ CacheBounded
    /\ TruthIsNow
    /\ EntriesAreFresh
    /\ CallIsFresh
    /\ AnswersAreFresh


\* The special values are no members of the sets they are used with.
LEMMA Constants ==
    /\ Pending \notin Outcome
    /\ Pending \notin ClientID
    /\ Error \in Outcome
    /\ GatewayTimeout \in Nat
    /\ ValidTTL \in Nat
    /\ Horizon \in Nat
    /\ Horizon = ValidTTL + GatewayTimeout + 1
    /\ NoOrg \in Outcome
  BY ResolverAssumption DEF Outcome, Horizon

\* A file that is loaded has an outcome for every client (init).
LEMMA DirectoriesType ==
    ASSUME NEW i
    PROVE  Directories(i) \subseteq [ClientID -> Outcome]
<1>1. \A e : Configured(e) \in {e.org_id, Error, DefaultOrg}
  BY DEF Configured
<1>2. \A file \in ConfigFile : \A c \in ClientID : Configured(file[c]) \in Outcome
  BY <1>1, ResolverAssumption DEF ConfigFile, Outcome
<1> QED
  BY <1>2 DEF Directories

\* Observing a directory keeps the history well-typed; what it says is of age 0.
LEMMA ObserveProperties ==
    ASSUME NEW s \in [ClientID -> [Outcome -> 0..Horizon]], NEW d \in [ClientID -> Outcome]
    PROVE  /\ Observe(s, d) \in [ClientID -> [Outcome -> 0..Horizon]]
           /\ \A c \in ClientID : Observe(s, d)[c][d[c]] = 0
<1>1. \A c \in ClientID : [s[c] EXCEPT ![d[c]] = 0] \in [Outcome -> 0..Horizon]
  BY Constants
<1>2. \A c \in ClientID : [s[c] EXCEPT ![d[c]] = 0][d[c]] = 0
  BY Constants
<1> QED
  BY <1>1, <1>2 DEF Observe

\* A resolver starts with an empty cache (NewAccountIdResolver).
LEMMA ResolverInvInit == ResolverInit => ResolverInv
<1> SUFFICES ASSUME ResolverInit PROVE ResolverInv
  OBVIOUS
<1>1. DOMAIN cache = {} /\ IsFiniteSet({}) /\ Cardinality({}) = 0
  BY FS_EmptySet DEF ResolverInit
<1>2. directory \in [ClientID -> Outcome]
  BY DirectoriesType DEF ResolverInit
<1>3. [c \in ClientID |-> [o \in Outcome |-> Horizon]] \in [ClientID -> [Outcome -> 0..Horizon]]
  BY Constants
<1>4. since \in [ClientID -> [Outcome -> 0..Horizon]] /\ TruthIsNow
  BY <1>2, <1>3, ObserveProperties DEF ResolverInit, TruthIsNow
<1>5. ResolverTypes
  <2>1. impl \in Impl /\ call = NoCall /\ answer = NoAnswer /\ disturbances = 0
    BY DEF ResolverInit
  <2>2. disturbances \in 0..MaxDisturbances
    BY <2>1, ResolverAssumption
  <2> QED
    BY <1>1, <1>2, <1>4, <2>1, <2>2 DEF ResolverTypes
<1>6. CacheBounded
  BY <1>1, ResolverAssumption DEF CacheBounded
<1>7. EntriesAreFresh /\ CallIsFresh /\ AnswersAreFresh
  BY <1>1 DEF ResolverInit, EntriesAreFresh, CallIsFresh, AnswersAreFresh, InCall, NoCall
<1> QED
  BY <1>4, <1>5, <1>6, <1>7 DEF ResolverInv

\* A tick makes entries, calls and the history older by one (Tick).
LEMMA TickStep ==
    ASSUME ResolverInv, Tick
    PROVE  ResolverInv'
<1> USE Constants DEF ResolverInv
<1> DEFINE kept == {d \in DOMAIN cache : ~Expires(cache[d])}
<1>1. /\ DOMAIN cache' = kept
      /\ \A c \in kept : cache'[c] = [cache[c] EXCEPT !.age = @ + 1]
  BY DEF Tick
<1>2. \A c \in kept : /\ c \in ClientID
                      /\ cache[c] \in CachedResult
                      /\ cache[c].age < ValidTTL
  BY DEF ResolverTypes, Expires, CachedResult
<1>3. \A c \in kept : /\ cache'[c] \in CachedResult
                      /\ cache'[c].outcome = cache[c].outcome
                      /\ cache'[c].age = cache[c].age + 1
  BY <1>1, <1>2 DEF CachedResult
<1>4. \A c \in ClientID, o \in Outcome :
        /\ since[c][o] \in 0..Horizon
        /\ since'[c][o] \in 0..Horizon
        /\ since'[c][o] <= since[c][o] + 1
  BY DEF Tick, ResolverTypes, Aged, Older
<1>5. since' \in [ClientID -> [Outcome -> 0..Horizon]]
  BY <1>4 DEF Tick
<1>6. call' \in Call \cup {NoCall}
  BY DEF Tick, ResolverTypes, Call, InCall, NoCall
<1>7. ResolverTypes'
  BY <1>1, <1>2, <1>3, <1>5, <1>6 DEF Tick, ResolverTypes
<1>8. CacheBounded'
  <2>1. kept \subseteq DOMAIN cache
    OBVIOUS
  <2>2. IsFiniteSet(kept) /\ Cardinality(kept) <= Cardinality(DOMAIN cache)
    BY <2>1, FS_Subset DEF CacheBounded
  <2>3. Cardinality(kept) \in Nat /\ Cardinality(DOMAIN cache) \in Nat
    BY <2>2, FS_CardinalityType DEF CacheBounded
  <2> QED
    BY <1>1, <2>2, <2>3, ResolverAssumption DEF CacheBounded
<1>9. EntriesAreFresh'
  <2> SUFFICES ASSUME NEW c \in kept
               PROVE  since'[c][cache'[c].outcome] <= cache'[c].age + GatewayTimeout
    BY <1>1 DEF EntriesAreFresh
  <2>1. cache[c].outcome \in Outcome /\ cache[c].age \in Nat /\ c \in ClientID
    BY <1>2 DEF CachedResult
  <2>2. since[c][cache[c].outcome] <= cache[c].age + GatewayTimeout
    BY DEF EntriesAreFresh
  <2>3. since'[c][cache[c].outcome] <= since[c][cache[c].outcome] + 1
    BY <1>4, <2>1
  <2>4. since[c][cache[c].outcome] \in Nat /\ since'[c][cache[c].outcome] \in Nat
    BY <1>4, <2>1
  <2> QED
    BY <1>3, <2>1, <2>2, <2>3, <2>4
<1>10. CallIsFresh'
  <2> SUFFICES ASSUME InCall', call'.outcome # Pending
               PROVE  since'[call'.client][call'.outcome] <= call'.elapsed
    BY DEF CallIsFresh
  <2>1. InCall /\ call \in Call
    BY DEF Tick, InCall, ResolverTypes, NoCall
  <2>2. call' = [call EXCEPT !.elapsed = @ + 1]
    BY <2>1 DEF Tick
  <2>3. /\ call'.client = call.client
        /\ call'.outcome = call.outcome
        /\ call'.elapsed = call.elapsed + 1
        /\ call.client \in ClientID
        /\ call.outcome \in Outcome
        /\ call.elapsed \in Nat
    BY <2>1, <2>2 DEF Call
  <2>4. since[call.client][call.outcome] <= call.elapsed
    BY <2>1, <2>3 DEF CallIsFresh
  <2>5. since'[call.client][call.outcome] <= since[call.client][call.outcome] + 1
    BY <1>4, <2>3
  <2>6. since[call.client][call.outcome] \in Nat /\ since'[call.client][call.outcome] \in Nat
    BY <1>4, <2>3
  <2> QED
    BY <2>3, <2>4, <2>5, <2>6
<1>11. AnswersAreFresh'
  BY DEF Tick, AnswersAreFresh, Allowed, Cached
<1>12. TruthIsNow'
  BY DEF Tick, TruthIsNow, ResolverTypes, Aged
<1> QED
  BY <1>7, <1>8, <1>9, <1>10, <1>11, <1>12

\* What does not get older stays fresh enough.
LEMMA FreshEntriesStay ==
    ASSUME ResolverTypes, EntriesAreFresh, cache' = cache,
           \A d \in ClientID, q \in Outcome :
             since[d][q] \in Nat /\ since'[d][q] \in Nat /\ since'[d][q] <= since[d][q]
    PROVE  EntriesAreFresh'
<1> SUFFICES ASSUME NEW c \in DOMAIN cache
             PROVE  since'[c][cache[c].outcome] <= cache[c].age + GatewayTimeout
  BY DEF EntriesAreFresh
<1>1. c \in ClientID /\ cache[c].outcome \in Outcome /\ cache[c].age \in Nat
  BY DEF ResolverTypes, CachedResult
<1>2. since[c][cache[c].outcome] <= cache[c].age + GatewayTimeout
  BY DEF EntriesAreFresh
<1> QED
  BY <1>1, <1>2, Constants

\* Likewise for the answer of a call.
LEMMA FreshCallStays ==
    ASSUME ResolverTypes, CallIsFresh, call' = call,
           \A d \in ClientID, q \in Outcome :
             since[d][q] \in Nat /\ since'[d][q] \in Nat /\ since'[d][q] <= since[d][q]
    PROVE  CallIsFresh'
<1> SUFFICES ASSUME InCall, call.outcome # Pending
             PROVE  since'[call.client][call.outcome] <= call.elapsed
  BY DEF CallIsFresh, InCall
<1>1. call.client \in ClientID /\ call.outcome \in Outcome /\ call.elapsed \in Nat
  BY Constants DEF ResolverTypes, Call, InCall, NoCall
<1>2. since[call.client][call.outcome] <= call.elapsed
  BY DEF CallIsFresh
<1> QED
  BY <1>1, <1>2

\* Outcomes that become true make the history younger (GatewayChanges).
LEMMA GatewayChangesStep ==
    ASSUME ResolverInv, GatewayChanges
    PROVE  ResolverInv'
<1> USE Constants DEF ResolverInv
<1>1. PICK c \in ClientID, o \in Outcome :
        /\ directory' = [directory EXCEPT ![c] = o]
        /\ since' = [since EXCEPT ![c][o] = 0]
  BY DEF GatewayChanges
<1>2. since' \in [ClientID -> [Outcome -> 0..Horizon]]
  BY <1>1 DEF ResolverTypes
<1>3. \A d \in ClientID, q \in Outcome :
        since[d][q] \in Nat /\ since'[d][q] \in Nat /\ since'[d][q] <= since[d][q]
  BY <1>1 DEF ResolverTypes
<1>4. ResolverTypes'
  BY <1>1, <1>2, ResolverAssumption DEF ResolverTypes, GatewayChanges, Disturb
<1>5. CacheBounded' /\ AnswersAreFresh'
  BY DEF GatewayChanges, CacheBounded, AnswersAreFresh, Allowed, Cached
<1>6. EntriesAreFresh'
  BY <1>3, FreshEntriesStay DEF GatewayChanges
<1>7. CallIsFresh'
  BY <1>3, FreshCallStays DEF GatewayChanges
<1>8. TruthIsNow'
  BY <1>1 DEF TruthIsNow, ResolverTypes
<1> QED
  BY <1>4, <1>5, <1>6, <1>7, <1>8

\* A restart empties the cache and forgets the call (NewAccountIdResolver).
LEMMA RestartStep ==
    ASSUME ResolverInv, NewAccountIdResolver
    PROVE  ResolverInv'
<1> USE Constants DEF ResolverInv
<1>1. DOMAIN cache' = {} /\ IsFiniteSet({}) /\ Cardinality({}) = 0
  BY FS_EmptySet DEF NewAccountIdResolver
<1>2. directory' \in [ClientID -> Outcome]
  BY DirectoriesType DEF NewAccountIdResolver, ResolverTypes
<1>3. since' \in [ClientID -> [Outcome -> 0..Horizon]] /\ TruthIsNow'
  <2>1. since' = Observe(since, directory') /\ since \in [ClientID -> [Outcome -> 0..Horizon]]
    BY DEF NewAccountIdResolver, ResolverTypes
  <2>2. /\ Observe(since, directory') \in [ClientID -> [Outcome -> 0..Horizon]]
        /\ \A c \in ClientID : Observe(since, directory')[c][directory'[c]] = 0
    BY <1>2, <2>1, ObserveProperties
  <2> QED
    BY <2>1, <2>2 DEF TruthIsNow
<1>4. ResolverTypes'
  <2>1. impl' = impl /\ call' = NoCall /\ answer' = answer
    BY DEF NewAccountIdResolver
  <2>2. disturbances' \in 0..MaxDisturbances
    BY ResolverAssumption DEF NewAccountIdResolver, Disturb, ResolverTypes
  <2> QED
    BY <1>1, <1>2, <1>3, <2>1, <2>2 DEF ResolverTypes
<1>5. CacheBounded'
  BY <1>1, ResolverAssumption DEF CacheBounded
<1>6. EntriesAreFresh' /\ CallIsFresh'
  BY <1>1 DEF NewAccountIdResolver, EntriesAreFresh, CallIsFresh, InCall, NoCall
<1>7. AnswersAreFresh'
  BY DEF NewAccountIdResolver, AnswersAreFresh, Allowed, Cached
<1> QED
  BY <1>3, <1>4, <1>5, <1>6, <1>7

\* A hit returns an entry as old as the cache lets it become (CacheHit).
LEMMA CacheHitStep ==
    ASSUME ResolverInv, NEW c \in ClientID, CacheHit(c)
    PROVE  ResolverInv'
<1> USE Constants DEF ResolverInv
<1>1. /\ c \in DOMAIN cache
      /\ cache[c] \in CachedResult
      /\ cache[c].outcome = Error => cache[c].age < ErrorTTL
      /\ Cached
      /\ answer' = [client |-> c, outcome |-> cache[c].outcome, age |-> since[c][cache[c].outcome]]
  BY DEF CacheHit, Usable, Answer, ResolverTypes
<1>2. /\ cache[c].outcome \in Outcome
      /\ cache[c].age \in 0..ValidTTL
      /\ since[c][cache[c].outcome] \in 0..Horizon
      /\ since[c][cache[c].outcome] <= cache[c].age + GatewayTimeout
  BY <1>1 DEF CachedResult, ResolverTypes, EntriesAreFresh
<1>3. answer' \in Answered
  BY <1>1, <1>2 DEF Answered
<1>4. ResolverTypes' /\ CacheBounded' /\ TruthIsNow' /\ EntriesAreFresh' /\ CallIsFresh'
  BY <1>3 DEF CacheHit, ResolverTypes, CacheBounded, TruthIsNow, EntriesAreFresh, CallIsFresh, InCall
<1>5. answer'.age <= Allowed(cache[c].outcome)
  <2>1. CASE cache[c].outcome = Error
    <3>1. cache[c].age < ErrorTTL /\ ErrorTTL # 0
      BY <1>1, <1>2, <2>1, ResolverAssumption
    <3>2. Allowed(Error) = GatewayTimeout + (ErrorTTL - 1)
      BY <1>1, <3>1 DEF Allowed
    <3> QED
      BY <1>1, <1>2, <2>1, <3>1, <3>2, ResolverAssumption
  <2>2. CASE cache[c].outcome # Error
    <3>1. Allowed(cache[c].outcome) = GatewayTimeout + ValidTTL
      BY <1>1, <2>2 DEF Allowed
    <3> QED
      BY <1>1, <1>2, <3>1
  <2> QED
    BY <2>1, <2>2
<1>6. AnswersAreFresh'
  BY <1>1, <1>5 DEF CacheHit, AnswersAreFresh, Allowed, Cached
<1> QED
  BY <1>4, <1>6

\* The call to the base resolver begins and gets its answer (CacheMiss, BaseAnswers).
LEMMA CallStep ==
    ASSUME ResolverInv, (\E c \in ClientID : CacheMiss(c)) \/ BaseAnswers
    PROVE  ResolverInv'
<1> USE Constants DEF ResolverInv
<1>1. UNCHANGED <<impl, directory, cache, answer, since, disturbances>>
  BY DEF CacheMiss, BaseAnswers
<1>2. call' \in Call /\ CallIsFresh'
  <2>1. CASE \E c \in ClientID : CacheMiss(c)
    BY <2>1 DEF CacheMiss, Call, CallIsFresh
  <2>2. CASE BaseAnswers
    <3>1. call \in Call /\ call.client \in ClientID /\ call.elapsed \in 0..GatewayTimeout
      BY <2>2 DEF BaseAnswers, InCall, ResolverTypes, NoCall, Call
    <3>2. call' = [call EXCEPT !.outcome = directory[call.client]]
      BY <2>2 DEF BaseAnswers
    <3>3. directory[call.client] \in Outcome
      BY <3>1 DEF ResolverTypes
    <3>4. call' \in Call
      BY <3>1, <3>2, <3>3 DEF Call
    <3>5. since[call.client][directory[call.client]] = 0
      BY <3>1 DEF TruthIsNow
    <3> QED
      BY <1>1, <3>1, <3>2, <3>3, <3>4, <3>5 DEF Call, CallIsFresh
  <2> QED
    BY <2>1, <2>2
<1>3. ResolverTypes' /\ CacheBounded' /\ TruthIsNow' /\ EntriesAreFresh' /\ AnswersAreFresh'
  BY <1>1, <1>2
     DEF ResolverTypes, CacheBounded, TruthIsNow, EntriesAreFresh, AnswersAreFresh, Allowed, Cached
<1> QED
  BY <1>2, <1>3

\* A failed call has an error, of age 0, to return (GatewayCallFails).
LEMMA CallFailsStep ==
    ASSUME ResolverInv, GatewayCallFails
    PROVE  ResolverInv'
<1> USE Constants DEF ResolverInv
<1>1. call \in Call /\ call.client \in ClientID /\ call.elapsed \in 0..GatewayTimeout
  BY DEF GatewayCallFails, InCall, ResolverTypes, NoCall, Call
<1>2. /\ call' = [call EXCEPT !.outcome = Error]
      /\ since' = [since EXCEPT ![call.client][Error] = 0]
      /\ UNCHANGED <<impl, directory, cache, answer>>
  BY DEF GatewayCallFails
<1>3. since' \in [ClientID -> [Outcome -> 0..Horizon]]
  BY <1>1, <1>2 DEF ResolverTypes
<1>4. \A d \in ClientID, q \in Outcome :
        since[d][q] \in Nat /\ since'[d][q] \in Nat /\ since'[d][q] <= since[d][q]
  BY <1>1, <1>2 DEF ResolverTypes
<1>5. call' \in Call
  BY <1>1, <1>2 DEF Call
<1>6. disturbances' \in 0..MaxDisturbances
  BY ResolverAssumption DEF GatewayCallFails, Disturb, ResolverTypes
<1>7. ResolverTypes' /\ CacheBounded' /\ AnswersAreFresh'
  BY <1>2, <1>3, <1>5, <1>6 DEF ResolverTypes, CacheBounded, AnswersAreFresh, Allowed, Cached
<1>8. EntriesAreFresh'
  BY <1>2, <1>4, FreshEntriesStay
<1>9. CallIsFresh'
  BY <1>1, <1>2 DEF Call, CallIsFresh, ResolverTypes
<1>10. TruthIsNow'
  BY <1>1, <1>2 DEF TruthIsNow, ResolverTypes
<1> QED
  BY <1>7, <1>8, <1>9, <1>10

\* Adding an entry keeps the cache within its size (LRU.Add).
LEMMA AddProperties ==
    ASSUME ResolverTypes, CacheBounded, NEW c \in ClientID, NEW o \in Outcome, Add(c, o)
    PROVE  /\ CacheBounded'
           /\ c \in DOMAIN cache'
           /\ cache'[c] = [outcome |-> o, age |-> 0]
           /\ DOMAIN cache' \subseteq DOMAIN cache \cup {c}
           /\ \A d \in DOMAIN cache' \ {c} : cache'[d] = cache[d]
<1> DEFINE with(kept) == [d \in kept \cup {c} |->
                            IF d = c THEN [outcome |-> o, age |-> 0] ELSE cache[d]]
<1>1. IsFiniteSet(DOMAIN cache) /\ Cardinality(DOMAIN cache) \in Nat
  BY FS_CardinalityType DEF CacheBounded
<1>2. CASE /\ Cardinality(DOMAIN cache \cup {c}) <= CacheSize
           /\ cache' = with(DOMAIN cache)
  <2>1. IsFiniteSet(DOMAIN cache \cup {c})
    BY <1>1, FS_AddElement
  <2>2. DOMAIN cache' = DOMAIN cache \cup {c}
    BY <1>2
  <2>3. CacheBounded'
    BY <1>2, <2>1, <2>2 DEF CacheBounded
  <2> QED
    BY <1>2, <2>2, <2>3
<1>3. CASE /\ Cardinality(DOMAIN cache \cup {c}) > CacheSize
           /\ \E d \in DOMAIN cache \ {c} : cache' = with(DOMAIN cache \ {d})
  <2>1. PICK d \in DOMAIN cache \ {c} : cache' = with(DOMAIN cache \ {d})
    BY <1>3
  <2>2. DOMAIN cache' = (DOMAIN cache \ {d}) \cup {c}
    BY <2>1
  <2>3. IsFiniteSet(DOMAIN cache \ {d}) /\ Cardinality(DOMAIN cache \ {d}) = Cardinality(DOMAIN cache) - 1
    BY <1>1, <2>1, FS_RemoveElement
  <2>4. /\ IsFiniteSet((DOMAIN cache \ {d}) \cup {c})
        /\ \/ Cardinality((DOMAIN cache \ {d}) \cup {c}) = Cardinality(DOMAIN cache \ {d})
           \/ Cardinality((DOMAIN cache \ {d}) \cup {c}) = Cardinality(DOMAIN cache \ {d}) + 1
    BY <2>3, FS_AddElement
  <2>5. CacheBounded'
    BY <1>1, <2>2, <2>3, <2>4, ResolverAssumption DEF CacheBounded
  <2> QED
    BY <2>1, <2>2, <2>5
<1> QED
  BY <1>2, <1>3 DEF Add

\* The result of a call is as old as the call at most; its entry starts with age 0,
\* as old as the time limit of a call allows (BaseReturns).
LEMMA BaseReturnsStep ==
    ASSUME ResolverInv, BaseReturns
    PROVE  ResolverInv'
<1> USE Constants DEF ResolverInv
<1> DEFINE c == call.client
           o == call.outcome
<1>1. /\ c \in ClientID
      /\ o \in Outcome
      /\ call.elapsed \in 0..GatewayTimeout
      /\ since[c][o] \in 0..Horizon
      /\ since[c][o] <= call.elapsed
  BY DEF BaseReturns, InCall, ResolverTypes, NoCall, Call, CallIsFresh
<1>2. since[c][o] <= GatewayTimeout
  BY <1>1
<1>3. /\ answer' = [client |-> c, outcome |-> o, age |-> since[c][o]]
      /\ call' = NoCall
      /\ UNCHANGED <<impl, directory, since, disturbances>>
      /\ Add(c, o) \/ UNCHANGED cache
  BY DEF BaseReturns, Answer
<1>4. /\ CacheBounded'
      /\ DOMAIN cache' \subseteq ClientID
      /\ \A d \in DOMAIN cache' :
           /\ cache'[d] \in CachedResult
           /\ since[d][cache'[d].outcome] <= cache'[d].age + GatewayTimeout
  <2>1. CASE UNCHANGED cache
    BY <2>1 DEF CacheBounded, EntriesAreFresh, ResolverTypes
  <2>2. CASE Add(c, o)
    <3>1. /\ CacheBounded'
          /\ cache'[c] = [outcome |-> o, age |-> 0]
          /\ DOMAIN cache' \subseteq DOMAIN cache \cup {c}
          /\ \A d \in DOMAIN cache' \ {c} : cache'[d] = cache[d]
      BY <1>1, <2>2, AddProperties
    <3>2. cache'[c] \in CachedResult /\ since[c][cache'[c].outcome] <= cache'[c].age + GatewayTimeout
      BY <1>1, <1>2, <3>1 DEF CachedResult
    <3>3. \A d \in DOMAIN cache' \ {c} :
            /\ cache'[d] \in CachedResult
            /\ since[d][cache'[d].outcome] <= cache'[d].age + GatewayTimeout
      BY <3>1 DEF ResolverTypes, EntriesAreFresh
    <3> QED
      BY <1>1, <3>1, <3>2, <3>3 DEF ResolverTypes
  <2> QED
    BY <1>3, <2>1, <2>2
<1>5. answer' \in Answered
  BY <1>1, <1>3 DEF Answered
<1>6. ResolverTypes' /\ TruthIsNow' /\ EntriesAreFresh'
  BY <1>3, <1>4, <1>5 DEF ResolverTypes, TruthIsNow, EntriesAreFresh
<1>7. CallIsFresh'
  BY <1>3 DEF CallIsFresh, InCall, NoCall
<1>8. Allowed(o) \in Nat /\ GatewayTimeout <= Allowed(o)
  <2>1. CASE ErrorTTL = 0
    BY <2>1 DEF Allowed
  <2>2. CASE ErrorTTL # 0
    BY <2>2, ResolverAssumption DEF Allowed
  <2> QED
    BY <2>1, <2>2
<1>9. AnswersAreFresh'
  BY <1>1, <1>2, <1>3, <1>8 DEF AnswersAreFresh, Allowed, Cached
<1> QED
  BY <1>4, <1>6, <1>7, <1>9

\* Every step of the resolver, its callers and its environment keeps the invariant.
LEMMA ResolverInvStep == ResolverInv /\ [ResolverNext]_resolverVars => ResolverInv'
<1> SUFFICES ASSUME ResolverInv, [ResolverNext]_resolverVars
             PROVE  ResolverInv'
  OBVIOUS
<1>1. CASE UNCHANGED resolverVars
  BY <1>1 DEF resolverVars, ResolverInv, ResolverTypes, CacheBounded, TruthIsNow,
              EntriesAreFresh, CallIsFresh, InCall, AnswersAreFresh, Allowed, Cached
<1>2. CASE ResolverNext
  BY <1>2, TickStep, GatewayChangesStep, RestartStep, CacheHitStep, CallStep,
     CallFailsStep, BaseReturnsStep DEF ResolverNext
<1> QED
  BY <1>1, <1>2

\* The state of the resolver is well-typed, and the cache keeps to its size
\* (ExpirableCachedAccountIdResolver).
THEOREM ResolverTypeCorrect == ResolverSpec => []ResolverTypeOK
<1>1. ResolverInv => ResolverTypeOK
  BY DEF ResolverInv, ResolverTypes, CacheBounded, ResolverTypeOK
<1> QED
  BY <1>1, ResolverInvInit, ResolverInvStep, PTL DEF ResolverSpec

\* No answer is older than the TTLs and the time limit of the gateway say, whatever
\* sizes and limits are configured (MapClientIdToAccountId).
THEOREM AnswersFresh == ResolverSpec => []AnswersAreFresh
<1>1. ResolverInv => AnswersAreFresh
  BY DEF ResolverInv
<1> QED
  BY <1>1, ResolverInvInit, ResolverInvStep, PTL DEF ResolverSpec
=============================================================================
