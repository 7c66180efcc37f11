-------------------------- MODULE JwksCacheProofs --------------------------
(***************************************************************************)
(* Proofs about JwksCache for every number of threads, key ids, TTL,       *)
(* refresh interval and fetch latency: the inductive invariant, the        *)
(* discipline of the lock, the freshness of the cache, the load bound and  *)
(* the refinement of KeyService.                                           *)
(***************************************************************************)
EXTENDS JwksCache, TLAPS

USE CacheAssumption, HorizonAssumption

-----------------------------------------------------------------------------
\* The initial cache is empty and no thread is in get_key.
LEMMA InitInv == Init => IndInv
<1> SUFFICES ASSUME Init PROVE IndInv
  OBVIOUS
<1>0. Never \in Int /\ Never < 0
  BY DEF Never
<1>1. TypeOK
  <2>1. IdpTypeOK
    BY <1>0 DEF Init, IdpInit, IdpTypeOK
  <2>2. keysByKid \subseteq Kids /\ fetchedAt \in 0..Horizon /\ lastFetchAttempt \in 0..Horizon
    BY DEF Init
  <2>3. urlKnown \in BOOLEAN /\ lock \in Threads \cup {NoThread} /\ lastFetchOk \in BOOLEAN /\ forced \in BOOLEAN
    BY DEF Init
  <2>4. /\ phase \in [Threads -> Phases] /\ want \in [Threads -> Kids]
        /\ reply \in [Threads -> {"none", "key", "401", "503", "500"}]
    BY DEF Init, Phases
  <2>5. outcome \in Outcomes /\ document \in [Kids -> JwkKinds]
    BY DEF Init, Outcomes, NoDocument, JwkKinds
  <2>6. fetchBegan \in 0..Horizon \cup {Never}
    BY DEF Init
  <2>7. QED
    BY <2>1, <2>2, <2>3, <2>4, <2>5, <2>6 DEF TypeOK
<1>2. LockDiscipline
  BY DEF Init, LockDiscipline, InFetch
<1>3. HistoryIsCurrent
  <2>1. \A k \in Kids : /\ lastUsable[k] = IF published[k] = "usable" THEN 0 ELSE Never
                        /\ lastUnusable[k] = IF published[k] = "usable" THEN Never ELSE 0
    BY DEF Init, IdpInit
  <2>2. now = 0
    BY DEF Init, IdpInit
  <2>3. ASSUME NEW k \in Kids
        PROVE  /\ lastUsable[k] <= now /\ lastUnusable[k] <= now
               /\ IF published[k] = "usable" THEN lastUsable[k] = now
                                             ELSE lastUnusable[k] = now
    <3>1. CASE published[k] = "usable"
      BY <1>0, <2>1, <2>2, <3>1
    <3>2. CASE published[k] # "usable"
      BY <1>0, <2>1, <2>2, <3>2
    <3> QED
      BY <3>1, <3>2
  <2>4. QED
    BY <2>3 DEF HistoryIsCurrent
<1>4. QED
  BY <1>1, <1>2, <1>3 DEF Init, IdpInit, IndInv, FetchIsTimely, InFetch, DocumentMirrorsIdp,
     CacheMirrorsIdp, SuccessIsRemembered

\* Time and rotation only move the history variables forward.
LEMMA EnvironmentInv ==
  ASSUME IndInv, Environment
  PROVE  IndInv'
<1> USE DEF IndInv, Environment, TypeOK, IdpTypeOK, idpVars, cacheVars, threadVars, wireVars, historyVars
<1>1. ASSUME Tick, \A t \in Threads : InFetch(t) => now - fetchBegan < FetchLatency
      PROVE  IndInv'
  <2> USE <1>1 DEF Tick
  <2>1. TypeOK'
    BY DEF HistoryIsCurrent
  <2>2. LockDiscipline'
    BY DEF LockDiscipline, InFetch
  <2>3. HistoryIsCurrent'
    BY DEF HistoryIsCurrent
  <2>4. FetchIsTimely'
    BY DEF FetchIsTimely, InFetch
  <2>5. DocumentMirrorsIdp'
    BY DEF DocumentMirrorsIdp, HistoryIsCurrent, FetchIsTimely, InFetch
  <2>6. CacheMirrorsIdp'
    BY DEF CacheMirrorsIdp, HistoryIsCurrent
  <2>7. SuccessIsRemembered' /\ fetchedAt' <= now'
    BY DEF SuccessIsRemembered
  <2> QED
    BY <2>1, <2>2, <2>3, <2>4, <2>5, <2>6, <2>7
<1>2. ASSUME NEW k \in Kids, Rotate(k)
      PROVE  IndInv'
  <2> USE <1>2 DEF Rotate
  <2>1. TypeOK'
    BY DEF JwkKinds
  <2>2. LockDiscipline'
    BY DEF LockDiscipline, InFetch
  <2>3. HistoryIsCurrent'
    BY DEF HistoryIsCurrent, JwkKinds
  <2>4. FetchIsTimely'
    BY DEF FetchIsTimely, InFetch
  <2>5. DocumentMirrorsIdp'
    BY DEF DocumentMirrorsIdp, FetchIsTimely, InFetch, JwkKinds
  <2>6. CacheMirrorsIdp'
    BY DEF CacheMirrorsIdp, HistoryIsCurrent, JwkKinds
  <2>7. SuccessIsRemembered' /\ fetchedAt' <= now'
    BY DEF SuccessIsRemembered
  <2> QED
    BY <2>1, <2>2, <2>3, <2>4, <2>5, <2>6, <2>7
<1> QED
  BY <1>1, <1>2

\* A request entering get_key, and the cache being cleared, start no fetch.
LEMMA RequestInv ==
  ASSUME IndInv, NEW t \in Threads, NEW k \in Kids, Request(t, k)
  PROVE  IndInv'
<1> USE DEF IndInv, Request, TypeOK, IdpTypeOK, idpVars, cacheVars, wireVars, historyVars
<1>1. TypeOK'
  BY DEF Phases
<1>2. LockDiscipline'
  BY DEF LockDiscipline, InFetch
<1>3. FetchIsTimely'
  BY DEF FetchIsTimely, InFetch
<1>4. DocumentMirrorsIdp'
  BY DEF DocumentMirrorsIdp
<1> QED
  BY <1>1, <1>2, <1>3, <1>4 DEF HistoryIsCurrent, CacheMirrorsIdp, SuccessIsRemembered

LEMMA ClearInv ==
  ASSUME IndInv, Clear
  PROVE  IndInv'
<1> USE DEF IndInv, Clear, TypeOK, IdpTypeOK, idpVars, threadVars, wireVars
<1>1. TypeOK'
  <2>1. keysByKid' \subseteq Kids /\ fetchedAt' \in 0..Horizon /\ lastFetchAttempt' \in 0..Horizon
    OBVIOUS
  <2>2. urlKnown' \in BOOLEAN /\ lastFetchOk' \in BOOLEAN
    OBVIOUS
  <2>3. QED
    BY <2>1, <2>2
<1>2. LockDiscipline'
  BY DEF LockDiscipline, InFetch
<1>3. FetchIsTimely'
  BY DEF FetchIsTimely, LockDiscipline, InFetch
<1>4. DocumentMirrorsIdp'
  BY DEF DocumentMirrorsIdp
<1> QED
  BY <1>1, <1>2, <1>3, <1>4 DEF HistoryIsCurrent, CacheMirrorsIdp, SuccessIsRemembered

\* get_key either returns at once or starts the only fetch.
LEMMA GetKeyInv ==
  ASSUME IndInv, NEW t \in Threads, GetKey(t)
  PROVE  IndInv'
<1> USE DEF IndInv, GetKey, TypeOK, IdpTypeOK, idpVars, wireVars
<1>1. ASSUME NEW answer \in {"key", "401"}, Return(t, answer), UNCHANGED <<cacheVars, historyVars>>
      PROVE  IndInv'
  <2> USE <1>1 DEF Return, cacheVars, historyVars
  <2>1. TypeOK'
    BY DEF Phases
  <2>2. LockDiscipline'
    BY DEF LockDiscipline, InFetch
  <2>3. FetchIsTimely' /\ DocumentMirrorsIdp'
    BY DEF FetchIsTimely, DocumentMirrorsIdp, LockDiscipline, InFetch
  <2>4. SuccessIsRemembered'
    BY DEF SuccessIsRemembered
  <2> QED
    BY <2>1, <2>2, <2>3, <2>4 DEF HistoryIsCurrent, CacheMirrorsIdp
<1>2. ASSUME NEW b \in BOOLEAN, BeginFetch(t, b)
      PROVE  IndInv'
  <2> USE <1>2 DEF BeginFetch
  <2>1. TypeOK'
    BY DEF Phases
  <2>2. LockDiscipline'
    BY DEF LockDiscipline, InFetch
  <2>3. FetchIsTimely'
    BY DEF FetchIsTimely, LockDiscipline, InFetch
  <2>4. DocumentMirrorsIdp'
    BY DEF DocumentMirrorsIdp, LockDiscipline, InFetch
  <2>5. SuccessIsRemembered'
    BY DEF SuccessIsRemembered
  <2> QED
    BY <2>1, <2>2, <2>3, <2>4, <2>5 DEF HistoryIsCurrent, CacheMirrorsIdp
<1> QED
  BY <1>1, <1>2

\* A document captured from Auth0 is current when it is captured.
LEMMA IdpAnswersInv ==
  ASSUME IndInv, NEW t \in Threads, IdpAnswers(t)
  PROVE  IndInv'
<1> USE DEF IndInv, IdpAnswers, TypeOK, IdpTypeOK, idpVars, cacheVars, historyVars
<1>1. TypeOK'
  BY DEF Phases, Outcomes
<1>2. LockDiscipline'
  BY DEF LockDiscipline, InFetch
<1>3. FetchIsTimely'
  BY DEF FetchIsTimely, InFetch
<1>4. DocumentMirrorsIdp'
  <2>1. fetchBegan <= now /\ fetchBegan \in Int
    BY DEF FetchIsTimely, InFetch
  <2>2. CASE outcome' = "document" /\ document' = published
    BY <2>1, <2>2 DEF DocumentMirrorsIdp, HistoryIsCurrent
  <2>3. CASE outcome' \in {"unavailable", "malformed"}
    BY <2>3 DEF DocumentMirrorsIdp
  <2> QED
    BY <2>2, <2>3
<1> QED
  BY <1>1, <1>2, <1>3, <1>4 DEF HistoryIsCurrent, CacheMirrorsIdp, SuccessIsRemembered

\* A failed fetch leaves the cached keys as they were.
LEMMA FetchFailsInv ==
  ASSUME IndInv, NEW t \in Threads, FetchFails(t)
  PROVE  IndInv'
<1> USE DEF IndInv, FetchFails, Return, Discard, TypeOK, IdpTypeOK, idpVars, cacheVars
<1>1. TypeOK'
  BY DEF Phases, Outcomes, NoDocument, JwkKinds
<1>2. LockDiscipline'
  BY DEF LockDiscipline, InFetch
<1>3. FetchIsTimely'
  BY DEF FetchIsTimely, LockDiscipline, InFetch
<1>4. DocumentMirrorsIdp'
  BY DEF DocumentMirrorsIdp
<1> QED
  BY <1>1, <1>2, <1>3, <1>4 DEF HistoryIsCurrent, CacheMirrorsIdp, SuccessIsRemembered

\* A successful fetch replaces the keys by what the document says.
LEMMA FetchSucceedsInv ==
  ASSUME IndInv, NEW t \in Threads, FetchSucceeds(t)
  PROVE  IndInv'
<1> USE DEF IndInv, FetchSucceeds, Discard, TypeOK, IdpTypeOK, idpVars
<1>1. TypeOK'
  BY DEF Return, Phases, Outcomes, NoDocument, JwkKinds, UsableKeys
<1>2. LockDiscipline'
  BY DEF Return, LockDiscipline, InFetch
<1>3. FetchIsTimely'
  BY DEF Return, FetchIsTimely, LockDiscipline, InFetch
<1>4. DocumentMirrorsIdp'
  BY DEF DocumentMirrorsIdp
<1>5. CacheMirrorsIdp'
  BY DEF CacheMirrorsIdp, DocumentMirrorsIdp, FetchIsTimely, InFetch, UsableKeys
<1>6. SuccessIsRemembered'
  BY DEF SuccessIsRemembered, Return, FetchIsTimely, InFetch, LockDiscipline
<1> QED
  BY <1>1, <1>2, <1>3, <1>4, <1>5, <1>6 DEF HistoryIsCurrent

\* IndInv is inductive.
LEMMA NextInv == IndInv /\ [Next]_vars => IndInv'
<1> SUFFICES ASSUME IndInv, [Next]_vars PROVE IndInv'
  OBVIOUS
<1>1. CASE UNCHANGED vars
  BY <1>1 DEF vars, idpVars, cacheVars, threadVars, wireVars, historyVars, IndInv, TypeOK,
     IdpTypeOK, LockDiscipline, InFetch, HistoryIsCurrent, FetchIsTimely, DocumentMirrorsIdp,
     CacheMirrorsIdp, SuccessIsRemembered
<1> QED
  BY <1>1, EnvironmentInv, RequestInv, ClearInv, GetKeyInv, IdpAnswersInv, FetchFailsInv,
     FetchSucceedsInv DEF Next

\* Every reachable state of the cache satisfies the inductive invariant: the
\* lock protects the one fetch in flight and everything known about Auth0's
\* keys is as old as its timestamps say (auth.py, get_key and _refresh_locked).
THEOREM Invariance == Spec => []IndInv
  BY InitInv, NextInv, PTL DEF Spec

\* The variables keep their types (auth.py, the fields of JWKSCache).
THEOREM TypeCorrect == Spec => []TypeOK
  BY Invariance, PTL DEF IndInv

\* At most one fetch is in flight, its thread holds the lock, and a thread
\* leaves get_key with exactly one answer (auth.py, `with self._lock`).
THEOREM MutualExclusion == Spec => []LockDiscipline
  BY Invariance, PTL DEF IndInv

\* The cached keys are the usable keys Auth0 published no earlier than
\* FetchLatency before fetchedAt (auth.py, _refresh_locked).
THEOREM Freshness == Spec => []CacheMirrorsIdp
  BY Invariance, PTL DEF IndInv

-----------------------------------------------------------------------------
\* After a fetch that succeeded, the next one begins no sooner than MinRefresh
\* later (auth.py, the two conditions under which get_key refreshes).
THEOREM HealthyFloor == Spec => HealthyFetchFloor
<1>1. ASSUME IndInv, [Next]_vars, NEW t \in Threads, FetchBegins(t), lastFetchOk'
      PROVE  now - fetchBegan >= MinRefresh
  <2> USE <1>1 DEF IndInv, TypeOK, IdpTypeOK, FetchBegins
  <2>1. CASE UNCHANGED vars
    BY <2>1 DEF vars, threadVars
  <2>2. CASE Environment
    BY <2>2 DEF Environment, threadVars
  <2>3. CASE Clear
    BY <2>3 DEF Clear, threadVars
  <2>4. ASSUME NEW u \in Threads, NEW k \in Kids, Request(u, k)
        PROVE  FALSE
    BY <2>4 DEF Request
  <2>5. ASSUME NEW u \in Threads, GetKey(u)
        PROVE  now - fetchBegan >= MinRefresh
    <3>1. lock = NoThread /\ lastFetchOk
      BY <2>5 DEF GetKey, BeginFetch, Return, historyVars
    <3>2. /\ lastFetchAttempt = fetchBegan /\ fetchBegan <= fetchedAt
          /\ keysByKid # {} /\ urlKnown
      BY <3>1 DEF SuccessIsRemembered
    <3>3. Stale \/ MayForce
      BY <2>5 DEF GetKey, Return
    <3> QED
      BY <3>2, <3>3 DEF Stale, MayForce
  <2>6. ASSUME NEW u \in Threads, IdpAnswers(u) \/ FetchFails(u)
        PROVE  FALSE
    BY <2>6 DEF IdpAnswers, FetchFails, Return
  <2>7. ASSUME NEW u \in Threads, FetchSucceeds(u)
        PROVE  now - fetchBegan >= MinRefresh
    <3>1. InFetch(u) /\ MayForce
      BY <2>7 DEF FetchSucceeds, Return, InFetch
    <3> QED
      BY <3>1 DEF FetchIsTimely, MayForce
  <2> QED
    BY <2>1, <2>2, <2>3, <2>4, <2>5, <2>6, <2>7 DEF Next
<1>2. ASSUME IndInv, [Next]_vars
      PROVE  [\A t \in Threads :
                 FetchBegins(t) /\ lastFetchOk' => now - fetchBegan >= MinRefresh]_vars
  BY <1>1, <1>2
<1> QED
  BY Invariance, <1>2, PTL DEF Spec, HealthyFetchFloor

-----------------------------------------------------------------------------
\* Every step of the cache is a step of the key service or leaves it alone.
LEMMA StepRefines ==
  ASSUME IndInv, [Next]_vars
  PROVE  [Service!SvcNext]_(Service!svcVars)
<1> USE DEF IndInv, TypeOK, IdpTypeOK, Service!svcVars, Service!idpVars
<1>1. CASE UNCHANGED vars
  BY <1>1 DEF vars, threadVars, idpVars
<1>2. CASE Environment
  BY <1>2 DEF Environment, threadVars, Service!SvcNext, Service!Tick, Tick, Service!Rotate,
     Rotate, Service!JwkKinds, JwkKinds
<1>3. CASE Clear
  BY <1>3 DEF Clear, threadVars, idpVars
<1>4. ASSUME NEW t \in Threads, NEW k \in Kids, Request(t, k)
      PROVE  Service!SvcNext
  BY <1>4 DEF Request, idpVars, LockDiscipline, Service!SvcNext, Service!Ask
<1>5. ASSUME NEW t \in Threads, GetKey(t)
      PROVE  [Service!SvcNext]_(Service!svcVars)
  <2> USE <1>5
  <2>1. reply[t] = "none" /\ UNCHANGED <<now, published, lastUsable, lastUnusable>>
    BY DEF GetKey, idpVars, LockDiscipline
  <2>2. CASE ~Stale /\ want[t] \in keysByKid /\ Return(t, "key")
    <3>1. now - lastUsable[want[t]] <= Ttl + FetchLatency
      BY <2>2 DEF Stale, CacheMirrorsIdp
    <3>2. Service!AnswerKey(t)
      BY <2>1, <2>2, <3>1 DEF Service!AnswerKey, Return
    <3> QED
      BY <3>2 DEF Service!SvcNext
  <2>3. CASE ~Stale /\ want[t] \notin keysByKid /\ Return(t, "401")
    <3>1. now - lastUnusable[want[t]] <= Ttl + FetchLatency
      BY <2>3 DEF Stale, CacheMirrorsIdp
    <3>2. Service!AnswerUnknown(t)
      BY <2>1, <2>3, <3>1 DEF Service!AnswerUnknown, Return
    <3> QED
      BY <3>2 DEF Service!SvcNext
  <2>4. CASE \E b \in BOOLEAN : BeginFetch(t, b)
    BY <2>1, <2>4 DEF BeginFetch
  <2> QED
    BY <2>2, <2>3, <2>4 DEF GetKey
<1>6. ASSUME NEW t \in Threads, IdpAnswers(t)
      PROVE  UNCHANGED Service!svcVars
  BY <1>6 DEF IdpAnswers, idpVars
<1>7. ASSUME NEW t \in Threads, FetchFails(t)
      PROVE  Service!SvcNext
  <2>1. Service!AnswerFailure(t)
    BY <1>7 DEF FetchFails, Return, idpVars, LockDiscipline, Service!AnswerFailure, Service!Failures
  <2> QED
    BY <2>1 DEF Service!SvcNext
<1>8. ASSUME NEW t \in Threads, FetchSucceeds(t)
      PROVE  [Service!SvcNext]_(Service!svcVars)
  <2> USE <1>8
  <2>1. /\ reply[t] = "none" /\ UNCHANGED <<now, published, lastUsable, lastUnusable>>
        /\ phase[t] = "received" /\ outcome = "document"
    BY DEF FetchSucceeds, idpVars, LockDiscipline
  <2>2. now - fetchBegan <= FetchLatency /\ fetchBegan \in Int
    BY <2>1 DEF FetchIsTimely, InFetch
  <2>3. CASE want[t] \in UsableKeys /\ Return(t, "key")
    <3>1. now - lastUsable[want[t]] <= Ttl + FetchLatency
      BY <2>1, <2>2, <2>3 DEF DocumentMirrorsIdp, UsableKeys
    <3>2. Service!AnswerKey(t)
      BY <2>1, <2>3, <3>1 DEF Service!AnswerKey, Return
    <3> QED
      BY <3>2 DEF Service!SvcNext
  <2>4. CASE want[t] \notin UsableKeys /\ Return(t, "401")
    <3>1. now - lastUnusable[want[t]] <= Ttl + FetchLatency
      BY <2>1, <2>2, <2>4 DEF DocumentMirrorsIdp, UsableKeys
    <3>2. Service!AnswerUnknown(t)
      BY <2>1, <2>4, <3>1 DEF Service!AnswerUnknown, Return
    <3> QED
      BY <3>2 DEF Service!SvcNext
  <2>5. CASE UNCHANGED <<want, reply>>
    BY <2>1, <2>5
  <2> QED
    BY <2>3, <2>4, <2>5 DEF FetchSucceeds
<1> QED
  BY <1>1, <1>2, <1>3, <1>4, <1>5, <1>6, <1>7, <1>8 DEF Next

\* get_key implements the key service: for every TTL, refresh interval, fetch
\* latency, number of threads and order of events, a withdrawn key verifies no
\* token, and a new key is not answered 401, for longer than Ttl + FetchLatency
\* (auth.py, JWKSCache.get_key).
THEOREM Refinement == Spec => KeyServiceSpec
<1>1. Init => Service!SvcInit
  BY DEF Init, Service!SvcInit, IdpInit, Service!IdpInit, JwkKinds, Service!JwkKinds,
     Never, Service!Never
<1>2. IndInv /\ [Next]_vars => [Service!SvcNext]_(Service!svcVars)
  BY StepRefines
<1> QED
  BY Invariance, <1>1, <1>2, PTL DEF Spec, KeyServiceSpec, Service!SvcSpec
=============================================================================
