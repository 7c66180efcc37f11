----------------------------- MODULE JwksCache -----------------------------
(***************************************************************************)
(* The signing-key cache of src/backend/src/auth/auth.py: one JWKSCache    *)
(* per worker process, shared by its request threads.  get_key runs under  *)
(* the cache's lock from start to end, the HTTP fetch of Auth0's key set   *)
(* included; a thread is in one of the phases                              *)
(*                                                                         *)
(*   idle      handling something else; its last answer is reply[t]        *)
(*   waiting   in get_key, before `with self._lock`                        *)
(*   fetching  holds the lock, inside requests.get                         *)
(*   received  holds the lock, the outcome of the fetch is in hand         *)
(*                                                                         *)
(* `forced` tells the two call sites of _refresh_locked apart: the cache   *)
(* was stale (FALSE) or the kid was unknown (TRUE).                        *)
(***************************************************************************)
EXTENDS IdentityProvider

CONSTANTS
    Threads,        \* request threads of the worker
    NoThread,       \* the value of an unheld lock
    Ttl,            \* JWKS_CACHE_TTL_SECONDS
    MinRefresh,     \* JWKS_MIN_REFRESH_INTERVAL_SECONDS
    FetchLatency    \* the longest a fetch takes before it answers or times out

ASSUME CacheAssumption ==
    /\ NoThread \notin Threads
    /\ Ttl \in Nat /\ MinRefresh \in Nat /\ FetchLatency \in Nat
    /\ MinRefresh <= Ttl
    /\ Ttl + FetchLatency <= Horizon

VARIABLES
    keysByKid, fetchedAt, lastFetchAttempt, urlKnown,  \* the cache's fields
    lock, phase, forced, want, reply,                  \* the threads
    outcome, document,    \* what the fetch in progress has brought back
    fetchBegan, lastFetchOk \* history: start and success of the latest fetch

cacheVars == <<keysByKid, fetchedAt, lastFetchAttempt, urlKnown>>
threadVars == <<lock, phase, forced, want, reply>>
wireVars == <<outcome, document>>
historyVars == <<fetchBegan, lastFetchOk>>
vars == <<idpVars, cacheVars, threadVars, wireVars, historyVars>>

Phases == {"idle", "waiting", "fetching", "received"}
Outcomes == {"none", "document", "unavailable", "malformed"}
NoDocument == [k \in Kids |-> "absent"]
InFetch(t) == phase[t] \in {"fetching", "received"}

Init ==
    /\ IdpInit
    /\ keysByKid = {} /\ fetchedAt = 0 /\ lastFetchAttempt = 0
    /\ urlKnown = FALSE
    /\ lock = NoThread
    /\ phase = [t \in Threads |-> "idle"]
    /\ forced = FALSE
    /\ want \in [Threads -> Kids]
    /\ reply = [t \in Threads |-> "503"]
    /\ outcome = "none" /\ document = NoDocument
    /\ fetchBegan = Never /\ lastFetchOk = FALSE

-----------------------------------------------------------------------------
\* A request with a token signed by k reaches jwks_cache.get_key.
Request(t, k) ==
    /\ phase[t] = "idle"
    /\ phase' = [phase EXCEPT ![t] = "waiting"]
    /\ want' = [want EXCEPT ![t] = k]
    /\ reply' = [reply EXCEPT ![t] = "none"]
    /\ UNCHANGED <<idpVars, cacheVars, lock, forced, wireVars, historyVars>>

\* Mutated: the TTL is forgotten, so keys are cached for ever.
StaleWithoutTtl == keysByKid = {} \/ ~urlKnown

\* The local `stale` of get_key.
Stale ==
    \/ keysByKid = {}
    \/ ~urlKnown
    \/ now - fetchedAt > Ttl

\* Mutated: an unknown kid always refreshes.
MayForceAlways == TRUE

\* since_attempt >= min_refresh
MayForce == now - lastFetchAttempt >= MinRefresh

\* Mutated: the lock is not released by a failing fetch.
ReturnHoldingLock(t, answer) ==
    /\ lock' = IF answer = "503" THEN lock ELSE NoThread
    /\ phase' = [phase EXCEPT ![t] = "idle"]
    /\ reply' = [reply EXCEPT ![t] = answer]
    /\ UNCHANGED <<forced, want>>

\* Leaving `with self._lock`, with a key or with an exception.
Return(t, answer) ==
    /\ lock' = NoThread
    /\ phase' = [phase EXCEPT ![t] = "idle"]
    /\ reply' = [reply EXCEPT ![t] = answer]
    /\ UNCHANGED <<forced, want>>

\* Mutated: the attempt is not stamped.
BeginFetchUnstamped(t, unknownKid) ==
    /\ lock' = t
    /\ phase' = [phase EXCEPT ![t] = "fetching"]
    /\ forced' = unknownKid
    /\ fetchBegan' = now
    /\ UNCHANGED <<keysByKid, fetchedAt, lastFetchAttempt, urlKnown>>
    /\ UNCHANGED <<want, reply, lastFetchOk>>

\* _refresh_locked up to requests.get: the attempt is stamped first.
BeginFetch(t, unknownKid) ==
    /\ lock' = t
    /\ phase' = [phase EXCEPT ![t] = "fetching"]
    /\ forced' = unknownKid
    /\ lastFetchAttempt' = now
    /\ fetchBegan' = now
    /\ UNCHANGED <<keysByKid, fetchedAt, urlKnown, want, reply, lastFetchOk>>

\* get_key from acquiring the lock to returning or to the first fetch.
GetKey(t) ==
    /\ phase[t] = "waiting"
    /\ lock = NoThread
    /\ \/ Stale /\ BeginFetch(t, FALSE)
       \/ /\ ~Stale /\ want[t] \in keysByKid
          /\ Return(t, "key") /\ UNCHANGED <<cacheVars, historyVars>>
       \/ /\ ~Stale /\ want[t] \notin keysByKid /\ MayForce
          /\ BeginFetch(t, TRUE)
       \/ /\ ~Stale /\ want[t] \notin keysByKid /\ ~MayForce
          /\ Return(t, "401") /\ UNCHANGED <<cacheVars, historyVars>>
    /\ UNCHANGED <<idpVars, wireVars>>

\* requests.get gets the key set as published now, a JSON body that is no key set
\* (no object, or with an RSA key that lacks n or e), or nothing readable (timeout,
\* HTTP error, or a body that is not JSON: a RequestException too).
IdpAnswers(t) ==
    /\ phase[t] = "fetching"
    /\ phase' = [phase EXCEPT ![t] = "received"]
    /\ \/ outcome' = "document" /\ document' = published
       \/ outcome' \in {"unavailable", "malformed"} /\ UNCHANGED document
    /\ UNCHANGED <<idpVars, cacheVars, lock, forced, want, reply, historyVars>>

\* Mutated: the fetched keys are added to the cached ones.
UsableKeysMerged == keysByKid \cup {k \in Kids : document[k] = "usable"}

\* The loop of _refresh_locked that keeps RSA signing keys and passes over those
\* that it cannot parse.
UsableKeys == {k \in Kids : document[k] = "usable"}

Discard == outcome' = "none" /\ document' = NoDocument

\* _refresh_locked raises: 503 for an outage or an empty key set; for a malformed
\* one an error that nothing catches, answered 500 (AttributeError of a body that
\* is no object, PyJWT's InvalidKeyError of a key without n or e).
FetchFails(t) ==
    /\ phase[t] = "received"
    /\ \/ outcome = "document" /\ UsableKeys = {} /\ Return(t, "503")
       \/ outcome = "unavailable" /\ Return(t, "503")
       \/ outcome = "malformed" /\ Return(t, "500")
    /\ Discard
    /\ lastFetchOk' = FALSE
    /\ UNCHANGED <<idpVars, cacheVars, fetchBegan>>

\* _refresh_locked replaces the keys, then get_key looks the kid up again.
FetchSucceeds(t) ==
    /\ phase[t] = "received"
    /\ outcome = "document" /\ UsableKeys # {}
    /\ keysByKid' = UsableKeys /\ fetchedAt' = now /\ urlKnown' = TRUE
    /\ Discard
    /\ lastFetchOk' = TRUE
    /\ \/ /\ want[t] \in UsableKeys
          /\ Return(t, "key") /\ UNCHANGED <<lastFetchAttempt, fetchBegan>>
       \/ /\ want[t] \notin UsableKeys
          /\ forced \/ ~MayForce
          /\ Return(t, "401") /\ UNCHANGED <<lastFetchAttempt, fetchBegan>>
       \/ /\ want[t] \notin UsableKeys
          /\ ~forced /\ MayForce
          /\ phase' = [phase EXCEPT ![t] = "fetching"] /\ forced' = TRUE
          /\ lastFetchAttempt' = now /\ fetchBegan' = now
          /\ UNCHANGED <<lock, want, reply>>
    /\ UNCHANGED idpVars

\* Mutated: the attempt is reset to a sentinel, not to a time of the clock.
ClearToSentinel ==
    /\ lock = NoThread
    /\ keysByKid' = {} /\ fetchedAt' = 0 /\ lastFetchAttempt' = Never
    /\ urlKnown' = FALSE
    /\ lastFetchOk' = FALSE
    /\ UNCHANGED <<idpVars, threadVars, wireVars, fetchBegan>>

\* JWKSCache.clear: waits for the lock, forgets everything.
Clear ==
    /\ lock = NoThread
    /\ keysByKid' = {} /\ fetchedAt' = 0 /\ lastFetchAttempt' = 0
    /\ urlKnown' = FALSE
    /\ lastFetchOk' = FALSE
    /\ UNCHANGED <<idpVars, threadVars, wireVars, fetchBegan>>

\* Time and key rotation.  No fetch outlives FetchLatency (the requests
\* timeout), so time waits for it.
Environment ==
    /\ \/ /\ \A t \in Threads : InFetch(t) => now - fetchBegan < FetchLatency
          /\ Tick
       \/ \E k \in Kids : Rotate(k)
    /\ UNCHANGED <<cacheVars, threadVars, wireVars, historyVars>>

Next ==
    \/ Environment
    \/ Clear
    \/ \E t \in Threads :
          \/ \E k \in Kids : Request(t, k)
          \/ GetKey(t) \/ IdpAnswers(t) \/ FetchFails(t) \/ FetchSucceeds(t)

Spec == Init /\ [][Next]_vars

-----------------------------------------------------------------------------
\* Types of all variables.
TypeOK ==
    /\ IdpTypeOK
    /\ keysByKid \subseteq Kids
    /\ fetchedAt \in 0..Horizon
    /\ lastFetchAttempt \in 0..Horizon
    /\ urlKnown \in BOOLEAN
    /\ lock \in Threads \cup {NoThread}
    /\ phase \in [Threads -> Phases]
    /\ forced \in BOOLEAN
    /\ want \in [Threads -> Kids]
    /\ reply \in [Threads -> {"none", "key", "401", "503", "500"}]
    /\ outcome \in Outcomes
    /\ document \in [Kids -> JwkKinds]
    /\ fetchBegan \in 0..Horizon \cup {Never}
    /\ lastFetchOk \in BOOLEAN

\* The lock is held exactly by the one thread that is talking to Auth0: at most
\* one key-set fetch is in flight, and every path out of get_key, exceptions
\* included, lets the other threads in again.  A thread has its answer if and
\* only if it has left get_key (auth.py, `with self._lock` around all of it).
LockDiscipline ==
    \A t \in Threads :
        /\ InFetch(t) <=> lock = t
        /\ reply[t] = "none" <=> phase[t] # "idle"

\* The cached keys, read together with fetchedAt, describe Auth0's key set as
\* it was at most FetchLatency before fetchedAt: whatever is cached was usable
\* then, whatever is not cached was not (auth.py, _refresh_locked replaces the
\* whole set and stamps it after the response has arrived).
CacheMirrorsIdp ==
    keysByKid # {} =>
        \A k \in Kids :
            IF k \in keysByKid
              THEN lastUsable[k] >= fetchedAt - FetchLatency
              ELSE lastUnusable[k] >= fetchedAt - FetchLatency

\* The history variables are up to date: every key id is usable or unusable
\* now, and neither instant lies ahead of the clock.
HistoryIsCurrent ==
    \A k \in Kids :
        /\ lastUsable[k] <= now /\ lastUnusable[k] <= now
        /\ IF published[k] = "usable" THEN lastUsable[k] = now
                                      ELSE lastUnusable[k] = now

\* A fetch in progress is young, and stamped with the time it began.
FetchIsTimely ==
    \A t \in Threads : InFetch(t) =>
        /\ fetchBegan \in 0..now /\ now - fetchBegan <= FetchLatency
        /\ lastFetchAttempt = fetchBegan

\* The document in hand describes a key set not older than its fetch.
DocumentMirrorsIdp ==
    (\E t \in Threads : phase[t] = "received") /\ outcome = "document" =>
        \A k \in Kids :
            IF document[k] = "usable" THEN lastUsable[k] >= fetchBegan
                                      ELSE lastUnusable[k] >= fetchBegan

\* After a successful fetch the cache is filled and remembers the attempt.
SuccessIsRemembered ==
    lastFetchOk /\ lock = NoThread =>
        /\ keysByKid # {} /\ urlKnown
        /\ lastFetchAttempt = fetchBegan /\ fetchBegan <= fetchedAt

\* The inductive invariant: what every step of every thread preserves, and
\* from which the promise of the key service follows.
IndInv ==
    /\ TypeOK
    /\ LockDiscipline
    /\ HistoryIsCurrent
    /\ FetchIsTimely
    /\ DocumentMirrorsIdp
    /\ CacheMirrorsIdp
    /\ SuccessIsRemembered
    /\ fetchedAt <= now

\* get_key keeps the promise of the abstract key service: a key withdrawn by
\* Auth0 verifies no token, and a new key is not answered 401, for longer than
\* the cache's TTL plus the time of one fetch, however threads, rotations,
\* outages and clears interleave.
Service == INSTANCE KeyService WITH Window <- Ttl + FetchLatency

KeyServiceSpec == Service!SvcSpec

\* A thread starts talking to Auth0.
FetchBegins(t) ==
    /\ phase'[t] = "fetching"
    /\ phase[t] # "fetching"

\* While Auth0 answers, the workers' load on it is bounded: after a fetch that
\* succeeded, the next begins no sooner than MinRefresh later, whether the TTL
\* or an unknown kid asks for it (auth.py, get_key's two refresh conditions).
HealthyFetchFloor ==
    [][\A t \in Threads :
          FetchBegins(t) /\ lastFetchOk' => now - fetchBegan >= MinRefresh]_vars

\* docs/THREAT_MODEL.md and the docstring of get_key: while Auth0 cannot be
\* reached, that is, when the latest attempt to fetch its keys failed, a token
\* whose key is not cached is answered 503 and never 401.
OutageIsNotBadToken ==
    [][\A t \in Threads :
          reply[t] = "none" /\ reply'[t] = "401" => lastFetchOk']_vars
=============================================================================
