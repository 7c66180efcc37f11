----------------------- MODULE ManagementClientProofs -----------------------
(***************************************************************************)
(* Proofs about ManagementClient, for every lifetime of a token, margin,   *)
(* floor, timeout of a request and order of events.                        *)
(***************************************************************************)
EXTENDS ManagementClient, TLAPS

\* Nothing is on its way for longer than Latency.
OnTime == pc \in OnItsWay => began <= now /\ now - began <= Latency

\* A new token is asked for when the cached one is due; a minted one lives for its
\* lifetime from when it was asked for, at least.
MintedInTime ==
    /\ pc \in {"minting", "minted"} => expiresAt <= began
    /\ pc = "minted" => began + lifetime <= validUntil

\* A call is sent before its token is due, and the cache gives up a token that is
\* not too short-lived while it is valid for one more call.
CachedInTime ==
    /\ pc = "sent" => began < expiresAt
    /\ (now < expiresAt \/ pc = "sent") /\ lifetime >= Floor + Latency =>
          expiresAt + Latency <= validUntil

\* The repeated call has a token of its own.
RepeatsWithNewToken == ~retryOn401 =>
    /\ pc = "token" => expiresAt = 0
    /\ pc \in {"sent", "answered"} => mintedInCall

\* Auth0 refuses a token only for one of two reasons.
RefusedForCause == pc = "answered" /\ response = "401" =>
    revoked \/ lifetime < Floor + Latency

\* A call has an effect once it is answered, if at all, and the answer tells.
EffectIsTold ==
    /\ pc \in {"token", "minting", "minted", "sent"} => effects = 0
    /\ pc = "answered" => /\ effects \in {0, 1}
                          /\ response = "2xx" => effects = 1
                          /\ response \notin {"2xx", "5xx"} => effects = 0

IndInv ==
    /\ TypeOK /\ OnTime /\ MintedInTime /\ CachedInTime
    /\ RepeatsWithNewToken /\ RefusedForCause /\ EffectIsTold

-----------------------------------------------------------------------------
LEMMA InitHolds == Init => IndInv
<1> SUFFICES ASSUME Init PROVE IndInv
  OBVIOUS
<1>1. TypeOK
  <2>1. now \in 0..Horizon /\ began \in 0..Horizon /\ expiresAt \in Nat /\ validUntil \in Nat
    BY ClientAssumption DEF Init
  <2>2. effects \in Nat /\ lifetime \in Lifetimes \cup {0}
    BY DEF Init
  <2>3. revoked \in BOOLEAN /\ retryOn401 \in BOOLEAN /\ mintedInCall \in BOOLEAN
    BY DEF Init
  <2>4. /\ pc \in {"idle", "token"} \cup OnItsWay
        /\ response \in {"none", "2xx", "401", "404", "409", "429", "4xx", "5xx"}
        /\ answer \in {"none", "ok", "404", "409", "429", "500", "502", "503"}
    BY DEF Init
  <2> QED BY <2>1, <2>2, <2>3, <2>4 DEF TypeOK
<1>2. OnTime /\ MintedInTime /\ EffectIsTold /\ RepeatsWithNewToken /\ RefusedForCause
  BY DEF Init, OnTime, MintedInTime, EffectIsTold, RepeatsWithNewToken, RefusedForCause, OnItsWay
<1>3. CachedInTime
  BY DEF Init, CachedInTime
<1> QED BY <1>1, <1>2, <1>3 DEF IndInv

\* A token is in the cache for a whole number of seconds, Floor of them at least.
LEMMA CachedUntilBounds ==
  ASSUME NEW l \in Nat, began \in Nat
  PROVE  /\ CachedUntil(l) \in Nat
         /\ began + Floor <= CachedUntil(l)
         /\ l >= Floor + Latency => CachedUntil(l) + Latency <= began + l
BY ClientAssumption DEF CachedUntil

LEMMA TypeKept == IndInv /\ [Next]_vars => TypeOK'
<1> SUFFICES ASSUME IndInv, [Next]_vars PROVE TypeOK'
  OBVIOUS
<1> USE DEF IndInv, TypeOK, OnItsWay
<1>1. CASE UNCHANGED vars
  BY <1>1 DEF vars, tokenVars, callState
<1>2. CASE NewClient \/ BeginCall \/ AskToken \/ Revoke
  <2>1. CASE NewClient
    BY <2>1 DEF NewClient, callState
  <2>2. CASE BeginCall
    BY <2>2 DEF BeginCall
  <2>3. CASE AskToken
    BY <2>3 DEF AskToken, tokenVars
  <2>4. CASE Revoke
    BY <2>4 DEF Revoke, callState
  <2> QED BY <1>2, <2>1, <2>2, <2>3, <2>4
<1>3. CASE Auth0Mints
  <2>1. \A l \in Lifetimes : now + l \in Nat
    BY ClientAssumption
  <2> QED BY <1>3, <2>1 DEF Auth0Mints
<1>4. CASE TokenArrives
  <2>1. lifetime \in Nat /\ began \in Nat
    BY ClientAssumption
  <2>2. CachedUntil(lifetime) \in Nat
    BY <2>1, CachedUntilBounds
  <2> QED BY <1>4, <2>2 DEF TokenArrives
<1>5. CASE MintFails \/ ConnectionFails \/ Retry \/ Finish
  <2>1. /\ pc' \in {"idle", "token"} /\ response' = "none" /\ effects' = effects
        /\ now' = now /\ began' = began /\ validUntil' = validUntil /\ revoked' = revoked
        /\ lifetime' = lifetime /\ mintedInCall' = mintedInCall
    BY <1>5 DEF MintFails, ConnectionFails, Retry, Finish, End, tokenVars
  <2>2. expiresAt' \in {0, expiresAt}
    BY <1>5 DEF MintFails, ConnectionFails, Retry, Finish, tokenVars
  <2>3. retryOn401' \in BOOLEAN
    BY <1>5 DEF MintFails, ConnectionFails, Retry, Finish, End
  <2>4. answer' \in {"none", "ok", "404", "409", "429", "500", "502", "503"}
    BY <1>5 DEF MintFails, ConnectionFails, Retry, Finish, End
  <2> QED BY <2>1, <2>2, <2>3, <2>4
<1>6. CASE Auth0Handles
  BY <1>6 DEF Auth0Handles, tokenVars
<1>7. CASE Tick
  BY <1>7, ClientAssumption DEF Tick, tokenVars, callState
<1> QED BY <1>1, <1>2, <1>3, <1>4, <1>5, <1>6, <1>7 DEF Next, Progress

\* The clock, the token and the call keep in step.
LEMMA TimesKept == IndInv /\ [Next]_vars => (OnTime /\ MintedInTime /\ CachedInTime)'
<1> SUFFICES ASSUME IndInv, [Next]_vars PROVE (OnTime /\ MintedInTime /\ CachedInTime)'
  OBVIOUS
<1>0. /\ now \in Nat /\ began \in Nat /\ expiresAt \in Nat /\ validUntil \in Nat /\ lifetime \in Nat
      /\ Lifetimes \subseteq Nat /\ Margin \in Nat /\ Floor \in Nat /\ Latency \in Nat
      /\ Latency <= Margin /\ Latency < Floor
  BY ClientAssumption DEF IndInv, TypeOK
<1> USE <1>0 DEF OnTime, MintedInTime, CachedInTime, OnItsWay
<1>1. CASE UNCHANGED vars
  BY <1>1 DEF IndInv, vars, tokenVars, callState
<1>2. CASE NewClient \/ BeginCall \/ Revoke
  BY <1>2 DEF IndInv, NewClient, BeginCall, Revoke, callState
<1>3. CASE AskToken
  BY <1>3 DEF IndInv, AskToken, tokenVars
<1>4. CASE Auth0Mints
  BY <1>4 DEF IndInv, Auth0Mints
<1>5. CASE TokenArrives
  <2>1. /\ expiresAt' = CachedUntil(lifetime)
        /\ began + Floor <= CachedUntil(lifetime)
        /\ lifetime >= Floor + Latency => CachedUntil(lifetime) + Latency <= began + lifetime
        /\ CachedUntil(lifetime) \in Nat
    BY <1>5, CachedUntilBounds DEF TokenArrives
  <2>2. /\ pc' = "sent" /\ began' = now /\ now' = now /\ lifetime' = lifetime
        /\ validUntil' = validUntil
        /\ now - began <= Latency /\ began <= now /\ began + lifetime <= validUntil
    BY <1>5 DEF IndInv, TokenArrives
  <2> QED BY <2>1, <2>2
<1>6. CASE MintFails \/ ConnectionFails \/ Retry \/ Finish
  BY <1>6 DEF IndInv, MintFails, ConnectionFails, Retry, Finish, End, tokenVars
<1>7. CASE Auth0Handles
  BY <1>7 DEF IndInv, Auth0Handles, tokenVars
<1>8. CASE Tick
  BY <1>8 DEF IndInv, Tick, tokenVars, callState
<1> QED BY <1>1, <1>2, <1>3, <1>4, <1>5, <1>6, <1>7, <1>8 DEF Next, Progress

\* A call arrives in time, if its token lives long enough to begin with.
LEMMA ArrivesInTime == IndInv => NoExpiryRace
BY ClientAssumption DEF IndInv, TypeOK, OnTime, CachedInTime, OnItsWay, NoExpiryRace

\* What the repetition of a call relies on.
LEMMA CallKept ==
  IndInv /\ [Next]_vars => (RepeatsWithNewToken /\ RefusedForCause /\ EffectIsTold)'
<1> SUFFICES ASSUME IndInv, [Next]_vars
             PROVE  (RepeatsWithNewToken /\ RefusedForCause /\ EffectIsTold)'
  OBVIOUS
<1> USE DEF RepeatsWithNewToken, RefusedForCause, EffectIsTold
<1>1. CASE UNCHANGED vars \/ Tick
  BY <1>1 DEF IndInv, Tick, vars, tokenVars, callState
<1>2. CASE NewClient \/ BeginCall \/ Revoke
  BY <1>2 DEF IndInv, NewClient, BeginCall, Revoke, callState
<1>3. CASE AskToken
  <2>1. now \in Nat
    BY DEF IndInv, TypeOK
  <2>2. ~retryOn401 => pc' = "minting"
    BY <1>3, <2>1 DEF IndInv, AskToken
  <2> QED BY <1>3, <2>2 DEF IndInv, AskToken, tokenVars
<1>4. CASE Auth0Mints \/ TokenArrives
  BY <1>4 DEF IndInv, Auth0Mints, TokenArrives
<1>5. CASE MintFails \/ ConnectionFails \/ Finish
  BY <1>5 DEF IndInv, MintFails, ConnectionFails, Finish, End, tokenVars
<1>6. CASE Retry
  BY <1>6 DEF IndInv, Retry
<1>7. CASE Auth0Handles
  <2>1. RefusedForCause'
    <3>1. response' = "401" => revoked \/ ~(now < validUntil)
      BY <1>7 DEF Auth0Handles, Accepted
    <3>2. lifetime \in Int /\ Floor + Latency \in Int
      BY ClientAssumption DEF IndInv, TypeOK
    <3>3. pc = "sent" /\ NoExpiryRace
      BY <1>7, ArrivesInTime DEF Auth0Handles
    <3> QED BY <1>7, <3>1, <3>2, <3>3 DEF Auth0Handles, NoExpiryRace, tokenVars
  <2>2. RepeatsWithNewToken' /\ EffectIsTold'
    BY <1>7 DEF IndInv, Auth0Handles, tokenVars
  <2> QED BY <2>1, <2>2
<1> QED BY <1>1, <1>2, <1>3, <1>4, <1>5, <1>6, <1>7 DEF Next, Progress

THEOREM Invariance == Spec => []IndInv
<1>1. IndInv /\ [Next]_vars => IndInv'
  BY TypeKept, TimesKept, CallKept DEF IndInv
<1> QED BY InitHolds, <1>1, PTL DEF Spec

-----------------------------------------------------------------------------
\* The variables of the client keep their types.
THEOREM TypeCorrect == Spec => []TypeOK
<1>1. IndInv => TypeOK
  BY DEF IndInv
<1> QED BY <1>1, Invariance, PTL

\* A request in flight never races the expiry of its token, whatever lifetime
\* above Floor + Latency Auth0 gives it (auth0_client.py, _access_token).
THEOREM NoRace == Spec => []NoExpiryRace
BY ArrivesInTime, Invariance, PTL

\* What an earlier call cached never makes a later one fail (auth0_client.py,
\* _request: a 401 drops the token before the call is repeated).
THEOREM OnlyNewFail == Spec => OnlyNewTokensFail
<1>1. IndInv /\ [Next]_vars =>
         [pc = "answered" /\ response = "401" /\ pc' = "idle" /\ answer' = "502" =>
             mintedInCall /\ (revoked \/ lifetime < Floor + Latency)]_vars
  <2> SUFFICES ASSUME IndInv, [Next]_vars, pc = "answered", response = "401",
                      pc' = "idle", answer' = "502"
               PROVE  mintedInCall /\ (revoked \/ lifetime < Floor + Latency)
    OBVIOUS
  <2>1. Finish
    BY DEF Next, Progress, NewClient, BeginCall, AskToken, Auth0Mints, MintFails, TokenArrives,
           Auth0Handles, ConnectionFails, Retry, Revoke, Tick, End, vars, callState
  <2>2. ~retryOn401
    BY <2>1 DEF Finish
  <2> QED BY <2>2 DEF IndInv, RepeatsWithNewToken, RefusedForCause
<1> QED BY <1>1, Invariance, PTL DEF Spec, OnlyNewTokensFail

\* A step of the client is a step of the call, or none.
LEMMA StepRefines == IndInv /\ [Next]_vars => [Calls!CallNext]_(Calls!callVars)
<1> SUFFICES ASSUME IndInv, [Next]_vars PROVE [Calls!CallNext]_(Calls!callVars)
  OBVIOUS
<1> USE DEF Calls!callVars, Calls!CallNext
<1>1. CASE UNCHANGED vars \/ NewClient \/ Revoke \/ Tick
  BY <1>1 DEF NewClient, Revoke, Tick, vars, callState
<1>2. CASE BeginCall
  BY <1>2 DEF BeginCall, Calls!Call
<1>3. CASE AskToken \/ Auth0Mints \/ TokenArrives \/ Retry
  BY <1>3 DEF AskToken, Auth0Mints, TokenArrives, Retry
<1>4. CASE MintFails \/ ConnectionFails
  BY <1>4 DEF MintFails, ConnectionFails, End, Calls!Return, Calls!Unclear
<1>5. CASE Auth0Handles
  BY <1>5 DEF Auth0Handles, IndInv, EffectIsTold, Calls!TakeEffect
<1>6. CASE Finish
  BY <1>6 DEF Finish, End, IndInv, EffectIsTold, Calls!Return, Calls!Refusals, Calls!Unclear
<1> QED BY <1>1, <1>2, <1>3, <1>4, <1>5, <1>6 DEF Next, Progress

\* The client implements ManagementCall: despite the retry a call is carried out
\* at most once, one that returns was carried out, and one refused was not.
THEOREM Refinement == Spec => ManagementCallSpec
<1>1. Init => Calls!CallInit
  BY DEF Init, Calls!CallInit
<1> QED BY <1>1, StepRefines, Invariance, PTL DEF Spec, ManagementCallSpec, Calls!CallSpec
=============================================================================
