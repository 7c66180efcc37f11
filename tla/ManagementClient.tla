-------------------------- MODULE ManagementClient --------------------------
(***************************************************************************)
(* The Auth0 Management API client that serves one request,                *)
(* src/backend/src/management/auth0_client.py: its cached access token,    *)
(* and the calls the request makes one after the other.  from_app builds a *)
(* client per request, so its lock is never contended.                     *)
(*                                                                         *)
(* A call is a conversation with Auth0; pc says where it stands:           *)
(*                                                                         *)
(*   idle      between two calls of the handler                            *)
(*   token     in _request, about to ask for an access token               *)
(*   minting   POST /oauth/token is on its way                             *)
(*   minted    its response is on its way back                             *)
(*   sent      the call itself is on its way, with the token               *)
(*   answered  its response is on its way back                             *)
(*                                                                         *)
(* Time passes while something is on its way, but never more than Latency: *)
(* that is the timeout of requests.  Auth0 may revoke a token at any time, *)
(* and chooses its lifetime.                                               *)
(***************************************************************************)
EXTENDS Integers

CONSTANTS
    Lifetimes,   \* the values of expires_in that Auth0 answers
    Margin,      \* TOKEN_REFRESH_MARGIN_SECONDS
    Floor,       \* the 30 seconds a token is cached at least
    Latency,     \* MANAGEMENT_HTTP_TIMEOUT_SECONDS
    Horizon      \* the clock stops here (a bound for model checking)

ASSUME ClientAssumption ==
    /\ Lifetimes \subseteq Nat
    /\ Margin \in Nat /\ Floor \in Nat /\ Latency \in Nat /\ Horizon \in Nat
    /\ Latency <= Margin /\ Latency < Floor

VARIABLES
    now,
    expiresAt,                    \* _token_expires_at; the client has a token if it is not 0
    validUntil, revoked,          \* what Auth0 knows of that token
    pc, retryOn401, began,        \* the call; when its present leg began
    response,                     \* what Auth0 answered
    effects, answer,              \* how often the call was carried out; its result
    lifetime, mintedInCall        \* history: expires_in of the token, and whose it is

tokenVars == <<expiresAt, validUntil, revoked, lifetime, mintedInCall>>
callState == <<pc, retryOn401, began, response>>
vars == <<now, tokenVars, callState, effects, answer>>

OnItsWay == {"minting", "minted", "sent", "answered"}

Init ==
    /\ now = 0
    /\ expiresAt = 0 /\ validUntil = 0 /\ revoked = FALSE
    /\ pc = "idle" /\ retryOn401 = TRUE /\ began = 0 /\ response = "none"
    /\ effects = 0 /\ answer = "ok"
    /\ lifetime = 0 /\ mintedInCall = FALSE

-----------------------------------------------------------------------------
\* The next request is served by a client of its own: from_app.
NewClient ==
    /\ pc = "idle"
    /\ expiresAt' = 0 /\ validUntil' = 0 /\ revoked' = FALSE
    /\ lifetime' = 0 /\ mintedInCall' = FALSE
    /\ UNCHANGED <<now, callState, effects, answer>>

\* A handler calls list_users, assign_roles, ...: each is one _request.
BeginCall ==
    /\ pc = "idle"
    /\ pc' = "token" /\ retryOn401' = TRUE
    /\ effects' = 0 /\ answer' = "none"
    /\ mintedInCall' = FALSE
    /\ UNCHANGED <<now, expiresAt, validUntil, revoked, lifetime, began, response>>

\* _request returns or raises.
End(result) ==
    /\ pc' = "idle" /\ answer' = result
    /\ response' = "none"
    /\ UNCHANGED <<retryOn401, began, effects>>

\* _access_token: a token that is not due is used, else a new one is asked for.
AskToken ==
    /\ pc = "token"
    /\ pc' = IF now < expiresAt THEN "sent" ELSE "minting"
    /\ began' = now
    /\ UNCHANGED <<now, tokenVars, retryOn401, response, effects, answer>>

\* Auth0 issues a token.  The client has yet to hear of it.
Auth0Mints ==
    /\ pc = "minting"
    /\ \E l \in Lifetimes : lifetime' = l /\ validUntil' = now + l
    /\ revoked' = FALSE
    /\ pc' = "minted"
    /\ UNCHANGED <<now, expiresAt, mintedInCall, retryOn401, began, response, effects, answer>>

\* No connection, or a status other than 200: 503.  A 200 whose body is not
\* the expected one raises outside the try: 500.
MintFails ==
    /\ \/ pc \in {"minting", "minted"} /\ End("503")
       \/ pc = "minted" /\ End("500")
    /\ UNCHANGED <<now, tokenVars>>

\* Mutated: the token is used until Auth0 says it expires.
CachedUntilNoMargin(l) == began + (IF l > Floor THEN l ELSE Floor)

\* Mutated: the 30 seconds are left out.
CachedUntilNoFloor(l) == began + l - Margin

\* now + max(expires_in - margin, 30), where now was read before the POST.
CachedUntil(l) == began + (IF l - Margin > Floor THEN l - Margin ELSE Floor)

\* _access_token stores the token and returns; the call is sent at once.
TokenArrives ==
    /\ pc = "minted"
    /\ expiresAt' = CachedUntil(lifetime)
    /\ mintedInCall' = TRUE
    /\ pc' = "sent" /\ began' = now
    /\ UNCHANGED <<now, validUntil, revoked, lifetime, retryOn401, response, effects, answer>>

\* Auth0 accepts the token of the call it receives.
Accepted == now < validUntil /\ ~revoked

\* Auth0 handles the call: it carries it out and says so, or answers with a
\* server error though it did, or refuses it; without a valid token it is 401.
Auth0Handles ==
    /\ pc = "sent"
    /\ \/ /\ Accepted /\ effects' = effects + 1
          /\ response' \in {"2xx", "5xx"}
       \/ /\ Accepted /\ UNCHANGED effects
          /\ response' \in {"404", "409", "429", "4xx", "5xx"}
       \/ ~Accepted /\ UNCHANGED effects /\ response' = "401"
    /\ pc' = "answered"
    /\ UNCHANGED <<now, tokenVars, retryOn401, began, answer>>

\* Mutated: a call whose answer is lost is repeated, too.
ConnectionFailsRetried ==
    /\ pc \in {"sent", "answered"}
    /\ IF retryOn401
         THEN /\ pc' = "token" /\ retryOn401' = FALSE /\ response' = "none"
              /\ UNCHANGED <<began, effects, answer>>
         ELSE End("503")
    /\ UNCHANGED <<now, tokenVars>>

\* requests raises RequestException, before or after Auth0 has acted.
ConnectionFails ==
    /\ pc \in {"sent", "answered"}
    /\ End("503")
    /\ UNCHANGED <<now, tokenVars>>

\* Mutated: the rejected token stays in the cache.
RetryWithSameToken ==
    /\ pc = "answered" /\ response = "401" /\ retryOn401
    /\ pc' = "token" /\ retryOn401' = FALSE /\ response' = "none"
    /\ UNCHANGED <<now, tokenVars, began, effects, answer>>

\* Mutated: the repeated call may be repeated.
RetryForever ==
    /\ pc = "answered" /\ response = "401" /\ retryOn401
    /\ expiresAt' = 0
    /\ pc' = "token" /\ response' = "none"
    /\ UNCHANGED <<now, validUntil, revoked, lifetime, mintedInCall>>
    /\ UNCHANGED <<retryOn401, began, effects, answer>>

\* A 401 drops the token and repeats the call, once.
Retry ==
    /\ pc = "answered" /\ response = "401" /\ retryOn401
    /\ expiresAt' = 0
    /\ pc' = "token" /\ retryOn401' = FALSE /\ response' = "none"
    /\ UNCHANGED <<now, validUntil, revoked, lifetime, mintedInCall, began, effects, answer>>

\* The status decides the result; a 2xx body that is not JSON raises, too.
Finish ==
    /\ pc = "answered"
    /\ \/ response = "2xx" /\ (End("ok") \/ End("500"))
       \/ response \in {"404", "409", "429"} /\ End(response)
       \/ response \in {"4xx", "5xx"} /\ End("502")
       \/ response = "401" /\ ~retryOn401 /\ End("502")
    /\ UNCHANGED <<now, tokenVars>>

\* Auth0 revokes the token it issued last.
Revoke ==
    /\ ~revoked
    /\ revoked' = TRUE
    /\ UNCHANGED <<now, expiresAt, validUntil, lifetime, mintedInCall, callState, effects, answer>>

\* Time passes; nothing is on its way for longer than Latency.
Tick ==
    /\ now < Horizon
    /\ pc \in OnItsWay => now - began < Latency
    /\ now' = now + 1
    /\ UNCHANGED <<tokenVars, callState, effects, answer>>

Progress ==
    \/ AskToken \/ Auth0Mints \/ MintFails \/ TokenArrives
    \/ Auth0Handles \/ ConnectionFails \/ Retry \/ Finish

Next == NewClient \/ BeginCall \/ Progress \/ Revoke \/ Tick

\* Every leg of a call ends: Auth0 answers, or requests times out.
Spec == Init /\ [][Next]_vars /\ WF_vars(Progress)

-----------------------------------------------------------------------------
\* Types of all variables.
TypeOK ==
    /\ now \in 0..Horizon
    /\ expiresAt \in Nat /\ validUntil \in Nat /\ revoked \in BOOLEAN
    /\ pc \in {"idle", "token"} \cup OnItsWay
    /\ retryOn401 \in BOOLEAN /\ began \in 0..Horizon
    /\ response \in {"none", "2xx", "401", "404", "409", "429", "4xx", "5xx"}
    /\ effects \in Nat
    /\ answer \in {"none", "ok", "404", "409", "429", "500", "502", "503"}
    /\ lifetime \in Lifetimes \cup {0} /\ mintedInCall \in BOOLEAN

\* A call whose token Auth0 has not revoked arrives with a token that has not
\* expired, cached or new, for every lifetime that exceeds what the cache adds
\* and a call takes (auth0_client.py, TOKEN_REFRESH_MARGIN_SECONDS: "so a
\* request in flight never races the expiry"; the 30 seconds a token is cached
\* at least are what shorter lifetimes race with).
NoExpiryRace ==
    pc = "sent" /\ lifetime >= Floor + Latency => now < validUntil

\* What an earlier call of the request cached never makes a later one fail: a
\* call ends with Auth0's 401 only if the token refused was minted for this
\* very call, and had been revoked again or was too short-lived to get there.
OnlyNewTokensFail ==
    [][pc = "answered" /\ response = "401" /\ pc' = "idle" /\ answer' = "502" =>
          mintedInCall /\ (revoked \/ lifetime < Floor + Latency)]_vars

\* Despite the retry a call is carried out at most once, one that returns was
\* carried out, and one refused was not: the client implements ManagementCall.
Calls == INSTANCE ManagementCall WITH pending <- pc # "idle"

ManagementCallSpec == Calls!CallSpec

\* Every call comes to an end, also when Auth0 refuses every token.
CallsEnd == (pc # "idle") ~> (pc = "idle")
=============================================================================
