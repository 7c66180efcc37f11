---------------------------- MODULE RequestPath ----------------------------
(***************************************************************************)
(* What a request passes through before and in its view: routing and the   *)
(* rate limiter of src/backend/src/app_factory.py, requires_auth of        *)
(* auth/auth.py, and the checks of a view's body.  The process has booted  *)
(* with a configuration that Config.validate accepts (config.py).          *)
(*                                                                         *)
(* The signing keys come from the promise of the key service, KeyService,  *)
(* which JwksCache is shown to implement: a thread waits for its key while *)
(* keys rotate, tokens age and other requests run.  The views are          *)
(*                                                                         *)
(*   menu   GET /drinks       no token                                     *)
(*   create POST /drinks      post:drinks, a limit of its own, a body      *)
(*   me     GET /users/me     any token                                    *)
(*   users  GET /users        get:users, needs the management client       *)
(*                                                                         *)
(* What the code does with no other thread in sight takes no time: the     *)
(* clock waits for a thread that holds a key (a bound on the model's       *)
(* clock, whose unit is far longer than a signature check).                *)
(***************************************************************************)
EXTENDS KeyService, RecipeValidation

CONSTANTS
    Configs,       \* configurations that may be tried
    Requests,      \* requests that may come, without and with the limiter
    Bodies,        \* bodies that POST /drinks may carry
    StoreOf,       \* where each thread counts: its process, or Redis for all of them
    WriteLimit, DefaultLimit, LimitWindow,  \* RATELIMIT_WRITE, RATELIMIT_DEFAULT
    Leeway,        \* AUTH0_LEEWAY_SECONDS
    MaxRequests    \* bound on the number of requests that the limiter counts

Views == {"menu", "create", "me", "users"}
NoKid == "no kid"

Symmetric == {"HS256"}
Asymmetric == {"RS256", "ES256"}

ASSUME PathAssumption ==
    /\ WriteLimit \in Nat \ {0} /\ DefaultLimit \in Nat \ {0} /\ LimitWindow \in Nat \ {0}
    /\ Leeway \in Nat /\ Window \in Nat /\ MaxRequests \in Nat
    /\ IsFiniteSet(Threads) /\ DOMAIN StoreOf = Threads /\ DOMAIN Requests = BOOLEAN
    /\ \A c \in Configs : /\ c.limiting \in BOOLEAN
                          /\ c.algorithms \subseteq Symmetric \cup Asymmetric \cup {"none"}
    /\ \A body \in Bodies :
          /\ body.form \in {"notJson", "tooLarge", "broken", "notAnObject", "incomplete",
                           "tooDeep", "drink"}
          /\ body.form = "drink" => IsRecipe(body.recipe)
    /\ \A limited \in BOOLEAN : \A r \in Requests[limited] :
          /\ r.view \in Views
          /\ r.header \in {"absent", "blank", "otherScheme", "alone", "extra", "token", "tabbed"}
          /\ r.token.form \in {"jwt", "malformed", "kidNotText"}
          /\ r.token.kid \in Kids \cup {NoKid}

VARIABLES
    config, call, counters,
    given,   \* the answer that the latest step has given, if any
    hits     \* history: the requests counted so far

vars == <<svcVars, config, call, counters, given, hits>>

Stores == {StoreOf[t] : t \in Threads}
NoClaim == {"no claim"}

\* Mutated: any allow-list will do.
ValidatesAnyAlgorithm(c) == c.domain /\ c.audience /\ (c.management => c.m2mCredentials)

\* Config.validate
Validates(c) ==
    /\ c.domain /\ c.audience
    /\ c.algorithms # {} /\ c.algorithms \cap Symmetric = {} /\ "none" \notin c.algorithms
    /\ c.management => c.m2mCredentials

\* ProductionConfig.validate adds to it.
ValidatesInProduction(c) ==
    c.name = "production" => c.secretKey = "long" /\ ~c.dropAll /\ ~c.anyOrigin

\* An answer, with the recipe that its request has stored.
NoRecipe == <<>>
AuthError(status, code) == [status |-> status, code |-> code, recipe |-> NoRecipe]
Status(status) == AuthError(status, "none")
Unhandled == Status("500")
Passed == Status("passed")

Idle == [pc |-> "idle"]

Init ==
    /\ SvcInit
    /\ config \in {c \in Configs : Validates(c) /\ ValidatesInProduction(c)}
    /\ call = [t \in Threads |-> Idle]
    /\ counters = <<>>
    /\ given = Passed
    /\ hits = <<>>

-----------------------------------------------------------------------------
\* register_blueprint only with MANAGEMENT_API_ENABLED.
Routed(view) == view \in {"me", "users"} => config.management

\* The permission that requires_auth is given.
Needs(view) ==
    CASE view = "create" -> "post:drinks" [] view = "users" -> "get:users" [] view = "me" -> ""

\* Mutated: callers are told apart by address.
RateLimitKeyAddress(r) == <<"ip", r.from>>

\* rate_limit_key: what follows "Bearer " and a blank, if anything does.  A
\* tab makes a bearer token all the same for get_token_auth_header.
RateLimitKey(r) ==
    IF r.header \in {"token", "extra"} THEN <<"tok", r.header, r.token.id>> ELSE <<"ip", r.from>>

\* Whose request it is, for the history: the token's, or the address's when it
\* carries none as its header must.
Caller(r) ==
    IF r.header = "token" THEN <<"token", r.token.id>>
    ELSE IF r.header = "extra" THEN <<"text", r.token.id>>
    ELSE <<"address", r.from>>

LimitOf(view) == IF view = "create" THEN WriteLimit ELSE DefaultLimit

\* The library's fixed window: it begins with a first hit, and counts refused
\* requests too (here up to one above the limit).
CounterKey(t, r) == <<StoreOf[t], r.view, RateLimitKey(r)>>
Counter(key) ==
    IF key \in DOMAIN counters /\ counters[key].ends > now
      THEN counters[key] ELSE [count |-> 0, ends |-> now + LimitWindow]
OverLimit(t, r) == config.limiting /\ Counter(CounterKey(t, r)).count >= LimitOf(r.view)
CountHit(t, r) ==
    LET key == CounterKey(t, r)
        c == Counter(key)
    IN IF config.limiting /\ Routed(r.view)
         THEN /\ counters' = [k \in DOMAIN counters \cup {key} |->
                               IF k # key THEN counters[k]
                               ELSE [c EXCEPT !.count = IF @ > LimitOf(r.view) THEN @ ELSE @ + 1]]
              /\ hits' = Append(hits, [store |-> StoreOf[t], view |-> r.view, by |-> Caller(r),
                                       at |-> now, admitted |-> ~OverLimit(t, r)])
         ELSE UNCHANGED <<counters, hits>>

\* get_token_auth_header.  A header of nothing but a blank that the HTTP server
\* does not strip has no first word.
HeaderError(r) ==
    CASE r.header = "blank" -> Unhandled
      [] r.header = "absent" -> AuthError("401", "authorization_header_missing")
      [] r.header \in {"otherScheme", "alone", "extra"} -> AuthError("401", "invalid_header")
      [] r.header \in {"token", "tabbed"} -> Passed

\* Mutated: a token need not name its key.
TokenHeaderErrorAnyKid(tok) ==
    IF ~config.domain \/ ~config.audience THEN AuthError("500", "server_misconfigured")
    ELSE IF tok.form = "kidNotText" THEN Unhandled
    ELSE IF tok.form = "malformed" \/ tok.alg \notin config.algorithms
      THEN AuthError("401", "invalid_header")
    ELSE Passed

\* verify_decode_jwt up to the key.  A key id that is no string makes PyJWT
\* raise an error that is not a DecodeError.
TokenHeaderError(tok) ==
    IF ~config.domain \/ ~config.audience THEN AuthError("500", "server_misconfigured")
    ELSE IF tok.form = "kidNotText" THEN Unhandled
    ELSE IF tok.form = "malformed" \/ tok.alg \notin config.algorithms \/ tok.kid = NoKid
      THEN AuthError("401", "invalid_header")
    ELSE Passed

\* The key service's answers other than a key.
KeyError(t) ==
    CASE reply[t] = "401" -> AuthError("401", "invalid_header")
      [] reply[t] = "503" -> AuthError("503", "jwks_unavailable")
      [] reply[t] = "500" -> Unhandled
      [] reply[t] = "key" -> Passed

Expired(tok) == tok.exp <= now - Leeway
Immature(tok) == tok.iat > now + Leeway \/ tok.nbf > now + Leeway

\* jwt.decode with an RSA key, in PyJWT's order of checks.  Another algorithm
\* wants a key of another type.
ClaimsError(tok) ==
    IF tok.alg # "RS256" THEN Unhandled
    ELSE IF ~tok.genuine THEN AuthError("401", "invalid_token")
    ELSE IF ~tok.complete THEN AuthError("401", "invalid_claims")
    ELSE IF Immature(tok) THEN AuthError("401", "invalid_token")
    ELSE IF Expired(tok) THEN AuthError("401", "token_expired")
    ELSE IF ~tok.ours THEN AuthError("401", "invalid_claims")
    ELSE Passed

\* _permissions_from_payload: the permissions claim before the scopes.
Granted(tok) == IF tok.permissions # NoClaim THEN tok.permissions ELSE tok.scope

\* Mutated: a token without the claim has no permissions, which "" accepts.
PermissionErrorLenient(tok, permission) ==
    IF permission = "" THEN Passed
    ELSE IF Granted(tok) = NoClaim THEN AuthError("403", "invalid_permissions_claim")
    ELSE IF permission \notin Granted(tok) THEN AuthError("403", "unauthorized")
    ELSE Passed

\* check_permissions
PermissionError(tok, permission) ==
    IF Granted(tok) = NoClaim THEN AuthError("403", "invalid_permissions_claim")
    ELSE IF permission = "" THEN Passed
    ELSE IF permission \notin Granted(tok) THEN AuthError("403", "unauthorized")
    ELSE Passed

\* The check that raises keeps the next one from running.
FirstError(error, next) == IF error # Passed THEN error ELSE next

\* _json_body, then create_drink's own checks, the title first.
BodyError(body) ==
    CASE body.form = "notJson" -> Status("415")
      [] body.form = "tooLarge" -> Status("413")
      [] body.form \in {"broken", "notAnObject"} -> Status("400")
      [] body.form = "tooDeep" -> Unhandled
      [] body.form = "incomplete" -> Status("422")
      [] body.form = "drink" ->
            IF ~ValidateTitle(body.title).ok THEN Status("422")
            ELSE IF Unreadable(body.recipe) THEN Unhandled
            ELSE IF ~ValidateRecipe(body.recipe).ok THEN Status("422")
            ELSE Passed

-----------------------------------------------------------------------------
Answer(t, answer) == call' = [call EXCEPT ![t] = Idle] /\ given' = answer
Goes(t, pc) == call' = [call EXCEPT ![t].pc = pc] /\ given' = Passed

Arrive(t) ==
    /\ call[t].pc = "idle"
    /\ Len(hits) + Cardinality({u \in Threads : call[u].pc = "arrived"}) < MaxRequests
    /\ \E r \in Requests[config.limiting] : call' = [call EXCEPT ![t] = [pc |-> "arrived", request |-> r]]
    /\ given' = Passed
    /\ UNCHANGED <<svcVars, config, counters, hits>>

\* Routing, the limiter, the header, and the token up to its key.
Screen(t) ==
    LET r == call[t].request
        error == IF r.view = "menu" THEN Passed
                 ELSE FirstError(HeaderError(r), TokenHeaderError(r.token))
    IN /\ call[t].pc = "arrived"
       /\ CountHit(t, r)
       /\ \/ ~Routed(r.view) /\ Answer(t, Status("404")) /\ UNCHANGED svcVars
          \/ /\ Routed(r.view) /\ OverLimit(t, r)
             /\ Answer(t, Status("429")) /\ UNCHANGED svcVars
          \/ /\ Routed(r.view) /\ ~OverLimit(t, r) /\ error # Passed
             /\ Answer(t, error) /\ UNCHANGED svcVars
          \/ /\ Routed(r.view) /\ ~OverLimit(t, r) /\ error = Passed /\ r.view = "menu"
             /\ Goes(t, "view") /\ UNCHANGED svcVars
          \/ /\ Routed(r.view) /\ ~OverLimit(t, r) /\ error = Passed /\ r.view # "menu"
             /\ Ask(t, r.token.kid) /\ Goes(t, "key")
       /\ UNCHANGED config

\* The key is there, or is not: the rest of verify_decode_jwt, and
\* check_permissions.
Verify(t) ==
    LET r == call[t].request
        error == FirstError(KeyError(t), FirstError(ClaimsError(r.token),
                                PermissionError(r.token, Needs(r.view))))
    IN /\ call[t].pc = "key" /\ reply[t] # "none"
       /\ IF error = Passed THEN Goes(t, "view") ELSE Answer(t, error)
       /\ UNCHANGED <<svcVars, config, counters, hits>>

\* The view.  The rows it reads or writes are those of DrinksApi, the accounts
\* those of UsersAdmin; here it succeeds once its arguments are in order.
View(t) ==
    LET view == call[t].request.view
    IN /\ call[t].pc = "view"
       /\ \/ view \in {"menu", "me"} /\ Answer(t, Status("200"))
          \/ /\ view = "users"
             /\ Answer(t, IF config.m2mCredentials THEN Status("200")
                          ELSE AuthError("503", "management_unconfigured"))
          \/ /\ view = "create"
             /\ \E body \in Bodies :
                  Answer(t, IF BodyError(body) # Passed THEN BodyError(body)
                            ELSE [Status("200") EXCEPT !.recipe =
                                                           ValidateRecipe(body.recipe).value])
       /\ UNCHANGED <<svcVars, config, counters, hits>>

Service(t) ==
    /\ AnswerKey(t) \/ AnswerUnknown(t) \/ AnswerFailure(t)
    /\ given' = Passed
    /\ UNCHANGED <<config, call, counters, hits>>

HoldsKey(t) == call[t].pc = "view" \/ (call[t].pc = "key" /\ reply[t] # "none")

Environment ==
    /\ \/ (\A t \in Threads : ~HoldsKey(t)) /\ Tick
       \/ \E k \in Kids : Rotate(k)
    /\ given' = Passed
    /\ UNCHANGED <<want, reply, config, call, counters, hits>>

Next ==
    \/ Environment
    \/ \E t \in Threads : Arrive(t) \/ Screen(t) \/ Service(t) \/ Verify(t) \/ View(t)

Spec == Init /\ [][Next]_vars

-----------------------------------------------------------------------------
\* Types of the variables; a thread only ever asks for the key of a key id.
TypeOK ==
    /\ IdpTypeOK
    /\ want \in [Threads -> Kids] /\ reply \in [Threads -> Replies]
    /\ config \in Configs
    /\ \A t \in Threads :
          \/ call[t] = Idle
          \/ call[t].pc \in {"arrived", "key", "view"} /\ call[t].request \in Requests[config.limiting]
    /\ \A key \in DOMAIN counters : counters[key].ends <= now + LimitWindow
    /\ Len(hits) <= MaxRequests

\* The token comes with the request, is made for this API and says of itself
\* that it is in force.
Sound(tok) ==
    /\ tok.form = "jwt" /\ tok.alg = "RS256" /\ tok.alg \in config.algorithms /\ tok.kid # NoKid
    /\ tok.genuine /\ tok.complete /\ tok.ours /\ ~Expired(tok) /\ ~Immature(tok)
Carries(r) == r.header \in {"token", "tabbed"}
Allows(tok, view) == Granted(tok) # NoClaim /\ Needs(view) \in Granted(tok) \cup {""}
KeyKnown(tok) == now - lastUsable[tok.kid] <= Window
KeyUnknown(tok) == tok.kid # NoKid /\ now - lastUnusable[tok.kid] <= Window

\* Thread t's request to a protected view leaves a step of requires_auth.
Decides(t) ==
    /\ call[t].pc \in {"arrived", "key"} /\ call'[t].pc \in {"view", "idle"}
    /\ call[t].request.view # "menu"

\* "401 and 403 mean different things" (auth.py).  However keys rotate and
\* tokens age while a thread waits for its key: a view runs only for a sound
\* token that allows it and whose key Auth0 has published within the key
\* service's window; a 403 says the same of a token that does not allow it; a
\* token is called expired only if a key of Auth0 has signed it; and a 401 is
\* never the answer to a sound token whose key has been out all along.
AnswersMatchCredentials ==
    [][\A t \in Threads : Decides(t) =>
          LET r == call[t].request
              known == Carries(r) /\ KeyKnown(r.token)
          IN IF call'[t].pc = "view"
               THEN known /\ Sound(r.token) /\ Allows(r.token, r.view)
               ELSE /\ given'.status = "403" =>
                           known /\ Sound(r.token) /\ ~Allows(r.token, r.view)
                    /\ given'.code = "token_expired" => known /\ r.token.genuine
                    /\ given'.status = "401" =>
                           ~Carries(r) \/ ~Sound(r.token) \/ KeyUnknown(r.token)]_vars

\* A configuration that passes Config.validate can do its work: no request is
\* ever answered that the API is misconfigured or user administration is not
\* set up, and no token with a shared-secret or no signature reaches a key
\* ("Refuse rather than warn", config.py).
BootMeansVerifiable ==
    /\ given.code \notin {"server_misconfigured", "management_unconfigured"}
    /\ \A t \in Threads : call[t].pc = "key" => call[t].request.token.alg \in Asymmetric

\* rate_limit_key: "one noisy client cannot spend another's budget".  A request
\* is refused only if its own token, or its own address when it has none, has
\* sent this view as many requests as the limit within the last window, counted
\* in the same store; and a span of that length lets fewer than twice the limit
\* of them pass, per store (a process, or Redis for all of them).
ChargedForOwnRequests ==
    [][Len(hits') > Len(hits) =>
          LET hit == Last(hits')
              own == {n \in DOMAIN hits : /\ hits[n].store = hit.store
                                          /\ hits[n].view = hit.view /\ hits[n].by = hit.by
                                          /\ hits[n].at > hit.at - LimitWindow}
              limit == LimitOf(hit.view)
          IN IF hit.admitted THEN Cardinality({n \in own : hits[n].admitted}) < 2 * limit - 1
                             ELSE Cardinality(own) >= limit]_vars

\* What is stored and can be read can be edited and drawn: unless a part is NaN,
\* which keeps every browser from reading the response (models.py promises "'parts':
\* number"), the recipe that Drink.long() gives the edit form is accepted when it
\* comes back and is stored as it was, and every ingredient that Drink.short()
\* shows has a colour that can be drawn and a number of parts within the limits.
RecipesRoundTrip ==
    given.recipe # NoRecipe =>
        /\ Long(given.recipe).ok =>
              ValidateRecipe(FromForm(Long(given.recipe).value)) = Accepted(given.recipe)
        /\ Short(given.recipe).ok =>
              \A shown \in ToSet(Short(given.recipe).value) :
                 /\ shown.color.form \in Drawable /\ ~shown.color.padded
                 /\ shown.parts.type = "number" /\ shown.parts.value \in 1..MaxParts
=============================================================================
