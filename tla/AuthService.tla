---------------------------- MODULE AuthService ----------------------------
(***************************************************************************)
(* Signing in and out in the browser:                                      *)
(* src/frontend/src/app/core/auth.service.ts as app.ts uses it, with       *)
(* isExpired of core/oauth.ts.  Authorization Code with PKCE, the default. *)
(*                                                                         *)
(* Tabs keep token, state and verifier in a storage of their own           *)
(* ('session') or in a common one ('local').  A page runs one callback at  *)
(* a time; its awaits are the digest of the challenge and the exchange of  *)
(* the code, and a page that is left or reloaded takes them with it.       *)
(* Attempts to sign in are numbered: number n stands for the n-th state,   *)
(* verifier, code and token alike.  Storage is available.                  *)
(***************************************************************************)
EXTENDS Naturals

CONSTANTS
    Tabs,
    MaxAttempts,   \* bound on the attempts to sign in; Auth0 answers each with one code
    Horizon,       \* bound on the clock
    Lifetime,      \* of an access token
    Skew           \* skewSeconds

ASSUME SignInAssumption ==
    /\ MaxAttempts \in Nat /\ Horizon \in Nat /\ Lifetime \in Nat /\ Skew \in Nat
    /\ Skew < Lifetime

VARIABLES
    tokenStorage,   \* environment.auth0.tokenStorage
    store, tabs,
    codes, expires, \* Auth0: the code of each attempt, the end of its token
    now,
    begun,          \* attempts begun so far
    revoked,        \* history: attempts that a sign-out has put an end to
    undisturbed     \* history: an attempt that nothing else in its storage came near

vars == <<tokenStorage, store, tabs, codes, expires, now, begun, revoked, undisturbed>>

None == 0
Logout == MaxAttempts + 1
Attempts == 1..MaxAttempts
Areas == Tabs \cup {"local"}
Failures == {"none", "auth0", "state_mismatch", "missing_verifier", "exchange_failed", "network"}

\* storage
Area(t) == IF tokenStorage = "local" THEN "local" ELSE t

Empty == [token |-> None, state |-> None, verifier |-> None]

Expired(n) == expires[n] <= now + Skew

\* Mutated: no claims, nothing expired.
IsAuthenticatedNull(n) == n = None \/ ~Expired(n)

\* isAuthenticated, when it is computed
IsAuthenticated(n) == n # None /\ ~Expired(n)

NoExchange == [code |-> None, verifier |-> None, answer |-> "none"]

\* The signals of a page that has just loaded, and what waits in it: digests
\* under way (building) and the address assigned to window.location.href
\* (target).  authed is isAuthenticated, computed when the token changes and not
\* when the clock moves.
Page(token) ==
    [page |-> "app", target |-> None, building |-> {}, failure |-> "none",
     token |-> token, authed |-> IsAuthenticated(token), exchange |-> NoExchange]

Init ==
    /\ tokenStorage \in {"session", "local"}
    /\ store = [a \in Areas |-> Empty]
    /\ tabs = [t \in Tabs |-> Page(None)]
    /\ codes = [n \in Attempts |-> "none"] /\ expires = [n \in Attempts |-> 0]
    /\ now = 0 /\ begun = 0
    /\ revoked = [a \in Areas |-> {}] /\ undisturbed = [a \in Areas |-> None]

-----------------------------------------------------------------------------
Quiet(t) == LET p == tabs[t] IN
    p.page = "app" /\ p.target = None /\ p.building = {} /\ p.exchange = NoExchange

\* buildLoginUrl stores state and verifier before it awaits the digest.
StoreAttempt(a, n) == [store EXCEPT ![a].state = n, ![a].verifier = n]

\* login; the button is there, also during an exchange, until a token is.
SignIn(t) ==
    LET n == begun + 1
        a == Area(t)
    IN /\ n \in Attempts /\ tabs[t].page = "app" /\ ~tabs[t].authed
       /\ begun' = n
       /\ store' = StoreAttempt(a, n)
       /\ tabs' = [tabs EXCEPT ![t].failure = "none", ![t].building = @ \cup {n}]
       /\ undisturbed' = [undisturbed EXCEPT ![a] =
             IF store[a].token = None /\ \A s \in Tabs : Area(s) = a => Quiet(s)
               THEN n ELSE None]
       /\ UNCHANGED <<tokenStorage, codes, expires, now, revoked>>

\* A digest is there: login assigns the address, over an earlier one.
ChallengeReady(t) == \E n \in tabs[t].building :
    /\ tabs' = [tabs EXCEPT ![t].building = @ \ {n}, ![t].target = n]
    /\ UNCHANGED <<tokenStorage, store, codes, expires, now, begun, revoked, undisturbed>>

\* The browser leaves for the address assigned last.
Leave(t) ==
    /\ tabs[t].page = "app" /\ tabs[t].target # None
    /\ tabs' = [tabs EXCEPT ![t] = [Page(None) EXCEPT !.page = "away", !.target = tabs[t].target]]
    /\ UNCHANGED <<tokenStorage, store, codes, expires, now, begun, revoked, undisturbed>>

\* Mutated: state and verifier survive.
ClearTokenOnly(stored) == [stored EXCEPT !.token = None]

\* clearToken, as far as the storage goes
ClearToken(stored) == Empty

\* logoutEverywhere: an exchange under way is not cancelled.
SignOut(t) ==
    LET a == Area(t)
        spared == {tabs[s].exchange.code : s \in {s \in Tabs : Area(s) = a}}
    IN /\ tabs[t].page = "app" /\ tabs[t].authed
       /\ store' = [store EXCEPT ![a] = ClearToken(@)]
       /\ tabs' = [tabs EXCEPT ![t].token = None, ![t].authed = FALSE, ![t].target = Logout]
       /\ revoked' = [revoked EXCEPT ![a] = @ \cup ((1..begun) \ spared)]
       /\ undisturbed' = [undisturbed EXCEPT ![a] = None]
       /\ UNCHANGED <<tokenStorage, codes, expires, now, begun>>

-----------------------------------------------------------------------------
\* Mutated: no stored token counts as an expired one.
LoadStoredEager(stored) ==
    IF stored.token = None \/ Expired(stored.token) THEN ClearToken(stored) ELSE stored

\* loadStoredToken: an expired token goes, and state and verifier with it.
LoadStored(stored) ==
    IF stored.token # None /\ Expired(stored.token) THEN ClearToken(stored) ELSE stored

\* Mutated: the state stays for another callback.
ConsumeStateNever(stored) == stored

\* stateMatches removes the state whether it matches or not.
ConsumeState(stored) == [stored EXCEPT !.state = None]

\* ngOnInit without a code in the address, up to its end; Auth0 may have put an
\* error there.
LoadPage(t, failure) ==
    LET a == Area(t)
        kept == LoadStored(store[a])
    IN /\ store' = [store EXCEPT ![a] = kept]
       /\ tabs' = [tabs EXCEPT ![t] = [Page(kept.token) EXCEPT !.failure = failure]]

\* ngOnInit with the code of attempt n in the address, up to the exchange:
\* loadStoredToken, then handleRedirectCallback.
LoadCallback(t, n) ==
    LET a == Area(t)
        kept == LoadStored(store[a])
        page == Page(kept.token)
    IN /\ store' = [store EXCEPT ![a] = ConsumeState(kept)]
       /\ tabs' = [tabs EXCEPT ![t] =
             CASE kept.state # n -> [page EXCEPT !.failure = "state_mismatch"]
               [] kept.state = n /\ kept.verifier = None ->
                    [page EXCEPT !.failure = "missing_verifier"]
               [] OTHER -> [page EXCEPT !.exchange =
                    [code |-> n, verifier |-> kept.verifier, answer |-> "none"]]]

\* Auth0 is done with attempt n; its callback opens in the same tab or in
\* another one.
CallbackArrives(t) == \E s \in Tabs :
    LET n == tabs[s].target
    IN /\ tabs[s].page = "away" /\ n \in Attempts /\ (t = s \/ tabs[t].page = "app")
       /\ codes[n] = "none" /\ codes' = [codes EXCEPT ![n] = "issued"]
       /\ LoadCallback(t, n)
       /\ UNCHANGED <<tokenStorage, expires, now, begun, revoked, undisturbed>>

\* Back from Auth0 with an error, after a logout or with the back button.
ReturnWithoutCode(t) ==
    /\ tabs[t].page = "away"
    /\ \E failure \in {"none", "auth0"} :
          /\ tabs[t].target = Logout => failure = "none"
          /\ LoadPage(t, failure)
    /\ UNCHANGED <<tokenStorage, codes, expires, now, begun, revoked, undisturbed>>

\* The address keeps the code until the exchange is over (scrubUrl).
Reload(t) ==
    /\ tabs[t].page = "app"
    /\ IF tabs[t].exchange = NoExchange
         THEN LoadPage(t, "none")
         ELSE LoadCallback(t, tabs[t].exchange.code)
    /\ UNCHANGED <<tokenStorage, codes, expires, now, begun, revoked, undisturbed>>

-----------------------------------------------------------------------------
\* Auth0 redeems a code once, and only with the verifier of its attempt.
Redeems(t) ==
    LET x == tabs[t].exchange
    IN codes[x.code] = "issued" /\ x.verifier = x.code

\* The request fails on its way: nothing happens at Auth0 or the answer is lost.
\* Or Auth0 answers.
TokenEndpoint(t) ==
    LET n == tabs[t].exchange.code
        Answer(answer) == tabs' = [tabs EXCEPT ![t].exchange.answer = answer]
        Redeem == /\ codes' = [codes EXCEPT ![n] = "redeemed"]
                  /\ expires' = [expires EXCEPT ![n] = now + Lifetime]
    IN /\ n # None /\ tabs[t].exchange.answer = "none"
       /\ \/ Answer("network") /\ UNCHANGED <<codes, expires>>
          \/ Redeems(t) /\ Redeem /\ (Answer("token") \/ Answer("network"))
          \/ ~Redeems(t) /\ Answer("exchange_failed") /\ UNCHANGED <<codes, expires>>
       /\ UNCHANGED <<tokenStorage, store, now, begun, revoked, undisturbed>>

\* The rest of handleRedirectCallback: setToken or a failure, then the finally
\* block, which removes the verifier in the storage whosever it is by now.
ExchangeEnds(t) ==
    LET x == tabs[t].exchange
        a == Area(t)
    IN /\ x.answer # "none"
       /\ IF x.answer = "token"
            THEN /\ store' = [store EXCEPT ![a].token = x.code, ![a].verifier = None]
                 /\ tabs' = [tabs EXCEPT ![t].token = x.code, ![t].exchange = NoExchange,
                                         ![t].authed = IsAuthenticated(x.code)]
            ELSE /\ store' = [store EXCEPT ![a].verifier = None]
                 /\ tabs' = [tabs EXCEPT ![t].failure = x.answer, ![t].exchange = NoExchange]
       /\ UNCHANGED <<tokenStorage, codes, expires, now, begun, revoked, undisturbed>>

Tick ==
    /\ now < Horizon /\ now' = now + 1
    /\ UNCHANGED <<tokenStorage, store, tabs, codes, expires, begun, revoked, undisturbed>>

Next ==
    \/ \E t \in Tabs :
          \/ SignIn(t) \/ ChallengeReady(t) \/ Leave(t) \/ SignOut(t)
          \/ CallbackArrives(t) \/ ReturnWithoutCode(t) \/ Reload(t)
          \/ TokenEndpoint(t) \/ ExchangeEnds(t)
    \/ Tick

Spec == Init /\ [][Next]_vars

-----------------------------------------------------------------------------
Numbers == {None} \cup Attempts

Stored == [token : Numbers, state : Numbers, verifier : Numbers]
Exchanges == [code : Numbers, verifier : Numbers,
              answer : {"none", "token", "exchange_failed", "network"}]
Pages == [page : {"app", "away"}, target : Numbers \cup {Logout}, building : SUBSET Attempts,
          failure : Failures, token : Numbers, authed : BOOLEAN, exchange : Exchanges]

\* Types of all variables; a page without a token does not count as signed in.
TypeOK ==
    /\ tokenStorage \in {"session", "local"}
    /\ store \in [Areas -> Stored]
    /\ tabs \in [Tabs -> Pages]
    /\ codes \in [Attempts -> {"none", "issued", "redeemed"}]
    /\ expires \in [Attempts -> 0..Horizon + Lifetime]
    /\ now \in 0..Horizon /\ begun \in Numbers
    /\ revoked \in [Areas -> SUBSET Attempts]
    /\ undisturbed \in [Areas -> Numbers]
    /\ \A t \in Tabs : tabs[t].authed => tabs[t].token # None

\* oauth.ts: a code is "bound to a secret this tab generated".  Whatever is
\* clicked twice, reloaded, gone back to or opened in another tab, no exchange
\* begins that Auth0 has to refuse: never with another attempt's verifier, never
\* with a code used before (buildLoginUrl, stateMatches).
NeverRefused == \A t \in Tabs : tabs[t].exchange.answer # "exchange_failed"

\* clearToken takes state and verifier too: an attempt begun before a sign-out
\* gives no token afterwards, to the storage or, in 'session' mode, to the page.
\* Exchanges under way at the sign-out are not cancelled; in 'session' mode there
\* are none, since no page that shows "Sign out" is exchanging a code.
SignOutIsFinal ==
    /\ \A a \in Areas : store[a].token \notin revoked[a]
    /\ tokenStorage = "session" =>
          \A t \in Tabs : /\ tabs[t].token \notin revoked[t]
                          /\ tabs[t].authed => tabs[t].exchange = NoExchange

\* The callback comes back to its attempt.
ComesBack(t, n) ==
    /\ tabs[t].page = "away" /\ tabs[t].target = n /\ tabs'[t].page = "app"
    /\ codes[n] = "none" /\ codes'[n] = "issued"

\* An attempt begun in a storage without a token or other activity, with no
\* second one and no sign-out after it, passes the checks of state and verifier
\* when it comes back, whatever else the tabs do meanwhile.
LoneSignInProceeds == [][\A t \in Tabs, n \in Attempts :
    ComesBack(t, n) /\ undisturbed[Area(t)] = n => tabs'[t].exchange.code = n]_vars
=============================================================================
