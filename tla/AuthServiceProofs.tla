------------------------- MODULE AuthServiceProofs -------------------------
(***************************************************************************)
(* Proofs about AuthService, for any number of tabs and attempts, any      *)
(* lifetime of a token and either storage.                                 *)
(***************************************************************************)
EXTENDS AuthService, TLAPS

\* Numbers are handed out in order.
UpToBegun == \A n \in Attempts : n > begun =>
    /\ codes[n] = "none"
    /\ \A a \in Areas : /\ store[a].token # n /\ store[a].state # n
                        /\ undisturbed[a] # n /\ n \notin revoked[a]
    /\ \A t \in Tabs : /\ tabs[t].token # n /\ tabs[t].exchange.code # n
                       /\ tabs[t].target # n /\ n \notin tabs[t].building

\* What is stored: a verifier beside a state belongs to it, a state is stored
\* once, a token stems from a redeemed code.
StorageIsPaired == \A a \in Areas :
    /\ store[a].state # None => store[a].verifier \in {None, store[a].state}
    /\ \A b \in Areas : store[a].state = store[b].state /\ store[a].state # None => a = b
    /\ store[a].token # None => codes[store[a].token] = "redeemed"

\* An exchange has the verifier of its code, which is stored nowhere any more,
\* exchanged nowhere else, and not used before Auth0 has answered.
ExchangeIsExclusive == \A t \in Tabs : LET x == tabs[t].exchange IN
    /\ x.answer # "exchange_failed"
    /\ x.code = None => x.answer = "none" /\ x.verifier = None
    /\ x.code # None =>
       /\ x.verifier = x.code
       /\ codes[x.code] # "none"
       /\ x.answer = "none" => codes[x.code] = "issued"
       /\ x.answer = "token" => codes[x.code] = "redeemed"
       /\ \A a \in Areas : store[a].state # x.code
       /\ \A s \in Tabs : tabs[s].exchange.code = x.code => s = t

\* In 'session' mode a page signed in is not exchanging, and a live token in the
\* storage excludes a verifier.
SessionIsSettled == tokenStorage = "session" => \A t \in Tabs :
    /\ tabs[t].authed => tabs[t].exchange.code = None
    /\ store[t].token # None /\ ~Expired(store[t].token) =>
          store[t].verifier = None /\ (tabs[t].page = "app" => tabs[t].authed)

\* What a sign-out has put an end to is neither stored nor being exchanged.
RevokedIsGone ==
    /\ \A a \in Areas : store[a].token \notin revoked[a] /\ store[a].state \notin revoked[a]
    /\ \A t \in Tabs : /\ tabs[t].exchange.code \notin revoked[Area(t)]
                       /\ tokenStorage = "session" => tabs[t].token \notin revoked[t]

Carries(t, n) == n \in tabs[t].building \/ tabs[t].target = n

\* An undisturbed attempt that its tab still carries has its state and its
\* verifier in the storage, and no tab of the storage carries anything else.
UndisturbedIsAlone == \A a \in Areas, t \in Tabs : LET n == undisturbed[a] IN
    n # None /\ codes[n] = "none" /\ Carries(t, n) =>
       /\ Area(t) = a
       /\ store[a].token = None /\ store[a].state = n /\ store[a].verifier = n
       /\ \A s \in Tabs : Area(s) = a =>
             /\ tabs[s].exchange.code = None
             /\ tabs[s].building \subseteq {n} /\ tabs[s].target \in {None, n}

\* The inductive invariant.
IndInv == /\ TypeOK /\ UpToBegun /\ StorageIsPaired /\ ExchangeIsExclusive
          /\ SessionIsSettled /\ RevokedIsGone /\ UndisturbedIsAlone

-----------------------------------------------------------------------------
\* What TypeOK says of one tab and of one storage.
LEMMA Types ==
  ASSUME TypeOK
  PROVE  /\ begun \in Nat /\ begun <= MaxAttempts /\ now \in Nat
         /\ None \notin Attempts /\ Logout \notin Numbers
         /\ \A t \in Tabs : Area(t) \in Areas /\ t \in Areas
         /\ \A a \in Areas : store[a] \in Stored /\ revoked[a] \subseteq Attempts
         /\ \A t \in Tabs : tabs[t] \in Pages /\ tabs[t].exchange \in Exchanges
         /\ \A n \in Attempts : expires[n] \in Nat
BY SignInAssumption DEF TypeOK, None, Logout, Attempts, Numbers, Area, Areas, Pages

LEMMA SignInKeeps ==
  ASSUME IndInv, NEW t \in Tabs, SignIn(t)
  PROVE  IndInv'
<1> DEFINE n == begun + 1
           a == Area(t)
<1>1. /\ tabs[t].page = "app" /\ ~tabs[t].authed
      /\ tokenStorage' = tokenStorage /\ codes' = codes /\ expires' = expires
      /\ now' = now /\ revoked' = revoked
  BY DEF SignIn
<1>2. n \in Attempts /\ begun' = n /\ a \in Areas /\ n # None /\ n # Logout /\ n > begun
  BY Types, SignInAssumption DEF SignIn, IndInv, Attempts, None, Logout
<1>3. /\ codes[n] = "none"
      /\ \A b \in Areas : /\ store[b].token # n /\ store[b].state # n
                          /\ undisturbed[b] # n /\ n \notin revoked[b]
      /\ \A s \in Tabs : /\ tabs[s].token # n /\ tabs[s].exchange.code # n
                         /\ tabs[s].target # n /\ n \notin tabs[s].building
  BY <1>2 DEF IndInv, UpToBegun
<1>4. \A b \in Areas : /\ store'[b].token = store[b].token
                       /\ b # a => /\ store'[b].state = store[b].state
                                   /\ store'[b].verifier = store[b].verifier
                       /\ b = a => store'[b].state = n /\ store'[b].verifier = n
  BY <1>2 DEF SignIn, StoreAttempt, IndInv, TypeOK, Stored
<1>5. tabs' = [tabs EXCEPT ![t] = [tabs[t] EXCEPT !.failure = "none", !.building = @ \cup {n}]]
  BY DEF SignIn, IndInv, TypeOK, Pages
<1>6. \A s \in Tabs :
            /\ tabs'[s].page = tabs[s].page /\ tabs'[s].target = tabs[s].target
            /\ tabs'[s].token = tabs[s].token /\ tabs'[s].authed = tabs[s].authed
            /\ tabs'[s].exchange = tabs[s].exchange
            /\ s # t => tabs'[s].building = tabs[s].building
            /\ s = t => tabs'[s].building = tabs[s].building \cup {n}
  BY <1>5, Types DEF IndInv, TypeOK, Pages
<1>7. /\ \A b \in Areas \ {a} : undisturbed'[b] = undisturbed[b]
      /\ \/ undisturbed'[a] = None
         \/ /\ undisturbed'[a] = n /\ store[a].token = None
            /\ \A s \in Tabs : Area(s) = a => Quiet(s)
  BY <1>2 DEF SignIn, IndInv, TypeOK, Numbers
<1>8. \A s \in Tabs : Area(s)' = Area(s)
  BY <1>1 DEF Area
<1>9. TypeOK'
  <2>1. [tabs[t] EXCEPT !.failure = "none", !.building = @ \cup {n}] \in Pages
    BY <1>2, Types DEF IndInv, Pages, Failures
  <2>2. tabs' \in [Tabs -> Pages]
    BY <2>1, <1>5 DEF IndInv, TypeOK
  <2>3. [store[a] EXCEPT !.state = n, !.verifier = n] \in Stored
    BY <1>2, Types DEF IndInv, Stored, Numbers
  <2>4. store' \in [Areas -> Stored]
    BY <1>2, <2>3 DEF SignIn, StoreAttempt, IndInv, TypeOK
  <2>5. undisturbed' \in [Areas -> Numbers]
    BY <1>2 DEF SignIn, IndInv, TypeOK, Numbers
  <2> QED BY <2>2, <2>4, <2>5, <1>1, <1>2, <1>6 DEF IndInv, TypeOK, Numbers
<1>10. \A k \in Attempts : k > n => k > begun /\ k # n
  BY <1>2, Types DEF IndInv, Attempts
<1> HIDE DEF n, a
<1>11. UpToBegun'
  <2> SUFFICES ASSUME NEW k \in Attempts, k > begun'
               PROVE  /\ codes'[k] = "none"
                      /\ \A b \in Areas : /\ store'[b].token # k /\ store'[b].state # k
                                          /\ undisturbed'[b] # k /\ k \notin revoked'[b]
                      /\ \A s \in Tabs : /\ tabs'[s].token # k /\ tabs'[s].exchange.code # k
                                         /\ tabs'[s].target # k /\ k \notin tabs'[s].building
    BY DEF UpToBegun
  <2>1. k > begun /\ k # n /\ k # None
    BY <1>2, <1>10, Types DEF IndInv
  <2>2. /\ codes[k] = "none"
        /\ \A b \in Areas : /\ store[b].token # k /\ store[b].state # k
                            /\ undisturbed[b] # k /\ k \notin revoked[b]
        /\ \A s \in Tabs : /\ tabs[s].token # k /\ tabs[s].exchange.code # k
                           /\ tabs[s].target # k /\ k \notin tabs[s].building
    BY <2>1 DEF IndInv, UpToBegun
  <2>3. \A b \in Areas : undisturbed'[b] # k
    BY <1>7, <2>1, <2>2
  <2>4. \A b \in Areas : store'[b].token # k /\ store'[b].state # k
    BY <1>4, <2>1, <2>2
  <2> QED BY <1>1, <1>6, <2>1, <2>2, <2>3, <2>4
<1>12. StorageIsPaired'
  BY <1>1, <1>3, <1>4 DEF IndInv, StorageIsPaired
<1>13. ExchangeIsExclusive'
  BY <1>1, <1>3, <1>4, <1>6 DEF IndInv, ExchangeIsExclusive
<1>14. SessionIsSettled'
  <2>1. ASSUME tokenStorage = "session", NEW s \in Tabs
        PROVE  /\ s = t <=> s = a
               /\ s \in Areas
    BY <2>1 DEF Area, Areas, a
  <2> QED BY <2>1, <1>1, <1>4, <1>6 DEF IndInv, SessionIsSettled, Expired
<1>15. RevokedIsGone'
  BY <1>1, <1>3, <1>4, <1>6, <1>8 DEF IndInv, RevokedIsGone
<1>16. UndisturbedIsAlone'
  <2> SUFFICES ASSUME NEW b \in Areas, NEW s \in Tabs, undisturbed'[b] # None,
                      codes'[undisturbed'[b]] = "none", Carries(s, undisturbed[b])'
               PROVE  /\ Area(s)' = b
                      /\ store'[b].token = None /\ store'[b].state = undisturbed'[b]
                      /\ store'[b].verifier = undisturbed'[b]
                      /\ \A u \in Tabs : Area(u)' = b =>
                            /\ tabs'[u].exchange.code = None
                            /\ tabs'[u].building \subseteq {undisturbed'[b]}
                            /\ tabs'[u].target \in {None, undisturbed'[b]}
    BY DEF UndisturbedIsAlone, Carries
  <2>1. CASE b = a
    <3>1. undisturbed'[b] = n /\ store[a].token = None /\ \A u \in Tabs : Area(u) = a => Quiet(u)
      BY <2>1, <1>7
    <3>2. s = t
      BY <3>1, <1>3, <1>6 DEF Carries
    <3>3. \A u \in Tabs : Area(u) = a =>
             tabs[u].exchange.code = None /\ tabs[u].building = {} /\ tabs[u].target = None
      BY <3>1 DEF Quiet, NoExchange
    <3> QED BY <2>1, <3>1, <3>2, <3>3, <1>4, <1>6, <1>8 DEF a
  <2>2. CASE b # a
    <3>1. undisturbed[b] # n /\ undisturbed'[b] = undisturbed[b]
      BY <2>2, <1>3, <1>7
    <3>2. Carries(s, undisturbed[b])
      BY <3>1, <1>6 DEF Carries
    <3> QED BY <2>2, <3>1, <3>2, <1>1, <1>4, <1>6, <1>8 DEF IndInv, UndisturbedIsAlone, a
  <2> QED BY <2>1, <2>2
<1> QED BY <1>9, <1>11, <1>12, <1>13, <1>14, <1>15, <1>16 DEF IndInv

\* What loadStoredToken leaves in a storage.
LEMMA LoadStoredFacts ==
  ASSUME NEW stored \in Stored
  PROVE  /\ LoadStored(stored) \in Stored /\ ConsumeState(LoadStored(stored)) \in Stored
         /\ \/ LoadStored(stored) = stored /\ (stored.token # None => ~Expired(stored.token))
            \/ /\ LoadStored(stored).token = None /\ LoadStored(stored).state = None
               /\ LoadStored(stored).verifier = None /\ stored.token # None
         /\ ConsumeState(LoadStored(stored)).token = LoadStored(stored).token
         /\ ConsumeState(LoadStored(stored)).state = None
         /\ ConsumeState(LoadStored(stored)).verifier = LoadStored(stored).verifier
BY DEF LoadStored, ClearToken, ConsumeState, Empty, Stored, Numbers

\* A page that loads without beginning an exchange.  It may consume the state
\* where no undisturbed attempt needs it, and a code may have been issued.
LEMMA LoadKeeps ==
  ASSUME IndInv, NEW t \in Tabs, NEW failure \in Failures, NEW kept, NEW new,
         tokenStorage' = tokenStorage, expires' = expires, now' = now, begun' = begun,
         revoked' = revoked, undisturbed' = undisturbed,
         codes' \in [Attempts -> {"none", "issued", "redeemed"}],
         \A k \in Attempts : \/ codes'[k] = codes[k]
                             \/ codes[k] = "none" /\ codes'[k] = "issued" /\ ~(k > begun),
         kept = LoadStored(store[Area(t)]), new \in {kept, ConsumeState(kept)},
         store' = [store EXCEPT ![Area(t)] = new],
         tabs' = [tabs EXCEPT ![t] = [Page(kept.token) EXCEPT !.failure = failure]],
         new = kept \/ \A s \in Tabs \ {t} :
            ~(/\ undisturbed[Area(t)] # None /\ codes'[undisturbed[Area(t)]] = "none"
              /\ Carries(s, undisturbed[Area(t)]))
  PROVE  IndInv'
<1> DEFINE a == Area(t)
<1>1. a \in Areas /\ store[a] \in Stored /\ kept \in Stored /\ new \in Stored
  BY Types, LoadStoredFacts DEF IndInv
<1>2. /\ \A b \in Areas \ {a} : store'[b] = store[b]
      /\ store'[a] = new
  BY <1>1 DEF IndInv, TypeOK
<1>3. /\ new.token \in {None, store[a].token} /\ new.state \in {None, store[a].state}
      /\ new.verifier \in {None, store[a].verifier} /\ new.token = kept.token
      /\ new.token = store[a].token =>
            (new.token # None => ~Expired(new.token)) /\ new.verifier = store[a].verifier
      /\ store[a].token = None => kept = store[a]
  BY <1>1, LoadStoredFacts
<1>4. \A b \in Areas : /\ store'[b].token \in {None, store[b].token}
                       /\ store'[b].state \in {None, store[b].state}
                       /\ store'[b].verifier \in {None, store[b].verifier}
  BY <1>2, <1>3
<1> DEFINE page == [Page(kept.token) EXCEPT !.failure = failure]
<1>5. /\ page \in Pages
      /\ page.page = "app" /\ page.target = None /\ page.building = {}
      /\ page.token = kept.token /\ page.authed = IsAuthenticated(kept.token)
      /\ page.exchange = NoExchange
  BY <1>1 DEF Page, Pages, Stored, Numbers, Exchanges, NoExchange, IsAuthenticated
<1>6. /\ \A s \in Tabs \ {t} : tabs'[s] = tabs[s]
      /\ tabs'[t].page = "app" /\ tabs'[t].target = None /\ tabs'[t].building = {}
      /\ tabs'[t].token = kept.token /\ tabs'[t].authed = IsAuthenticated(kept.token)
      /\ tabs'[t].exchange = NoExchange
  BY <1>5 DEF IndInv, TypeOK
<1>7. \A s \in Tabs : Area(s)' = Area(s)
  BY DEF Area
<1>8. NoExchange.code = None /\ NoExchange.verifier = None /\ NoExchange.answer = "none"
  BY DEF NoExchange
<1>9. TypeOK'
  <2>2. tabs' \in [Tabs -> Pages]
    BY <1>5 DEF IndInv, TypeOK
  <2>3. store' \in [Areas -> Stored]
    BY <1>1 DEF IndInv, TypeOK
  <2>4. \A s \in Tabs : tabs'[s].authed => tabs'[s].token # None
    BY <1>6 DEF IsAuthenticated, IndInv, TypeOK
  <2> QED BY <2>2, <2>3, <2>4 DEF IndInv, TypeOK
<1> HIDE DEF a, page
<1>10. \A k \in Attempts : codes'[k] = "none" => codes[k] = "none"
  OBVIOUS
<1>11. UpToBegun'
  <2> SUFFICES ASSUME NEW k \in Attempts, k > begun
               PROVE  /\ codes'[k] = "none"
                      /\ \A b \in Areas : /\ store'[b].token # k /\ store'[b].state # k
                                          /\ undisturbed[b] # k /\ k \notin revoked[b]
                      /\ \A s \in Tabs : /\ tabs'[s].token # k /\ tabs'[s].exchange.code # k
                                         /\ tabs'[s].target # k /\ k \notin tabs'[s].building
    BY DEF UpToBegun
  <2>1. /\ codes[k] = "none" /\ k # None
        /\ \A b \in Areas : /\ store[b].token # k /\ store[b].state # k
                            /\ undisturbed[b] # k /\ k \notin revoked[b]
        /\ \A s \in Tabs : /\ tabs[s].token # k /\ tabs[s].exchange.code # k
                           /\ tabs[s].target # k /\ k \notin tabs[s].building
    BY Types DEF IndInv, UpToBegun
  <2>2. codes'[k] = "none"
    BY <2>1
  <2>3. \A b \in Areas : store'[b].token # k /\ store'[b].state # k
    BY <1>4, <2>1
  <2>4. \A s \in Tabs : /\ tabs'[s].token # k /\ tabs'[s].exchange.code # k
                        /\ tabs'[s].target # k /\ k \notin tabs'[s].building
    BY <1>1, <1>3, <1>6, <1>8, <2>1
  <2> QED BY <2>1, <2>2, <2>3, <2>4
<1>12. StorageIsPaired'
  <2>1. \A b \in Areas : store[b].token # None =>
           store[b].token \in Attempts /\ codes'[store[b].token] = "redeemed"
    BY Types DEF IndInv, StorageIsPaired, Stored, Numbers
  <2> QED BY <1>4, <2>1 DEF IndInv, StorageIsPaired
<1>13. ExchangeIsExclusive'
  <2>1. \A s \in Tabs \ {t} : LET x == tabs[s].exchange IN x.code # None =>
           /\ codes'[x.code] # "none"
           /\ x.answer = "none" => codes'[x.code] = "issued"
           /\ x.answer = "token" => codes'[x.code] = "redeemed"
    BY Types DEF IndInv, ExchangeIsExclusive, Exchanges, Numbers
  <2> QED BY <1>4, <1>6, <1>8, <2>1 DEF IndInv, ExchangeIsExclusive
<1>14. SessionIsSettled'
  <2> SUFFICES ASSUME tokenStorage = "session", NEW s \in Tabs
               PROVE  /\ tabs'[s].authed => tabs'[s].exchange.code = None
                      /\ store'[s].token # None /\ ~Expired(store'[s].token) =>
                            /\ store'[s].verifier = None
                            /\ tabs'[s].page = "app" => tabs'[s].authed
    BY DEF SessionIsSettled, Expired
  <2>1. s \in Areas /\ (s = t <=> s = a)
    BY DEF Area, Areas, a
  <2>2. CASE s = t
    <3>1. s = a /\ store'[s].token = new.token /\ store'[s].verifier = new.verifier
      BY <2>1, <2>2, <1>2
    <3>2. tabs'[s].exchange.code = None /\ tabs'[s].authed = IsAuthenticated(new.token)
      BY <2>2, <1>3, <1>6, <1>8
    <3>3. CASE new.token # None
      <4>1. new.token = store[a].token /\ new.verifier = store[a].verifier /\ ~Expired(new.token)
        BY <3>3, <1>3
      <4>2. new.verifier = None
        BY <4>1, <3>1, <3>3 DEF IndInv, SessionIsSettled
      <4> QED BY <3>1, <3>2, <4>1, <4>2 DEF IsAuthenticated
    <3> QED BY <3>1, <3>2, <3>3
  <2>3. CASE s # t
    BY <2>1, <2>3, <1>2, <1>6 DEF IndInv, SessionIsSettled
  <2> QED BY <2>2, <2>3
<1>15. RevokedIsGone'
  <2>1. \A b \in Areas : None \notin revoked[b]
    BY Types DEF IndInv
  <2>2. \A b \in Areas : store'[b].token \notin revoked[b] /\ store'[b].state \notin revoked[b]
    BY <2>1, <1>4 DEF IndInv, RevokedIsGone
  <2>3. \A s \in Tabs : /\ s \in Areas /\ Area(s) \in Areas
                        /\ tokenStorage = "session" => Area(s) = s
    BY DEF Area, Areas
  <2>4. \A s \in Tabs : tabs'[s].exchange.code \notin revoked[Area(s)]
    BY <2>1, <2>3, <1>6, <1>8 DEF IndInv, RevokedIsGone
  <2>5. \A s \in Tabs : tokenStorage = "session" => tabs'[s].token \notin revoked[s]
    BY <2>2, <2>3, <1>2, <1>3, <1>6 DEF IndInv, RevokedIsGone, a
  <2> QED BY <2>2, <2>4, <2>5, <1>7 DEF RevokedIsGone
<1>16. UndisturbedIsAlone'
  <2> SUFFICES ASSUME NEW b \in Areas, NEW s \in Tabs, undisturbed[b] # None,
                      codes'[undisturbed[b]] = "none", Carries(s, undisturbed[b])'
               PROVE  /\ Area(s) = b
                      /\ store'[b].token = None /\ store'[b].state = undisturbed[b]
                      /\ store'[b].verifier = undisturbed[b]
                      /\ \A u \in Tabs : Area(u) = b =>
                            /\ tabs'[u].exchange.code = None
                            /\ tabs'[u].building \subseteq {undisturbed[b]}
                            /\ tabs'[u].target \in {None, undisturbed[b]}
    BY <1>7 DEF UndisturbedIsAlone, Carries
  <2>1. s # t /\ Carries(s, undisturbed[b]) /\ undisturbed[b] \in Attempts
    BY <1>6 DEF Carries, IndInv, TypeOK, Numbers
  <2>2. /\ Area(s) = b
        /\ store[b].token = None /\ store[b].state = undisturbed[b]
        /\ store[b].verifier = undisturbed[b]
        /\ \A u \in Tabs : Area(u) = b =>
              /\ tabs[u].exchange.code = None
              /\ tabs[u].building \subseteq {undisturbed[b]}
              /\ tabs[u].target \in {None, undisturbed[b]}
    BY <2>1, <1>10 DEF IndInv, UndisturbedIsAlone
  <2>3. store'[b] = store[b]
    BY <2>1, <2>2, <1>2, <1>3 DEF a
  <2> QED BY <2>2, <2>3, <1>6, <1>8
<1> QED BY <1>9, <1>11, <1>12, <1>13, <1>14, <1>15, <1>16 DEF IndInv

LEMMA ReturnWithoutCodeKeeps ==
  ASSUME IndInv, NEW t \in Tabs, ReturnWithoutCode(t)
  PROVE  IndInv'
<1>1. PICK failure \in {"none", "auth0"} : LoadPage(t, failure)
  BY DEF ReturnWithoutCode
<1>2. failure \in Failures
  BY DEF Failures
<1>3. /\ tokenStorage' = tokenStorage /\ expires' = expires /\ now' = now /\ begun' = begun
      /\ revoked' = revoked /\ undisturbed' = undisturbed /\ codes' = codes
      /\ codes' \in [Attempts -> {"none", "issued", "redeemed"}]
  BY DEF ReturnWithoutCode, IndInv, TypeOK
<1>4. /\ store' = [store EXCEPT ![Area(t)] = LoadStored(store[Area(t)])]
      /\ tabs' = [tabs EXCEPT ![t] =
                     [Page(LoadStored(store[Area(t)]).token) EXCEPT !.failure = failure]]
  BY <1>1 DEF LoadPage
<1> QED BY <1>2, <1>3, <1>4, LoadKeeps

LEMMA ReloadKeeps ==
  ASSUME IndInv, NEW t \in Tabs, Reload(t)
  PROVE  IndInv'
<1> DEFINE kept == LoadStored(store[Area(t)])
           n == tabs[t].exchange.code
<1>1. /\ tokenStorage' = tokenStorage /\ expires' = expires /\ now' = now /\ begun' = begun
      /\ revoked' = revoked /\ undisturbed' = undisturbed /\ codes' = codes
      /\ codes' \in [Attempts -> {"none", "issued", "redeemed"}]
  BY DEF Reload, IndInv, TypeOK
<1>2. CASE tabs[t].exchange = NoExchange
  <2>1. /\ store' = [store EXCEPT ![Area(t)] = kept]
        /\ tabs' = [tabs EXCEPT ![t] = [Page(kept.token) EXCEPT !.failure = "none"]]
    BY <1>2 DEF Reload, LoadPage
  <2> QED BY <2>1, <1>1, LoadKeeps DEF Failures
\* The state was consumed when the exchange began.
<1>3. CASE tabs[t].exchange # NoExchange
  <2>1. n # None
    BY <1>3, Types DEF IndInv, ExchangeIsExclusive, NoExchange, Exchanges
  <2>2. kept.state # n
    <3>1. store[Area(t)] \in Stored /\ store[Area(t)].state # n
      BY <2>1, Types DEF IndInv, ExchangeIsExclusive
    <3> QED BY <2>1, <3>1, LoadStoredFacts
  <2>3. /\ store' = [store EXCEPT ![Area(t)] = ConsumeState(kept)]
        /\ tabs' = [tabs EXCEPT ![t] = [Page(kept.token) EXCEPT !.failure = "state_mismatch"]]
    BY <1>3, <2>2 DEF Reload, LoadCallback
  <2>4. \A s \in Tabs \ {t} :
            ~(/\ undisturbed[Area(t)] # None /\ codes'[undisturbed[Area(t)]] = "none"
              /\ Carries(s, undisturbed[Area(t)]))
    BY <1>1, <2>1, Types DEF IndInv, UndisturbedIsAlone
  <2> QED BY <1>1, <2>3, <2>4, LoadKeeps DEF Failures
<1> QED BY <1>2, <1>3

\* A page that loads with the code of attempt n and begins its exchange.
LEMMA ExchangeBeginsKeeps ==
  ASSUME IndInv, NEW t \in Tabs, NEW n \in Attempts, ~(n > begun), codes[n] = "none",
         tokenStorage' = tokenStorage, expires' = expires, now' = now, begun' = begun,
         revoked' = revoked, undisturbed' = undisturbed,
         codes' = [codes EXCEPT ![n] = "issued"],
         store[Area(t)].token # None => ~Expired(store[Area(t)].token),
         store[Area(t)].state = n, store[Area(t)].verifier # None,
         store' = [store EXCEPT ![Area(t)] = ConsumeState(@)],
         tabs' = [tabs EXCEPT ![t] = [Page(store[Area(t)].token) EXCEPT !.exchange =
                    [code |-> n, verifier |-> store[Area(t)].verifier, answer |-> "none"]]],
         \A s \in Tabs \ {t} :
            ~(/\ undisturbed[Area(t)] # None /\ codes'[undisturbed[Area(t)]] = "none"
              /\ Carries(s, undisturbed[Area(t)]))
  PROVE  IndInv'
<1> DEFINE a == Area(t)
           page == [Page(store[a].token) EXCEPT !.exchange =
                      [code |-> n, verifier |-> store[a].verifier, answer |-> "none"]]
<1>1. a \in Areas /\ store[a] \in Stored /\ n # None
  BY Types DEF IndInv
<1>2. store[a].verifier = n
  BY <1>1 DEF IndInv, StorageIsPaired
<1>3. /\ \A b \in Areas \ {a} : store'[b] = store[b]
      /\ store'[a] \in Stored /\ store'[a].token = store[a].token /\ store'[a].state = None
      /\ store'[a].verifier = n
  BY <1>1, <1>2 DEF IndInv, TypeOK, ConsumeState, Stored, Numbers
<1>4. \A b \in Areas : /\ store'[b].token = store[b].token
                       /\ store'[b].state \in {None, store[b].state} /\ store'[b].state # n
                       /\ store'[b].verifier = store[b].verifier
  BY <1>1, <1>2, <1>3 DEF IndInv, StorageIsPaired
<1>5. /\ page \in Pages
      /\ page.page = "app" /\ page.target = None /\ page.building = {}
      /\ page.token = store[a].token /\ page.authed = IsAuthenticated(store[a].token)
      /\ page.exchange.code = n /\ page.exchange.verifier = n /\ page.exchange.answer = "none"
  BY <1>1, <1>2 DEF Page, Pages, Stored, Numbers, Exchanges, Failures, IsAuthenticated
<1>6. /\ \A s \in Tabs \ {t} : tabs'[s] = tabs[s]
      /\ tabs'[t].page = "app" /\ tabs'[t].target = None /\ tabs'[t].building = {}
      /\ tabs'[t].token = store[a].token /\ tabs'[t].authed = IsAuthenticated(store[a].token)
      /\ tabs'[t].exchange.code = n /\ tabs'[t].exchange.verifier = n
      /\ tabs'[t].exchange.answer = "none"
  BY <1>5 DEF IndInv, TypeOK
<1>7. \A s \in Tabs : Area(s)' = Area(s)
  BY DEF Area
<1>8. codes'[n] = "issued" /\ \A k \in Attempts \ {n} : codes'[k] = codes[k]
  BY DEF IndInv, TypeOK
<1>9. TypeOK'
  <2>1. tabs' \in [Tabs -> Pages]
    BY <1>5 DEF IndInv, TypeOK
  <2>2. store' \in [Areas -> Stored]
    BY <1>1, <1>3 DEF IndInv, TypeOK
  <2>3. \A s \in Tabs : tabs'[s].authed => tabs'[s].token # None
    BY <1>6 DEF IsAuthenticated, IndInv, TypeOK
  <2> QED BY <2>1, <2>2, <2>3 DEF IndInv, TypeOK
<1> HIDE DEF a, page
<1>11. UpToBegun'
  <2> SUFFICES ASSUME NEW k \in Attempts, k > begun
               PROVE  /\ codes'[k] = "none"
                      /\ \A b \in Areas : /\ store'[b].token # k /\ store'[b].state # k
                                          /\ undisturbed[b] # k /\ k \notin revoked[b]
                      /\ \A s \in Tabs : /\ tabs'[s].token # k /\ tabs'[s].exchange.code # k
                                         /\ tabs'[s].target # k /\ k \notin tabs'[s].building
    BY DEF UpToBegun
  <2>1. /\ codes[k] = "none" /\ k # None /\ k # n
        /\ \A b \in Areas : /\ store[b].token # k /\ store[b].state # k
                            /\ undisturbed[b] # k /\ k \notin revoked[b]
        /\ \A s \in Tabs : /\ tabs[s].token # k /\ tabs[s].exchange.code # k
                           /\ tabs[s].target # k /\ k \notin tabs[s].building
    BY Types DEF IndInv, UpToBegun
  <2>3. \A b \in Areas : store'[b].token # k /\ store'[b].state # k
    BY <1>4, <2>1
  <2>4. \A s \in Tabs : /\ tabs'[s].token # k /\ tabs'[s].exchange.code # k
                        /\ tabs'[s].target # k /\ k \notin tabs'[s].building
    BY <1>1, <1>6, <2>1
  <2> QED BY <1>8, <2>1, <2>3, <2>4
<1>12. StorageIsPaired'
  <2>1. \A b \in Areas : store[b].token # None =>
           store[b].token \in Attempts /\ codes'[store[b].token] = "redeemed"
    BY <1>8, Types DEF IndInv, StorageIsPaired, Stored, Numbers
  <2> QED BY <1>4, <2>1 DEF IndInv, StorageIsPaired
<1>13. ExchangeIsExclusive'
  <2>1. \A s \in Tabs \ {t} : LET x == tabs[s].exchange IN x.code # None =>
           /\ x.code # n
           /\ codes'[x.code] # "none"
           /\ x.answer = "none" => codes'[x.code] = "issued"
           /\ x.answer = "token" => codes'[x.code] = "redeemed"
    BY <1>8, Types DEF IndInv, ExchangeIsExclusive, Exchanges, Numbers
  <2>2. \A s \in Tabs \ {t} : tabs'[s].exchange.code # n
    BY <1>1, <1>6, <2>1
  <2> QED BY <1>1, <1>4, <1>6, <1>8, <2>1, <2>2 DEF IndInv, ExchangeIsExclusive
\* A live token would have excluded the verifier.
<1>14. SessionIsSettled'
  <2> SUFFICES ASSUME tokenStorage = "session", NEW s \in Tabs
               PROVE  /\ tabs'[s].authed => tabs'[s].exchange.code = None
                      /\ store'[s].token # None /\ ~Expired(store'[s].token) =>
                            /\ store'[s].verifier = None
                            /\ tabs'[s].page = "app" => tabs'[s].authed
    BY DEF SessionIsSettled, Expired
  <2>1. s \in Areas /\ (s = t <=> s = a)
    BY DEF Area, Areas, a
  <2>2. CASE s = t
    <3>1. s = a /\ store'[s].token = store[s].token
      BY <2>1, <2>2, <1>3
    <3>2. store[s].token = None
      BY <3>1, <1>1, <1>2 DEF IndInv, SessionIsSettled, a
    <3> QED BY <2>2, <3>1, <3>2, <1>6 DEF IsAuthenticated
  <2>3. CASE s # t
    BY <2>1, <2>3, <1>3, <1>6 DEF IndInv, SessionIsSettled
  <2> QED BY <2>2, <2>3
<1>15. RevokedIsGone'
  <2>1. \A b \in Areas : None \notin revoked[b]
    BY Types DEF IndInv
  <2>2. \A b \in Areas : store'[b].token \notin revoked[b] /\ store'[b].state \notin revoked[b]
    BY <2>1, <1>4 DEF IndInv, RevokedIsGone
  <2>3. \A s \in Tabs : /\ s \in Areas /\ Area(s) \in Areas
                        /\ tokenStorage = "session" => Area(s) = s
    BY DEF Area, Areas
  <2>4. \A s \in Tabs : tabs'[s].exchange.code \notin revoked[Area(s)]
    BY <2>3, <1>1, <1>6 DEF IndInv, RevokedIsGone, a
  <2>5. \A s \in Tabs : tokenStorage = "session" => tabs'[s].token \notin revoked[s]
    BY <2>3, <1>1, <1>6 DEF IndInv, RevokedIsGone, a
  <2> QED BY <2>2, <2>4, <2>5, <1>7 DEF RevokedIsGone
<1>16. UndisturbedIsAlone'
  <2> SUFFICES ASSUME NEW b \in Areas, NEW s \in Tabs, undisturbed[b] # None,
                      codes'[undisturbed[b]] = "none", Carries(s, undisturbed[b])'
               PROVE  /\ Area(s) = b
                      /\ store'[b].token = None /\ store'[b].state = undisturbed[b]
                      /\ store'[b].verifier = undisturbed[b]
                      /\ \A u \in Tabs : Area(u) = b =>
                            /\ tabs'[u].exchange.code = None
                            /\ tabs'[u].building \subseteq {undisturbed[b]}
                            /\ tabs'[u].target \in {None, undisturbed[b]}
    BY <1>7 DEF UndisturbedIsAlone, Carries
  <2>1. s # t /\ Carries(s, undisturbed[b]) /\ undisturbed[b] \in Attempts
    BY <1>6 DEF Carries, IndInv, TypeOK, Numbers
  <2>2. /\ b # a
        /\ Area(s) = b
        /\ store[b].token = None /\ store[b].state = undisturbed[b]
        /\ store[b].verifier = undisturbed[b]
        /\ \A u \in Tabs : Area(u) = b =>
              /\ tabs[u].exchange.code = None
              /\ tabs[u].building \subseteq {undisturbed[b]}
              /\ tabs[u].target \in {None, undisturbed[b]}
    BY <2>1, <1>8 DEF IndInv, UndisturbedIsAlone, a
  <2> QED BY <2>2, <1>3, <1>6 DEF a
<1> QED BY <1>9, <1>11, <1>12, <1>13, <1>14, <1>15, <1>16 DEF IndInv

LEMMA CallbackArrivesKeeps ==
  ASSUME IndInv, NEW t \in Tabs, CallbackArrives(t)
  PROVE  IndInv'
<1> DEFINE a == Area(t)
           kept == LoadStored(store[a])
<1>1. PICK s \in Tabs :
         LET n == tabs[s].target
         IN /\ tabs[s].page = "away" /\ n \in Attempts /\ (t = s \/ tabs[t].page = "app")
            /\ codes[n] = "none" /\ codes' = [codes EXCEPT ![n] = "issued"]
            /\ LoadCallback(t, n)
            /\ UNCHANGED <<tokenStorage, expires, now, begun, revoked, undisturbed>>
  BY DEF CallbackArrives
<1> DEFINE n == tabs[s].target
<1>2. /\ n \in Attempts /\ n # None /\ ~(n > begun) /\ codes[n] = "none"
      /\ store[a] \in Stored /\ a \in Areas
  BY <1>1, Types DEF IndInv, UpToBegun
<1>3. /\ tokenStorage' = tokenStorage /\ expires' = expires /\ now' = now /\ begun' = begun
      /\ revoked' = revoked /\ undisturbed' = undisturbed
      /\ codes' = [codes EXCEPT ![n] = "issued"]
      /\ codes' \in [Attempts -> {"none", "issued", "redeemed"}]
  BY <1>1 DEF IndInv, TypeOK
<1>4. \A k \in Attempts : \/ codes'[k] = codes[k]
                          \/ codes[k] = "none" /\ codes'[k] = "issued" /\ ~(k > begun)
  BY <1>2, <1>3 DEF IndInv, TypeOK
\* Only attempt n is carried in the storage, or it is not this one's storage.
<1>5. ASSUME NEW u \in Tabs \ {t}, undisturbed[a] # None, codes'[undisturbed[a]] = "none",
             Carries(u, undisturbed[a])
      PROVE  FALSE
  <2>1. undisturbed[a] \in Attempts /\ undisturbed[a] # n /\ codes[undisturbed[a]] = "none"
    BY <1>2, <1>3, <1>5 DEF IndInv, TypeOK, Numbers
  <2>2. Area(u) = a /\ \A v \in Tabs : Area(v) = a => tabs[v].target \in {None, undisturbed[a]}
    BY <1>2, <1>5, <2>1 DEF IndInv, UndisturbedIsAlone
  <2>3. Area(s) # a
    BY <1>2, <2>1, <2>2
  <2> QED BY <1>5, <2>2, <2>3 DEF Area
<1>6. LoadCallback(t, n)
  BY <1>1
<1>7. CASE kept.state = n /\ kept.verifier # None
  <2>1. kept = store[a] /\ (store[a].token # None => ~Expired(store[a].token))
    BY <1>2, <1>7, LoadStoredFacts
  <2>2. /\ store' = [store EXCEPT ![a] = ConsumeState(@)]
        /\ tabs' = [tabs EXCEPT ![t] = [Page(store[a].token) EXCEPT !.exchange =
                      [code |-> n, verifier |-> store[a].verifier, answer |-> "none"]]]
    BY <1>6, <1>7, <2>1 DEF LoadCallback
  <2> HIDE DEF n
  <2> QED BY <1>2, <1>3, <1>5, <1>7, <2>1, <2>2, ExchangeBeginsKeeps
<1>8. CASE kept.state # n
  <2>1. /\ store' = [store EXCEPT ![a] = ConsumeState(kept)]
        /\ tabs' = [tabs EXCEPT ![t] = [Page(kept.token) EXCEPT !.failure = "state_mismatch"]]
    BY <1>6, <1>8 DEF LoadCallback
  <2> QED BY <1>3, <1>4, <1>5, <2>1, LoadKeeps DEF Failures
<1>9. CASE kept.state = n /\ kept.verifier = None
  <2>1. /\ store' = [store EXCEPT ![a] = ConsumeState(kept)]
        /\ tabs' = [tabs EXCEPT ![t] = [Page(kept.token) EXCEPT !.failure = "missing_verifier"]]
    BY <1>6, <1>9 DEF LoadCallback
  <2> QED BY <1>3, <1>4, <1>5, <2>1, LoadKeeps DEF Failures
<1> QED BY <1>7, <1>8, <1>9

LEMMA ChallengeReadyKeeps ==
  ASSUME IndInv, NEW t \in Tabs, ChallengeReady(t)
  PROVE  IndInv'
<1>1. PICK n \in tabs[t].building :
         tabs' = [tabs EXCEPT ![t] = [tabs[t] EXCEPT !.building = @ \ {n}, !.target = n]]
  BY DEF ChallengeReady, IndInv, TypeOK, Pages
<1>2. /\ tokenStorage' = tokenStorage /\ store' = store /\ codes' = codes /\ expires' = expires
      /\ now' = now /\ begun' = begun /\ revoked' = revoked /\ undisturbed' = undisturbed
  BY DEF ChallengeReady
<1>3. \A s \in Tabs :
         /\ tabs'[s].page = tabs[s].page /\ tabs'[s].token = tabs[s].token
         /\ tabs'[s].authed = tabs[s].authed /\ tabs'[s].exchange = tabs[s].exchange
         /\ s # t => tabs'[s].building = tabs[s].building /\ tabs'[s].target = tabs[s].target
         /\ s = t => tabs'[s].building \subseteq tabs[s].building /\ tabs'[s].target = n
  BY <1>1, Types DEF IndInv, TypeOK, Pages
<1>4. \A s \in Tabs : Area(s)' = Area(s)
  BY <1>2 DEF Area
<1>5. TypeOK'
  <2>1. [tabs[t] EXCEPT !.building = @ \ {n}, !.target = n] \in Pages
    BY Types DEF IndInv, Pages, Numbers
  <2>2. tabs' \in [Tabs -> Pages]
    BY <2>1, <1>1 DEF IndInv, TypeOK
  <2> QED BY <2>2, <1>2, <1>3 DEF IndInv, TypeOK
<1>6. UpToBegun'
  BY <1>2, <1>3 DEF IndInv, UpToBegun
<1>7. StorageIsPaired' /\ ExchangeIsExclusive' /\ SessionIsSettled' /\ RevokedIsGone'
  BY <1>2, <1>3, <1>4 DEF IndInv, StorageIsPaired, ExchangeIsExclusive, SessionIsSettled,
                          RevokedIsGone, Expired
<1>8. UndisturbedIsAlone'
  <2>1. \A s \in Tabs : \A k : Carries(s, k)' => Carries(s, k)
    BY <1>3 DEF Carries
  <2>2. \A s \in Tabs : tabs'[s].building \subseteq tabs[s].building
    BY <1>3
  <2>3. n # None
    BY Types DEF IndInv, Pages
  <2>4. \A s \in Tabs : tabs'[s].target # tabs[s].target => tabs'[s].target \in tabs[s].building
    BY <1>3
  <2> QED BY <2>1, <2>2, <2>3, <2>4, <1>2, <1>3, <1>4 DEF IndInv, UndisturbedIsAlone
<1> QED BY <1>5, <1>6, <1>7, <1>8 DEF IndInv

LEMMA LeaveKeeps ==
  ASSUME IndInv, NEW t \in Tabs, Leave(t)
  PROVE  IndInv'
<1> DEFINE page == [Page(None) EXCEPT !.page = "away", !.target = tabs[t].target]
<1>1. /\ tokenStorage' = tokenStorage /\ store' = store /\ codes' = codes /\ expires' = expires
      /\ now' = now /\ begun' = begun /\ revoked' = revoked /\ undisturbed' = undisturbed
      /\ tabs' = [tabs EXCEPT ![t] = page]
  BY DEF Leave
<1>2. /\ page \in Pages
      /\ page.page = "away" /\ page.target = tabs[t].target /\ page.building = {}
      /\ page.token = None /\ page.authed = FALSE
      /\ page.exchange.code = None /\ page.exchange.verifier = None /\ page.exchange.answer = "none"
  BY Types DEF IndInv, Page, Pages, Numbers, Exchanges, NoExchange, Failures, IsAuthenticated
<1>3. /\ \A s \in Tabs \ {t} : tabs'[s] = tabs[s]
      /\ tabs'[t].page = "away" /\ tabs'[t].target = tabs[t].target /\ tabs'[t].building = {}
      /\ tabs'[t].token = None /\ ~tabs'[t].authed
      /\ tabs'[t].exchange.code = None /\ tabs'[t].exchange.verifier = None
      /\ tabs'[t].exchange.answer = "none"
  BY <1>1, <1>2 DEF IndInv, TypeOK
<1>4. \A s \in Tabs : Area(s)' = Area(s)
  BY <1>1 DEF Area
<1>5. TypeOK'
  <2>1. tabs' \in [Tabs -> Pages]
    BY <1>1, <1>2 DEF IndInv, TypeOK
  <2> QED BY <2>1, <1>1, <1>3 DEF IndInv, TypeOK
<1>6. UpToBegun'
  BY <1>1, <1>3, Types DEF IndInv, UpToBegun
<1>7. StorageIsPaired'
  BY <1>1 DEF IndInv, StorageIsPaired
<1>8. ExchangeIsExclusive'
  BY <1>1, <1>3 DEF IndInv, ExchangeIsExclusive
<1>9. SessionIsSettled'
  BY <1>1, <1>3 DEF IndInv, SessionIsSettled, Expired
<1>10. RevokedIsGone'
  <2>1. \A a \in Areas : None \notin revoked[a]
    BY Types DEF IndInv
  <2>2. \A s \in Tabs : s \in Areas /\ Area(s) \in Areas
    BY DEF Area, Areas
  <2> QED BY <2>1, <2>2, <1>1, <1>3, <1>4 DEF IndInv, RevokedIsGone
<1>11. UndisturbedIsAlone'
  <2>1. \A s \in Tabs : \A k : Carries(s, k)' => Carries(s, k)
    BY <1>3 DEF Carries
  <2> QED BY <2>1, <1>1, <1>3, <1>4 DEF IndInv, UndisturbedIsAlone
<1> QED BY <1>5, <1>6, <1>7, <1>8, <1>9, <1>10, <1>11 DEF IndInv

LEMMA SignOutKeeps ==
  ASSUME IndInv, NEW t \in Tabs, SignOut(t)
  PROVE  IndInv'
<1> DEFINE a == Area(t)
           spared == {tabs[s].exchange.code : s \in {s \in Tabs : Area(s) = a}}
<1>1. /\ tokenStorage' = tokenStorage /\ codes' = codes /\ expires' = expires
      /\ now' = now /\ begun' = begun /\ tabs[t].page = "app" /\ tabs[t].authed
      /\ store' = [store EXCEPT ![a] = Empty]
      /\ tabs' = [tabs EXCEPT ![t] =
                    [tabs[t] EXCEPT !.token = None, !.authed = FALSE, !.target = Logout]]
      /\ revoked' = [revoked EXCEPT ![a] = @ \cup ((1..begun) \ spared)]
      /\ undisturbed' = [undisturbed EXCEPT ![a] = None]
  BY DEF SignOut, ClearToken, IndInv, TypeOK, Pages
<1>2. a \in Areas /\ None \notin Attempts /\ Logout \notin Attempts /\ Logout # None
  BY Types DEF IndInv, Numbers
<1>3. /\ \A b \in Areas \ {a} : store'[b] = store[b] /\ revoked'[b] = revoked[b]
                                /\ undisturbed'[b] = undisturbed[b]
      /\ store'[a].token = None /\ store'[a].state = None /\ store'[a].verifier = None
      /\ revoked'[a] = revoked[a] \cup ((1..begun) \ spared) /\ undisturbed'[a] = None
  BY <1>1, <1>2 DEF IndInv, TypeOK, Empty
<1>4. /\ \A s \in Tabs \ {t} : tabs'[s] = tabs[s]
      /\ tabs'[t].page = tabs[t].page /\ tabs'[t].building = tabs[t].building
      /\ tabs'[t].exchange = tabs[t].exchange
      /\ tabs'[t].token = None /\ tabs'[t].authed = FALSE /\ tabs'[t].target = Logout
  BY <1>1, Types DEF IndInv, TypeOK, Pages
<1>5. \A s \in Tabs : Area(s)' = Area(s)
  BY <1>1 DEF Area
<1>6. revoked'[a] \subseteq Attempts
  BY <1>3, Types, SignInAssumption DEF IndInv, Attempts
<1>7. TypeOK'
  <2>1. [tabs[t] EXCEPT !.token = None, !.authed = FALSE, !.target = Logout] \in Pages
    BY Types DEF IndInv, Pages, Numbers
  <2>2. tabs' \in [Tabs -> Pages] /\ \A s \in Tabs : tabs'[s].authed => tabs'[s].token # None
    BY <2>1, <1>1, <1>4 DEF IndInv, TypeOK
  <2>3. store' \in [Areas -> Stored] /\ undisturbed' \in [Areas -> Numbers]
    BY <1>1 DEF IndInv, TypeOK, Stored, Empty, Numbers
  <2>4. revoked' \in [Areas -> SUBSET Attempts]
    BY <1>1, <1>2, <1>3, <1>6 DEF IndInv, TypeOK
  <2> QED BY <2>2, <2>3, <2>4, <1>1 DEF IndInv, TypeOK
<1>8. \A k \in Attempts : k > begun => k \notin 1..begun
  BY Types DEF IndInv, Attempts
<1> HIDE DEF a
<1>9. UpToBegun'
  BY <1>1, <1>2, <1>3, <1>4, <1>8 DEF IndInv, UpToBegun
<1>10. StorageIsPaired'
  BY <1>1, <1>3 DEF IndInv, StorageIsPaired
<1>11. ExchangeIsExclusive'
  BY <1>1, <1>3, <1>4 DEF IndInv, ExchangeIsExclusive
<1>12. SessionIsSettled'
  <2>1. \A s \in Tabs : s \in Areas /\ (tokenStorage = "session" => (s = t <=> s = a))
    BY DEF Area, Areas, a
  <2> QED BY <2>1, <1>1, <1>3, <1>4 DEF IndInv, SessionIsSettled, Expired
<1>13. RevokedIsGone'
  <2>1. \A b \in Areas : store'[b].token \notin revoked'[b] /\ store'[b].state \notin revoked'[b]
    BY <1>2, <1>3, <1>6 DEF IndInv, RevokedIsGone
  <2>2. \A s \in Tabs : /\ s \in Areas /\ Area(s) \in Areas
                        /\ tokenStorage = "session" => Area(s) = s
    BY DEF Area, Areas
  <2>3. \A s \in Tabs : tabs'[s].exchange.code \notin revoked'[Area(s)]
    BY <2>2, <1>3, <1>4 DEF IndInv, RevokedIsGone, a
  <2>4. \A s \in Tabs : tokenStorage = "session" => tabs'[s].token \notin revoked'[s]
    BY <2>2, <1>2, <1>3, <1>4, <1>6 DEF IndInv, RevokedIsGone, a
  <2> QED BY <2>1, <2>3, <2>4, <1>1, <1>5 DEF RevokedIsGone
<1>14. UndisturbedIsAlone'
  <2> SUFFICES ASSUME NEW b \in Areas, NEW s \in Tabs, undisturbed'[b] # None,
                      codes[undisturbed'[b]] = "none", Carries(s, undisturbed[b])'
               PROVE  /\ Area(s) = b
                      /\ store'[b].token = None /\ store'[b].state = undisturbed'[b]
                      /\ store'[b].verifier = undisturbed'[b]
                      /\ \A u \in Tabs : Area(u) = b =>
                            /\ tabs'[u].exchange.code = None
                            /\ tabs'[u].building \subseteq {undisturbed'[b]}
                            /\ tabs'[u].target \in {None, undisturbed'[b]}
    BY <1>1, <1>5 DEF UndisturbedIsAlone, Carries
  <2>1. b # a /\ undisturbed'[b] = undisturbed[b] /\ undisturbed[b] \in Attempts
    BY <1>3 DEF IndInv, TypeOK, Numbers
  <2>2. Carries(s, undisturbed[b])
    BY <2>1, <1>2, <1>4 DEF Carries
  <2> QED BY <2>1, <2>2, <1>3, <1>4 DEF IndInv, UndisturbedIsAlone, a
<1> QED BY <1>7, <1>9, <1>10, <1>11, <1>12, <1>13, <1>14 DEF IndInv

LEMMA TickKeeps ==
  ASSUME IndInv, Tick
  PROVE  IndInv'
<1>1. /\ tokenStorage' = tokenStorage /\ store' = store /\ tabs' = tabs /\ codes' = codes
      /\ expires' = expires /\ begun' = begun /\ revoked' = revoked /\ undisturbed' = undisturbed
      /\ now < Horizon /\ now' = now + 1
  BY DEF Tick
<1>2. \A s \in Tabs : Area(s)' = Area(s)
  BY <1>1 DEF Area
<1>3. TypeOK'
  BY <1>1, SignInAssumption DEF IndInv, TypeOK
<1>5. SessionIsSettled'
  <2>1. \A s \in Tabs : store[s].token \in Numbers
    BY Types DEF IndInv, Stored
  <2>2. \A s \in Tabs :
           store[s].token # None /\ ~Expired(store[s].token)' => ~Expired(store[s].token)
    BY <2>1, <1>1, Types, SignInAssumption DEF IndInv, Expired, Numbers
  <2> QED BY <2>2, <1>1 DEF IndInv, SessionIsSettled, Expired
<1> QED BY <1>1, <1>2, <1>3, <1>5 DEF IndInv, UpToBegun, StorageIsPaired, ExchangeIsExclusive,
                                       RevokedIsGone, UndisturbedIsAlone, Carries

LEMMA TokenEndpointKeeps ==
  ASSUME IndInv, NEW t \in Tabs, TokenEndpoint(t)
  PROVE  IndInv'
<1> DEFINE n == tabs[t].exchange.code
<1>1. /\ tokenStorage' = tokenStorage /\ store' = store
      /\ now' = now /\ begun' = begun /\ revoked' = revoked /\ undisturbed' = undisturbed
      /\ n # None /\ tabs[t].exchange.answer = "none"
  BY DEF TokenEndpoint
\* Auth0 does not refuse.
<1>2. n \in Attempts /\ codes[n] = "issued" /\ Redeems(t)
  BY <1>1, Types DEF IndInv, ExchangeIsExclusive, Exchanges, Numbers, Redeems
<1>3. PICK answer \in {"token", "network"} :
         /\ tabs' = [tabs EXCEPT ![t] = [tabs[t] EXCEPT !.exchange =
                                           [tabs[t].exchange EXCEPT !.answer = answer]]]
         /\ \/ answer = "network" /\ UNCHANGED <<codes, expires>>
            \/ /\ codes' = [codes EXCEPT ![n] = "redeemed"]
               /\ expires' = [expires EXCEPT ![n] = now + Lifetime]
  BY <1>2 DEF TokenEndpoint, IndInv, TypeOK, Pages, Exchanges
<1>4. \A s \in Tabs :
         /\ tabs'[s].page = tabs[s].page /\ tabs'[s].token = tabs[s].token
         /\ tabs'[s].authed = tabs[s].authed /\ tabs'[s].target = tabs[s].target
         /\ tabs'[s].building = tabs[s].building
         /\ tabs'[s].exchange.code = tabs[s].exchange.code
         /\ tabs'[s].exchange.verifier = tabs[s].exchange.verifier
         /\ s # t => tabs'[s].exchange.answer = tabs[s].exchange.answer
         /\ s = t => tabs'[s].exchange.answer = answer
  BY <1>3, Types DEF IndInv, TypeOK, Pages, Exchanges
<1>5. /\ \A k \in Attempts \ {n} : codes'[k] = codes[k] /\ expires'[k] = expires[k]
      /\ codes'[n] \in {"issued", "redeemed"}
      /\ answer = "token" => codes'[n] = "redeemed"
  BY <1>2, <1>3 DEF IndInv, TypeOK
<1>6. \A s \in Tabs : Area(s)' = Area(s)
  BY <1>1 DEF Area
<1>7. TypeOK'
  <2>1. [tabs[t] EXCEPT !.exchange = [tabs[t].exchange EXCEPT !.answer = answer]] \in Pages
    BY Types DEF IndInv, Pages, Exchanges
  <2>2. tabs' \in [Tabs -> Pages] /\ \A s \in Tabs : tabs'[s].authed => tabs'[s].token # None
    BY <2>1, <1>3, <1>4 DEF IndInv, TypeOK
  <2>3. codes' \in [Attempts -> {"none", "issued", "redeemed"}]
    BY <1>3 DEF IndInv, TypeOK
  <2>4. now + Lifetime \in 0..Horizon + Lifetime
    BY SignInAssumption DEF IndInv, TypeOK
  <2>5. expires' \in [Attempts -> 0..Horizon + Lifetime]
    BY <1>3, <2>4 DEF IndInv, TypeOK
  <2> QED BY <2>2, <2>3, <2>5, <1>1 DEF IndInv, TypeOK
<1>8. UpToBegun'
  BY <1>1, <1>2, <1>4, <1>5 DEF IndInv, UpToBegun
<1>9. StorageIsPaired'
  <2>1. \A a \in Areas : store[a].token # None =>
           codes'[store[a].token] = "redeemed"
    BY <1>2, <1>5, Types DEF IndInv, StorageIsPaired, Stored, Numbers
  <2> QED BY <1>1, <2>1 DEF IndInv, StorageIsPaired
<1>10. ExchangeIsExclusive'
  <2>1. \A s \in Tabs \ {t} : LET x == tabs[s].exchange IN x.code # None =>
           x.code # n /\ x.code \in Attempts
    BY <1>1, Types DEF IndInv, ExchangeIsExclusive, Exchanges, Numbers
  <2>2. \A s \in Tabs \ {t} : LET x == tabs[s].exchange IN x.code # None =>
           codes'[x.code] = codes[x.code]
    BY <2>1, <1>5
  <2> QED BY <1>1, <1>4, <1>5, <2>1, <2>2 DEF IndInv, ExchangeIsExclusive
\* A stored token is not the one whose end is set now.
<1>11. SessionIsSettled'
  <2>1. \A s \in Tabs : s \in Areas /\ (store[s].token # None =>
           store[s].token \in Attempts /\ store[s].token # n)
    BY <1>2, Types DEF IndInv, StorageIsPaired, Stored, Numbers
  <2>2. \A s \in Tabs : store[s].token # None => expires'[store[s].token] = expires[store[s].token]
    BY <1>5, <2>1
  <2> QED BY <1>1, <1>4, <2>2 DEF IndInv, SessionIsSettled, Expired
<1>12. RevokedIsGone'
  BY <1>1, <1>4, <1>6 DEF IndInv, RevokedIsGone
<1>13. UndisturbedIsAlone'
  <2>1. \A k \in Attempts : codes'[k] = "none" => codes[k] = "none"
    BY <1>2, <1>5
  <2>2. \A a \in Areas : undisturbed[a] # None => undisturbed[a] \in Attempts
    BY DEF IndInv, TypeOK, Numbers
  <2>3. \A s \in Tabs : \A k : Carries(s, k)' => Carries(s, k)
    BY <1>4 DEF Carries
  <2> QED BY <2>1, <2>2, <2>3, <1>1, <1>4, <1>6 DEF IndInv, UndisturbedIsAlone
<1> QED BY <1>7, <1>8, <1>9, <1>10, <1>11, <1>12, <1>13 DEF IndInv

LEMMA ExchangeEndsKeeps ==
  ASSUME IndInv, NEW t \in Tabs, ExchangeEnds(t)
  PROVE  IndInv'
<1> DEFINE x == tabs[t].exchange
           a == Area(t)
<1>1. /\ tokenStorage' = tokenStorage /\ codes' = codes /\ expires' = expires
      /\ now' = now /\ begun' = begun /\ revoked' = revoked /\ undisturbed' = undisturbed
      /\ x.answer # "none"
  BY DEF ExchangeEnds
<1>2. /\ x.code \in Attempts /\ x.code # None /\ a \in Areas
      /\ x.answer = "token" => codes[x.code] = "redeemed"
  BY <1>1, Types DEF IndInv, ExchangeIsExclusive, Exchanges, Numbers
<1> DEFINE token == IF x.answer = "token" THEN x.code ELSE store[a].token
           page == IF x.answer = "token"
                     THEN [tabs[t] EXCEPT !.token = x.code, !.authed = IsAuthenticated(x.code),
                                          !.exchange = NoExchange]
                     ELSE [tabs[t] EXCEPT !.failure = x.answer, !.exchange = NoExchange]
<1>3. /\ store' = [store EXCEPT ![a] = [store[a] EXCEPT !.token = token, !.verifier = None]]
      /\ tabs' = [tabs EXCEPT ![t] = page]
  <2>1. CASE x.answer = "token"
    <3>1. store' = [store EXCEPT ![a] = [store[a] EXCEPT !.token = x.code, !.verifier = None]]
      BY <1>2, <2>1 DEF ExchangeEnds, IndInv, TypeOK, Stored
    <3>2. tabs' = [tabs EXCEPT ![t].token = x.code, ![t].exchange = NoExchange,
                               ![t].authed = IsAuthenticated(x.code)]
      BY <2>1 DEF ExchangeEnds
    <3>3. tabs' = [tabs EXCEPT ![t] = [tabs[t] EXCEPT !.token = x.code,
                     !.authed = IsAuthenticated(x.code), !.exchange = NoExchange]]
      BY <3>2 DEF IndInv, TypeOK, Pages
    <3> QED BY <2>1, <3>1, <3>3
  <2>2. CASE x.answer # "token"
    BY <1>2, <2>2 DEF ExchangeEnds, IndInv, TypeOK, Stored, Pages
  <2> QED BY <2>1, <2>2
<1>4. [store[a] EXCEPT !.token = token, !.verifier = None] \in Stored
  BY <1>2, Types DEF IndInv, Stored, Numbers
<1>5. /\ \A b \in Areas \ {a} : store'[b] = store[b]
      /\ store'[a].token = token /\ store'[a].state = store[a].state /\ store'[a].verifier = None
  BY <1>2, <1>3, Types DEF IndInv, TypeOK, Stored
<1>6. /\ NoExchange \in Exchanges /\ NoExchange.code = None
      /\ NoExchange.verifier = None /\ NoExchange.answer = "none"
  BY DEF NoExchange, Exchanges, Numbers
<1>7. page \in Pages
  <2>1. x.answer # "token" => x.answer \in Failures
    BY <1>1, Types DEF IndInv, Exchanges, Failures
  <2> QED BY <1>2, <1>6, <2>1, Types DEF IndInv, Pages, IsAuthenticated, Numbers
<1>8. /\ page.page = tabs[t].page /\ page.target = tabs[t].target
      /\ page.building = tabs[t].building /\ page.exchange = NoExchange
      /\ x.answer = "token" => page.token = x.code /\ page.authed = IsAuthenticated(x.code)
      /\ x.answer # "token" => page.token = tabs[t].token /\ page.authed = tabs[t].authed
  BY Types DEF IndInv, Pages
<1>9. \A s \in Tabs \ {t} : tabs'[s] = tabs[s]
  BY <1>3 DEF IndInv, TypeOK
<1>10. tabs'[t] = page
  BY <1>3 DEF IndInv, TypeOK
<1>11. \A s \in Tabs : Area(s)' = Area(s)
  BY <1>1 DEF Area
<1>12. token \in {store[a].token, x.code} /\ (x.answer = "token" => token = x.code)
       /\ (x.answer # "token" => token = store[a].token)
  OBVIOUS
<1> HIDE DEF a, token, page
<1>13. TypeOK'
  <2>1. tabs' \in [Tabs -> Pages] /\ store' \in [Areas -> Stored]
    BY <1>3, <1>4, <1>7 DEF IndInv, TypeOK
  <2>2. \A s \in Tabs : tabs'[s].authed => tabs'[s].token # None
    BY <1>2, <1>8, <1>9, <1>10 DEF IndInv, TypeOK
  <2> QED BY <2>1, <2>2, <1>1 DEF IndInv, TypeOK
<1>14. UpToBegun'
  <2>1. ~(x.code > begun)
    BY <1>2 DEF IndInv, UpToBegun
  <2> SUFFICES ASSUME NEW k \in Attempts, k > begun
               PROVE  /\ codes[k] = "none"
                      /\ \A b \in Areas : /\ store'[b].token # k /\ store'[b].state # k
                                          /\ undisturbed[b] # k /\ k \notin revoked[b]
                      /\ \A s \in Tabs : /\ tabs'[s].token # k /\ tabs'[s].exchange.code # k
                                         /\ tabs'[s].target # k /\ k \notin tabs'[s].building
    BY <1>1 DEF UpToBegun
  <2>2. /\ codes[k] = "none" /\ k # None /\ k # x.code
        /\ \A b \in Areas : /\ store[b].token # k /\ store[b].state # k
                            /\ undisturbed[b] # k /\ k \notin revoked[b]
        /\ \A s \in Tabs : /\ tabs[s].token # k /\ tabs[s].exchange.code # k
                           /\ tabs[s].target # k /\ k \notin tabs[s].building
    BY <2>1, Types DEF IndInv, UpToBegun
  <2>3. \A b \in Areas : store'[b].token # k /\ store'[b].state # k
    BY <1>2, <1>5, <1>12, <2>2
  <2>4. \A s \in Tabs : /\ tabs'[s].token # k /\ tabs'[s].exchange.code # k
                        /\ tabs'[s].target # k /\ k \notin tabs'[s].building
    BY <1>6, <1>8, <1>9, <1>10, <2>2
  <2> QED BY <2>2, <2>3, <2>4
<1>15. StorageIsPaired'
  BY <1>1, <1>2, <1>5, <1>12 DEF IndInv, StorageIsPaired
<1>16. ExchangeIsExclusive'
  <2>1. \A b \in Areas : store'[b].state = store[b].state
    BY <1>5
  <2> QED BY <2>1, <1>1, <1>6, <1>8, <1>9, <1>10 DEF IndInv, ExchangeIsExclusive
<1>17. SessionIsSettled'
  <2> SUFFICES ASSUME tokenStorage = "session", NEW s \in Tabs
               PROVE  /\ tabs'[s].authed => tabs'[s].exchange.code = None
                      /\ store'[s].token # None /\ ~Expired(store'[s].token) =>
                            /\ store'[s].verifier = None
                            /\ tabs'[s].page = "app" => tabs'[s].authed
    BY <1>1 DEF SessionIsSettled, Expired
  <2>1. s \in Areas /\ (s = t <=> s = a)
    BY DEF Area, Areas, a
  <2>2. CASE s = t
    <3>1. s = a /\ store'[s].token = token /\ store'[s].verifier = None /\ tabs'[s] = page
      BY <2>1, <2>2, <1>5, <1>10
    <3>2. CASE x.answer = "token"
      BY <3>1, <3>2, <1>2, <1>6, <1>8, <1>12 DEF IsAuthenticated
    <3>3. CASE x.answer # "token"
      BY <2>2, <3>1, <3>3, <1>6, <1>8, <1>12 DEF IndInv, SessionIsSettled
    <3> QED BY <3>2, <3>3
  <2>3. CASE s # t
    BY <2>1, <2>3, <1>5, <1>9 DEF IndInv, SessionIsSettled
  <2> QED BY <2>2, <2>3
<1>18. RevokedIsGone'
  <2>1. \A b \in Areas : None \notin revoked[b]
    BY Types DEF IndInv
  <2>2. x.code \notin revoked[a]
    BY DEF IndInv, RevokedIsGone, a
  <2>3. \A b \in Areas : store'[b].token \notin revoked[b] /\ store'[b].state \notin revoked[b]
    BY <2>2, <1>2, <1>5, <1>12 DEF IndInv, RevokedIsGone
  <2>4. \A s \in Tabs : /\ s \in Areas /\ Area(s) \in Areas
                        /\ tokenStorage = "session" => Area(s) = s
    BY DEF Area, Areas
  <2>5. \A s \in Tabs : tabs'[s].exchange.code \notin revoked[Area(s)]
    BY <2>1, <2>4, <1>6, <1>8, <1>9, <1>10 DEF IndInv, RevokedIsGone
  <2>6. \A s \in Tabs : tokenStorage = "session" => tabs'[s].token \notin revoked[s]
    BY <2>2, <2>4, <1>8, <1>9, <1>10 DEF IndInv, RevokedIsGone, a
  <2> QED BY <2>3, <2>5, <2>6, <1>1, <1>11 DEF RevokedIsGone
<1>19. UndisturbedIsAlone'
  <2>1. \A s \in Tabs : \A k : Carries(s, k)' => Carries(s, k)
    BY <1>8, <1>9, <1>10 DEF Carries
  <2>2. \A b \in Areas, s \in Tabs :
           undisturbed[b] # None /\ codes[undisturbed[b]] = "none" /\ Carries(s, undisturbed[b])
           => b # a
    BY <1>2 DEF IndInv, UndisturbedIsAlone, a
  <2> QED BY <2>1, <2>2, <1>1, <1>5, <1>9, <1>11 DEF IndInv, UndisturbedIsAlone, a
<1> QED BY <1>13, <1>14, <1>15, <1>16, <1>17, <1>18, <1>19 DEF IndInv

-----------------------------------------------------------------------------
LEMMA InitEstablishes == Init => IndInv
<1> SUFFICES ASSUME Init PROVE IndInv
  OBVIOUS
<1>1. Page(None) \in Pages /\ Page(None).building = {} /\ Page(None).target = None
      /\ Page(None).token = None /\ Page(None).authed = FALSE
      /\ Page(None).exchange.code = None /\ Page(None).exchange.verifier = None
      /\ Page(None).exchange.answer = "none"
  BY DEF Page, Pages, Numbers, Exchanges, NoExchange, Failures, IsAuthenticated
<1>2. \A t \in Tabs : tabs[t] = Page(None) /\ Area(t) \in Areas /\ t \in Areas
  BY DEF Init, Area, Areas
<1>3. TypeOK
  <2>1. store \in [Areas -> Stored] /\ revoked \in [Areas -> SUBSET Attempts]
        /\ undisturbed \in [Areas -> Numbers]
    BY DEF Init, Stored, Empty, Numbers
  <2>2. tabs \in [Tabs -> Pages] /\ \A t \in Tabs : tabs[t].authed => tabs[t].token # None
    BY <1>1, <1>2 DEF Init
  <2>3. now \in 0..Horizon /\ expires \in [Attempts -> 0..Horizon + Lifetime] /\ begun \in Numbers
        /\ codes \in [Attempts -> {"none", "issued", "redeemed"}]
    BY SignInAssumption DEF Init, Numbers, None
  <2> QED BY <2>1, <2>2, <2>3 DEF Init, TypeOK
<1>4. \A a \in Areas : /\ store[a].token = None /\ store[a].state = None /\ store[a].verifier = None
                       /\ revoked[a] = {} /\ undisturbed[a] = None
  BY DEF Init, Empty
<1>5. UpToBegun
  BY <1>1, <1>2, <1>4, <1>3, Types DEF Init, UpToBegun
<1> QED BY <1>1, <1>2, <1>3, <1>4, <1>5 DEF IndInv, StorageIsPaired, ExchangeIsExclusive,
          SessionIsSettled, RevokedIsGone, UndisturbedIsAlone, Carries

LEMMA NextPreserves == IndInv /\ [Next]_vars => IndInv'
<1> SUFFICES ASSUME IndInv, [Next]_vars PROVE IndInv'
  OBVIOUS
<1>1. CASE UNCHANGED vars
  BY <1>1 DEF vars, IndInv, TypeOK, UpToBegun, StorageIsPaired, ExchangeIsExclusive,
              SessionIsSettled, RevokedIsGone, UndisturbedIsAlone, Carries, Expired, Area
<1>2. CASE Tick
  BY <1>2, TickKeeps
<1>3. ASSUME NEW t \in Tabs,
             SignIn(t) \/ ChallengeReady(t) \/ Leave(t) \/ SignOut(t)
               \/ CallbackArrives(t) \/ ReturnWithoutCode(t) \/ Reload(t)
               \/ TokenEndpoint(t) \/ ExchangeEnds(t)
      PROVE  IndInv'
  BY <1>3, SignInKeeps, ChallengeReadyKeeps, LeaveKeeps, SignOutKeeps, CallbackArrivesKeeps,
     ReturnWithoutCodeKeeps, ReloadKeeps, TokenEndpointKeeps, ExchangeEndsKeeps
<1> QED BY <1>1, <1>2, <1>3 DEF Next

\* The invariant holds in every reachable state, for any number of tabs and
\* attempts: numbers in order, storage paired, exchanges exclusive, a session
\* settled, nothing revoked around, an undisturbed attempt alone.
THEOREM Invariance == Spec => []IndInv
<1> QED BY InitEstablishes, NextPreserves, PTL DEF Spec

\* Every variable keeps its type, and a page without a token is never signed in.
THEOREM TypeCorrect == Spec => []TypeOK
<1>1. IndInv => TypeOK
  BY DEF IndInv
<1> QED BY <1>1, Invariance, PTL

\* Auth0 never has to refuse an exchange: stateMatches lets a callback through
\* once, with the verifier of its own attempt (ExchangeIsExclusive).
THEOREM ExchangesAccepted == Spec => []NeverRefused
<1>1. IndInv => NeverRefused
  BY DEF IndInv, ExchangeIsExclusive, NeverRefused
<1> QED BY <1>1, Invariance, PTL

\* clearToken puts an end to what was begun before it (RevokedIsGone), and in
\* 'session' mode no exchange is under way when it is called (SessionIsSettled).
THEOREM SignOutFinal == Spec => []SignOutIsFinal
<1>1. ASSUME IndInv PROVE SignOutIsFinal
  <2>1. \A t \in Tabs : tabs[t].exchange.code = None => tabs[t].exchange = NoExchange
    BY <1>1, Types DEF IndInv, ExchangeIsExclusive, NoExchange, Exchanges
  <2> QED BY <1>1, <2>1 DEF IndInv, RevokedIsGone, SessionIsSettled, SignOutIsFinal
<1> QED BY <1>1, Invariance, PTL

\* The step that brings an undisturbed attempt back begins its exchange.
LEMMA ComingBackProceeds ==
  ASSUME IndInv, [Next]_vars, NEW t \in Tabs, NEW n \in Attempts,
         ComesBack(t, n), undisturbed[Area(t)] = n
  PROVE  tabs'[t].exchange.code = n
<1>1. /\ tabs[t].page = "away" /\ tabs[t].target = n /\ tabs'[t].page = "app"
      /\ codes[n] = "none" /\ codes'[n] = "issued"
  BY DEF ComesBack
<1>2. PICK u \in Tabs : CallbackArrives(u)
  <2>1. codes' # codes
    BY <1>1
  <2>2. ~\E u \in Tabs : TokenEndpoint(u)
    <3> SUFFICES ASSUME NEW u \in Tabs, TokenEndpoint(u) PROVE FALSE
      OBVIOUS
    <3> DEFINE k == tabs[u].exchange.code
    <3>1. k # None /\ k \in Numbers /\ tabs[u].exchange.answer = "none"
      BY Types DEF TokenEndpoint, IndInv, Exchanges
    <3>2. codes[k] = "issued" /\ k \in Attempts
      BY <3>1 DEF IndInv, ExchangeIsExclusive, Numbers
    <3>3. codes' = codes \/ codes' = [codes EXCEPT ![k] = "redeemed"]
      BY DEF TokenEndpoint
    <3>4. codes'[n] # "issued"
      BY <1>1, <3>2, <3>3 DEF IndInv, TypeOK
    <3> QED BY <1>1, <3>4
  <2> QED BY <2>1, <2>2 DEF Next, vars, SignIn, ChallengeReady, Leave, SignOut, ReturnWithoutCode,
                            Reload, ExchangeEnds, Tick
<1>3. PICK s \in Tabs :
         /\ tabs[s].target \in Attempts /\ codes' = [codes EXCEPT ![tabs[s].target] = "issued"]
         /\ LoadCallback(u, tabs[s].target)
  BY <1>2 DEF CallbackArrives
<1>4. tabs[s].target = n
  BY <1>1, <1>3 DEF IndInv, TypeOK
<1>5. u = t
  <2>1. \E page : tabs' = [tabs EXCEPT ![u] = page]
    BY <1>3 DEF LoadCallback
  <2> QED BY <1>1, <2>1 DEF IndInv, TypeOK
<1>6. Area(t) \in Areas /\ n # None /\ Carries(t, n)
  BY <1>1, Types DEF IndInv, Carries
<1>7. store[Area(t)].token = None /\ store[Area(t)].state = n /\ store[Area(t)].verifier = n
  BY <1>1, <1>6 DEF IndInv, UndisturbedIsAlone
<1>8. LoadStored(store[Area(t)]) = store[Area(t)]
  BY <1>7 DEF LoadStored
<1>9. tabs' = [tabs EXCEPT ![t] = [Page(store[Area(t)].token) EXCEPT !.exchange =
                 [code |-> n, verifier |-> store[Area(t)].verifier, answer |-> "none"]]]
  BY <1>3, <1>4, <1>5, <1>6, <1>7, <1>8 DEF LoadCallback
<1> QED BY <1>9 DEF IndInv, TypeOK, Page

\* A sign-in that nothing disturbs passes the checks of state and verifier: they
\* are in the storage when it comes back (UndisturbedIsAlone).
THEOREM LoneSignIn == Spec => LoneSignInProceeds
<1>1. IndInv /\ [Next]_vars =>
         [\A t \in Tabs, n \in Attempts :
            ComesBack(t, n) /\ undisturbed[Area(t)] = n => tabs'[t].exchange.code = n]_vars
  BY ComingBackProceeds
<1> QED BY <1>1, Invariance, PTL DEF Spec, LoneSignInProceeds
=============================================================================
