# Coffee shop: specifications, model checking and proofs

TLA+ models of the coffee-shop application in `src/`: a Flask API over SQLite, an
Angular single-page client, and Auth0 as identity provider and user directory.
The models are about what tests of single requests do not reach: threads and
worker processes side by side, Auth0 calls that fail half-way through a request,
crashes between two transactions, answers that overtake each other.

## 1. The system

Two gunicorn workers with two threads each (`src/backend/Dockerfile`, `--timeout 60`)
run the Flask application. Each *process* has its own signing-key cache, its own
cache of caller roles and, by default (`memory://`, `config.py:133`), its own rate-limit
counters; `infra/docker-compose.yml:46` has the processes share the counters in Redis. Besides
that they share the SQLite file and the Auth0 tenant. The browser talks to the API with a
bearer token from Auth0; the API verifies it with Auth0's published keys and, for user
administration, calls the Auth0 Management API with a token of its own.

```
 browser (SPA)          gunicorn worker 1, 2 (threads t1, t2 each)
 +--------------+  HTTP  +--------------------------------------------+
 | AuthService  |------->| requires_auth -> JWKSCache (lock)  --------+--> Auth0 key set
 | MenuPage     |        | drink endpoints -> session --> SQLite file |
 | PeoplePage   |        | users endpoints -> role cache -------------+--> Management API
 +--------------+        | audit.record    -> session --> SQLite file |
                         +--------------------------------------------+
```

### Inventory

| Component | State | Operations | Correct means | Modelled in |
|---|---|---|---|---|
| Signing-key cache, `auth/auth.py` | `_keys_by_kid`, `_fetched_at`, `_last_fetch_attempt`, `_jwks_url`, lock | `get_key`, `_refresh_locked`, `clear` | one fetch at a time, lock always freed, bounded staleness both ways, bounded load on Auth0 | `JwksCache`, `KeyService`, `IdentityProvider` |
| Token verification, `auth/auth.py` | none of its own; waits for the key cache | `get_token_auth_header`, `verify_decode_jwt`, `check_permissions`, `requires_auth` | the answer fits the credentials however the world moves while the request waits | `RequestPath` over `KeyService` |
| User administration, `management/users_api.py` | Auth0 accounts, role cache per process | list, read, invite, update, delete | the rank rules, rollback of half-made accounts, truthful audit | `UsersAdmin` |
| Management client, `management/auth0_client.py` | token and expiry of one client | `_access_token`, `_request` with one retry after 401 | each call carried out at most once, its result told, no call fails for the age of a cached token | `ManagementClient`, `ManagementCall` |
| Drink endpoints, `api.py` | SQLAlchemy session per request | create, update, delete, show, listing by pages | atomic writes, answers that fit the table, pages that add up, audit rows that happened | `DrinksApi` |
| Drink table and seeding, `database/models.py`, `app_factory.py` | table `drink` | schema creation, seeding at every boot of every worker | no title twice, every demo drink there unless a manager took it off, boots that lose a race recover | `DrinkTable`, `MenuBoot` |
| Validation, `database/models.py` | none | `validate_title`, `validate_recipe` | what is stored and can be read passes the edit form unchanged and can be drawn | `RecipeValidation` |
| Audit trail, `audit.py` | table `audit_event` | `record`, `_scrub`, listing | a row only for what happened; no secrets | `record` in both APIs |
| Error responses, `errors.py` | none | exception to status and code | | the answers of `RequestPath` and `DrinksApi` |
| Application factory, `app_factory.py` | rate-limit counters, per process or in Redis | `create_app`, `rate_limit_key` | a caller is only refused for what it has sent itself | `RequestPath`; `_prepare_database` in `MenuBoot` |
| Configuration, `config.py` | environment | `validate` of both classes | what boots can verify tokens | `RequestPath` |
| Health, docs, observability | none of their own | read-only | | not modelled |
| Menu page, `pages/menu.page.ts` | signals `drinks`, `loading`, `editing`, `reloadCounter` | effect, load, save, remove | shows what the present token entitles to, shows own writes, loading ends | `MenuPage` |
| Sign-in, `core/auth.service.ts` | signals of a tab; token, PKCE verifier and state in storage | login, callback, restore, sign-out | a callback only completes the sign-in it belongs to; a sign-out is final | `AuthService` |
| People page, `pages/people.page.ts` | like the menu page | | | not modelled |
| Other pages, theme, drawings | presentation | | | not modelled |

`PROJECT.json` lists the same parts with their sources, and under "hazards" the places
in the code, line by line, where something can go wrong that a test hardly reaches.

### Where it is hard

* **Interleaving.** `update_user` reads the target's roles, checks them, and changes the
  account several Auth0 calls later. `update_drink` loads, writes, and loads again;
  another thread acts between any two of these.
* **Partial failure.** Every Auth0 call can be refused, carried out without its answer
  arriving, or answered with something that is not the JSON expected. Creating an account is two calls and a compensation; changing a role is two.
* **Staleness.** Roles claims in tokens, the role cache per process, signing keys.
* **Crash and restart.** A drink and its audit row are two transactions; seeding can stop
  anywhere and runs again at each boot, in two processes at once.
* **Ordering.** The browser cancels nothing: answers of overlapping fetches, and a token
  from a code exchange, arrive when they like.

## 2. The models

### JwksCache, KeyService, IdentityProvider

`JwksCache` has one action per section of `get_key` between two points where other
threads act. Under the lock that is: from taking it to returning or to `requests.get`
(`GetKey`), the answer (`IdpAnswers`), and the rest (`FetchSucceeds`, `FetchFails`). Auth0 may be
unavailable (503), or serve what the code does not survive ("malformed": a body that is no object,
or an RSA key without its numbers; 500). A
second, forced refresh inside the same call is the last disjunct of `FetchSucceeds`.
`IdentityProvider` is the environment: a clock and a key set that rotates. Its two
history variables (`lastUsable`, `lastUnusable`) say when a key id last was, and was not, a
usable signing key. `KeyService` is the abstract specification: answer "key" only if it
was usable within the last `Window`, "401" only if it was not, a failure at any time.
`JwksCache` refines it with `Window = Ttl + FetchLatency`, same variables, no mapping
but that of the constant.

### RequestPath, RecipeValidation

`RequestPath` follows a request from the router through the limiter and `requires_auth`
to the body checks of its view, in the order of the code. The process has booted with a
configuration that `validate` accepts (`Init` draws from those `Configs` that pass).
It composes with the key cache through the abstract `KeyService`, whose actions are its
own: `Screen` asks, `Service` answers when it likes, `Verify` goes on; keys rotate and
the clock moves in between. That `JwksCache` refines `KeyService` justifies this.
`counters` are the library's fixed windows per store, view and `rate_limit_key`; `StoreOf` says
where a thread counts: its process by default, one place for all of them with Redis.
`hits` is a history of the requests counted, with the caller that the *request* names
(`Caller`), so that a key function that mixes callers up shows. Two different texts decide:
`RateLimitKey` looks at the header as the code does, `Caller` at who sends.
`RecipeValidation` has the two validators as operators, a text by its stripped length and
whether blanks surround it, a colour by its form, a number possibly NaN or a Boolean. `Read` is a
response as a browser reads it, which fails for NaN; `FromForm` is what the edit form sends when a
drink is opened and saved as it is. What `json.loads` or Flask raise beyond the errors the code
catches is an unhandled error: a recipe text with an integer of thousands of digits
(`Unreadable`), a body nested too deep, an `Authorization` header of blanks.

### ManagementClient, ManagementCall

`ManagementClient` is the conversation of one client with Auth0: token or cached token,
the call, the answer, the one retry after a 401; anything on its way takes up to
`Latency`, and Auth0 may revoke a token or give it any lifetime. `ManagementCall` is what
the handlers rely on: a call takes effect at most once, "ok" means it did, a
refusal (404, 409, 429) that it did not, 500, 502 and 503 leave it open. `ManagementClient`
refines it with `pending <- pc # "idle"`. `UsersAdmin` uses these outcomes: a call
works, is "refused", is "lost", or is "unreadable", which is the 500.

### UsersAdmin

`h[t]` is the local state of the handler on thread t, `pc` the call it makes next. One
step is one call of the Management API or one access of the role cache. The tenant
(`exists`, `roles`, `blocked`) changes where Auth0 changes it. Each call can be refused
(no effect) or lost (effect, no answer), which the client reports as `Auth0ManagementError`; or its answer,
or that of the token endpoint before it, is unreadable (with or without an effect), which raises
something else (`auth0_client.py:155-156`, `245`). The handlers' `except` clauses are for the
former alone: an unreadable answer to the grant skips the rollback (`Assign`), one to the ticket
the row (`FinishCreate`). A worker can crash. Tokens carry a roles claim
and a capability from the time of the sign-in, so a demoted manager's token is a
reachable state. `_self_roles_cache` is modelled with its bound: `_TTLCache.set` empties a
cache that has more than `CacheBound` entries *before* it stores one, so that a worker
holds one entry more (`Entries`, `RoomForAll`, `MakeRoom`). The names of mutated forms begin with the name of the definition they
replace (`MayGrantOwn` for `MayGrant`); no specification uses them.

### DrinkTable, DrinksApi

`DrinkTable` holds the statements on the table, with SQLite's reuse of the highest id.
`born` numbers the INSERTs, so that a property can tell a drink from a later one with its
id. `DrinksApi` splits each handler at its transactions. It models what the session does:
an UPDATE names only the columns that differ from what was *loaded* (`Dirty`), a commit
expires the object, so the audit row and the answer load it anew (`Reload`, `Answer`), an
UPDATE of a missing row raises, a DELETE of a missing row only warns. A listing by pages
is two queries (`Count`, `Rows`), "show" is one. `Ascending` is the `ORDER BY`: the ids as an
increasing sequence, of which a page is a section.

### MenuBoot

`_prepare_database` in each worker, with the flush that precedes every query, SQLite's write
lock, the failure of a boot that loses a race, gunicorn's stop after a failed boot and the
container's restart. It uses `DrinkTable` and starts from every volume an earlier boot can
leave behind, managers' changes included. While workers serve, managers create, change and delete
drinks (`AddDrink`, `ChangeDrink`, `RemoveDrink`: POST, PATCH and DELETE of `api.py`);
`removed` collects the titles that they deleted or changed. A worker's session is two sequences of drinks, in the
order added: those `pending` for the next flush, and those `flushed` but not committed;
`Inserted` is what a commit stores.

### MenuPage

The page's signals, the effect with its inputs, requests in flight in the order sent, and
the server reduced to the number of the menu's state. `InOrder` chooses whether
answers keep that order. Signing out is a click on the button, which ends the Auth0 session too
(`logoutEverywhere`): the token is dropped and the browser is `leaving`; callbacks still run
on the old page until it is gone (`Unload`), and the page that comes back starts anew.

### AuthService

Two tabs, each with the signals of its page and, by `tokenStorage`, a storage of its own
('session') or a common one ('local'). An attempt to sign in has a number that stands
for its state, verifier, code and token. The awaits of the code are steps: the digest of
the challenge (`ChallengeReady`), the code exchange (`TokenEndpoint`, `ExchangeEnds`). A
callback may arrive in any tab, any number of times; pages are left and reloaded with
whatever waits in them. Auth0's side (`codes`) accepts a code once, with its
verifier. `revoked` and `undisturbed` are history: the attempts that a sign-out has ended, and
an attempt that nothing else in its storage came near.

## 3. The runs

All constants are in the `.cfg` files. Times are for two cores.

| Run | Shows | Size |
|---|---|---|
| `jwks_cache` | inductive invariant, its parts, refinement of `KeyService`, the load floor while Auth0 answers | 2 threads, 2 kids, TTL 1, interval 1, latency 1, horizon 3; 0.7 M states, about 1 min |
| `jwks_outage_401` | *violation*: 401 during an outage | same |
| `request_path` | answers fit credentials, a valid configuration suffices, refusals are the caller's own doing, recipes round-trip | 2 processes of one thread with a store each, 1 kid, horizon 2, 13 kinds of tokens, 6 of headers, every kind of body; 0.6 M states |
| `users_admin` | rank rules, rollback, audit, the bound of the role cache | 2 requests in 2 processes, 4 accounts, 2 failures; 1.9 M states up to the exchange of the two processes, about 2 min |
| `users_never_two_roles` | *violation*: two overlapping role changes | no failures |
| `users_every_change_audited` | *violation*: block, then 403 | one request |
| `management_client` | no race with the expiry, only new tokens fail, refinement of `ManagementCall`, every call ends | lifetimes 0, 2, 3 and 5, margin 1, floor 2, latency 1, horizon 8 |
| `drinks` | atomicity, truthful answers, truthful audit, pages that add up | 2 threads, 3 requests, 1 failure; 0.9 M states |
| `menu_boot` | full menu, recovery | 2 workers, 2 demo drinks, 2 failures, 2 edits; 35 k states |
| `menu_page` | level, own writes, loading ends, answers in order | 3 clicks, 2 menu changes; 0.4 M states |
| `menu_page_settled_level` | *violation*: a public answer that arrives last | no clicks: nobody signs out or leaves the page |
| `sign_in` | no exchange Auth0 refuses, a sign-out is final, a lone sign-in proceeds | 2 tabs, both storages, 3 attempts, horizon 3, lifetime 2, skew 1; 0.7 M states |

### Why these bounds

* `jwks_cache`: the horizon exceeds TTL + latency, so that a cache expires, is refreshed and
  can be too old; at age 0 the interval forbids a forced fetch, at age 1 it allows one, at age 2
  the cache is stale. Two
  threads and two kids give contention on the lock and a known kid beside an unknown one.
  The theorems of section 5 are free of these bounds.
* `request_path`: tokens expire and become valid within the horizon, with a leeway of one; the
  key service's window is one, so that a key may be withdrawn and still be handed out, or
  no longer. Without the limiter every kind of request comes, with it six, one of them
  with the other limit; two counted requests spend the write limit of one. The
  length limits are 2 or 3: every check has values on both sides of its boundary.
* `management_client`: the lifetimes lie below the floor, at it, between it and the margin, and above;
  the horizon lets a token be cached, used, expire and be replaced.
* `sign_in`: a third attempt lets a tab have two verifiers overwritten by the other tab's; an
  attempt can outlive its token's life by one tick. The clock may move while a page waits.
* `users_admin`: two requests are enough for every pair of reads and writes to interleave and
  for the second to run on what the first, its failures or its cached view left behind; the
  accounts cover each rank and one yet to be created; the cache bound is 0, so that a
  second entry empties it. Three requests are out of reach of a
  few minutes. Two failures let a rollback itself fail.
* `drinks`: a third request lets an id be freed and used again under a request that
  still holds it. Two titles give conflicts, two recipes a difference.
* `menu_boot`: two workers as deployed, two failures, so that the restart after a lost
  race is disturbed again.
* `menu_page`: a write needs its form, so three clicks are an opened form, a save and a third
  thing: a removal, a refresh or a sign-out. The token that arrives comes on top.

### What holds

* A key withdrawn by Auth0 verifies nothing, and a new one is not answered 401, for longer
  than TTL plus one fetch. While fetches succeed, Auth0 sees at most one per interval.
* **User administration.** Whatever is stale, fails or overlaps: nobody promotes themselves or a peer
  (`ChainOfCommand`), no administrator is changed and none is made
  (`AdministratorsUntouchable`), the audit log reports only what happened
  (`AuditTellsTheTruth`), and with at most one refused call, none lost or unreadable and no crash
  an invitation leaves no account that never had a role (`NoHalfCreatedAccount`). Without overlap, targets are
  strictly junior when they are changed and a role change replaces (`JuniorTargetsOnly`,
  `RoleReplaced`).
* **Drinks.** Two PATCHes of different fields never undo each other (`AbsentFieldsLeftAlone`); a
  404, 409 or 422 means nothing was changed; what the trail calls deleted is gone.
* **Listings.** Without overlap the pages up to `total_pages` show every drink once; with it a
  page still shows none twice (`PagesAddUp`).
* **Requests.** A view runs only for a sound token with the permission and a key Auth0 has
  published within the window; 403 is said only to a sound token without it; 401 is never said to a
  sound token whose key has been out all along (`AnswersMatchCredentials`). No request finds a
  validated configuration wanting (`BootMeansVerifiable`). The limiter refuses a request only if
  its own token or address has used up the budget (`ChargedForOwnRequests`). A stored recipe
  that a browser can read can be saved again from the form unchanged, and be drawn
  (`RecipesRoundTrip`).
* **Management calls.** Whatever is revoked, expires, is slow or lost: a call takes effect at most
  once and its result says what it can; a cached token never makes a call fail.
* **Sign-in.** Double clicks, reloads, callbacks in the wrong tab or twice: no exchange begins that
  Auth0 has to refuse (`NeverRefused`); what was begun before a sign-out yields no token after
  it (`SignOutIsFinal`); a sign-in that nothing disturbs passes its checks (`LoneSignInProceeds`).
* **Boot.** No title twice, demo drinks present unless a manager deleted or renamed them, and the server comes up for good
  once failures end.
* **Page.** With answers in order, the settled page matches the token and the writes it
  reported.

### Where code and documents part

Four runs have a counterexample, each to a quoted sentence (`PROJECT.json`, "findings"):

1. A failed refresh after a rotation answers 503 once, then 401 for the rest of the
   interval (`auth.py:211`; `THREAT_MODEL.md:161` promises 503).
2. A role change that reads the roles between another's removal (`users_api.py:588`) and its grant
   (590) finds none to strip; both grant, and the account holds both roles.
3. A PATCH blocks the account, then is refused for its role, without a row (`users_api.py:570`).
4. The public list requested before the token came, arriving after the detailed one, replaces it
   (`menu.page.ts:144`).

The models show more such limits, which have no run of their own:

* During an outage the stale cache makes *every* request fetch: the floor of
  `THREAT_MODEL.md:153` holds only for a filled cache (`Stale` in `GetKey` does not ask `MayForce`).
* The check of `RBAC.md:39` is several calls older than the change it guards: overlapping requests
  reach a target that has just become a peer. This is why `JuniorTargetsOnly` has the
  condition `~overlapped`.
* `_self_roles_cache.clear()` (`users_api.py:592-593`) empties the cache of one process;
  the other keeps its view until the TTL, and a lookup under way stores the old roles
  afterwards (`LookUpCaller`, `RememberCaller`).
* Two DELETEs of one drink are both answered 200, a PATCH back to the loaded value writes
  nothing though the row has changed since, and a drink deleted between commit and reload
  turns its creator's answer into a 500 without an audit row. Hence the `~overlapped` in
  `AnswersAreTrue`.
* `_TTLCache.set` tests before it stores (`users_api.py:97-99`): the role cache holds up to 513
  entries (`CacheBound + 1` in `TypeOK`), where `THREAT_MODEL.md:155` says that it "is bounded at 512
  entries and cleared when it overflows".
* The rollback of an invitation answers only to `Auth0ManagementError` (`users_api.py:487-489`), for
  the reason given there that "a user with no role is a user who can do nothing, which is a worse
  outcome than no user at all". A grant, or a new token for it, whose answer is not the JSON expected
  (`auth0_client.py:155-156`, `245`) ends as 500 and leaves such an account (`Assign`). Hence
  "none unreadable" in `NoHalfCreatedAccount`; the same at the ticket loses the row (`FinishCreate`).
* A role change that fails after `remove_roles` leaves an account without a role, and one that fails
  at the last read (`users_api.py:595`) a change without a row.
* "A single unparseable key must not poison the whole set" (`auth.py:264`): an RSA key without `n` or
  `e` makes PyJWT raise `InvalidKeyError`, which is none of the exceptions caught, and every refresh ends
  as 500 (outcome "malformed" in `JwksCache`).
* SQLite reuses the id of a deleted newest drink, so ids in the audit trail are ambiguous.
* `seed_demo_drinks` inserts every demo drink whose title is missing: a removed one is back
  after the next boot, and so is a renamed one under its old title, although `config.py:91-93` speaks
  of an empty table and `models.py:265-267` says that "a restart on persistent storage changes
  nothing".
* A token whose `kid` is no string, and an ES256 token although the algorithm is in the
  allow-list (the key set is filtered for RSA), end as 500 (`TokenHeaderError`, `ClaimsError`);
  the docstrings promise 401.
* `check_permissions` reports a token without the claim before it looks at whether a permission is
  asked for: `GET /users/me` is 403 for it.
* "Bearer", a tab and a token are accepted as a token, but counted by address (`RateLimitKey`).
  Callers without a token behind one proxy share an address, and with the default storage a limit
  is per process (`docs/COMPLIANCE.md:147`, `docs/THREAT_MODEL.md:221`).
* NaN passes both bounds of `parts` (`ValidParts`) and is stored, although `models.py:297` has a
  number there; every listing that contains it is no longer JSON, and the browser shows no menu at
  all (`Read`). Hence "can be read" in `RecipesRoundTrip`.
* A recipe text with an integer of more than 4300 digits raises a plain `ValueError`, which
  `models.py:172` does not catch (`Unreadable`), a body nested too deep a `RecursionError`, an
  `Authorization` header of blanks an `IndexError` (`HeaderError`): 500 instead of 422, 400 and 401.
* Page numbers and ids beyond SQLite's integers end as 500.
* **Sign-in.** The `finally` block of an exchange removes the verifier in the storage, also that of a
  newer attempt, which then fails with `missing_verifier` (the button is there during an
  exchange). A stored token that has expired by the time of the callback wipes the state with it:
  `state_mismatch`. A double click may leave with the older attempt. With 'local' storage the
  tabs overwrite each other's state, another tab keeps its token after a sign-out, and an
  exchange under way there brings a token back: hence the `tokenStorage = "session"` in
  `SignOutIsFinal`, and the history of `LoneSignInProceeds`. `isAuthenticated` does not
  follow the clock: an expired token is attached until the page reloads.

## 4. Fairness

`MenuBoot`, `MenuPage` and `ManagementClient` have liveness properties.

* `MenuBoot`: weak fairness of each worker's boot steps (the processes are scheduled), of
  gunicorn's stop after a failed boot (it exits with status 3), and of the restart
  (`restart: unless-stopped` in `infra/docker-compose.yml`). No fairness for failures,
  edits or respawns; they are bounded.
* `MenuPage`: weak fairness of a pending effect (Angular flushes it), of an answer or failure
  to a request in flight (gunicorn kills a worker after 60 s) and of its delivery. None for the user.
* `ManagementClient`: weak fairness of `Progress`, since each leg of a call ends by an answer or by
  the timeout given to `requests`. None for the handler that makes calls, nor for revocation.

## 5. Proofs

Every proof is for all values of the constants that satisfy the named assumptions of
its module, and follows one scheme: `Init => IndInv`, one lemma per action for
`IndInv /\ [Next]_vars => IndInv'` (together `Invariance`), and the theorems from `IndInv`.

### JwksCacheProofs

From `CacheAssumption` (the interval is at most the TTL, as in `config.py`'s defaults;
the horizon is beyond TTL + latency) and `HorizonAssumption`:

| Theorem | Statement |
|---|---|
| `TypeCorrect`, `MutualExclusion`, `Freshness` | `TypeOK`, `LockDiscipline`, `CacheMirrorsIdp` are invariant |
| `HealthyFloor` | `Spec => HealthyFetchFloor`, an action property |
| `Refinement` | `Spec => KeyServiceSpec` |

`CacheMirrorsIdp` (the cached set describes Auth0's as of `fetchedAt`, up to one latency)
is not inductive alone. A fetch that succeeds establishes it from the document in hand, so
`IndInv` adds that the document is not older than its fetch (`DocumentMirrorsIdp`), that the
fetch is young (`FetchIsTimely`), that only one thread has one (`LockDiscipline`), and that the
history variables are current (`HistoryIsCurrent`). `SuccessIsRemembered` ties the stamp of
the latest attempt to the success it belongs to; the load bound rests on it.
`StepRefines` uses the invariant and, per answer, one inequality
(age of the cache or of the fetch). TLC checks `IndInv` as an invariant of `jwks_cache`.

### RequestPathProofs

From `PathAssumption`, which says what requests, bodies and configurations are made of and that
the limits are positive:

| Theorem | Statement |
|---|---|
| `AnswersMatch` | `Spec => AnswersMatchCredentials` |
| `BootSuffices` | `Spec => []BootMeansVerifiable` |
| `RecipesStay` | `Spec => []RecipesRoundTrip` |
| `CallersPayForThemselves` | `Spec => ChargedForOwnRequests` |
| `TypeCorrect` | `TypeOK` is invariant |
| `UsesKeyService` | `Spec => SvcSpec`: every step is one of the key service, or leaves it alone |

A decision is split over two steps, with the wait for the key between them. `Screened` carries over
what the first has checked, `AnswerIsFresh` that the key service's answer is
within its window (the clock waits for a thread that holds a key; a rotation only makes the
history more recent). One lemma per check (`HeaderChecked`, `TokenHeaderChecked`,
`KeyChecked`, `ClaimsChecked`, `PermissionChecked`) says what it has established when it passes
and how it answers when it does not; `ScreenDecidesRightly` and `VerifyDecidesRightly` put them
together. `RecipeStays` is a fact about the operators: normalising twice is normalising
once, trimming in the form included, a normalised ingredient is valid, and one that can be read is
drawn with a number of parts in range.

For the limiter, `LimiterInv` says of every counter what its number and its end tell about the
history (`Tells`). That it has let through no more than it counted is not enough: "fewer than
twice the limit in any stretch of a window's length" is about two windows of the library, so `Tells`
also bounds the stretch that ended where the present window began, and knows that a window begins
with a hit let through. That counters belong to callers is a fact about two functions that look at
different things (`KeysArePayers`), for any `StoreOf`; counting needs cardinalities of sections of a sequence that grows
(`HitsGrow`, `SinceGrows`, `WithinGrows`).

With `UsesKeyService`, the refinement in `JwksCacheProofs` is one of the component that requests
wait for: `RequestPath` does nothing to the key service that `KeyService` does not allow, and
`JwksCache` answers as `KeyService` does.

### ManagementClientProofs

From `ClientAssumption` (the timeout is at most the margin, and below the floor):

| Theorem | Statement |
|---|---|
| `TypeCorrect`, `NoRace` | `TypeOK`, `NoExpiryRace` are invariant |
| `OnlyNewFail` | `Spec => OnlyNewTokensFail` |
| `Refinement` | `Spec => ManagementCallSpec` |

`CachedInTime` is the heart: whenever the cache would still hand out its token, or a call with it
is on its way, the token is valid for one more `Latency`, unless it is too short-lived
to begin with. It needs `MintedInTime` (a token lives from when it was asked for, at least) and
`OnTime`. `RepeatsWithNewToken` and `EffectIsTold` say what the retry relies on: it mints, and
a 401 had no effect.

### AuthServiceProofs

From `SignInAssumption`, for any number of tabs and attempts, and either storage:

| Theorem | Statement |
|---|---|
| `TypeCorrect`, `ExchangesAccepted`, `SignOutFinal` | `TypeOK`, `NeverRefused`, `SignOutIsFinal` are invariant |
| `LoneSignIn` | `Spec => LoneSignInProceeds` |

`IndInv` says that numbers beyond `begun` are nowhere (`UpToBegun`), that a verifier beside a state
belongs to it and a state is stored once (`StorageIsPaired`), that an exchange has the verifier of its
code, which is nowhere else (`ExchangeIsExclusive`), that in 'session' mode a page signed in is
not exchanging (`SessionIsSettled`), that what a sign-out has ended is gone (`RevokedIsGone`), and that an
undisturbed attempt is alone in its storage (`UndisturbedIsAlone`).

### UsersAdminProofs

From `UsersAssumption`, for any accounts, threads, processes, roles at the start and bounds:

| Theorem | Statement |
|---|---|
| `TypeCorrect` | `TypeOK` is invariant, the bound of the role cache included |
| `CommandIsChained`, `AuditIsTrue`, `NoInvitationHalfDone` | `ChainOfCommand`, `AuditTellsTheTruth`, `NoHalfCreatedAccount` are invariant |
| `NoRequestTouchesAdministrators` | `Spec => AdministratorsUntouchable` |
| `TargetsAreJunior`, `RolesAreReplaced` | `Spec => JuniorTargetsOnly`, `Spec => RoleReplaced` |

The argument turns on what no step takes back (`Grows`): accounts that have existed, roles that were
held, grants; that a removed account does not come back; and that nobody gains the top role. What a handler
has read - a claim, a cached view, the target's roles - was true once (`KnowsCaller`,
`KnowsTarget`), so it stays true of that history while others act, and with it the checks made
on it (`Checked`) and the report prepared (`Reports`). `IndInv` says this of every handler
beside the invariants of the tenant, the tokens, the caches, the grants, the log and
the counts. Two more invariants serve single theorems: `AloneInv` for requests that do not
overlap (what the handler has read is still so), `HalfInv` for invited accounts without a role (each is
in the hands of the request that made it, and a rollback under way has used up the one refusal; it
speaks of behaviours without lost or unreadable answers and crashes, like the property).

### DrinksApiProofs

From `ApiAssumption`, for any menu at the start, threads, requests and failures:

| Theorem | Statement |
|---|---|
| `DeletedStaysGone`, `ErrorsAreHarmless` | `DeletedMeansGone`, `ClientErrorsChangeNothing` are invariant |
| `AbsentFieldsStay`, `AnswersAreRight` | `Spec => AbsentFieldsLeftAlone`, `Spec => AnswersAreTrue` |
| `PagesShowTheMenu` | `Spec => PagesAddUp`, for menus and pages of any size |
| `TypeCorrect` | `TypeOK` is invariant |

Ids are used again, so the invariant follows drinks by `born`: no two drinks share one (`TableInv`), what a
statement leaves of the table is where it was (`Later`), and the drink that a removal has loaded
is under its id or nowhere (`Removes`). `Sound` is what a handler can rely on whatever the others do,
`Exact` what it can rely on alone, which `AnswersAreRight` needs. That the next id is above
all others (`NextIdIsNew`) rests on `LargestExists`, and that on the well-foundedness of `<`.

`PagesShowTheMenu` is mostly arithmetic of finite sets. The number of rows before a row
(`Before`) is an injection of the menu into `0..n-1`, so every place is taken (`EveryPlaceTaken`):
an increasing sequence of the ids exists, and the k-th of *any* such sequence has k - 1 before it
(`AscendingOrders`). A section of it is then the set of rows whose place, divided by the size of a page, is the
page (`PageHasItsRows`), and those quotients are all numbers up to `total_pages` (`PagesAreFilled`).
`ListInv` carries the checks of the two numbers to the queries, and the count to the
rows when no request overlaps; `TypeCorrect` needs it too.

### MenuBootProofs

From `BootAssumption` (the menu found has no title twice; the demo drinks may be any list):

| Theorem | Statement |
|---|---|
| `TypeCorrect`, `MenuIsFull` | `TypeOK`, `ServesFullMenu` are invariant |

The unique title is not checked by the commit but by the flushes before it, so `SessionInv` says what
a session has to know when it commits: it holds the write lock since its first INSERT, hence
what it has inserted is still not on the menu; its own drinks differ from each other, since each query
has looked at them too; and the demo drinks it has passed are on the menu, in `removed`, or in its
session. `Complete` is the second half of `ServesFullMenu`, which a manager's deletion or renaming keeps
through `removed`.

### MenuPageProofs

From `PageAssumption`, for any number of clicks and menu changes:

| Theorem | Statement |
|---|---|
| `TypeCorrect` | `TypeOK` is invariant, for any order of the answers |
| `LevelSettles`, `OwnWritesShow` | if `InOrder`, `SettledLevel` and `ReadsOwnWrites` are invariant |

`PageKeepsUp` says it of pages that have not settled: the *latest* fetch in flight, or the page when
there is none, has the level the effect has asked for and, unless another reload is due, a menu
no older than the writes reported. It uses that answers are no newer than the menu
(`NoneAhead`). `ReloadsCounted` bounds the reloads, those that writes in flight will cause included.

### Left to TLC

Liveness: `EventuallyServes`, `LoadingEnds` and `CallsEnd`, which need ENABLED. Every other property
of the passing runs has a theorem.

## 6. Not modelled, and why

* Health probes, OpenAPI document, logging, request ids, theme, routes and drawings have no
  state another part relies on. The audit listing, search and the other sort orders only read.
* The **people page** repeats the pattern of the menu page (a reload after each change, answers in any
  order); what `MenuPage` shows of it carries over, its own forms do not.
* `_scrub` walks nested JSON for secret-looking keys: pure data, which the unit tests enumerate.
* **Sign-in**: the implicit flow (an option that is off), a storage that throws, the route to return to,
  and the lifetime of a code at Auth0.
* PostgreSQL and migrations are alternatives the default deployment does not use; the destructive
  rebuild of the schema is refused in production.
* JWT cryptography, HTTP, JSON and the limiter are libraries: a token verifies or not, a body is a
  valid document or not, a window counts.
* In `RequestPath` the clock stands while a thread holds a key: its unit is far longer than a
  signature check.

## 7. Plan

Modelled and checked so far: the components above. What would come next, in order: an abstract store
that takes each request's effect at once, and `DrinksApi` shown to implement it; the people page
beside `MenuPage`; `_scrub` and the audit listing; a composition of two workers of
`RequestPath` with `DrinksApi`.

Modules to be proved about have no recursive operators, and no CASE whose guards overlap: a
CASE takes any branch whose guard holds, not the first. Operators of the community modules that
compute by recursion or sorting have a definition by property in their place (`Ascending`).
