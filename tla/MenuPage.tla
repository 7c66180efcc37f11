----------------------------- MODULE MenuPage -----------------------------
(***************************************************************************)
(* The menu in the browser: src/frontend/src/app/pages/menu.page.ts with   *)
(* the token of core/auth.service.ts and the requests of core/api.ts.      *)
(*                                                                         *)
(* JavaScript runs one callback at a time; what interleaves is the user,   *)
(* the code exchange that may deliver a token after the page is on screen, *)
(* the effect that fetches the menu, and the answers to requests in        *)
(* flight, which nothing cancels.  The server numbers the states of its    *)
(* menu (version); other managers change it too.                           *)
(***************************************************************************)
EXTENDS Integers, Sequences, SequencesExt

CONSTANTS
    InOrder,        \* whether answers arrive in the order of the requests
    MaxClicks,      \* bound on what the user does
    MaxVersion      \* bound on the changes of the menu

ASSUME PageAssumption == InOrder \in BOOLEAN /\ MaxClicks \in Nat /\ MaxVersion \in Nat

VARIABLES
    role, exchanging,   \* AuthService: whose token it has, a code exchange under way
    leaving,            \* whether the browser is on its way to another page
    counter,            \* reloadCounter
    ranFor,             \* inputs of the effect's latest run
    drinks, loading, editing,   \* the page
    flight,             \* requests in flight, in the order sent
    version,            \* the server's menu
    clicks,
    own, listFailed     \* history: latest write confirmed, outcome of the latest list

user == <<role, exchanging, leaving>>
vars == <<user, counter, ranFor, drinks, loading, editing, flight, version, clicks,
          own, listFailed>>

Requests == [kind : {"list", "save", "remove"}, detailed : BOOLEAN,
             reply : {"none", "ok", "failed"}, version : 0..MaxVersion]

\* canSeeRecipes, canManage
Detailed == role \in {"barista", "manager"}
MayWrite == role = "manager"

Level(detailed) == IF detailed THEN "detailed" ELSE "public"

Init ==
    /\ role \in {"guest", "barista", "manager"} /\ exchanging \in BOOLEAN
    /\ leaving = FALSE
    /\ counter = 0 /\ ranFor = <<>>
    /\ drinks = [level |-> "none", version |-> 0]
    /\ loading = TRUE /\ editing = FALSE
    /\ flight = <<>> /\ version = 0 /\ clicks = 0
    /\ own = 0 /\ listFailed = FALSE

-----------------------------------------------------------------------------
Click == clicks < MaxClicks /\ clicks' = clicks + 1

\* handleRedirectCallback ends, with a token or without.
TokenArrives ==
    /\ exchanging /\ exchanging' = FALSE
    /\ role' \in {role, "barista", "manager"}
    /\ UNCHANGED <<leaving, counter, ranFor, drinks, loading, editing, flight, version, clicks,
                   own, listFailed>>

\* The Sign out button: logoutEverywhere drops the token and sends the browser to
\* Auth0.  The callbacks of this page go on until the browser has left.
SignOut ==
    /\ Click /\ role # "guest" /\ role' = "guest"
    /\ leaving' = TRUE
    /\ UNCHANGED <<exchanging, counter, ranFor, drinks, loading, editing, flight, version,
                   own, listFailed>>

\* The browser has been to Auth0 and back: a new page, with the token that is
\* stored by then, and nothing in flight.
Unload ==
    /\ leaving /\ leaving' = FALSE
    /\ exchanging' = FALSE
    /\ counter' = 0 /\ ranFor' = <<>>
    /\ drinks' = [level |-> "none", version |-> 0]
    /\ loading' = TRUE /\ editing' = FALSE
    /\ flight' = <<>>
    /\ own' = 0 /\ listFailed' = FALSE
    /\ UNCHANGED <<role, version, clicks>>

\* Mutated: the permission is no input of the effect any more.
InputsCounter == <<FALSE, counter>>

\* What the effect in the constructor reads.
Inputs == <<Detailed, counter>>

Send(kind, detailed) ==
    flight' = Append(flight, [kind |-> kind, detailed |-> detailed,
                              reply |-> "none", version |-> 0])

\* Mutated: fetching asks for another fetch.
CounterBumped == counter' = counter + 1

\* The effect writes none of its own inputs.
CounterKept == UNCHANGED counter

\* The effect runs when an input has changed: fetchDrinks.
RunEffect ==
    /\ ranFor # Inputs /\ ranFor' = Inputs
    /\ loading' = TRUE
    /\ Send("list", Detailed)
    /\ CounterKept
    /\ UNCHANGED <<user, drinks, editing, version, clicks, own, listFailed>>

\* The Refresh button: load.
Refresh ==
    /\ Click /\ ~loading
    /\ counter' = counter + 1
    /\ UNCHANGED <<user, ranFor, drinks, loading, editing, flight, version, own, listFailed>>

\* startCreate and startEdit open the form, cancelEdit closes it.
ToggleForm ==
    /\ Click /\ (editing \/ MayWrite)
    /\ editing' = ~editing
    /\ UNCHANGED <<user, counter, ranFor, drinks, loading, flight, version, own, listFailed>>

\* save and remove: the form stays open, and usable, until the answer.
Write(kind) ==
    /\ Click
    /\ kind = "save" => editing
    /\ kind = "remove" => MayWrite /\ ~loading
    /\ Send(kind, FALSE)
    /\ UNCHANGED <<user, counter, ranFor, drinks, loading, editing, version, own, listFailed>>

-----------------------------------------------------------------------------
\* The server answers a request, or it is reported to have failed; a write may
\* have taken effect nevertheless.
Reply(i) ==
    LET sent == flight[i]
    IN /\ sent.reply = "none"
       /\ version' \in {version} \cup
             IF sent.kind # "list" /\ version < MaxVersion THEN {version + 1} ELSE {}
       /\ \E reply \in {"ok", "failed"} :
             /\ reply = "ok" => (sent.kind # "list" <=> version' # version)
             /\ flight' = [flight EXCEPT ![i].reply = reply,
                                         ![i].version = IF reply = "ok" THEN version' ELSE 0]
       /\ UNCHANGED <<user, counter, ranFor, drinks, loading, editing, clicks, own, listFailed>>

\* Another manager changes the menu.
OthersWrite ==
    /\ version < MaxVersion /\ version' = version + 1
    /\ UNCHANGED <<user, counter, ranFor, drinks, loading, editing, flight, clicks,
                   own, listFailed>>

\* Mutated: only a success ends the loading state.
LoadingAfterSuccessOnly(reply) == loading /\ reply = "failed"

\* Both callbacks of fetchDrinks end the loading state.
LoadingAfter(reply) == FALSE

\* The callbacks of fetchDrinks.
ListArrives(got) ==
    /\ drinks' = IF got.reply = "ok" THEN [level |-> Level(got.detailed), version |-> got.version]
                                     ELSE drinks
    /\ loading' = LoadingAfter(got.reply)
    /\ listFailed' = (got.reply = "failed")
    /\ UNCHANGED <<counter, editing, own>>

\* Mutated: a write is not followed by a reload.
ReloadNever(got) == UNCHANGED counter

\* load() after a write that succeeded.
ReloadAfter(got) == counter' = IF got.reply = "ok" THEN counter + 1 ELSE counter

\* The callbacks of save and remove: a success asks for a reload, and every
\* answer to a save closes the form.
WriteArrives(got) ==
    /\ ReloadAfter(got)
    /\ own' = IF got.reply = "ok" /\ got.version > own THEN got.version ELSE own
    /\ editing' = (editing /\ got.kind = "remove")
    /\ UNCHANGED <<drinks, loading, listFailed>>

\* An answer reaches its callback.
Deliver(i) ==
    LET got == flight[i]
    IN /\ got.reply # "none"
       /\ InOrder => i = 1
       /\ flight' = RemoveAt(flight, i)
       /\ IF got.kind = "list" THEN ListArrives(got) ELSE WriteArrives(got)
       /\ UNCHANGED <<user, ranFor, version, clicks>>

Answer == \E i \in DOMAIN flight : Reply(i)
Arrive == \E i \in DOMAIN flight : Deliver(i)

Next ==
    \/ TokenArrives \/ SignOut \/ Unload
    \/ RunEffect \/ Refresh \/ ToggleForm \/ Write("save") \/ Write("remove")
    \/ Answer \/ OthersWrite \/ Arrive

\* Angular runs a pending effect; a request is answered or fails, since
\* gunicorn kills a worker that does not answer; an answer reaches the page.
Fairness == WF_vars(RunEffect) /\ WF_vars(Answer) /\ WF_vars(Arrive)

Spec == Init /\ [][Next]_vars /\ Fairness

-----------------------------------------------------------------------------
\* Types of all variables; reloads stem from what the user did.
TypeOK ==
    /\ role \in {"guest", "barista", "manager"}
    /\ exchanging \in BOOLEAN /\ leaving \in BOOLEAN
    /\ counter \in 0..clicks /\ clicks \in 0..MaxClicks
    /\ ranFor \in {<<>>} \cup BOOLEAN \X (0..counter)
    /\ drinks \in [level : {"none", "public", "detailed"}, version : 0..version]
    /\ loading \in BOOLEAN /\ editing \in BOOLEAN
    /\ flight \in Seq(Requests)
    /\ version \in 0..MaxVersion /\ own \in 0..version /\ listFailed \in BOOLEAN

\* Nothing is in flight and the effect has seen the present inputs.
Settled == flight = <<>> /\ ranFor = Inputs

\* menu.page.ts, fetchDrinks: "Fetch the menu at the richest level the caller is
\* currently allowed".  Once settled, and unless the latest fetch failed, the
\* page has the level of detail of the present token.
SettledLevel == Settled /\ ~listFailed => drinks.level = Level(Detailed)

\* Once settled, and unless the latest fetch failed, the page shows the effect
\* of every write that it has reported as done (load() after each of them).
ReadsOwnWrites == Settled /\ ~listFailed => drinks.version >= own

\* The skeleton screen gives way to drinks or to an error message: once the
\* user pauses for good, it goes away and stays away.
LoadingEnds == <>[](~loading)
=============================================================================
