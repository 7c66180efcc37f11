----------------------------- MODULE MenuBoot -----------------------------
(***************************************************************************)
(* What a worker process does before it serves requests: _prepare_database *)
(* of src/backend/src/app_factory.py, which creates the tables, and        *)
(* seed_demo_drinks of src/backend/src/database/models.py.  gunicorn boots *)
(* its workers side by side, boots another when one dies, and stops        *)
(* altogether when one fails to boot; the container is then restarted.     *)
(*                                                                         *)
(* A worker's session adds a drink without telling the database; the next  *)
(* query flushes it (INSERT), which takes SQLite's write lock until the    *)
(* commit.  Until then nobody else sees the row.                           *)
(***************************************************************************)
EXTENDS DrinkTable

CONSTANTS
    Workers, NoWorker,
    DemoDrinks,     \* DEMO_DRINKS
    OwnDrinks,      \* titles and recipes that managers write
    FirstMenus,     \* the persistent menus that a boot may find
    MaxFaults, MaxEdits  \* bounds on the failures and on the managers' requests

NewDrinks == [title : Titles, recipe : Recipes]

\* A menu that is found keeps the unique constraint; DEMO_DRINKS need not.
ASSUME BootAssumption ==
    /\ NoWorker \notin Workers
    /\ MaxFaults \in Nat /\ MaxEdits \in Nat
    /\ DemoDrinks \in Seq(NewDrinks) /\ OwnDrinks \subseteq NewDrinks
    /\ FirstMenus \subseteq Seq(NewDrinks)
    /\ \A m \in FirstMenus : \A i, j \in DOMAIN m : m[i].title = m[j].title => i = j

VARIABLES
    tables,             \* whether the tables exist
    stage, at,          \* how far each worker has come, and in the list of drinks
    pending, flushed,   \* drinks its session has added, and inserted
    writer,             \* who holds the write lock
    faults, edits,
    removed             \* history: titles that managers have deleted or changed

worker == <<stage, at, pending, flushed, writer>>
vars == <<table, tables, worker, faults, edits, removed>>

Stages == {"inspect", "create", "seed", "serving", "failed", "down"}
Demo(i) == DemoDrinks[i].title
DemoTitles == {Demo(i) : i \in DOMAIN DemoDrinks}
TitlesOf(drinks) == {drinks[i].title : i \in DOMAIN drinks}
Stored == {menu[i].title : i \in DOMAIN menu}

Init ==
    /\ \E m \in FirstMenus : TableOf(m) /\ tables \in {TRUE, m # <<>>}
    /\ stage = [w \in Workers |-> "inspect"] /\ at = [w \in Workers |-> 1]
    /\ pending = [w \in Workers |-> <<>>] /\ flushed = [w \in Workers |-> <<>>]
    /\ writer = NoWorker
    /\ faults = 0 /\ edits = 0 /\ removed = {}

-----------------------------------------------------------------------------
Fault == faults < MaxFaults /\ faults' = faults + 1

\* Worker w moves to another stage without an open transaction.
Enter(w, next) ==
    /\ stage' = [stage EXCEPT ![w] = next] /\ at' = [at EXCEPT ![w] = 1]
    /\ pending' = [pending EXCEPT ![w] = <<>>] /\ flushed' = [flushed EXCEPT ![w] = <<>>]
    /\ writer' = IF writer = w THEN NoWorker ELSE writer

\* db.create_all looks for the tables first.
Inspect(w) ==
    /\ stage[w] = "inspect"
    /\ Enter(w, IF tables THEN "seed" ELSE "create")
    /\ UNCHANGED <<table, tables, faults, edits, removed>>

\* Then it creates the missing ones, which fails if they are there by now.
CreateTables(w) ==
    /\ stage[w] = "create"
    /\ tables' = TRUE
    /\ Enter(w, IF tables THEN "failed" ELSE "seed")
    /\ UNCHANGED <<table, faults, edits, removed>>

\* The write lock is free, or w has it.
MayWrite(w) == writer \in {NoWorker, w}

\* The INSERTs of a flush wait for the lock, and break the unique constraint if
\* another worker has committed the title since the query.
Taken(w) == TitlesOf(pending[w]) \cap Stored # {}
Flushes(w) == pending[w] # <<>> => MayWrite(w) /\ ~Taken(w)
Inserted(w) == flushed[w] \o pending[w]

FlushFails(w) ==
    /\ pending[w] # <<>>
    /\ \/ MayWrite(w) /\ Taken(w) /\ UNCHANGED faults
       \/ ~MayWrite(w) /\ Fault    \* "database is locked"
    /\ Enter(w, "failed")
    /\ UNCHANGED <<table, tables, edits, removed>>

\* Mutated: the loop ends at the first title that exists.
AfterFoundBreak(w) == Len(DemoDrinks) + 1

\* The loop goes on after a title that exists.
AfterFound(w) == at[w] + 1

\* seed_demo_drinks: the query for one title, the flush that precedes it, and
\* db.session.add if the title is missing.
Query(w) ==
    /\ stage[w] = "seed" /\ at[w] <= Len(DemoDrinks)
    /\ \/ FlushFails(w)
       \/ /\ Flushes(w)
          /\ writer' = IF pending[w] # <<>> THEN w ELSE writer
          /\ flushed' = [flushed EXCEPT ![w] = Inserted(w)]
          /\ LET found == Demo(at[w]) \in Stored \cup TitlesOf(Inserted(w))
             IN /\ pending' = [pending EXCEPT ![w] = IF found THEN <<>> ELSE <<DemoDrinks[at[w]]>>]
                /\ at' = [at EXCEPT ![w] = IF found THEN AfterFound(w) ELSE @ + 1]
          /\ UNCHANGED <<table, tables, stage, faults, edits, removed>>

\* Mutated: the lock outlives the commit.
CommittedKeepingLock(w) ==
    /\ stage' = [stage EXCEPT ![w] = "serving"] /\ at' = [at EXCEPT ![w] = 1]
    /\ pending' = [pending EXCEPT ![w] = <<>>] /\ flushed' = [flushed EXCEPT ![w] = <<>>]
    /\ writer' = IF flushed[w] = <<>> THEN writer ELSE w

\* The worker is ready to serve.
Committed(w) == Enter(w, "serving")

\* The commit of seed_demo_drinks, if anything was added.
Commit(w) ==
    /\ stage[w] = "seed" /\ at[w] > Len(DemoDrinks)
    /\ \/ FlushFails(w)
       \/ /\ Flushes(w) /\ InsertRows(Inserted(w)) /\ Committed(w)
          /\ UNCHANGED <<tables, faults, edits, removed>>

-----------------------------------------------------------------------------
\* gunicorn stops all workers, after one has failed to boot or because the
\* container goes down.
Down ==
    /\ \/ (\E w \in Workers : stage[w] = "failed") /\ UNCHANGED faults
       \/ (\A w \in Workers : stage[w] # "failed") /\ Fault
    /\ stage' = [w \in Workers |-> "down"] /\ at' = [w \in Workers |-> 1]
    /\ pending' = [w \in Workers |-> <<>>] /\ flushed' = [w \in Workers |-> <<>>]
    /\ writer' = NoWorker
    /\ UNCHANGED <<table, tables, edits, removed>>

\* restart: unless-stopped
Restart ==
    /\ \A w \in Workers : stage[w] = "down"
    /\ stage' = [w \in Workers |-> "inspect"]
    /\ UNCHANGED <<table, tables, at, pending, flushed, writer, faults, edits, removed>>

\* One worker dies, a new one boots in its place.
Respawn(w) ==
    /\ stage[w] \notin {"failed", "down"} /\ Fault
    /\ Enter(w, "inspect")
    /\ UNCHANGED <<table, tables, edits, removed>>

\* Managers' POST, PATCH (of the title, the recipe or both) and DELETE.
AddDrink ==
    \E d \in OwnDrinks : TitleFree(d.title, 0) /\ InsertRows(<<d>>) /\ UNCHANGED removed

ChangeDrink ==
    \E i \in DOMAIN menu, d \in OwnDrinks :
       \E title \in {menu[i].title, d.title}, recipe \in {menu[i].recipe, d.recipe} :
          /\ TitleFree(title, i) /\ UpdateRow(i, title, recipe)
          /\ removed' = removed \cup ({menu[i].title} \ {title})

RemoveDrink ==
    \E i \in DOMAIN menu : DeleteRow(i) /\ removed' = removed \cup {menu[i].title}

\* A manager's request, served by a worker that is ready once the lock is free.
Edit ==
    /\ edits < MaxEdits /\ edits' = edits + 1
    /\ \E w \in Workers : stage[w] = "serving"
    /\ writer = NoWorker
    /\ AddDrink \/ ChangeDrink \/ RemoveDrink
    /\ UNCHANGED <<tables, worker, faults>>

Boot(w) == Inspect(w) \/ CreateTables(w) \/ Query(w) \/ Commit(w)
FailedBoot == (\E w \in Workers : stage[w] = "failed") /\ Down

Next ==
    \/ \E w \in Workers : Boot(w) \/ Respawn(w)
    \/ Down \/ Restart \/ Edit

\* Workers are scheduled, gunicorn notices a failed boot, the container is
\* restarted (infra/docker-compose.yml).
Fairness == (\A w \in Workers : WF_vars(Boot(w))) /\ WF_vars(FailedBoot) /\ WF_vars(Restart)

Spec == Init /\ [][Next]_vars /\ Fairness

-----------------------------------------------------------------------------
\* Types of all variables.
TypeOK ==
    /\ TableTypeOK /\ tables \in BOOLEAN
    /\ stage \in [Workers -> Stages]
    /\ at \in [Workers -> 1..(Len(DemoDrinks) + 1)]
    /\ pending \in [Workers -> Seq(NewDrinks)]
    /\ flushed \in [Workers -> Seq(NewDrinks)]
    /\ writer \in Workers \cup {NoWorker}
    /\ faults \in 0..MaxFaults /\ edits \in 0..MaxEdits /\ removed \subseteq Titles

\* However boots race, fail half-way or are repeated, no title is on the menu
\* twice, and a worker serves only when every demo title is there or a manager has
\* deleted or changed it since the volume was found (seed_demo_drinks, "always comes
\* back with a usable menu").
ServesFullMenu ==
    /\ \A i, j \in DOMAIN menu : menu[i].title = menu[j].title => i = j
    /\ (\E w \in Workers : stage[w] = "serving") => DemoTitles \subseteq Stored \cup removed

\* Once failures and edits have ended, all workers serve: a boot that lost the
\* race against another takes the server down, but the next one finds what
\* the winner has committed.
EventuallyServes == <>[](\A w \in Workers : stage[w] = "serving")
=============================================================================
