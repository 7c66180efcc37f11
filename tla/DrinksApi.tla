----------------------------- MODULE DrinksApi -----------------------------
(***************************************************************************)
(* The drink endpoints of src/backend/src/api.py, run by request threads   *)
(* side by side: the listings, retrieve_drink, create_drink, update_drink  *)
(* and remove_drink.                                                       *)
(*                                                                         *)
(* A handler is several transactions: it loads the drink, writes and       *)
(* commits, and then, because a commit expires what the session holds,     *)
(* loads the drink again for the audit row and once more for the answer.   *)
(* A statement and the commit that follows it are one step, since SQLite   *)
(* lets one writer in at a time; other threads act between the steps.  A   *)
(* page of the menu is two statements, a count and a query.                *)
(*                                                                         *)
(* A statement can fail without effect ("busy": the database stays locked  *)
(* for too long, the disk is full), and the process can die ("crash").     *)
(***************************************************************************)
EXTENDS DrinkTable

CONSTANTS
    Threads,
    InitialMenu,    \* the drinks at the start, a sequence
    RequestIds,     \* ids that GET, PATCH and DELETE name
    PageRequests,   \* pairs page and per_page of a listing, in range or not
    Operations,
    Faults, MaxFaults,   \* kinds of failure, bound on their number
    MaxRequests          \* bound on the number of requests

ASSUME ApiAssumption ==
    /\ Operations \subseteq {"list", "show", "create", "update", "delete"}
    /\ PageRequests \subseteq Int \X Int
    /\ Faults \subseteq {"busy", "crash"}
    /\ InitialMenu \in Seq([title : Titles, recipe : Recipes])
    /\ RequestIds \subseteq Nat /\ MaxFaults \in Nat /\ MaxRequests \in Nat

Absent == "absent"        \* a field that the body leaves out
Invalid == "invalid"      \* a recipe that validate_recipe refuses
NoDrink == [title |-> Absent, recipe |-> Absent, born |-> 0]
NoPage == [page |-> 1, perPage |-> 1, shown |-> <<>>, total |-> 0, totalPages |-> 0]

VARIABLES h, log, faults, requests,
    overlapped      \* history: whether a request began while another ran

vars == <<table, h, log, faults, requests, overlapped>>

Steps == {"count", "rows", "show", "load", "insert", "write", "delete", "reload", "record", "answer", "done"}
Answers == {"none", "200", "400", "404", "409", "422", "500", "lost"}

Handlers ==
    [pc : Steps, op : {"list", "show", "create", "update", "delete"}, id : Nat,
     title : Titles \cup {Absent}, recipe : Recipes \cup {Absent, Invalid},
     seen : Drinks \cup {NoDrink},   \* the drink as the session holds it
     before : Drinks \cup {NoDrink}, \* update's `before`, delete's `snapshot`
     changed : BOOLEAN,              \* history: this request changed the menu
     audited : BOOLEAN,              \* history: its audit row was stored
     listing : [page : Int, perPage : Int, shown : Seq(Nat), total : Nat, totalPages : Nat],
     answer : Answers]

\* An audit row, with the drink it speaks of.
Events == [action : {"created", "updated", "deleted"}, id : Nat,
           before : Drinks \cup {NoDrink}, after : Drinks \cup {NoDrink}]

NoRequest ==
    [pc |-> "done", op |-> "create", id |-> 0, title |-> Absent, recipe |-> Absent,
     seen |-> NoDrink, before |-> NoDrink, changed |-> FALSE, audited |-> FALSE,
     listing |-> NoPage, answer |-> "none"]

Init ==
    /\ TableOf(InitialMenu)
    /\ h = [t \in Threads |-> NoRequest]
    /\ log = {} /\ faults = 0 /\ requests = 0 /\ overlapped = FALSE

-----------------------------------------------------------------------------
Set(t, r) == h' = [h EXCEPT ![t] = r]
To(r, step) == [r EXCEPT !.pc = step]
End(r, answer) ==
    [NoRequest EXCEPT !.changed = r.changed, !.audited = r.audited,
                      !.listing = r.listing, !.answer = answer]

Works == UNCHANGED faults
Fault(kind) == kind \in Faults /\ faults < MaxFaults /\ faults' = faults + 1

FirstStep(op) == CASE op = "create" -> "insert" [] op = "show" -> "show" [] OTHER -> "load"

\* A request with the permission it needs; a body without the required
\* fields, or with an invalid title, is refused like an invalid recipe.
Begin(t) ==
    /\ h[t].pc = "done"
    /\ requests < MaxRequests /\ requests' = requests + 1
    /\ overlapped' = (overlapped \/ \E other \in Threads : h[other].pc # "done")
    /\ \E op \in Operations \ {"list"}, id \in RequestIds,
          title \in Titles \cup {Absent}, recipe \in Recipes \cup {Absent, Invalid} :
          /\ op = "create" => id = 1 /\ title # Absent /\ recipe \in Recipes
          /\ op = "update" => title # Absent \/ recipe # Absent
          /\ op \in {"show", "delete"} => title = Absent /\ recipe = Absent
          /\ Set(t, [NoRequest EXCEPT
                       !.pc = FirstStep(op), !.op = op,
                       !.id = IF op = "create" THEN 0 ELSE id,
                       !.title = title, !.recipe = recipe])
    /\ UNCHANGED <<table, log, faults>>

\* A listing by pages: _ordered_drinks refuses numbers out of range.
BeginList(t) ==
    /\ h[t].pc = "done" /\ "list" \in Operations
    /\ requests < MaxRequests /\ requests' = requests + 1
    /\ overlapped' = (overlapped \/ \E other \in Threads : h[other].pc # "done")
    /\ \E p \in PageRequests :
          LET r == [NoRequest EXCEPT !.pc = "count", !.op = "list",
                                     !.listing.page = p[1], !.listing.perPage = p[2]]
          IN Set(t, IF p[1] < 1 \/ p[2] \notin 1..100 THEN End(r, "400") ELSE r)
    /\ UNCHANGED <<table, log, faults>>

\* Mutated: the last page counts only when it is full.
FullPages(total, perPage) == total \div perPage

\* total_pages, rounded up.
PagesOf(total, perPage) == (total + perPage - 1) \div perPage

\* query.count(), from which the answer's total and total_pages come.
Count(t) ==
    LET r == h[t]
        total == Cardinality(DOMAIN menu)
    IN /\ r.pc = "count"
       /\ \/ /\ Works
             /\ Set(t, [r EXCEPT !.pc = "rows", !.listing.total = total,
                                 !.listing.totalPages = PagesOf(total, r.listing.perPage)])
          \/ Fault("busy") /\ Set(t, End(r, "500"))
       /\ UNCHANGED <<table, log, requests>>

\* query.order_by(Drink.id.asc()), the default order of a listing.
Ascending(ids) ==
    CHOOSE s \in [1..Cardinality(ids) -> ids] : \A m, n \in DOMAIN s : m < n => s[m] < s[n]

\* query.limit(per_page).offset((page - 1) * per_page)
Rows(t) ==
    LET r == h[t]
        offset == (r.listing.page - 1) * r.listing.perPage
        ids == Ascending(DOMAIN menu)
        drinks == SubSeq(ids, offset + 1, Min({offset + r.listing.perPage, Len(ids)}))
    IN /\ r.pc = "rows"
       /\ \/ Works /\ Set(t, End([r EXCEPT !.listing.shown = drinks], "200"))
          \/ Fault("busy") /\ Set(t, End(r, "500"))
       /\ UNCHANGED <<table, log, requests>>

\* retrieve_drink: db.session.get and the 404.
Show(t) ==
    LET r == h[t]
    IN /\ r.pc = "show"
       /\ \/ Works /\ Set(t, End(r, IF r.id \in DOMAIN menu THEN "200" ELSE "404"))
          \/ Fault("busy") /\ Set(t, End(r, "500"))
       /\ UNCHANGED <<table, log, requests>>

\* db.session.get, the 404, update's validation, and the copy of the drink.
Load(t) ==
    LET r == h[t]
        drink == menu[r.id]
    IN /\ r.pc = "load"
       /\ \/ /\ Works
             /\ Set(t, IF r.id \notin DOMAIN menu THEN End(r, "404")
                       ELSE IF r.recipe = Invalid THEN End(r, "422")
                       ELSE [r EXCEPT !.pc = IF r.op = "update" THEN "write" ELSE "delete",
                                      !.seen = drink, !.before = drink])
          \/ Fault("busy") /\ Set(t, End(r, "500"))
       /\ UNCHANGED <<table, log, requests>>

\* Mutated: the session is rolled back, but the handler goes on.
RefuseAndGoOn(r) == To(r, "record")

\* The except SQLAlchemyError clause around each write: rollback and return.
Refuse(r) == End(r, "422")

\* The write fails in the database and changes nothing.
WriteFails(t) == Fault("busy") /\ Set(t, Refuse(h[t])) /\ UNCHANGED table

\* create_drink: drink.insert().
Insert(t) ==
    LET r == h[t]
    IN /\ r.pc = "insert"
       /\ \/ /\ Works /\ TitleFree(r.title, 0)
             /\ InsertRows(<<[title |-> r.title, recipe |-> r.recipe]>>)
             /\ Set(t, [r EXCEPT !.pc = "reload", !.id = NextId, !.changed = TRUE])
          \/ /\ Works /\ ~TitleFree(r.title, 0)
             /\ Set(t, End(r, "409")) /\ UNCHANGED table
          \/ WriteFails(t)
       /\ UNCHANGED <<log, requests>>

\* Mutated: the whole drink is written back.
DirtyAll(r) == {"title", "recipe"}

\* Mutated: only the title is saved.
DirtyTitle(r) == IF r.title \notin {Absent, r.seen.title} THEN {"title"} ELSE {}

\* The columns an UPDATE names: those set to a value other than the loaded one.
Dirty(r) == {c \in {"title", "recipe"} : r[c] \notin {Absent, r.seen[c]}}

\* The value of a column in the session once update_drink has set its fields.
Held(r, column) == IF r[column] = Absent THEN r.seen[column] ELSE r[column]

\* update_drink: drink.update(), which flushes the dirty columns, if any.  A
\* row that is gone is a StaleDataError.
Write(t) ==
    LET r == h[t]
        Column(c) == IF c \in Dirty(r) THEN Held(r, c) ELSE menu[r.id][c]
        present == r.id \in DOMAIN menu
        clash == "title" \in Dirty(r) /\ ~TitleFree(Held(r, "title"), r.id)
    IN /\ r.pc = "write"
       /\ \/ /\ Works /\ Dirty(r) = {}
             /\ Set(t, To(r, "reload")) /\ UNCHANGED table
          \/ /\ Works /\ Dirty(r) # {} /\ present /\ ~clash
             /\ UpdateRow(r.id, Column("title"), Column("recipe"))
             /\ Set(t, [r EXCEPT !.pc = "reload", !.changed = TRUE])
          \/ /\ Works /\ Dirty(r) # {} /\ present /\ clash
             /\ Set(t, End(r, "409")) /\ UNCHANGED table
          \/ /\ Works /\ Dirty(r) # {} /\ ~present
             /\ Set(t, Refuse(r)) /\ UNCHANGED table
          \/ Dirty(r) # {} /\ WriteFails(t)
       /\ UNCHANGED <<log, requests>>

\* remove_drink: drink.delete().  A row that is gone is only warned about.
Delete(t) ==
    LET r == h[t]
    IN /\ r.pc = "delete"
       /\ \/ /\ Works /\ DeleteRow(r.id)
             /\ Set(t, [r EXCEPT !.pc = "record", !.changed = r.id \in DOMAIN menu])
          \/ WriteFails(t)
       /\ UNCHANGED <<log, requests>>

\* Mutated: a drink that vanished is answered as if it had never been there.
VanishedNotFound(r) == End(r, "404")

\* ObjectDeletedError escapes the view and becomes the unhandled error's 500.
Vanished(r) == End(r, "500")

\* Reading an attribute of the expired drink, for the audit row.
Reload(t) ==
    LET r == h[t]
    IN /\ r.pc = "reload"
       /\ \/ /\ Works /\ r.id \in DOMAIN menu
             /\ Set(t, [r EXCEPT !.pc = "record", !.seen = menu[r.id]])
          \/ /\ Works /\ r.id \notin DOMAIN menu /\ Set(t, Vanished(r))
          \/ Fault("busy") /\ Set(t, End(r, "500"))
       /\ UNCHANGED <<table, log, requests>>

Action(op) ==
    CASE op = "create" -> "created" [] op = "update" -> "updated" [] op = "delete" -> "deleted"

\* audit.record: a transaction of its own, whose failure is only logged.
Record(t) ==
    LET r == h[t]
        After(recorded) == IF r.op = "delete" THEN End(recorded, "200")
                                              ELSE To(recorded, "answer")
    IN /\ r.pc = "record"
       /\ \/ /\ Works
             /\ log' = log \cup {[action |-> Action(r.op), id |-> r.id, before |-> r.before,
                                  after |-> IF r.op = "delete" THEN NoDrink ELSE r.seen]}
             /\ Set(t, After([r EXCEPT !.audited = TRUE]))
          \/ Fault("busy") /\ Set(t, After(r)) /\ UNCHANGED log
       /\ UNCHANGED <<table, requests>>

\* drink.long() for the response; audit.record's commit has expired it again.
Answer(t) ==
    LET r == h[t]
    IN /\ r.pc = "answer"
       /\ \/ Works /\ Set(t, IF r.id \in DOMAIN menu THEN End(r, "200") ELSE Vanished(r))
          \/ Fault("busy") /\ Set(t, End(r, "500"))
       /\ UNCHANGED <<table, log, requests>>

\* The process dies; what is committed stays.
Crash ==
    /\ Fault("crash")
    /\ h' = [t \in Threads |-> IF h[t].pc = "done" THEN h[t] ELSE End(h[t], "lost")]
    /\ UNCHANGED <<table, log, requests>>

Handle(t) ==
    \/ Count(t) \/ Rows(t) \/ Show(t) \/ Load(t) \/ Insert(t) \/ Write(t) \/ Delete(t)
    \/ Reload(t) \/ Record(t) \/ Answer(t)

Next ==
    \/ \E t \in Threads : Begin(t) \/ BeginList(t)
    \/ /\ Crash \/ \E t \in Threads : Handle(t)
       /\ UNCHANGED overlapped

Spec == Init /\ [][Next]_vars

-----------------------------------------------------------------------------
\* Types of all variables; the ids in use are those of the table.
TypeOK ==
    /\ TableTypeOK
    /\ h \in [Threads -> Handlers]
    /\ log \subseteq Events
    /\ faults \in 0..MaxFaults /\ requests \in 0..MaxRequests
    /\ overlapped \in BOOLEAN

\* Thread t's handler leaves step pc.
Leaves(t, pc) == h[t].pc = pc /\ h'[t].pc # pc

\* "Fields that are absent from the body are left alone" (update_drink), also
\* when other requests change those very fields between this one's load and
\* its write: two PATCHes of different fields never undo each other, and no
\* PATCH touches a drink other than the one it names.
AbsentFieldsLeftAlone ==
    [][\A t \in Threads :
          Leaves(t, "write") =>
              /\ DOMAIN menu' = DOMAIN menu
              /\ \A i \in DOMAIN menu :
                    /\ menu'[i].title # menu[i].title => i = h[t].id /\ h[t].title # Absent
                    /\ menu'[i].recipe # menu[i].recipe => i = h[t].id /\ h[t].recipe # Absent]_vars

\* A drink the audit trail calls deleted is gone, and stays gone: a drink with
\* its id is another one (remove_drink records after it has committed).
DeletedMeansGone ==
    \A e \in log : e.action = "deleted" =>
        \A i \in DOMAIN menu : menu[i].born # e.before.born

\* A client that is told 404, 409 or 422 can rely on it that its request has
\* changed nothing, whichever of its statements failed (the rollbacks of
\* api.py, and the 500 of what fails after the commit).
ClientErrorsChangeNothing ==
    \A t \in Threads : h[t].answer \in {"404", "409", "422"} => ~h[t].changed

\* As long as no two requests overlap, every answer describes the menu, however
\* many requests came and which of their statements failed before: a 200 what
\* was asked for, a 404 a missing drink, a 409 a title in use.
AnswersAreTrue ==
    [][\A t \in Threads :
          LET r == h[t]
              drink == menu'[r.id]
          IN Leaves(t, r.pc) /\ ~overlapped =>
              CASE h'[t].answer = "200" /\ r.op = "delete" -> r.id \notin DOMAIN menu'
                [] h'[t].answer = "200" /\ r.op = "show" -> menu' = menu /\ r.id \in DOMAIN menu
                [] h'[t].answer = "200" /\ r.op \in {"create", "update"} ->
                      /\ r.id \in DOMAIN menu'
                      /\ r.title \in {Absent, drink.title}
                      /\ r.recipe \in {Absent, drink.recipe}
                [] h'[t].answer = "404" -> r.id \notin DOMAIN menu'
                [] h'[t].answer = "409" -> ~TitleFree(r.title, r.id)
                [] OTHER -> TRUE]_vars

\* The page on which a drink belongs: as many drinks precede it as earlier
\* pages hold.
PageOf(id, perPage) == 1 + Cardinality({i \in DOMAIN menu : i < id}) \div perPage

\* A client that turns the pages up to total_pages meets every drink once, as
\* long as no request overlaps (_ordered_drinks, whose count and rows are two
\* queries): a page shows the drinks that belong on it, every one of them on
\* a page up to total_pages, and none of those pages is empty.  When others
\* write between the two queries, a page still shows each drink at most once.
PagesAddUp ==
    [][\A t \in Threads :
          LET page == h'[t].listing
              shown == ToSet(page.shown)
          IN Leaves(t, "rows") /\ h'[t].answer = "200" =>
              /\ IsInjective(page.shown) /\ shown \subseteq DOMAIN menu
              /\ ~overlapped =>
                    /\ shown = {i \in DOMAIN menu : PageOf(i, page.perPage) = page.page}
                    /\ {PageOf(i, page.perPage) : i \in DOMAIN menu} = 1..page.totalPages]_vars
=============================================================================
