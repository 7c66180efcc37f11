------------------------- MODULE DrinksApiProofs -------------------------
(***************************************************************************)
(* Proofs about DrinksApi, for any menu at the start, any set of request   *)
(* threads and any bound on faults and requests.                           *)
(***************************************************************************)
EXTENDS DrinksApi, WellFoundedInduction, SequenceTheorems, FiniteSetTheorems,
        FunctionTheorems, TLAPS

\* The steps of each handler.
PathOf(op) ==
    IF op = "list" THEN {"count", "rows"}
    ELSE IF op = "show" THEN {"show"}
    ELSE IF op = "create" THEN {"insert", "reload", "record", "answer"}
    ELSE IF op = "update" THEN {"load", "write", "reload", "record", "answer"}
    ELSE {"load", "delete", "record"}

\* Up to the write.
Reading == {"count", "rows", "show", "load", "insert", "write", "delete"}

\* Handlers, whatever page they list.
HandlersWith(pages) ==
    [pc : Steps, op : {"list", "show", "create", "update", "delete"}, id : Nat,
     title : Titles \cup {Absent}, recipe : Recipes \cup {Absent, Invalid},
     seen : Drinks \cup {NoDrink}, before : Drinks \cup {NoDrink},
     changed : BOOLEAN, audited : BOOLEAN, listing : pages, answer : Answers]

\* The table: no two drinks stem from the same INSERT.
TableInv ==
    /\ TableTypeOK
    /\ \A i, j \in DOMAIN menu : menu[i].born = menu[j].born => i = j

\* The drinks the audit trail calls deleted were there, and are gone.
LogInv ==
    /\ \A e \in log : e.action = "deleted" => e.before.born \in 0..births
    /\ DeletedMeansGone

\* The drink a removal has loaded is under its id or nowhere.
Removes(r) ==
    /\ r.before.born \in 0..births
    /\ \A i \in DOMAIN menu : menu[i].born = r.before.born => r.pc = "delete" /\ i = r.id

\* What a handler on its way can rely on, whatever the others do.
Sound(r) ==
    /\ r.pc \in PathOf(r.op) /\ r.answer = "none"
    /\ r.op = "create" => r.title \in Titles /\ r.recipe \in Recipes
    /\ r.pc = "insert" => r.id = 0
    /\ r.pc = "write" => r.seen \in Drinks /\ r.recipe # Invalid
    /\ r.pc \in Reading => ~r.changed
    /\ r.op = "delete" /\ r.pc # "load" => Removes(r)

\* What it can rely on as long as it is alone.
Exact(r) ==
    /\ r.pc \in {"write", "delete"} => r.id \in DOMAIN menu /\ r.seen = menu[r.id]
    /\ r.op \in {"create", "update"} /\ r.pc \in {"reload", "record", "answer"} =>
          /\ r.id \in DOMAIN menu
          /\ r.title \in {Absent, menu[r.id].title}
          /\ r.recipe \in {Absent, menu[r.id].recipe}
    /\ r.op = "delete" /\ r.pc = "record" => r.id \notin DOMAIN menu

HandlersInv ==
    /\ \E pages : h \in [Threads -> HandlersWith(pages)]
    /\ \A t \in Threads : h[t].pc # "done" => Sound(h[t])
    /\ ClientErrorsChangeNothing

AloneInv == ~overlapped =>
    /\ \A t, u \in Threads : h[t].pc # "done" /\ h[u].pc # "done" => t = u
    /\ \A t \in Threads : h[t].pc # "done" => Exact(h[t])

IndInv == TableInv /\ LogInv /\ HandlersInv /\ AloneInv

\* What becomes of the table: drinks of old do not move.
Later ==
    /\ births' \in Nat /\ births' >= births
    /\ \A i \in DOMAIN menu' : menu'[i].born <= births =>
          i \in DOMAIN menu /\ menu[i].born = menu'[i].born

-----------------------------------------------------------------------------
\* A bounded set of numbers has a largest one.
LEMMA LargestExists ==
  ASSUME NEW S \in SUBSET Nat, S # {}, NEW b \in Nat, \A x \in S : x <= b
  PROVE  Max(S) \in S /\ \A y \in S : y <= Max(S)
<1> DEFINE T == {b - x : x \in S}
           R == OpToRel(<, Nat)
<1>1. T \subseteq Nat /\ T # {}
  <2>1. \A x \in S : b - x \in Nat
    OBVIOUS
  <2> QED BY <2>1
<1>2. IsWellFoundedOn(R, Nat)
  BY NatLessThanWellFounded
<1>3. \A y, x \in Nat : y < x => <<y, x>> \in R
  BY DEF OpToRel
<1> HIDE DEF R
<1>4. PICK m \in T : \A y \in T : ~(<<y, m>> \in R)
  BY <1>1, <1>2, WFMin
<1>5. PICK x \in S : m = b - x
  OBVIOUS
<1>6. \A y \in S : x >= y
  <2> SUFFICES ASSUME NEW y \in S, ~(x >= y) PROVE FALSE
    OBVIOUS
  <2>0. x \in Nat /\ y \in Nat /\ x < y
    OBVIOUS
  <2>1. b - y \in T /\ b - y < m /\ b - y \in Nat /\ m \in Nat
    BY <1>1, <1>5, <2>0
  <2> QED BY <1>3, <1>4, <2>1
<1>7. Max(S) \in S /\ \A y \in S : Max(S) >= y
  BY <1>6 DEF Max
<1> QED BY <1>7

\* The next id is new.
LEMMA NextIdIsNew ==
  ASSUME TableInv
  PROVE  NextId \in 1..births + 1 /\ \A i \in DOMAIN menu : i < NextId
<1> DEFINE S == DOMAIN menu \cup {0}
<1>1. S \in SUBSET Nat /\ S # {} /\ births \in Nat /\ \A x \in S : x <= births
  BY DEF TableInv, TableTypeOK
<1>2. Max(S) \in S /\ \A y \in S : y <= Max(S)
  BY <1>1, LargestExists
<1>3. NextId = 1 + Max(S)
  BY DEF NextId
<1> HIDE DEF S
<1>4. \A i \in DOMAIN menu : i \in S
  BY DEF S
<1>5. /\ Max(S) \in Nat /\ births \in Nat /\ Max(S) <= births
      /\ \A i \in DOMAIN menu : i \in Nat /\ i <= Max(S)
  BY <1>1, <1>2, <1>4
<1> QED BY <1>3, <1>5

\* INSERT of one drink.
LEMMA InsertProperties ==
  ASSUME TableInv, NEW a \in Titles, NEW b \in Recipes,
         InsertRows(<<[title |-> a, recipe |-> b]>>)
  PROVE  /\ TableInv' /\ Later
         /\ births' = births + 1
         /\ DOMAIN menu' = DOMAIN menu \cup {NextId}
         /\ \A i \in DOMAIN menu : menu'[i] = menu[i]
         /\ menu'[NextId].title = a /\ menu'[NextId].recipe = b
<1>0. /\ NextId \in Nat /\ births \in Nat /\ NextId \in 1..births + 1
      /\ \A i \in DOMAIN menu : i < NextId /\ i \in 1..births
  BY NextIdIsNew DEF TableInv, TableTypeOK
<1> DEFINE d == <<[title |-> a, recipe |-> b]>>
           new == [title |-> a, recipe |-> b, born |-> births + 1]
<1>1. Len(d) = 1 /\ d[1].title = a /\ d[1].recipe = b
  OBVIOUS
<1>2. births' = births + 1
  BY <1>1 DEF InsertRows
<1>3. DOMAIN menu' = DOMAIN menu \cup {NextId}
  BY <1>0, <1>1 DEF InsertRows
<1>4. \A i \in DOMAIN menu : menu'[i] = menu[i]
  BY <1>0, <1>1, <1>3 DEF InsertRows
<1>5. menu'[NextId] = new
  BY <1>0, <1>1, <1>3 DEF InsertRows
<1>6. new \in Drinks /\ new.title = a /\ new.recipe = b /\ new.born = births + 1
  BY <1>0 DEF Drinks
<1> HIDE DEF new
<1>7. TableInv'
  <2>1. \A i \in DOMAIN menu : menu[i] \in Drinks /\ menu[i].born \in 1..births
    BY DEF TableInv, TableTypeOK
  <2>2. ASSUME NEW i \in DOMAIN menu'
        PROVE  i \in 1..births + 1 /\ menu'[i] \in Drinks /\ menu'[i].born \in 1..births + 1
    <3>1. CASE i \in DOMAIN menu
      BY <1>0, <1>4, <2>1, <3>1
    <3>2. CASE i = NextId
      BY <1>0, <1>5, <1>6, <3>2
    <3> QED BY <1>3, <2>2, <3>1, <3>2
  <2>3. ASSUME NEW i \in DOMAIN menu', NEW j \in DOMAIN menu', menu'[i].born = menu'[j].born
        PROVE  i = j
    <3>1. \A k \in DOMAIN menu : menu'[k].born # births + 1
      BY <1>0, <1>4, <2>1
    <3>2. menu'[NextId].born = births + 1
      BY <1>5, <1>6
    <3> QED BY <1>3, <1>4, <2>3, <3>1, <3>2 DEF TableInv
  <2> QED BY <1>0, <1>2, <2>2, <2>3 DEF TableInv, TableTypeOK
<1>8. Later
  <2>1. menu'[NextId].born = births + 1
    BY <1>5, <1>6
  <2> QED BY <1>0, <1>2, <1>3, <1>4, <2>1 DEF Later
<1> QED BY <1>2, <1>3, <1>4, <1>5, <1>6, <1>7, <1>8

\* UPDATE of a drink that is there.
LEMMA UpdateProperties ==
  ASSUME TableInv, NEW id \in DOMAIN menu, NEW a \in Titles, NEW b \in Recipes,
         UpdateRow(id, a, b)
  PROVE  /\ TableInv' /\ Later
         /\ DOMAIN menu' = DOMAIN menu
         /\ \A i \in DOMAIN menu : i # id => menu'[i] = menu[i]
         /\ menu'[id].title = a /\ menu'[id].recipe = b
<1>1. births' = births /\ births \in Nat /\ DOMAIN menu' = DOMAIN menu
  BY DEF UpdateRow, TableInv, TableTypeOK
<1>2. \A i \in DOMAIN menu : i # id => menu'[i] = menu[i]
  BY DEF UpdateRow
<1>3. menu[id] \in Drinks
  BY DEF TableInv, TableTypeOK
<1>4. menu'[id] = [[menu[id] EXCEPT !.title = a] EXCEPT !.recipe = b]
  BY DEF UpdateRow
<1>5. /\ menu'[id] \in Drinks /\ menu'[id].title = a /\ menu'[id].recipe = b
      /\ menu'[id].born = menu[id].born
  BY <1>3, <1>4 DEF Drinks
<1>6. \A i \in DOMAIN menu : menu'[i].born = menu[i].born
  BY <1>2, <1>5
<1>7. TableInv'
  BY <1>1, <1>2, <1>5, <1>6 DEF TableInv, TableTypeOK
<1>8. Later
  BY <1>1, <1>6 DEF Later
<1> QED BY <1>1, <1>2, <1>5, <1>7, <1>8

\* DELETE, also of a drink that is not there.
LEMMA DeleteProperties ==
  ASSUME TableInv, NEW id, DeleteRow(id)
  PROVE  /\ TableInv' /\ Later
         /\ DOMAIN menu' = DOMAIN menu \ {id}
         /\ \A i \in DOMAIN menu' : menu'[i] = menu[i]
<1>1. births' = births /\ births \in Nat /\ DOMAIN menu' = DOMAIN menu \ {id}
  BY DEF DeleteRow, Restrict, TableInv, TableTypeOK
<1>2. \A i \in DOMAIN menu' : menu'[i] = menu[i]
  BY DEF DeleteRow, Restrict
<1>3. TableInv'
  BY <1>1, <1>2 DEF TableInv, TableTypeOK
<1>4. Later
  BY <1>1, <1>2 DEF Later
<1> QED BY <1>1, <1>2, <1>3, <1>4

\* No statement at all.
LEMMA TableStays ==
  ASSUME TableInv, UNCHANGED table
  PROVE  TableInv' /\ Later
BY DEF TableInv, TableTypeOK, table, Later

\* The trail is right about the drinks of later, too.
LEMMA LogStays ==
  ASSUME TableInv, LogInv, Later, UNCHANGED log
  PROVE  LogInv'
<1>1. births \in Nat /\ births' \in Nat /\ births' >= births
  BY DEF TableInv, TableTypeOK, Later
<1>2. ASSUME NEW e \in log, e.action = "deleted", NEW i \in DOMAIN menu',
             menu'[i].born = e.before.born
      PROVE  FALSE
  <2>1. e.before.born \in 0..births
    BY <1>2 DEF LogInv
  <2>2. i \in DOMAIN menu /\ menu[i].born = e.before.born
    BY <1>1, <1>2, <2>1 DEF Later
  <2> QED BY <1>2, <2>2 DEF LogInv, DeletedMeansGone
<1>3. \A e \in log : e.action = "deleted" => e.before.born \in 0..births'
  BY <1>1 DEF LogInv
<1> QED BY <1>2, <1>3 DEF LogInv, DeletedMeansGone

-----------------------------------------------------------------------------
\* A handler stays one, whatever else is listed.
LEMMA Wider ==
  ASSUME NEW few, NEW many, few \subseteq many, NEW r \in HandlersWith(few)
  PROVE  r \in HandlersWith(many)
BY DEF HandlersWith

\* A thread at rest is a handler.
LEMMA NoRequestIsHandler ==
  /\ NoRequest \in HandlersWith({NoPage})
  /\ NoRequest.pc = "done" /\ NoRequest.answer = "none" /\ ~NoRequest.changed
  /\ NoRequest.id = 0
<1>1. "done" \in Steps /\ "none" \in Answers /\ 0 \in Nat
  BY DEF Steps, Answers
<1>2. /\ NoRequest.pc = "done" /\ NoRequest.answer = "none" /\ ~NoRequest.changed
      /\ NoRequest.id = 0
  BY DEF NoRequest
<1> HIDE DEF Steps, Answers, NoPage, NoDrink, Drinks, Absent, Invalid
<1> QED BY <1>1, <1>2 DEF NoRequest, HandlersWith

\* A handler that answers is done.
LEMMA EndFields ==
  ASSUME NEW pages, NEW r \in HandlersWith(pages), NEW a \in Answers
  PROVE  /\ End(r, a) \in HandlersWith(pages)
         /\ End(r, a).pc = "done" /\ End(r, a).answer = a /\ End(r, a).changed = r.changed
<1> DEFINE any == pages \cup {NoPage}
           first == [NoRequest EXCEPT !.changed = r.changed]
           second == [first EXCEPT !.audited = r.audited]
           third == [second EXCEPT !.listing = r.listing]
<1> HIDE DEF NoRequest, Steps, Drinks, NoDrink, NoPage, Answers
<1>1. NoRequest \in HandlersWith(any) /\ NoRequest.pc = "done"
  <2>1. {NoPage} \subseteq any
    OBVIOUS
  <2> QED BY <2>1, NoRequestIsHandler, Wider
<1>2. /\ r.changed \in BOOLEAN /\ r.audited \in BOOLEAN /\ r.listing \in pages
  BY DEF HandlersWith
<1>3. first \in HandlersWith(any) /\ first.pc = "done" /\ first.changed = r.changed
  BY <1>1, <1>2 DEF HandlersWith
<1> HIDE DEF first
<1>4. second \in HandlersWith(any) /\ second.pc = "done" /\ second.changed = r.changed
  BY <1>2, <1>3 DEF HandlersWith
<1> HIDE DEF second
<1>5. third \in HandlersWith(pages) /\ third.pc = "done" /\ third.changed = r.changed
  BY <1>2, <1>4 DEF HandlersWith
<1>6. End(r, a) = [third EXCEPT !.answer = a]
  BY DEF End, third, second, first
<1> HIDE DEF third
<1> QED BY <1>5, <1>6 DEF HandlersWith

\* What a handler relies on survives what happens to the table.
LEMMA SoundCarries ==
  ASSUME TableInv, Later, NEW t, NEW q, h'[t] = q, Sound(q)
  PROVE  Sound(h[t])'
<1>1. births \in Nat /\ births' \in Nat /\ births' >= births
  BY DEF TableInv, TableTypeOK, Later
<1>2. ASSUME Removes(q) PROVE Removes(h[t])'
  <2>1. q.before.born \in 0..births /\ q.before.born \in 0..births'
    BY <1>1, <1>2 DEF Removes
  <2>2. ASSUME NEW i \in DOMAIN menu', menu'[i].born = q.before.born
        PROVE  q.pc = "delete" /\ i = q.id
    <3>1. i \in DOMAIN menu /\ menu[i].born = q.before.born
      BY <1>1, <2>1, <2>2 DEF Later
    <3> QED BY <1>2, <3>1 DEF Removes
  <2> QED BY <2>1, <2>2 DEF Removes
<1> QED BY <1>2 DEF Sound

\* A handler goes on.
LEMMA OneThreadMoves ==
  ASSUME IndInv, TableInv', LogInv', Later, UNCHANGED overlapped,
         NEW t \in Threads, h[t].pc # "done",
         NEW pages, NEW q \in HandlersWith(pages), Set(t, q),
         q.pc # "done" => Sound(h[t])',
         q.pc # "done" /\ ~overlapped => Exact(h[t])',
         q.answer \in {"404", "409", "422"} => ~q.changed
  PROVE  IndInv'
<1>0. PICK old : h \in [Threads -> HandlersWith(old)]
  BY DEF IndInv, HandlersInv
<1>1. h'[t] = q /\ \A u \in Threads : u # t => h'[u] = h[u]
  BY <1>0 DEF Set
<1>2. h' \in [Threads -> HandlersWith(old \cup pages)]
  <2>1. q \in HandlersWith(old \cup pages)
    BY Wider
  <2>2. \A u \in Threads : h[u] \in HandlersWith(old \cup pages)
    BY <1>0, Wider
  <2> QED BY <1>0, <2>1, <2>2 DEF Set
<1>3. ASSUME NEW u \in Threads, h'[u].pc # "done" PROVE Sound(h[u])'
  <2>1. CASE u = t
    BY <1>1, <1>3, <2>1
  <2>2. CASE u # t
    <3>1. h'[u] = h[u] /\ Sound(h[u])
      BY <1>1, <1>3, <2>2 DEF IndInv, HandlersInv
    <3>2. PICK r : r = h[u]
      OBVIOUS
    <3> QED BY <3>1, <3>2, SoundCarries DEF IndInv
  <2> QED BY <2>1, <2>2
<1>4. ClientErrorsChangeNothing'
  BY <1>1 DEF IndInv, HandlersInv, ClientErrorsChangeNothing
<1>5. HandlersInv'
  BY <1>2, <1>3, <1>4 DEF HandlersInv
<1>6. AloneInv'
  <2> SUFFICES ASSUME ~overlapped PROVE AloneInv'
    BY DEF AloneInv
  <2>1. \A u \in Threads : u # t => h'[u].pc = "done"
    BY <1>1 DEF IndInv, AloneInv
  <2>2. ASSUME NEW u \in Threads, h'[u].pc # "done" PROVE Exact(h[u])'
    <3>1. u = t /\ q.pc # "done"
      BY <1>1, <2>1, <2>2
    <3> QED BY <3>1
  <2> QED BY <2>1, <2>2 DEF AloneInv
<1> QED BY <1>5, <1>6 DEF IndInv

\* A handler answers.
LEMMA AnswerKeepsInv ==
  ASSUME IndInv, TableInv', LogInv', Later, UNCHANGED overlapped,
         NEW t \in Threads, h[t].pc # "done",
         NEW pages, NEW r \in HandlersWith(pages), NEW a \in Answers, Set(t, End(r, a)),
         a \in {"404", "409", "422"} => ~r.changed
  PROVE  IndInv'
<1>1. PICK q : q = End(r, a)
  OBVIOUS
<1>2. q \in HandlersWith(pages) /\ q.pc = "done" /\ q.answer = a /\ q.changed = r.changed
  BY <1>1, EndFields
<1>3. Set(t, q)
  BY <1>1
<1> QED BY <1>2, <1>3, OneThreadMoves

\* What is known of a handler on its way.
LEMMA OnItsWay ==
  ASSUME IndInv, NEW t \in Threads, h[t].pc # "done"
  PROVE  /\ \E pages : h[t] \in HandlersWith(pages)
         /\ Sound(h[t])
         /\ ~overlapped => Exact(h[t])
BY DEF IndInv, HandlersInv, AloneInv

\* No statement changed anything.
LEMMA NothingMoved ==
  ASSUME IndInv, UNCHANGED <<table, log>>
  PROVE  TableInv' /\ LogInv' /\ Later
<1>1. TableInv' /\ Later
  BY TableStays DEF IndInv
<1> QED BY <1>1, LogStays DEF IndInv

\* A handler answers without having touched the table.
LEMMA QuietAnswer ==
  ASSUME IndInv, UNCHANGED <<table, log>>, UNCHANGED overlapped,
         NEW t \in Threads, h[t].pc # "done",
         NEW a \in Answers, a \in {"404", "409", "422"} => h[t].pc \in Reading,
         Set(t, End(h[t], a))
  PROVE  IndInv'
<1>1. TableInv' /\ LogInv' /\ Later
  BY NothingMoved
<1>2. PICK pages : h[t] \in HandlersWith(pages)
  BY OnItsWay
<1>3. a \in {"404", "409", "422"} => ~h[t].changed
  BY OnItsWay DEF Sound
<1> QED BY <1>1, <1>2, <1>3, AnswerKeepsInv

\* A handler goes on to its next step.
LEMMA MovesOn ==
  ASSUME IndInv, TableInv', LogInv', Later, UNCHANGED overlapped,
         NEW t \in Threads, h[t].pc # "done",
         NEW pages, NEW q \in HandlersWith(pages), Set(t, q), Sound(q),
         ~overlapped => Exact(h[t])'
  PROVE  IndInv'
<1>1. h'[t] = q
  BY DEF Set, IndInv, HandlersInv
<1>2. Sound(h[t])'
  BY <1>1, SoundCarries DEF IndInv
<1>3. q.answer = "none"
  BY DEF Sound
<1> QED BY <1>2, <1>3, OneThreadMoves

\* A handler under way with the same request.
SameRequest(q, r) ==
    /\ q.op = r.op /\ q.id = r.id /\ q.title = r.title /\ q.recipe = r.recipe
    /\ q.answer = r.answer

-----------------------------------------------------------------------------
\* Listing: the count.
LEMMA CountStep ==
  ASSUME IndInv, NEW t \in Threads, Count(t), UNCHANGED overlapped
  PROVE  IndInv'
<1> DEFINE r == h[t]
<1>1. r.pc = "count" /\ UNCHANGED <<table, log>>
  BY DEF Count
<1>2. TableInv' /\ LogInv' /\ Later
  BY <1>1, NothingMoved
<1>3. PICK pages : r \in HandlersWith(pages)
  BY <1>1, OnItsWay
<1>4. CASE Set(t, End(r, "500"))
  <2>1. "500" \in Answers
    BY DEF Answers
  <2> QED BY <1>1, <1>4, <2>1, QuietAnswer
<1>5. ASSUME NEW total, NEW many,
             Set(t, [r EXCEPT !.pc = "rows", !.listing.total = total,
                              !.listing.totalPages = many])
      PROVE  IndInv'
  <2>1. PICK l : l = [[r.listing EXCEPT !.total = total] EXCEPT !.totalPages = many]
    OBVIOUS
  <2>2. PICK q : q = [r EXCEPT !.pc = "rows", !.listing.total = total,
                              !.listing.totalPages = many]
    OBVIOUS
  <2>3. q = [[r EXCEPT !.pc = "rows"] EXCEPT !.listing = l]
    BY <1>3, <2>1, <2>2 DEF HandlersWith
  <2>4. /\ q \in HandlersWith({l}) /\ q.pc = "rows" /\ SameRequest(q, r)
        /\ q.changed = r.changed
    BY <1>3, <2>3 DEF HandlersWith, Steps, SameRequest
  <2>5. Sound(r)
    BY <1>1, OnItsWay
  <2>6. Sound(q)
    BY <1>1, <2>4, <2>5 DEF Sound, PathOf, Reading, SameRequest
  <2>7. Set(t, q)
    BY <1>5, <2>2
  <2>8. h'[t] = q /\ q.op = "list"
    BY <1>1, <2>4, <2>5, <2>7 DEF Set, IndInv, HandlersInv, Sound, PathOf, SameRequest
  <2>9. Exact(h[t])'
    BY <2>4, <2>8 DEF Exact
  <2> QED BY <1>1, <1>2, <2>4, <2>6, <2>7, <2>9, MovesOn
<1> QED BY <1>4, <1>5 DEF Count

\* Listing: the rows, whichever they are.
LEMMA RowsStep ==
  ASSUME IndInv, NEW t \in Threads, Rows(t), UNCHANGED overlapped
  PROVE  IndInv'
<1> DEFINE r == h[t]
<1>1. r.pc = "rows" /\ UNCHANGED <<table, log>>
  BY DEF Rows
<1>2. TableInv' /\ LogInv' /\ Later
  BY <1>1, NothingMoved
<1>3. PICK pages : r \in HandlersWith(pages)
  BY <1>1, OnItsWay
<1>4. "500" \in Answers /\ "200" \in Answers
  BY DEF Answers
<1>5. CASE Set(t, End(r, "500"))
  BY <1>1, <1>4, <1>5, QuietAnswer
<1>6. ASSUME NEW shown, Set(t, End([r EXCEPT !.listing.shown = shown], "200"))
      PROVE  IndInv'
  <2>1. PICK l : l = [r.listing EXCEPT !.shown = shown]
    OBVIOUS
  <2>2. PICK q : q = [r EXCEPT !.listing.shown = shown]
    OBVIOUS
  <2>3. q = [r EXCEPT !.listing = l]
    BY <1>3, <2>1, <2>2 DEF HandlersWith
  <2>4. q \in HandlersWith({l})
    BY <1>3, <2>3 DEF HandlersWith
  <2>5. Set(t, End(q, "200"))
    BY <1>6, <2>2
  <2> QED BY <1>1, <1>2, <1>4, <2>4, <2>5, AnswerKeepsInv
<1> QED BY <1>5, <1>6 DEF Rows

\* retrieve_drink
LEMMA ShowStep ==
  ASSUME IndInv, NEW t \in Threads, Show(t), UNCHANGED overlapped
  PROVE  IndInv'
<1>1. h[t].pc = "show" /\ UNCHANGED <<table, log>>
  BY DEF Show
<1>2. PICK a \in {"200", "404", "500"} : Set(t, End(h[t], a))
  BY DEF Show
<1>3. a \in Answers /\ h[t].pc \in Reading
  BY <1>1 DEF Answers, Reading
<1> QED BY <1>1, <1>2, <1>3, QuietAnswer

\* The drink is loaded: it is where the table has it.
LEMMA LoadStep ==
  ASSUME IndInv, NEW t \in Threads, Load(t), UNCHANGED overlapped
  PROVE  IndInv'
<1> DEFINE r == h[t]
           step == IF r.op = "update" THEN "write" ELSE "delete"
<1>1. r.pc = "load" /\ UNCHANGED <<table, log>>
  BY DEF Load
<1>2. TableInv' /\ LogInv' /\ Later
  BY <1>1, NothingMoved
<1>3. PICK pages : r \in HandlersWith(pages)
  BY <1>1, OnItsWay
<1>4. Sound(r) /\ r.op \in {"update", "delete"}
  <2>1. Sound(r)
    BY <1>1, OnItsWay
  <2> QED BY <1>1, <1>3, <2>1 DEF Sound, PathOf, HandlersWith
<1>5. CASE \E a \in {"404", "422", "500"} : Set(t, End(r, a))
  <2>1. PICK a \in {"404", "422", "500"} : Set(t, End(r, a))
    BY <1>5
  <2>2. a \in Answers /\ r.pc \in Reading
    BY <1>1 DEF Answers, Reading
  <2> QED BY <1>1, <2>1, <2>2, QuietAnswer
<1>6. ASSUME r.id \in DOMAIN menu, r.recipe # Invalid,
             Set(t, [r EXCEPT !.pc = step, !.seen = menu[r.id], !.before = menu[r.id]])
      PROVE  IndInv'
  <2>1. menu[r.id] \in Drinks /\ menu[r.id].born \in 1..births /\ births \in Nat
    BY <1>6 DEF IndInv, TableInv, TableTypeOK
  <2>2. PICK drink \in Drinks : drink = menu[r.id]
    BY <2>1
  <2>3. PICK q : q = [r EXCEPT !.pc = step, !.seen = drink, !.before = drink]
    OBVIOUS
  <2>4. step \in Steps
    BY DEF Steps
  <2>5. /\ q \in HandlersWith(pages) /\ q.pc = step /\ SameRequest(q, r)
        /\ q.changed = r.changed /\ q.seen = drink /\ q.before = drink
    <3> HIDE DEF step, Steps, Drinks, NoDrink
    <3> QED BY <1>3, <2>3, <2>4 DEF HandlersWith, SameRequest
  <2>6. q.op = "delete" => Removes(q)
    <3>1. q.before.born \in 0..births
      BY <2>1, <2>2, <2>5
    <3>2. \A i \in DOMAIN menu : menu[i].born = q.before.born => i = q.id
      BY <1>6, <2>2, <2>5 DEF IndInv, TableInv, SameRequest
    <3>3. q.op = "delete" => q.pc = "delete"
      BY <2>5 DEF SameRequest
    <3> QED BY <3>1, <3>2, <3>3 DEF Removes
  <2>7. Sound(q)
    BY <1>1, <1>4, <1>6, <2>2, <2>5, <2>6 DEF Sound, PathOf, Reading, SameRequest
  <2>8. Set(t, q)
    BY <1>6, <2>2, <2>3
  <2>9. h'[t] = q /\ menu' = menu
    BY <1>1, <2>8 DEF Set, IndInv, HandlersInv, table
  <2>10. Exact(h[t])'
    BY <1>4, <1>6, <2>2, <2>5, <2>9 DEF Exact, SameRequest
  <2> HIDE DEF step
  <2> QED BY <1>1, <1>2, <2>5, <2>7, <2>8, <2>10, MovesOn
<1> QED BY <1>5, <1>6 DEF Load

\* The facts that hold for the next step of one that is under way.
LEMMA FieldsTyped ==
  ASSUME NEW pages, NEW r \in HandlersWith(pages)
  PROVE  /\ r.title \in Titles \cup {Absent} /\ r.recipe \in Recipes \cup {Absent, Invalid}
         /\ r.id \in Nat /\ r.changed \in BOOLEAN
         /\ r.op \in {"list", "show", "create", "update", "delete"}
BY DEF HandlersWith

\* create_drink: the drink is on the menu under the next id, or nothing has changed.
LEMMA InsertStep ==
  ASSUME IndInv, NEW t \in Threads, Insert(t), UNCHANGED overlapped
  PROVE  IndInv'
<1> DEFINE r == h[t]
<1>1. r.pc = "insert" /\ UNCHANGED log
  BY DEF Insert
<1>2. PICK pages : r \in HandlersWith(pages)
  BY <1>1, OnItsWay
<1>3. /\ Sound(r) /\ r.op = "create"
      /\ r.title \in Titles /\ r.recipe \in Recipes
  <2>1. Sound(r)
    BY <1>1, OnItsWay
  <2> QED BY <1>1, <1>2, <2>1, FieldsTyped DEF Sound, PathOf
<1>4. CASE UNCHANGED table /\ \E a \in {"409", "422"} : Set(t, End(r, a))
  <2>1. PICK a \in {"409", "422"} : Set(t, End(r, a))
    BY <1>4
  <2>2. a \in Answers /\ r.pc \in Reading
    BY <1>1 DEF Answers, Reading
  <2> QED BY <1>1, <1>4, <2>1, <2>2, QuietAnswer
<1>5. ASSUME InsertRows(<<[title |-> r.title, recipe |-> r.recipe]>>),
             Set(t, [r EXCEPT !.pc = "reload", !.id = NextId, !.changed = TRUE])
      PROVE  IndInv'
  <2>1. /\ TableInv' /\ Later
        /\ DOMAIN menu' = DOMAIN menu \cup {NextId}
        /\ menu'[NextId].title = r.title /\ menu'[NextId].recipe = r.recipe
    BY <1>3, <1>5, InsertProperties DEF IndInv
  <2>2. LogInv'
    BY <1>1, <2>1, LogStays DEF IndInv
  <2>3. PICK id \in Nat : id = NextId
    BY NextIdIsNew DEF IndInv
  <2>4. PICK q : q = [r EXCEPT !.pc = "reload", !.id = id, !.changed = TRUE]
    OBVIOUS
  <2>5. /\ q \in HandlersWith(pages) /\ q.pc = "reload" /\ q.id = id /\ q.op = r.op
        /\ q.title = r.title /\ q.recipe = r.recipe /\ q.answer = r.answer
    BY <1>2, <2>4 DEF HandlersWith, Steps
  <2>6. Sound(q)
    BY <1>3, <2>5 DEF Sound, PathOf, Reading
  <2>7. Set(t, q)
    BY <1>5, <2>3, <2>4
  <2>8. h'[t] = q
    BY <2>7 DEF Set, IndInv, HandlersInv
  <2>9. Exact(h[t])'
    BY <1>3, <2>1, <2>3, <2>5, <2>8 DEF Exact
  <2> QED BY <1>1, <2>1, <2>2, <2>5, <2>6, <2>7, <2>9, MovesOn
<1> QED BY <1>4, <1>5 DEF Insert, WriteFails, Refuse

\* A title or recipe that the body names is what the session saves.
LEMMA DirtyProperties ==
  ASSUME NEW pages, NEW r \in HandlersWith(pages), r.seen \in Drinks, r.recipe # Invalid
  PROVE  /\ "title" \in Dirty(r) => r.title \in Titles /\ Held(r, "title") = r.title
         /\ "recipe" \in Dirty(r) => r.recipe \in Recipes /\ Held(r, "recipe") = r.recipe
         /\ "title" \notin Dirty(r) => r.title \in {Absent, r.seen.title}
         /\ "recipe" \notin Dirty(r) => r.recipe \in {Absent, r.seen.recipe}
<1>1. /\ "title" \in Dirty(r) <=> r.title \notin {Absent, r.seen.title}
      /\ "recipe" \in Dirty(r) <=> r.recipe \notin {Absent, r.seen.recipe}
  BY DEF Dirty
<1>2. /\ r.title # Absent => Held(r, "title") = r.title
      /\ r.recipe # Absent => Held(r, "recipe") = r.recipe
  BY DEF Held
<1> QED BY <1>1, <1>2, FieldsTyped

\* An UPDATE names what the body names, and only that.
LEMMA WriteProperties ==
  ASSUME IndInv, NEW t \in Threads, Write(t)
  PROVE  \/ /\ UNCHANGED table
            /\ \/ \E a \in {"409", "422"} :
                     /\ Set(t, End(h[t], a))
                     /\ a = "409" => ~TitleFree(h[t].title, h[t].id)
               \/ Dirty(h[t]) = {} /\ Set(t, To(h[t], "reload"))
         \/ /\ Set(t, [h[t] EXCEPT !.pc = "reload", !.changed = TRUE])
            /\ h[t].id \in DOMAIN menu
            /\ \E a \in Titles, b \in Recipes :
                  /\ UpdateRow(h[t].id, a, b)
                  /\ a = IF "title" \in Dirty(h[t]) THEN h[t].title ELSE menu[h[t].id].title
                  /\ b = IF "recipe" \in Dirty(h[t]) THEN h[t].recipe ELSE menu[h[t].id].recipe
<1> DEFINE r == h[t]
           Column(c) == IF c \in Dirty(r) THEN Held(r, c) ELSE menu[r.id][c]
<1>1. r.pc = "write"
  BY DEF Write
<1>2. PICK pages : r \in HandlersWith(pages)
  BY <1>1, OnItsWay
<1>3. r.seen \in Drinks /\ r.recipe # Invalid
  <2>1. Sound(r)
    BY <1>1, OnItsWay
  <2> QED BY <1>1, <2>1 DEF Sound
<1>4. \/ UNCHANGED table /\ Set(t, End(r, "422"))
      \/ /\ UNCHANGED table /\ Set(t, End(r, "409"))
         /\ "title" \in Dirty(r) /\ ~TitleFree(Held(r, "title"), r.id)
      \/ UNCHANGED table /\ Dirty(r) = {} /\ Set(t, To(r, "reload"))
      \/ /\ r.id \in DOMAIN menu /\ UpdateRow(r.id, Column("title"), Column("recipe"))
         /\ Set(t, [r EXCEPT !.pc = "reload", !.changed = TRUE])
  BY DEF Write, WriteFails, Refuse
<1>5. ASSUME r.id \in DOMAIN menu
      PROVE  /\ Column("title") \in Titles /\ Column("recipe") \in Recipes
             /\ Column("title") = IF "title" \in Dirty(r) THEN r.title ELSE menu[r.id].title
             /\ Column("recipe") = IF "recipe" \in Dirty(r) THEN r.recipe ELSE menu[r.id].recipe
  <2>1. menu[r.id].title \in Titles /\ menu[r.id].recipe \in Recipes
    BY <1>5 DEF IndInv, TableInv, TableTypeOK, Drinks
  <2>2. /\ "title" \in Dirty(r) => r.title \in Titles /\ Held(r, "title") = r.title
        /\ "recipe" \in Dirty(r) => r.recipe \in Recipes /\ Held(r, "recipe") = r.recipe
    BY <1>2, <1>3, DirtyProperties
  <2> QED BY <2>1, <2>2
<1>6. "title" \in Dirty(r) => Held(r, "title") = r.title
  BY <1>2, <1>3, DirtyProperties
<1> HIDE DEF Column
<1> QED BY <1>4, <1>5, <1>6

\* update_drink: what the body names has the value it names.
LEMMA WriteStep ==
  ASSUME IndInv, NEW t \in Threads, Write(t), UNCHANGED overlapped
  PROVE  IndInv'
<1> DEFINE r == h[t]
<1>1. r.pc = "write" /\ UNCHANGED log
  BY DEF Write
<1>2. PICK pages : r \in HandlersWith(pages)
  BY <1>1, OnItsWay
<1>3. Sound(r) /\ r.op = "update" /\ r.seen \in Drinks /\ r.recipe # Invalid
  <2>1. Sound(r)
    BY <1>1, OnItsWay
  <2> QED BY <1>1, <1>2, <2>1, FieldsTyped DEF Sound, PathOf
<1>4. CASE UNCHANGED table /\ \E a \in {"409", "422"} : Set(t, End(r, a))
  <2>1. PICK a \in {"409", "422"} : Set(t, End(r, a))
    BY <1>4
  <2>2. a \in Answers /\ r.pc \in Reading
    BY <1>1 DEF Answers, Reading
  <2> QED BY <1>1, <1>4, <2>1, <2>2, QuietAnswer
<1>5. ASSUME NEW q, q.pc = "reload", q \in HandlersWith(pages), SameRequest(q, r), Set(t, q),
             TableInv', Later,
             r.id \in DOMAIN menu => r.id \in DOMAIN menu',
             r.id \in DOMAIN menu /\ r.seen = menu[r.id] =>
                /\ r.title \in {Absent, menu'[r.id].title}
                /\ r.recipe \in {Absent, menu'[r.id].recipe}
      PROVE  IndInv'
  <2>1. LogInv'
    BY <1>1, <1>5, LogStays DEF IndInv
  <2>2. Sound(q)
    BY <1>3, <1>5 DEF Sound, PathOf, Reading, SameRequest
  <2>3. h'[t] = q
    BY <1>5 DEF Set, IndInv, HandlersInv
  <2>4. ~overlapped => r.id \in DOMAIN menu /\ r.seen = menu[r.id]
    BY <1>1, OnItsWay DEF Exact
  <2>5. ~overlapped => Exact(h[t])'
    BY <1>3, <1>5, <2>3, <2>4 DEF Exact, SameRequest
  <2> QED BY <1>1, <1>5, <2>1, <2>2, <2>5, MovesOn
<1>6. CASE UNCHANGED table /\ Dirty(r) = {} /\ Set(t, To(r, "reload"))
  <2>1. PICK q : q = To(r, "reload")
    OBVIOUS
  <2>2. q \in HandlersWith(pages) /\ q.pc = "reload" /\ SameRequest(q, r)
    BY <1>2, <2>1 DEF To, HandlersWith, Steps, SameRequest
  <2>3. r.title \in {Absent, r.seen.title} /\ r.recipe \in {Absent, r.seen.recipe}
    BY <1>2, <1>3, <1>6, DirtyProperties
  <2>4. TableInv' /\ Later /\ menu' = menu
    BY <1>6, TableStays DEF IndInv, table
  <2>5. Set(t, q)
    BY <1>6, <2>1
  <2> QED BY <1>5, <2>2, <2>3, <2>4, <2>5
<1>7. ASSUME Set(t, [r EXCEPT !.pc = "reload", !.changed = TRUE]), r.id \in DOMAIN menu,
             NEW a \in Titles, NEW b \in Recipes, UpdateRow(r.id, a, b),
             a = IF "title" \in Dirty(r) THEN r.title ELSE menu[r.id].title,
             b = IF "recipe" \in Dirty(r) THEN r.recipe ELSE menu[r.id].recipe
      PROVE  IndInv'
  <2>1. PICK q : q = [r EXCEPT !.pc = "reload", !.changed = TRUE]
    OBVIOUS
  <2>2. q \in HandlersWith(pages) /\ q.pc = "reload" /\ SameRequest(q, r)
    BY <1>2, <2>1 DEF HandlersWith, Steps, SameRequest
  <2>3. /\ TableInv' /\ Later /\ DOMAIN menu' = DOMAIN menu
        /\ menu'[r.id].title = a /\ menu'[r.id].recipe = b
    BY <1>7, UpdateProperties DEF IndInv
  <2>4. /\ "title" \notin Dirty(r) => r.title \in {Absent, r.seen.title}
        /\ "recipe" \notin Dirty(r) => r.recipe \in {Absent, r.seen.recipe}
    BY <1>2, <1>3, DirtyProperties
  <2>5. r.seen = menu[r.id] => /\ r.title \in {Absent, menu'[r.id].title}
                              /\ r.recipe \in {Absent, menu'[r.id].recipe}
    BY <1>7, <2>3, <2>4
  <2>6. Set(t, q)
    BY <1>7, <2>1
  <2> QED BY <1>5, <1>7, <2>2, <2>3, <2>5, <2>6
<1> QED BY <1>4, <1>6, <1>7, WriteProperties

\* remove_drink: the drink that was loaded is gone.
LEMMA DeleteStep ==
  ASSUME IndInv, NEW t \in Threads, Delete(t), UNCHANGED overlapped
  PROVE  IndInv'
<1> DEFINE r == h[t]
<1>1. r.pc = "delete" /\ UNCHANGED log
  BY DEF Delete
<1>2. PICK pages : r \in HandlersWith(pages)
  BY <1>1, OnItsWay
<1>3. Sound(r) /\ r.op = "delete" /\ Removes(r)
  <2>1. Sound(r)
    BY <1>1, OnItsWay
  <2> QED BY <1>1, <1>2, <2>1, FieldsTyped DEF Sound, PathOf
<1>4. CASE UNCHANGED table /\ Set(t, End(r, "422"))
  <2>1. "422" \in Answers /\ r.pc \in Reading
    BY <1>1 DEF Answers, Reading
  <2> QED BY <1>1, <1>4, <2>1, QuietAnswer
<1>5. ASSUME DeleteRow(r.id), NEW c \in BOOLEAN,
             Set(t, [r EXCEPT !.pc = "record", !.changed = c])
      PROVE  IndInv'
  <2>1. /\ TableInv' /\ Later
        /\ DOMAIN menu' = DOMAIN menu \ {r.id}
        /\ \A i \in DOMAIN menu' : menu'[i] = menu[i]
    BY <1>5, DeleteProperties DEF IndInv
  <2>2. LogInv'
    BY <1>1, <2>1, LogStays DEF IndInv
  <2>3. PICK q : q = [r EXCEPT !.pc = "record", !.changed = c]
    OBVIOUS
  <2>4. /\ q \in HandlersWith(pages) /\ q.pc = "record" /\ SameRequest(q, r)
        /\ q.before = r.before
    BY <1>2, <2>3 DEF HandlersWith, Steps, SameRequest
  <2>5. Set(t, q)
    BY <1>5, <2>3
  <2>6. h'[t] = q
    BY <2>5 DEF Set, IndInv, HandlersInv
  <2>7. Removes(h[t])'
    <3>1. q.before.born \in 0..births'
      BY <1>3, <2>1, <2>4 DEF Removes, Later, IndInv, TableInv, TableTypeOK
    <3>2. \A i \in DOMAIN menu' : menu'[i].born # q.before.born
      BY <1>3, <2>1, <2>4 DEF Removes
    <3> QED BY <2>6, <3>1, <3>2 DEF Removes
  <2>8. Sound(h[t])'
    BY <1>3, <2>4, <2>6, <2>7 DEF Sound, PathOf, Reading, SameRequest
  <2>9. Exact(h[t])'
    BY <1>3, <2>1, <2>4, <2>6 DEF Exact, SameRequest
  <2>10. q.answer = "none"
    BY <1>3, <2>4 DEF Sound, SameRequest
  <2> QED BY <1>1, <2>1, <2>2, <2>4, <2>5, <2>8, <2>9, <2>10, OneThreadMoves
<1>6. (r.id \in DOMAIN menu) \in BOOLEAN
  OBVIOUS
<1> QED BY <1>4, <1>5, <1>6 DEF Delete, WriteFails, Refuse

\* The expired drink is read again.
LEMMA ReloadStep ==
  ASSUME IndInv, NEW t \in Threads, Reload(t), UNCHANGED overlapped
  PROVE  IndInv'
<1> DEFINE r == h[t]
<1>1. r.pc = "reload" /\ UNCHANGED <<table, log>>
  BY DEF Reload
<1>2. TableInv' /\ LogInv' /\ Later
  BY <1>1, NothingMoved
<1>3. PICK pages : r \in HandlersWith(pages)
  BY <1>1, OnItsWay
<1>4. Sound(r) /\ r.op \in {"create", "update"}
  <2>1. Sound(r)
    BY <1>1, OnItsWay
  <2> QED BY <1>1, <1>3, <2>1, FieldsTyped DEF Sound, PathOf
<1>5. CASE Set(t, End(r, "500"))
  <2>1. "500" \in Answers
    BY DEF Answers
  <2> QED BY <1>1, <1>5, <2>1, QuietAnswer
<1>6. ASSUME r.id \in DOMAIN menu, Set(t, [r EXCEPT !.pc = "record", !.seen = menu[r.id]])
      PROVE  IndInv'
  <2>1. PICK drink \in Drinks : drink = menu[r.id]
    BY <1>6 DEF IndInv, TableInv, TableTypeOK
  <2>2. PICK q : q = [r EXCEPT !.pc = "record", !.seen = drink]
    OBVIOUS
  <2>3. q \in HandlersWith(pages) /\ q.pc = "record" /\ SameRequest(q, r)
    <3> HIDE DEF Drinks, NoDrink
    <3> QED BY <1>3, <2>2 DEF HandlersWith, Steps, SameRequest
  <2>4. Sound(q)
    BY <1>4, <2>3 DEF Sound, PathOf, Reading, SameRequest
  <2>5. Set(t, q)
    BY <1>6, <2>1, <2>2
  <2>6. h'[t] = q /\ menu' = menu
    BY <1>1, <2>5 DEF Set, IndInv, HandlersInv, table
  <2>7. ~overlapped => Exact(r)
    BY <1>1, OnItsWay
  <2>8. ~overlapped => Exact(h[t])'
    BY <1>1, <1>4, <2>3, <2>6, <2>7 DEF Exact, SameRequest
  <2> QED BY <1>1, <1>2, <2>3, <2>4, <2>5, <2>8, MovesOn
<1> QED BY <1>5, <1>6 DEF Reload, Vanished

\* audit.record: a row about a removal tells of a drink that is gone.
LEMMA RecordStep ==
  ASSUME IndInv, NEW t \in Threads, Record(t), UNCHANGED overlapped
  PROVE  IndInv'
<1> DEFINE r == h[t]
<1>1. r.pc = "record" /\ UNCHANGED table
  BY DEF Record
<1>2. PICK pages : r \in HandlersWith(pages)
  BY <1>1, OnItsWay
<1>3. Sound(r) /\ r.op \in {"create", "update", "delete"}
  <2>1. Sound(r)
    BY <1>1, OnItsWay
  <2> QED BY <1>1, <1>2, <2>1, FieldsTyped DEF Sound, PathOf
<1>4. TableInv' /\ Later
  BY <1>1, TableStays DEF IndInv
<1>5. LogInv'
  <2>1. CASE UNCHANGED log
    BY <1>4, <2>1, LogStays DEF IndInv
  <2>2. ASSUME NEW after,
               log' = log \cup {[action |-> Action(r.op), id |-> r.id, before |-> r.before,
                                 after |-> after]}
        PROVE  LogInv'
    <3>1. PICK e : e = [action |-> Action(r.op), id |-> r.id, before |-> r.before, after |-> after]
      OBVIOUS
    <3>2. e.action = Action(r.op) /\ e.before = r.before
      BY <3>1
    <3>3. e.action = "deleted" => r.op = "delete"
      BY <1>3, <3>2 DEF Action
    <3>4. e.action = "deleted" => Removes(r)
      BY <1>1, <1>3, <3>3 DEF Sound
    <3>5. births' = births /\ menu' = menu
      BY <1>1 DEF table
    <3>6. e.action = "deleted" => /\ e.before.born \in 0..births'
                                 /\ \A i \in DOMAIN menu' : menu'[i].born # e.before.born
      BY <1>1, <3>2, <3>4, <3>5 DEF Removes
    <3>7. log' = log \cup {e}
      BY <2>2, <3>1
    <3> QED BY <3>5, <3>6, <3>7 DEF IndInv, LogInv, DeletedMeansGone
  <2> QED BY <2>1, <2>2 DEF Record
<1>6. ASSUME NEW q \in HandlersWith(pages), SameRequest(q, r), q.pc = "record",
             Set(t, IF r.op = "delete" THEN End(q, "200") ELSE To(q, "answer"))
      PROVE  IndInv'
  <2>1. CASE r.op = "delete"
    <3>1. Set(t, End(q, "200")) /\ "200" \in Answers
      BY <1>6, <2>1 DEF Answers
    <3> QED BY <1>1, <1>4, <1>5, <3>1, AnswerKeepsInv
  <2>2. CASE r.op # "delete"
    <3>1. PICK p : p = To(q, "answer")
      OBVIOUS
    <3>2. p \in HandlersWith(pages) /\ p.pc = "answer" /\ SameRequest(p, r)
      BY <1>6, <3>1 DEF To, HandlersWith, Steps, SameRequest
    <3>3. Sound(p)
      BY <1>3, <2>2, <3>2 DEF Sound, PathOf, Reading, SameRequest
    <3>4. Set(t, p)
      BY <1>6, <2>2, <3>1
    <3>5. h'[t] = p /\ menu' = menu
      BY <1>1, <3>4 DEF Set, IndInv, HandlersInv, table
    <3>6. ~overlapped => Exact(r)
      BY <1>1, OnItsWay
    <3>7. ~overlapped => Exact(h[t])'
      BY <1>1, <1>3, <2>2, <3>2, <3>5, <3>6 DEF Exact, SameRequest
    <3> QED BY <1>1, <1>4, <1>5, <3>2, <3>3, <3>4, <3>7, MovesOn
  <2> QED BY <2>1, <2>2
<1>7. PICK recorded : recorded = [r EXCEPT !.audited = TRUE]
  OBVIOUS
<1>8. recorded \in HandlersWith(pages) /\ SameRequest(recorded, r) /\ recorded.pc = "record"
  BY <1>1, <1>2, <1>7 DEF HandlersWith, SameRequest
<1>9. SameRequest(r, r)
  BY DEF SameRequest
<1>10. \/ Set(t, IF r.op = "delete" THEN End(recorded, "200") ELSE To(recorded, "answer"))
       \/ Set(t, IF r.op = "delete" THEN End(r, "200") ELSE To(r, "answer"))
  BY <1>7 DEF Record
<1> QED BY <1>1, <1>2, <1>6, <1>8, <1>9, <1>10

\* The answer, for which the drink is read once more.
LEMMA AnswerStep ==
  ASSUME IndInv, NEW t \in Threads, Answer(t), UNCHANGED overlapped
  PROVE  IndInv'
<1>1. h[t].pc = "answer" /\ UNCHANGED <<table, log>>
  BY DEF Answer
<1>2. PICK a \in {"200", "500"} : Set(t, End(h[t], a))
  BY DEF Answer, Vanished
<1>3. a \in Answers
  BY DEF Answers
<1> QED BY <1>1, <1>2, <1>3, QuietAnswer

\* The process dies: all its requests are lost.
LEMMA CrashStep ==
  ASSUME IndInv, Crash, UNCHANGED overlapped
  PROVE  IndInv'
<1>1. /\ UNCHANGED <<table, log>>
      /\ h' = [t \in Threads |-> IF h[t].pc = "done" THEN h[t] ELSE End(h[t], "lost")]
  BY DEF Crash
<1>2. PICK pages : h \in [Threads -> HandlersWith(pages)]
  BY DEF IndInv, HandlersInv
<1>3. ASSUME NEW t \in Threads
      PROVE  /\ h'[t] \in HandlersWith(pages) /\ h'[t].pc = "done"
             /\ h'[t] = h[t] \/ h'[t].answer = "lost"
  <2>1. "lost" \in Answers
    BY DEF Answers
  <2>2. PICK q : q = End(h[t], "lost")
    OBVIOUS
  <2>3. q \in HandlersWith(pages) /\ q.pc = "done" /\ q.answer = "lost"
    BY <1>2, <2>1, <2>2, EndFields
  <2> QED BY <1>1, <1>2, <2>2, <2>3
<1>4. h' \in [Threads -> HandlersWith(pages)]
  BY <1>1, <1>3
<1>5. ClientErrorsChangeNothing'
  BY <1>3 DEF IndInv, HandlersInv, ClientErrorsChangeNothing
<1>6. HandlersInv'
  BY <1>3, <1>4, <1>5 DEF HandlersInv
<1>7. AloneInv'
  BY <1>3 DEF AloneInv
<1>8. TableInv' /\ LogInv'
  BY <1>1, NothingMoved
<1> QED BY <1>6, <1>7, <1>8 DEF IndInv

\* A thread at rest begins a request, or refuses it at once.
LEMMA FreshRequest ==
  ASSUME IndInv, UNCHANGED <<table, log>>, NEW t \in Threads, h[t].pc = "done",
         overlapped' = (overlapped \/ \E other \in Threads : h[other].pc # "done"),
         NEW pages, NEW q \in HandlersWith(pages), Set(t, q),
         q.pc # "done" => q.pc \in {"count", "show", "load", "insert"} /\ Sound(q),
         ~q.changed
  PROVE  IndInv'
<1>0. PICK old : h \in [Threads -> HandlersWith(old)]
  BY DEF IndInv, HandlersInv
<1>1. h'[t] = q /\ \A u \in Threads : u # t => h'[u] = h[u]
  BY <1>0 DEF Set
<1>2. TableInv' /\ LogInv' /\ Later
  BY NothingMoved
<1>3. h' \in [Threads -> HandlersWith(old \cup pages)]
  <2>1. q \in HandlersWith(old \cup pages)
    BY Wider
  <2>2. \A u \in Threads : h[u] \in HandlersWith(old \cup pages)
    BY <1>0, Wider
  <2> QED BY <1>0, <2>1, <2>2 DEF Set
<1>4. ASSUME NEW u \in Threads, h'[u].pc # "done" PROVE Sound(h[u])'
  <2>1. PICK r : r = h'[u]
    OBVIOUS
  <2>2. Sound(r)
    BY <1>1, <1>4, <2>1 DEF IndInv, HandlersInv
  <2> QED BY <1>2, <2>1, <2>2, SoundCarries DEF IndInv
<1>5. ClientErrorsChangeNothing'
  BY <1>1 DEF IndInv, HandlersInv, ClientErrorsChangeNothing
<1>6. HandlersInv'
  BY <1>3, <1>4, <1>5 DEF HandlersInv
<1>7. AloneInv'
  <2> SUFFICES ASSUME ~overlapped' PROVE AloneInv'
    BY DEF AloneInv
  <2>1. \A u \in Threads : u # t => h'[u].pc = "done"
    BY <1>1
  <2>2. ASSUME NEW u \in Threads, h'[u].pc # "done" PROVE Exact(h[u])'
    <3>1. u = t /\ h'[u].pc \in {"count", "show", "load", "insert"}
      BY <1>1, <2>1, <2>2
    <3> QED BY <3>1 DEF Exact
  <2> QED BY <2>1, <2>2 DEF AloneInv
<1> QED BY <1>2, <1>6, <1>7 DEF IndInv

\* A request for one drink.
LEMMA BeginStep ==
  ASSUME IndInv, NEW t \in Threads, Begin(t)
  PROVE  IndInv'
<1>1. /\ h[t].pc = "done" /\ UNCHANGED <<table, log>>
      /\ overlapped' = (overlapped \/ \E other \in Threads : h[other].pc # "done")
  BY DEF Begin
<1>2. PICK op \in Operations \ {"list"}, id \in RequestIds,
           title \in Titles \cup {Absent}, recipe \in Recipes \cup {Absent, Invalid} :
         /\ op = "create" => id = 1 /\ title # Absent /\ recipe \in Recipes
         /\ Set(t, [NoRequest EXCEPT
                      !.pc = FirstStep(op), !.op = op,
                      !.id = IF op = "create" THEN 0 ELSE id,
                      !.title = title, !.recipe = recipe])
  BY DEF Begin
<1>3. op \in {"show", "create", "update", "delete"} /\ id \in Nat
  BY ApiAssumption
<1> DEFINE first == [NoRequest EXCEPT !.pc = FirstStep(op), !.op = op]
           second == [first EXCEPT !.id = IF op = "create" THEN 0 ELSE id]
           third == [second EXCEPT !.title = title]
           q == [third EXCEPT !.recipe = recipe]
<1>4. FirstStep(op) = IF op = "create" THEN "insert" ELSE IF op = "show" THEN "show" ELSE "load"
  BY <1>3 DEF FirstStep
<1>5. FirstStep(op) \in Steps
  BY <1>4 DEF Steps
<1>6. /\ NoRequest \in HandlersWith({NoPage}) /\ NoRequest.answer = "none" /\ ~NoRequest.changed
  BY NoRequestIsHandler
<1> HIDE DEF NoRequest, NoPage, Steps, FirstStep, Drinks, NoDrink, Absent, Invalid
<1>7. /\ first \in HandlersWith({NoPage}) /\ first.pc = FirstStep(op) /\ first.op = op
      /\ first.answer = "none" /\ ~first.changed
  BY <1>3, <1>5, <1>6 DEF HandlersWith
<1> HIDE DEF first
<1>8. /\ second \in HandlersWith({NoPage}) /\ second.pc = FirstStep(op) /\ second.op = op
      /\ second.answer = "none" /\ ~second.changed
      /\ second.id = IF op = "create" THEN 0 ELSE id
  BY <1>3, <1>7 DEF HandlersWith
<1> HIDE DEF second
<1>9. /\ third \in HandlersWith({NoPage}) /\ third.pc = FirstStep(op) /\ third.op = op
      /\ third.answer = "none" /\ ~third.changed
      /\ third.id = (IF op = "create" THEN 0 ELSE id) /\ third.title = title
  BY <1>8 DEF HandlersWith
<1> HIDE DEF third
<1>10. /\ q \in HandlersWith({NoPage}) /\ q.pc = FirstStep(op) /\ q.op = op
       /\ q.answer = "none" /\ ~q.changed
       /\ q.id = (IF op = "create" THEN 0 ELSE id) /\ q.title = title /\ q.recipe = recipe
  BY <1>9 DEF HandlersWith
<1>11. Set(t, q)
  BY <1>2 DEF third, second, first
<1> HIDE DEF q
<1>12. Sound(q) /\ q.pc \in {"count", "show", "load", "insert"}
  BY <1>2, <1>3, <1>4, <1>10 DEF Sound, PathOf, Absent
<1> QED BY <1>1, <1>10, <1>11, <1>12, FreshRequest

\* A listing, or the 400 for a page out of range.
LEMMA BeginListStep ==
  ASSUME IndInv, NEW t \in Threads, BeginList(t)
  PROVE  IndInv'
<1>1. /\ h[t].pc = "done" /\ UNCHANGED <<table, log>>
      /\ overlapped' = (overlapped \/ \E other \in Threads : h[other].pc # "done")
  BY DEF BeginList
<1>2. PICK page, perPage :
         \/ Set(t, End([NoRequest EXCEPT !.pc = "count", !.op = "list", !.listing.page = page,
                                         !.listing.perPage = perPage], "400"))
         \/ Set(t, [NoRequest EXCEPT !.pc = "count", !.op = "list", !.listing.page = page,
                                     !.listing.perPage = perPage])
  BY DEF BeginList
<1> DEFINE first == [NoRequest EXCEPT !.pc = "count", !.op = "list"]
           second == [first EXCEPT !.listing.page = page]
           r == [second EXCEPT !.listing.perPage = perPage]
<1>3. "count" \in Steps /\ "400" \in Answers
  BY DEF Steps, Answers
<1>4. /\ NoRequest \in HandlersWith({NoPage}) /\ NoRequest.answer = "none" /\ ~NoRequest.changed
  BY NoRequestIsHandler
<1> HIDE DEF NoRequest, NoPage, Steps, Answers, Drinks, NoDrink, Absent, Invalid
<1>5. /\ first \in HandlersWith({NoPage}) /\ first.pc = "count" /\ first.op = "list"
      /\ first.answer = "none" /\ ~first.changed
  BY <1>3, <1>4 DEF HandlersWith
<1> HIDE DEF first
<1>6. PICK l : l = [first.listing EXCEPT !.page = page]
  OBVIOUS
<1>7. /\ second \in HandlersWith({l}) /\ second.pc = "count" /\ second.op = "list"
      /\ second.answer = "none" /\ ~second.changed
  BY <1>5, <1>6 DEF HandlersWith
<1> HIDE DEF second
<1>8. PICK m : m = [second.listing EXCEPT !.perPage = perPage]
  OBVIOUS
<1>9. /\ r \in HandlersWith({m}) /\ r.pc = "count" /\ r.op = "list"
      /\ r.answer = "none" /\ ~r.changed
  BY <1>7, <1>8 DEF HandlersWith
<1>10. Set(t, End(r, "400")) \/ Set(t, r)
  BY <1>2 DEF second, first
<1> HIDE DEF r
<1>11. CASE Set(t, End(r, "400"))
  <2>1. PICK q : q = End(r, "400")
    OBVIOUS
  <2>2. q \in HandlersWith({m}) /\ q.pc = "done" /\ ~q.changed
    BY <1>3, <1>9, <2>1, EndFields
  <2>3. Set(t, q)
    BY <1>11, <2>1
  <2> QED BY <1>1, <2>2, <2>3, FreshRequest
<1>12. CASE Set(t, r)
  <2>1. Sound(r)
    BY <1>9 DEF Sound, PathOf
  <2> QED BY <1>1, <1>9, <1>12, <2>1, FreshRequest
<1> QED BY <1>10, <1>11, <1>12

-----------------------------------------------------------------------------
LEMMA InitHolds == Init => IndInv
<1> SUFFICES ASSUME Init PROVE IndInv
  OBVIOUS
<1> DEFINE n == Len(InitialMenu)
<1>1. /\ n \in Nat /\ DOMAIN InitialMenu = 1..n
      /\ \A i \in 1..n : InitialMenu[i].title \in Titles /\ InitialMenu[i].recipe \in Recipes
  <2> DEFINE R == [title : Titles, recipe : Recipes]
  <2>1. InitialMenu \in Seq(R)
    BY ApiAssumption
  <2>2. n \in Nat /\ DOMAIN InitialMenu = 1..n
    BY <2>1, LenProperties
  <2>3. \A i \in 1..n : InitialMenu[i] \in R
    BY <2>1, ElementOfSeq
  <2> QED BY <2>2, <2>3
<1>2. /\ DOMAIN menu = 1..n /\ births = n
      /\ \A i \in 1..n : menu[i] = [title |-> InitialMenu[i].title,
                                   recipe |-> InitialMenu[i].recipe, born |-> i]
  BY <1>1 DEF Init, TableOf
<1>3. \A i \in DOMAIN menu : menu[i] \in Drinks /\ menu[i].born = i
  BY <1>1, <1>2 DEF Drinks
<1>4. TableInv
  BY <1>1, <1>2, <1>3 DEF TableInv, TableTypeOK
<1>5. LogInv
  BY DEF Init, LogInv, DeletedMeansGone
<1>6. /\ h \in [Threads -> HandlersWith({NoPage})]
      /\ \A t \in Threads : h[t] = NoRequest
  BY NoRequestIsHandler DEF Init
<1>7. \A t \in Threads : h[t].pc = "done" /\ ~h[t].changed
  BY <1>6, NoRequestIsHandler
<1>8. HandlersInv /\ AloneInv
  BY <1>6, <1>7 DEF HandlersInv, AloneInv, ClientErrorsChangeNothing
<1> QED BY <1>4, <1>5, <1>8 DEF IndInv

LEMMA HandleStep ==
  ASSUME IndInv, NEW t \in Threads, Handle(t), UNCHANGED overlapped
  PROVE  IndInv'
BY CountStep, RowsStep, ShowStep, LoadStep, InsertStep, WriteStep, DeleteStep, ReloadStep,
   RecordStep, AnswerStep DEF Handle

LEMMA StutterStep == IndInv /\ UNCHANGED vars => IndInv'
BY DEF IndInv, TableInv, TableTypeOK, LogInv, DeletedMeansGone, HandlersInv, AloneInv, Sound,
       Removes, Exact, ClientErrorsChangeNothing, vars, table

LEMMA Invariance == Spec => []IndInv
<1>1. IndInv /\ [Next]_vars => IndInv'
  BY BeginStep, BeginListStep, CrashStep, HandleStep, StutterStep DEF Next
<1> QED BY <1>1, InitHolds, PTL DEF Spec

\* Only its own step or a crash moves a request that is under way.
LEMMA WhoMoves ==
  ASSUME IndInv, [Next]_vars, NEW t \in Threads, h[t].pc # "done", h'[t] # h[t]
  PROVE  Crash \/ Handle(t)
<1>1. ASSUME NEW u \in Threads, NEW q, u # t, Set(u, q) PROVE FALSE
  BY <1>1 DEF Set, IndInv, HandlersInv
<1>2. ASSUME NEW u \in Threads, u # t PROVE ~Begin(u) /\ ~BeginList(u)
  BY <1>1, <1>2 DEF Begin, BeginList
<1>3. ASSUME NEW u \in Threads, u # t PROVE ~Count(u) /\ ~Rows(u) /\ ~Show(u) /\ ~Load(u)
  BY <1>1, <1>3 DEF Count, Rows, Show, Load
<1>4. ASSUME NEW u \in Threads, u # t PROVE ~Insert(u) /\ ~Write(u) /\ ~Delete(u)
  BY <1>1, <1>4 DEF Insert, Write, Delete, WriteFails
<1>5. ASSUME NEW u \in Threads, u # t PROVE ~Reload(u) /\ ~Record(u) /\ ~Answer(u)
  BY <1>1, <1>5 DEF Reload, Record, Answer
<1>6. ~Begin(t) /\ ~BeginList(t) /\ ~UNCHANGED vars
  BY DEF Begin, BeginList, vars
<1> QED BY <1>2, <1>3, <1>4, <1>5, <1>6 DEF Next, Handle

-----------------------------------------------------------------------------
\* A drink the trail calls deleted is gone for good (remove_drink), whatever
\* id it had and whoever takes that id next.
THEOREM DeletedStaysGone == Spec => []DeletedMeansGone
<1>1. IndInv => DeletedMeansGone
  BY DEF IndInv, LogInv
<1> QED BY <1>1, Invariance, PTL

\* A 404, 409 or 422 of api.py is said by a request that has changed nothing.
THEOREM ErrorsAreHarmless == Spec => []ClientErrorsChangeNothing
<1>1. IndInv => ClientErrorsChangeNothing
  BY DEF IndInv, HandlersInv
<1> QED BY <1>1, Invariance, PTL

\* update_drink never touches a field that the body leaves out, nor another
\* drink, whatever other requests have written since it loaded the drink.
THEOREM AbsentFieldsStay == Spec => AbsentFieldsLeftAlone
<1> DEFINE Left(t) ==
       Leaves(t, "write") =>
          /\ DOMAIN menu' = DOMAIN menu
          /\ \A i \in DOMAIN menu :
                /\ menu'[i].title # menu[i].title => i = h[t].id /\ h[t].title # Absent
                /\ menu'[i].recipe # menu[i].recipe => i = h[t].id /\ h[t].recipe # Absent
<1>1. ASSUME IndInv, [Next]_vars, NEW t \in Threads, Leaves(t, "write") PROVE Left(t)
  <2>0. h[t].pc = "write" /\ h'[t] # h[t]
    BY <1>1 DEF Leaves
  <2>1. Crash \/ Write(t)
    <3>1. Crash \/ Handle(t)
      BY <1>1, <2>0, WhoMoves
    <3> QED BY <2>0, <3>1 DEF Handle, Count, Rows, Show, Load, Insert, Delete, Reload, Record,
                              Answer
  <2>2. CASE menu' = menu
    BY <2>2
  <2>3. ASSUME h[t].id \in DOMAIN menu, NEW a \in Titles, NEW b \in Recipes,
               UpdateRow(h[t].id, a, b),
               a = IF "title" \in Dirty(h[t]) THEN h[t].title ELSE menu[h[t].id].title,
               b = IF "recipe" \in Dirty(h[t]) THEN h[t].recipe ELSE menu[h[t].id].recipe
        PROVE  Left(t)
    <3>1. /\ DOMAIN menu' = DOMAIN menu
          /\ \A i \in DOMAIN menu : i # h[t].id => menu'[i] = menu[i]
          /\ menu'[h[t].id].title = a /\ menu'[h[t].id].recipe = b
      BY <1>1, <2>3, UpdateProperties DEF IndInv
    <3>2. /\ "title" \in Dirty(h[t]) => h[t].title # Absent
          /\ "recipe" \in Dirty(h[t]) => h[t].recipe # Absent
      BY DEF Dirty
    <3> QED BY <2>3, <3>1, <3>2
  <2>4. Crash \/ UNCHANGED table => menu' = menu
    BY DEF Crash, table
  <2> QED BY <1>1, <2>1, <2>2, <2>3, <2>4, WriteProperties
<1>2. IndInv /\ [Next]_vars => [\A t \in Threads : Left(t)]_vars
  BY <1>1
<1>3. [][\A t \in Threads : Left(t)]_vars => AbsentFieldsLeftAlone
  BY PTL DEF AbsentFieldsLeftAlone
<1> HIDE DEF Left
<1> QED BY <1>2, <1>3, Invariance, PTL DEF Spec

\* The answer of thread t's request describes the menu.
Truthful(t) ==
    /\ h'[t].answer = "200" /\ h[t].op = "delete" => h[t].id \notin DOMAIN menu'
    /\ h'[t].answer = "200" /\ h[t].op = "show" => menu' = menu /\ h[t].id \in DOMAIN menu
    /\ h'[t].answer = "200" /\ h[t].op \in {"create", "update"} =>
          /\ h[t].id \in DOMAIN menu'
          /\ h[t].title \in {Absent, menu'[h[t].id].title}
          /\ h[t].recipe \in {Absent, menu'[h[t].id].recipe}
    /\ h'[t].answer = "404" => h[t].id \notin DOMAIN menu'
    /\ h'[t].answer = "409" => ~TitleFree(h[t].title, h[t].id)

\* An answer that promises nothing.
LEMMA NothingSaid ==
  ASSUME NEW t \in Threads, h'[t].answer \notin {"200", "404", "409"}
  PROVE  Truthful(t)
BY DEF Truthful

\* What a handler that answers has said.
LEMMA SaidIs ==
  ASSUME IndInv, NEW t \in Threads, h[t].pc # "done", NEW a \in Answers, Set(t, End(h[t], a))
  PROVE  h'[t].answer = a
<1>1. PICK pages : h[t] \in HandlersWith(pages)
  BY OnItsWay
<1>2. PICK q : q = End(h[t], a)
  OBVIOUS
<1>3. q.answer = a
  BY <1>1, <1>2, EndFields
<1> QED BY <1>2, <1>3 DEF Set, IndInv, HandlersInv

\* A handler that goes on has not answered yet.
LEMMA NotYet ==
  ASSUME IndInv', NEW t \in Threads, h'[t].pc # "done"
  PROVE  Truthful(t)
<1>1. h'[t].answer = "none"
  BY DEF IndInv, HandlersInv, Sound
<1> QED BY <1>1, NothingSaid

\* A read, or a failure: only a 404 of show or load says something.
LEMMA ReadersTruthful ==
  ASSUME IndInv, IndInv', NEW t \in Threads, Count(t) \/ Rows(t) \/ Show(t) \/ Load(t)
  PROVE  Truthful(t)
<1> DEFINE r == h[t]
<1> SUFFICES ASSUME h'[t].pc = "done" PROVE Truthful(t)
  BY NotYet
<1>0. r.pc \in {"count", "rows", "show", "load"} /\ UNCHANGED table
  BY DEF Count, Rows, Show, Load
<1>1. PICK pages : r \in HandlersWith(pages)
  BY <1>0, OnItsWay
<1>2. /\ r.pc \in {"count", "rows"} => r.op = "list"
      /\ r.pc = "show" => r.op = "show"
  <2>1. Sound(r)
    BY <1>0, OnItsWay
  <2> QED BY <1>1, <2>1, FieldsTyped DEF Sound, PathOf
<1>3. {"200", "404", "422", "500"} \subseteq Answers
  BY DEF Answers
<1>4. menu' = menu
  BY <1>0 DEF table
<1>5. \A q : Set(t, q) => h'[t] = q
  BY DEF Set, IndInv, HandlersInv
<1>6. CASE Count(t)
  <2>1. ASSUME NEW total, NEW many,
               Set(t, [r EXCEPT !.pc = "rows", !.listing.total = total,
                                !.listing.totalPages = many])
        PROVE  FALSE
    <3>1. h'[t] = [r EXCEPT !.pc = "rows", !.listing.total = total, !.listing.totalPages = many]
      BY <1>5, <2>1
    <3>2. h'[t].pc = "rows"
      BY <1>1, <3>1 DEF HandlersWith
    <3> QED BY <3>2
  <2>2. Set(t, End(r, "500"))
    BY <1>6, <2>1 DEF Count
  <2> QED BY <1>0, <1>3, <2>2, SaidIs, NothingSaid
<1>7. CASE Rows(t)
  <2>1. CASE Set(t, End(r, "500"))
    BY <1>0, <1>3, <2>1, SaidIs, NothingSaid
  <2>2. ASSUME NEW shown, Set(t, End([r EXCEPT !.listing.shown = shown], "200"))
        PROVE  Truthful(t)
    <3>1. PICK l : l = [r.listing EXCEPT !.shown = shown]
      OBVIOUS
    <3>2. PICK q : q = [r EXCEPT !.listing.shown = shown]
      OBVIOUS
    <3>3. q = [r EXCEPT !.listing = l]
      BY <1>1, <3>1, <3>2 DEF HandlersWith
    <3>4. q \in HandlersWith({l})
      BY <1>1, <3>3 DEF HandlersWith
    <3>5. End(q, "200").answer = "200"
      BY <1>3, <3>4, EndFields
    <3>6. h'[t].answer = "200"
      BY <1>5, <2>2, <3>2, <3>5
    <3>7. r.op = "list"
      BY <1>2, <1>7 DEF Rows
    <3> QED BY <3>6, <3>7 DEF Truthful
  <2> QED BY <1>7, <2>1, <2>2 DEF Rows
<1>8. CASE Show(t)
  <2>1. PICK a \in {"200", "404", "500"} :
           /\ Set(t, End(r, a))
           /\ a = "200" => r.id \in DOMAIN menu
           /\ a = "404" => r.id \notin DOMAIN menu
    BY <1>8 DEF Show
  <2>2. h'[t].answer = a
    BY <1>0, <1>3, <2>1, SaidIs
  <2>3. r.op = "show"
    BY <1>2, <1>8 DEF Show
  <2> QED BY <1>4, <2>1, <2>2, <2>3 DEF Truthful
<1>9. CASE Load(t)
  <2>1. ASSUME NEW step \in {"write", "delete"}, NEW drink,
               Set(t, [r EXCEPT !.pc = step, !.seen = drink, !.before = drink])
        PROVE  FALSE
    <3>1. h'[t] = [r EXCEPT !.pc = step, !.seen = drink, !.before = drink]
      BY <1>5, <2>1
    <3>2. h'[t].pc = step
      BY <1>1, <3>1 DEF HandlersWith
    <3> QED BY <3>2
  <2>2. (IF r.op = "update" THEN "write" ELSE "delete") \in {"write", "delete"}
    OBVIOUS
  <2>3. PICK a \in {"404", "422", "500"} :
           /\ Set(t, End(r, a))
           /\ a = "404" => r.id \notin DOMAIN menu
    BY <1>9, <2>1, <2>2 DEF Load
  <2>4. h'[t].answer = a
    BY <1>0, <1>3, <2>3, SaidIs
  <2> QED BY <1>4, <2>3, <2>4 DEF Truthful
<1> QED BY <1>6, <1>7, <1>8, <1>9

\* A write that is refused: a 409 says that the title is in use.
LEMMA WritersTruthful ==
  ASSUME IndInv, IndInv', NEW t \in Threads, Insert(t) \/ Write(t) \/ Delete(t)
  PROVE  Truthful(t)
<1> DEFINE r == h[t]
<1> SUFFICES ASSUME h'[t].pc = "done" PROVE Truthful(t)
  BY NotYet
<1>0. r.pc \in {"insert", "write", "delete"}
  BY DEF Insert, Write, Delete
<1>1. PICK pages : r \in HandlersWith(pages)
  BY <1>0, OnItsWay
<1>2. Sound(r)
  BY <1>0, OnItsWay
<1>3. {"409", "422"} \subseteq Answers
  BY DEF Answers
<1>4. \A q : Set(t, q) => h'[t] = q
  BY DEF Set, IndInv, HandlersInv
<1>5. ASSUME NEW a \in {"409", "422"}, Set(t, End(r, a)), UNCHANGED table,
             a = "409" => ~TitleFree(r.title, r.id)
      PROVE  Truthful(t)
  <2>1. h'[t].answer = a
    BY <1>0, <1>3, <1>5, SaidIs
  <2> QED BY <1>5, <2>1 DEF Truthful
<1>6. CASE Insert(t)
  <2>1. ASSUME NEW id, Set(t, [r EXCEPT !.pc = "reload", !.id = id, !.changed = TRUE])
        PROVE  FALSE
    <3>1. h'[t].pc = "reload"
      BY <1>1, <1>4, <2>1 DEF HandlersWith
    <3> QED BY <3>1
  <2>2. r.id = 0
    BY <1>2, <1>6 DEF Insert, Sound
  <2> QED BY <1>5, <1>6, <2>1, <2>2 DEF Insert, WriteFails, Refuse
<1>7. CASE Write(t)
  <2>1. ASSUME Set(t, To(r, "reload")) PROVE FALSE
    <3>1. h'[t].pc = "reload"
      BY <1>1, <1>4, <2>1 DEF HandlersWith, To
    <3> QED BY <3>1
  <2>2. ASSUME Set(t, [r EXCEPT !.pc = "reload", !.changed = TRUE]) PROVE FALSE
    <3>1. h'[t].pc = "reload"
      BY <1>1, <1>4, <2>2 DEF HandlersWith
    <3> QED BY <3>1
  <2> QED BY <1>5, <1>7, <2>1, <2>2, WriteProperties
<1>8. CASE Delete(t)
  <2>1. ASSUME NEW c, Set(t, [r EXCEPT !.pc = "record", !.changed = c]) PROVE FALSE
    <3>1. h'[t].pc = "record"
      BY <1>1, <1>4, <2>1 DEF HandlersWith
    <3> QED BY <3>1
  <2> QED BY <1>5, <1>8, <2>1 DEF Delete, WriteFails, Refuse
<1> QED BY <1>6, <1>7, <1>8

\* A 200 after a write: alone, the menu is still as the request has left it.
LEMMA ReportersTruthful ==
  ASSUME IndInv, IndInv', ~overlapped, NEW t \in Threads,
         Reload(t) \/ Record(t) \/ Answer(t)
  PROVE  Truthful(t)
<1> DEFINE r == h[t]
<1> SUFFICES ASSUME h'[t].pc = "done" PROVE Truthful(t)
  BY NotYet
<1>0. r.pc \in {"reload", "record", "answer"} /\ UNCHANGED table
  BY DEF Reload, Record, Answer
<1>1. PICK pages : r \in HandlersWith(pages)
  BY <1>0, OnItsWay
<1>2. Sound(r) /\ Exact(r)
  <2>1. Sound(r)
    BY <1>0, OnItsWay
  <2>2. Exact(r)
    BY <1>0, OnItsWay
  <2> QED BY <2>1, <2>2
<1>3. {"200", "500"} \subseteq Answers /\ menu' = menu
  BY <1>0 DEF Answers, table
<1>4. \A q : Set(t, q) => h'[t] = q
  BY DEF Set, IndInv, HandlersInv
<1>5. CASE Set(t, End(r, "500"))
  BY <1>0, <1>3, <1>5, SaidIs, NothingSaid
<1>6. ASSUME h'[t].answer = "200", r.op \in {"create", "update", "delete"},
             r.op = "delete" => r.pc = "record"
      PROVE  Truthful(t)
  BY <1>0, <1>2, <1>3, <1>6 DEF Truthful, Exact
<1>7. CASE Reload(t)
  <2>1. ASSUME NEW drink, Set(t, [r EXCEPT !.pc = "record", !.seen = drink]) PROVE FALSE
    <3>1. h'[t].pc = "record"
      BY <1>1, <1>4, <2>1 DEF HandlersWith
    <3> QED BY <3>1
  <2> QED BY <1>5, <1>7, <2>1 DEF Reload, Vanished
<1>8. CASE Record(t)
  <2>1. PICK recorded : recorded = [r EXCEPT !.audited = TRUE]
    OBVIOUS
  <2>2. recorded \in HandlersWith(pages)
    BY <1>1, <2>1 DEF HandlersWith
  <2>3. PICK q \in {recorded, r} :
           Set(t, IF r.op = "delete" THEN End(q, "200") ELSE To(q, "answer"))
    BY <1>8, <2>1 DEF Record
  <2>4. q \in HandlersWith(pages) /\ r.pc = "record"
    BY <1>1, <1>8, <2>2 DEF Record
  <2>5. r.op = "delete"
    <3> SUFFICES ASSUME r.op # "delete" PROVE FALSE
      OBVIOUS
    <3>1. h'[t] = To(q, "answer")
      BY <1>4, <2>3
    <3>2. h'[t].pc = "answer"
      BY <2>4, <3>1 DEF HandlersWith, To
    <3> QED BY <3>2
  <2>6. End(q, "200").answer = "200"
    BY <1>3, <2>4, EndFields
  <2>7. h'[t].answer = "200"
    BY <1>4, <2>3, <2>5, <2>6
  <2> QED BY <1>6, <2>4, <2>5, <2>7
<1>9. CASE Answer(t)
  <2>1. CASE Set(t, End(r, "200"))
    <3>1. h'[t].answer = "200"
      BY <1>0, <1>3, <2>1, SaidIs
    <3>2. r.op \in {"create", "update"}
      BY <1>1, <1>2, <1>9, FieldsTyped DEF Sound, PathOf, Answer
    <3> QED BY <1>6, <3>1, <3>2
  <2> QED BY <1>5, <1>9, <2>1 DEF Answer, Vanished
<1> QED BY <1>7, <1>8, <1>9

\* As long as requests do not overlap, every answer of api.py describes the
\* menu at the moment it is given.
THEOREM AnswersAreRight == Spec => AnswersAreTrue
<1> DEFINE Described(t) ==
       LET r == h[t]
           drink == menu'[r.id]
       IN Leaves(t, r.pc) /\ ~overlapped =>
           CASE h'[t].answer = "200" /\ r.op = "delete" -> r.id \notin DOMAIN menu'
             [] h'[t].answer = "200" /\ r.op = "show" -> menu' = menu /\ r.id \in DOMAIN menu
             [] h'[t].answer = "200" /\ r.op \in {"create", "update"} ->
                   /\ r.id \in DOMAIN menu'
                   /\ r.title \in {Absent, drink.title}
                   /\ r.recipe \in {Absent, drink.recipe}
             [] h'[t].answer = "404" -> r.id \notin DOMAIN menu'
             [] h'[t].answer = "409" -> ~TitleFree(r.title, r.id)
             [] OTHER -> TRUE
<1>1. ASSUME NEW t \in Threads, Truthful(t) PROVE Described(t)
  BY <1>1 DEF Truthful
<1>2. ASSUME IndInv, IndInv', [Next]_vars, NEW t \in Threads, Leaves(t, h[t].pc), ~overlapped
      PROVE  Truthful(t)
  <2>1. h'[t] # h[t] /\ h'[t].pc # h[t].pc
    BY <1>2 DEF Leaves
  <2>2. CASE h'[t].pc # "done"
    BY <1>2, <2>2, NotYet
  <2>3. CASE h'[t].pc = "done"
    <3>1. h[t].pc # "done"
      BY <2>1, <2>3
    <3>2. CASE Crash
      <4>1. h'[t] = End(h[t], "lost") /\ "lost" \in Answers
        BY <3>1, <3>2 DEF Crash, Answers
      <4>2. PICK pages : h[t] \in HandlersWith(pages)
        BY <1>2, <3>1, OnItsWay
      <4>3. End(h[t], "lost").answer = "lost"
        BY <4>1, <4>2, EndFields
      <4> QED BY <4>1, <4>3, NothingSaid
    <3>3. CASE Handle(t)
      BY <1>2, <3>3, ReadersTruthful, WritersTruthful, ReportersTruthful DEF Handle
    <3> QED BY <1>2, <2>1, <3>1, <3>2, <3>3, WhoMoves
  <2> QED BY <2>2, <2>3
<1> HIDE DEF Truthful
<1>3. ASSUME IndInv, IndInv', [Next]_vars, NEW t \in Threads PROVE Described(t)
  BY <1>1, <1>2, <1>3
<1>4. IndInv /\ IndInv' /\ [Next]_vars => [\A t \in Threads : Described(t)]_vars
  BY <1>3
<1>5. [][\A t \in Threads : Described(t)]_vars => AnswersAreTrue
  BY PTL DEF AnswersAreTrue
<1> HIDE DEF Described
<1> QED BY <1>4, <1>5, Invariance, PTL DEF Spec

-----------------------------------------------------------------------------
\* The rows that come before row i.
Before(D, i) == {j \in D : j < i}

\* Fewer rows come before one that comes earlier.
LEMMA BeforeGrows ==
  ASSUME NEW D \in SUBSET Nat, IsFiniteSet(D), NEW i \in D, NEW j \in D, i < j
  PROVE  /\ Cardinality(Before(D, i)) \in Nat /\ Cardinality(Before(D, j)) \in Nat
         /\ Cardinality(Before(D, i)) < Cardinality(Before(D, j))
<1>1. /\ IsFiniteSet(Before(D, i)) /\ IsFiniteSet(Before(D, j))
      /\ Cardinality(Before(D, i)) \in Nat /\ Cardinality(Before(D, j)) \in Nat
  <2>1. Before(D, i) \in SUBSET D /\ Before(D, j) \in SUBSET D
    BY DEF Before
  <2>2. IsFiniteSet(Before(D, i)) /\ IsFiniteSet(Before(D, j))
    BY <2>1, FS_Subset
  <2> QED BY <2>2, FS_CardinalityType
<1>2. i \notin Before(D, i) /\ Before(D, i) \cup {i} \in SUBSET Before(D, j)
  <2>1. \A x \in D : x \in Nat
    OBVIOUS
  <2>2. i \in Nat /\ j \in Nat /\ ~(i < i)
    BY <2>1
  <2>3. \A x \in D : x < i => x < j
    BY <2>1, <2>2
  <2> QED BY <2>2, <2>3 DEF Before
<1>3. Cardinality(Before(D, i) \cup {i}) = Cardinality(Before(D, i)) + 1
  BY <1>1, <1>2, FS_AddElement
<1>4. Cardinality(Before(D, i) \cup {i}) <= Cardinality(Before(D, j))
  BY <1>1, <1>2, FS_Subset
<1> QED BY <1>1, <1>3, <1>4

\* Fewer rows come before a row than there are.
LEMMA BeforeBound ==
  ASSUME NEW D \in SUBSET Nat, IsFiniteSet(D), NEW i \in D
  PROVE  Cardinality(Before(D, i)) \in 0..(Cardinality(D) - 1)
<1>1. Before(D, i) \in SUBSET D /\ i \notin Before(D, i)
  BY DEF Before
<1>2. Cardinality(Before(D, i)) <= Cardinality(D) /\ IsFiniteSet(Before(D, i))
  BY <1>1, FS_Subset
<1>3. Cardinality(Before(D, i)) # Cardinality(D)
  BY <1>1, FS_Subset
<1>4. Cardinality(D) \in Nat /\ Cardinality(Before(D, i)) \in Nat
  BY <1>2, FS_CardinalityType
<1> QED BY <1>2, <1>3, <1>4

\* Any number of rows fewer than all is what comes before some row.
LEMMA EveryPlaceTaken ==
  ASSUME NEW D \in SUBSET Nat, IsFiniteSet(D), NEW k \in 0..(Cardinality(D) - 1)
  PROVE  \E i \in D : Cardinality(Before(D, i)) = k
<1> DEFINE n == Cardinality(D)
           f == [i \in D |-> Cardinality(Before(D, i))]
<1>1. n \in Nat
  BY FS_CardinalityType
<1>2. f \in [D -> 0..(n - 1)]
  BY BeforeBound
<1>3. ASSUME NEW i \in D, NEW j \in D, f[i] = f[j] PROVE i = j
  <2>1. i \in Nat /\ j \in Nat
    OBVIOUS
  <2>2. CASE i < j
    BY <1>3, <2>2, BeforeGrows
  <2>3. CASE j < i
    BY <1>3, <2>3, BeforeGrows
  <2> QED BY <2>1, <2>2, <2>3
<1>4. f \in Injection(D, 0..(n - 1))
  BY <1>2, <1>3, Fun_IsInj
<1>5. IsFiniteSet(0..(n - 1)) /\ Cardinality(0..(n - 1)) = n
  <2>1. 0 \in Int /\ n - 1 \in Int
    BY <1>1
  <2>2. IsFiniteSet(0..(n - 1)) /\ Cardinality(0..(n - 1)) = IF 0 > n - 1 THEN 0 ELSE n - 1 - 0 + 1
    BY <2>1, FS_Interval
  <2> QED BY <1>1, <2>2
<1>6. f \in Surjection(D, 0..(n - 1))
  BY <1>4, <1>5, FS_Injection
<1> HIDE DEF f, n
<1>7. \E i \in D : f[i] = k
  BY <1>6 DEF n, Surjection
<1> QED BY <1>7 DEF f

\* The rows in order: as many come before the k-th as there are places before.
LEMMA AscendingOrders ==
  ASSUME NEW D \in SUBSET Nat, IsFiniteSet(D)
  PROVE  /\ Ascending(D) \in [1..Cardinality(D) -> D]
         /\ \A m, n \in 1..Cardinality(D) : m < n => Ascending(D)[m] < Ascending(D)[n]
         /\ \A k \in 1..Cardinality(D) : Cardinality(Before(D, Ascending(D)[k])) = k - 1
         /\ \A i \in D : \E k \in 1..Cardinality(D) : Ascending(D)[k] = i
<1> DEFINE c == Cardinality(D)
           InOrder(q) == \A m, n \in DOMAIN q : m < n => q[m] < q[n]
           w == [k \in 1..c |-> CHOOSE i \in D : Cardinality(Before(D, i)) = k - 1]
           s == Ascending(D)
<1>0. c \in Nat
  BY FS_CardinalityType
<1>1. \A k \in 1..c : w[k] \in D /\ Cardinality(Before(D, w[k])) = k - 1
  <2> SUFFICES ASSUME NEW k \in 1..c PROVE w[k] \in D /\ Cardinality(Before(D, w[k])) = k - 1
    OBVIOUS
  <2>1. k - 1 \in 0..(Cardinality(D) - 1)
    BY <1>0
  <2>2. \E i \in D : Cardinality(Before(D, i)) = k - 1
    BY <2>1, EveryPlaceTaken
  <2> QED BY <2>2
<1>2. w \in [1..c -> D]
  BY <1>1
<1> HIDE DEF w
<1>3. InOrder(w)
  <2> SUFFICES ASSUME NEW m \in 1..c, NEW n \in 1..c, m < n PROVE w[m] < w[n]
    BY <1>2
  <2>1. w[m] \in D /\ w[n] \in D /\ w[m] \in Nat /\ w[n] \in Nat
    BY <1>1
  <2>2. Cardinality(Before(D, w[m])) = m - 1 /\ Cardinality(Before(D, w[n])) = n - 1
    BY <1>1
  <2>3. CASE w[m] = w[n]
    BY <1>0, <2>2, <2>3
  <2>4. CASE w[n] < w[m]
    <3>1. Cardinality(Before(D, w[n])) < Cardinality(Before(D, w[m]))
      BY <2>1, <2>4, BeforeGrows
    <3> QED BY <1>0, <2>2, <3>1
  <2> QED BY <2>1, <2>3, <2>4
<1>4. s \in [1..c -> D] /\ InOrder(s)
  <2>1. \E q \in [1..c -> D] : InOrder(q)
    BY <1>2, <1>3
  <2>2. s = CHOOSE q \in [1..c -> D] : InOrder(q)
    BY DEF Ascending
  <2> HIDE DEF s, InOrder, c
  <2> QED BY <2>1, <2>2
<1> HIDE DEF s
<1>5. \A m, n \in 1..c : m < n => s[m] < s[n]
  BY <1>4
<1>6. ASSUME NEW m \in 1..c, NEW n \in 1..c, s[m] = s[n] PROVE m = n
  <2>1. s[m] \in Nat /\ s[n] \in Nat /\ m \in Nat /\ n \in Nat
    <3>1. \A x \in D : x \in Nat
      OBVIOUS
    <3>2. s[m] \in D /\ s[n] \in D
      BY <1>4
    <3>3. s[m] \in Nat /\ s[n] \in Nat
      BY <3>1, <3>2
    <3> QED BY <1>0, <3>3
  <2> QED BY <1>5, <1>6, <2>1
<1>7. IsFiniteSet(1..c) /\ Cardinality(1..c) = c
  <2>1. Cardinality(1..c) = IF 1 > c THEN 0 ELSE c - 1 + 1
    BY <1>0, FS_Interval
  <2> QED BY <1>0, <2>1, FS_Interval
<1>8. \A i \in D : \E k \in 1..c : s[k] = i
  <2>1. s \in Injection(1..c, D)
    BY <1>4, <1>6, Fun_IsInj
  <2>2. s \in Surjection(1..c, D)
    BY <1>7, <2>1, FS_Injection
  <2> QED BY <2>2 DEF Surjection
<1>9. ASSUME NEW k \in 1..c PROVE Cardinality(Before(D, s[k])) = k - 1
  <2> DEFINE g == [m \in 1..(k - 1) |-> s[m]]
  <2>1. k \in Nat /\ k - 1 \in Nat /\ 1..(k - 1) \subseteq 1..c
    BY <1>0
  <2>2. g \in [1..(k - 1) -> Before(D, s[k])]
    <3>1. \A m \in 1..(k - 1) : m \in 1..c /\ m < k
      BY <1>0
    <3>2. \A m \in 1..(k - 1) : s[m] \in Before(D, s[k])
      BY <1>4, <1>5, <3>1 DEF Before
    <3> QED BY <3>2
  <2>3. \A m, n \in 1..(k - 1) : g[m] = g[n] => m = n
    BY <1>6, <2>1
  <2>4. \A i \in Before(D, s[k]) : \E m \in 1..(k - 1) : g[m] = i
    <3> SUFFICES ASSUME NEW i \in Before(D, s[k]) PROVE \E m \in 1..(k - 1) : g[m] = i
      OBVIOUS
    <3>1. i \in D /\ i < s[k] /\ i \in Nat /\ s[k] \in Nat
      BY <1>4 DEF Before
    <3>2. PICK m \in 1..c : s[m] = i
      BY <1>8, <3>1
    <3>3. m \in 1..(k - 1)
      <4>1. m # k
        BY <3>1, <3>2
      <4>2. ~(k < m)
        BY <1>5, <3>1, <3>2
      <4> QED BY <1>0, <4>1, <4>2
    <3> QED BY <3>2, <3>3
  <2>5. g \in Bijection(1..(k - 1), Before(D, s[k]))
    BY <2>2, <2>3, <2>4, Fun_IsBij
  <2>6. IsFiniteSet(1..(k - 1)) /\ Cardinality(1..(k - 1)) = k - 1
    <3>1. Cardinality(1..(k - 1)) = IF 1 > k - 1 THEN 0 ELSE k - 1 - 1 + 1
      BY <2>1, FS_Interval
    <3> QED BY <2>1, <3>1, FS_Interval
  <2> QED BY <2>5, <2>6, FS_Bijection DEF ExistsBijection
<1> QED BY <1>4, <1>5, <1>8, <1>9 DEF s

\* The smaller of two numbers.
LEMMA MinOfTwo ==
  ASSUME NEW a \in Int, NEW b \in Int
  PROVE  Min({a, b}) = IF a <= b THEN a ELSE b
<1> DEFINE least == IF a <= b THEN a ELSE b
<1>1. least \in {a, b} /\ \A y \in {a, b} : least <= y
  OBVIOUS
<1>2. \A x \in {a, b} : (\A y \in {a, b} : x <= y) => x = least
  OBVIOUS
<1>3. Min({a, b}) = CHOOSE x \in {a, b} : \A y \in {a, b} : x <= y
  BY DEF Min
<1> HIDE DEF least
<1>4. Min({a, b}) = least
  BY <1>1, <1>2, <1>3
<1> QED BY <1>4 DEF least

\* Which places a page has.
LEMMA PlacesOfPage ==
  ASSUME NEW page \in Nat \ {0}, NEW pp \in Nat \ {0}, NEW k \in Nat
  PROVE  1 + k \div pp = page <=> (page - 1) * pp <= k /\ k < (page - 1) * pp + pp
<1> DEFINE q == k \div pp
<1>1. q \in Nat /\ q * pp <= k /\ k < q * pp + pp
  OBVIOUS
<1>2. ASSUME NEW b \in Nat, b * pp <= k, k < b * pp + pp PROVE b = q
  BY <1>2
<1>3. page - 1 \in Nat
  OBVIOUS
<1> HIDE DEF q
<1>4. CASE 1 + q = page
  <2>1. page - 1 = q
    BY <1>1, <1>4
  <2> QED BY <1>1, <1>4, <2>1 DEF q
<1>5. CASE (page - 1) * pp <= k /\ k < (page - 1) * pp + pp
  <2>1. page - 1 = q
    BY <1>2, <1>3, <1>5
  <2>2. 1 + q = page
    BY <1>1, <2>1
  <2> QED BY <1>5, <2>2 DEF q
<1> QED BY <1>4, <1>5 DEF q

\* The rows of one page, as query.limit(per_page).offset((page - 1) * per_page)
\* cuts them out of the rows in order.
PageRows(D, page, pp) ==
    SubSeq(Ascending(D), (page - 1) * pp + 1, Min({(page - 1) * pp + pp, Len(Ascending(D))}))

\* A page has the rows that belong on it, each of them once.
LEMMA PageHasItsRows ==
  ASSUME NEW D \in SUBSET Nat, IsFiniteSet(D), NEW page \in Nat \ {0}, NEW pp \in Nat \ {0}
  PROVE  /\ PageRows(D, page, pp) \in Seq(D)
         /\ IsInjective(PageRows(D, page, pp))
         /\ ToSet(PageRows(D, page, pp)) =
               {i \in D : 1 + Cardinality(Before(D, i)) \div pp = page}
<1>0. PICK c \in Nat : c = Cardinality(D)
  BY FS_CardinalityType
<1>1. PICK s : s = Ascending(D)
  OBVIOUS
<1>2. /\ s \in [1..c -> D]
      /\ \A m, n \in 1..c : m < n => s[m] < s[n]
      /\ \A k \in 1..c : Cardinality(Before(D, s[k])) = k - 1
      /\ \A i \in D : \E k \in 1..c : s[k] = i
  BY <1>0, <1>1, AscendingOrders
<1>3. s \in Seq(D) /\ Len(s) = c
  BY <1>0, <1>2, LenProperties
<1>4. PICK o \in Nat : o = (page - 1) * pp
  OBVIOUS
<1>5. PICK last \in Nat : last = IF o + pp <= c THEN o + pp ELSE c
  OBVIOUS
<1>6. Min({o + pp, c}) = last
  BY <1>0, <1>4, <1>5, MinOfTwo
<1>7. PICK l \in Nat : l = IF o < last THEN last - o ELSE 0
  BY <1>4, <1>5
<1>8. PICK p : p = PageRows(D, page, pp)
  OBVIOUS
<1>9. p = SubSeq(s, o + 1, last)
  BY <1>1, <1>3, <1>4, <1>6, <1>8 DEF PageRows
<1>10. p = [k \in 1..l |-> s[k + o]]
  <2>1. p = [k \in 1..(1 + last - (o + 1)) |-> s[k + (o + 1) - 1]]
    BY <1>9
  <2>2. 1..(1 + last - (o + 1)) = 1..l
    BY <1>4, <1>5, <1>7
  <2>3. \A k \in 1..l : k + (o + 1) - 1 = k + o
    BY <1>4, <1>7
  <2> QED BY <2>1, <2>2, <2>3
<1>11. \A k \in 1..l : k + o \in 1..c
  BY <1>0, <1>4, <1>5, <1>7
<1>12. p \in [1..l -> D]
  BY <1>2, <1>10, <1>11
<1>13. p \in Seq(D) /\ DOMAIN p = 1..l
  BY <1>7, <1>12
<1>14. \A x \in D : x \in Nat
  OBVIOUS
<1>15. ASSUME NEW a \in 1..l, NEW b \in 1..l, p[a] = p[b] PROVE a = b
  <2>1. p[a] = s[a + o] /\ p[b] = s[b + o] /\ a + o \in 1..c /\ b + o \in 1..c
    BY <1>10, <1>11
  <2>2. s[a + o] \in D /\ s[b + o] \in D
    BY <1>2, <2>1
  <2>3. s[a + o] \in Nat /\ s[b + o] \in Nat
    BY <1>14, <2>2
  <2>4. PICK m \in 1..c, n \in 1..c : m = a + o /\ n = b + o
    BY <2>1
  <2>5. s[m] = s[n] /\ s[m] \in Nat /\ s[n] \in Nat
    BY <1>15, <2>1, <2>3, <2>4
  <2>6. ~(m < n) /\ ~(n < m)
    BY <1>2, <2>5
  <2> QED BY <1>0, <1>4, <1>7, <2>4, <2>6
<1>16. IsInjective(p)
  BY <1>13, <1>15 DEF IsInjective
<1>17. \A k \in 1..c : 1 + (k - 1) \div pp = page <=> o < k /\ k <= o + pp
  <2> SUFFICES ASSUME NEW k \in 1..c
               PROVE  1 + (k - 1) \div pp = page <=> o < k /\ k <= o + pp
    OBVIOUS
  <2>1. k - 1 \in Nat
    BY <1>0
  <2>2. 1 + (k - 1) \div pp = page <=> (page - 1) * pp <= k - 1 /\ k - 1 < (page - 1) * pp + pp
    BY <2>1, PlacesOfPage
  <2>3. o <= k - 1 <=> o < k
    BY <1>0, <1>4
  <2>4. k - 1 < o + pp <=> k <= o + pp
    BY <1>0, <1>4
  <2> QED BY <1>4, <2>2, <2>3, <2>4
<1>18. ToSet(p) = {p[k] : k \in 1..l}
  BY <1>13 DEF ToSet
<1>19. ASSUME NEW k \in 1..l
       PROVE  p[k] \in D /\ 1 + Cardinality(Before(D, p[k])) \div pp = page
  <2>1. p[k] = s[k + o] /\ k + o \in 1..c /\ p[k] \in D
    BY <1>2, <1>10, <1>11
  <2>2. Cardinality(Before(D, p[k])) = k + o - 1
    BY <1>2, <2>1
  <2>3. o < k + o /\ k + o <= o + pp
    BY <1>4, <1>5, <1>7
  <2> QED BY <1>17, <2>1, <2>2, <2>3
<1>20. ASSUME NEW i \in D, 1 + Cardinality(Before(D, i)) \div pp = page
       PROVE  \E k \in 1..l : p[k] = i
  <2>1. PICK k \in 1..c : s[k] = i
    BY <1>2
  <2>2. Cardinality(Before(D, i)) = k - 1
    BY <1>2, <2>1
  <2>3. o < k /\ k <= o + pp
    BY <1>17, <1>20, <2>2
  <2>4. k - o \in 1..l /\ k - o + o = k
    BY <1>0, <1>4, <1>5, <1>7, <2>3
  <2>5. p[k - o] = i
    BY <1>10, <2>1, <2>4
  <2> QED BY <2>4, <2>5
<1>21. ToSet(p) = {i \in D : 1 + Cardinality(Before(D, i)) \div pp = page}
  BY <1>18, <1>19, <1>20
<1> QED BY <1>8, <1>13, <1>16, <1>21

\* As many pages as PagesOf says, and none of them empty.
LEMMA PagesAreFilled ==
  ASSUME NEW D \in SUBSET Nat, IsFiniteSet(D), NEW pp \in Nat \ {0}
  PROVE  {1 + Cardinality(Before(D, i)) \div pp : i \in D} = 1..PagesOf(Cardinality(D), pp)
<1>0. PICK c \in Nat : c = Cardinality(D)
  BY FS_CardinalityType
<1>1. PICK many \in Nat : many = PagesOf(c, pp)
  <2>1. c + pp - 1 \in Nat
    BY <1>0
  <2>2. (c + pp - 1) \div pp \in Nat
    BY <2>1
  <2> QED BY <2>2 DEF PagesOf
<1>2. c <= many * pp /\ (many - 1) * pp < c
  <2>1. many * pp <= c + pp - 1 /\ c + pp - 1 < many * pp + pp
    BY <1>0, <1>1 DEF PagesOf
  <2>2. many * pp \in Nat /\ (many - 1) * pp = many * pp - pp
    BY <1>1
  <2> QED BY <1>0, <2>1, <2>2
<1>3. ASSUME NEW i \in D PROVE 1 + Cardinality(Before(D, i)) \div pp \in 1..many
  <2>1. PICK k \in 0..(c - 1) : k = Cardinality(Before(D, i))
    BY <1>0, BeforeBound
  <2>2. PICK q \in Nat : q = k \div pp
    BY <1>0
  <2>3. q * pp <= k
    BY <1>0, <2>2
  <2>4. q < many
    <3> SUFFICES ASSUME many <= q PROVE FALSE
      BY <1>1, <2>2
    <3>1. many * pp <= q * pp
      BY <1>1, <2>2
    <3>2. many * pp \in Nat /\ q * pp \in Nat
      BY <1>1, <2>2
    <3> QED BY <1>0, <1>2, <2>1, <2>3, <3>1, <3>2
  <2> QED BY <1>1, <2>1, <2>2, <2>4
<1>4. ASSUME NEW p \in 1..many PROVE \E i \in D : 1 + Cardinality(Before(D, i)) \div pp = p
  <2>1. PICK k \in Nat : k = (p - 1) * pp
    OBVIOUS
  <2>2. k <= (many - 1) * pp
    BY <1>1, <2>1
  <2>3. k \in 0..(Cardinality(D) - 1)
    <3>1. (many - 1) * pp \in Int
      BY <1>1
    <3> QED BY <1>0, <1>2, <2>1, <2>2, <3>1
  <2>4. PICK i \in D : Cardinality(Before(D, i)) = k
    BY <2>3, EveryPlaceTaken
  <2>5. 1 + k \div pp = p
    BY <1>1, <2>1, PlacesOfPage
  <2> QED BY <2>4, <2>5
<1> QED BY <1>0, <1>1, <1>3, <1>4

-----------------------------------------------------------------------------
Listings == [page : Int, perPage : Int, shown : Seq(Nat), total : Nat, totalPages : Nat]

\* A page that _ordered_drinks does not refuse.
InRange(l) == l.page \in Nat \ {0} /\ l.perPage \in 1..100

\* What query.count() has found, of rows with the given ids.
Counts(l, ids) == l.total = Cardinality(ids) /\ l.totalPages = PagesOf(l.total, l.perPage)

\* A listing on its way asks for a page that may be; alone, it has counted right.
ListInv ==
    /\ h \in [Threads -> Handlers]
    /\ \A t \in Threads : h[t].pc \in {"count", "rows"} => InRange(h[t].listing)
    /\ ~overlapped => \A t \in Threads :
          h[t].pc = "rows" => Counts(h[t].listing, DOMAIN menu)

\* The next state of a handler keeps ListInv.
Fits(q) ==
    /\ q \in Handlers
    /\ q.pc \in {"count", "rows"} => InRange(q.listing)
    /\ ~overlapped /\ q.pc = "rows" => Counts(q.listing, DOMAIN menu')

LEMMA HandlersTyped == Handlers = HandlersWith(Listings)
BY DEF Handlers, HandlersWith, Listings

\* The ids in use are finitely many.
LEMMA IdsFinite ==
  ASSUME IndInv
  PROVE  DOMAIN menu \in SUBSET Nat /\ IsFiniteSet(DOMAIN menu) /\ Cardinality(DOMAIN menu) \in Nat
<1>1. births \in Nat /\ DOMAIN menu \in SUBSET (1..births)
  BY DEF IndInv, TableInv, TableTypeOK
<1>2. IsFiniteSet(1..births)
  BY <1>1, FS_Interval
<1>3. IsFiniteSet(DOMAIN menu)
  BY <1>1, <1>2, FS_Subset
<1>4. Cardinality(DOMAIN menu) \in Nat
  BY <1>3, FS_CardinalityType
<1> QED BY <1>1, <1>3, <1>4

\* A handler that does not list fits.
LEMMA OthersFit ==
  ASSUME NEW q \in Handlers, q.pc \notin {"count", "rows"}
  PROVE  Fits(q)
BY DEF Fits

\* An answer fits.
LEMMA EndFits ==
  ASSUME NEW r \in Handlers, NEW a \in Answers
  PROVE  Fits(End(r, a))
<1>1. PICK q : q = End(r, a)
  OBVIOUS
<1>2. q \in Handlers /\ q.pc = "done"
  BY <1>1, EndFields, HandlersTyped
<1> QED BY <1>1, <1>2, OthersFit

\* The step of one handler leaves the other listings as they are.
LEMMA ListingsStay ==
  ASSUME IndInv, ListInv, UNCHANGED overlapped, NEW t \in Threads, h[t].pc # "done",
         NEW q, Fits(q), Set(t, q)
  PROVE  ListInv'
<1>1. h'[t] = q /\ \A u \in Threads : u # t => h'[u] = h[u]
  BY DEF Set, ListInv
<1>2. q \in Handlers
  BY DEF Fits
<1>3. h' \in [Threads -> Handlers]
  <2> HIDE DEF Handlers
  <2> QED BY <1>2 DEF Set, ListInv
<1>4. \A u \in Threads : h'[u].pc \in {"count", "rows"} => InRange(h'[u].listing)
  BY <1>1 DEF ListInv, Fits
<1>5. ASSUME ~overlapped, NEW u \in Threads, h'[u].pc = "rows"
      PROVE  Counts(h'[u].listing, DOMAIN menu')
  <2>1. u = t
    <3> SUFFICES ASSUME u # t PROVE FALSE
      OBVIOUS
    <3>1. h[u].pc = "rows"
      BY <1>1, <1>5
    <3> QED BY <1>5, <3>1 DEF IndInv, AloneInv
  <2> QED BY <1>1, <1>5, <2>1 DEF Fits
<1> QED BY <1>3, <1>4, <1>5 DEF ListInv

\* query.count()
LEMMA CountFits ==
  ASSUME IndInv, ListInv, NEW t \in Threads, Count(t)
  PROVE  \E q : Fits(q) /\ Set(t, q)
<1>1. PICK r \in Handlers : r = h[t]
  BY DEF ListInv
<1>2. r.pc = "count" /\ UNCHANGED table
  BY <1>1 DEF Count
<1>3. CASE Set(t, End(r, "500"))
  <2>1. "500" \in Answers
    BY DEF Answers
  <2> QED BY <1>3, <2>1, EndFits
<1>4. PICK c \in Nat : c = Cardinality(DOMAIN menu)
  BY IdsFinite
<1>5. InRange(r.listing) /\ r.listing \in Listings
  BY <1>1, <1>2 DEF ListInv, Handlers, Listings
<1>6. PICK many \in Nat : many = PagesOf(c, r.listing.perPage)
  <2>1. PICK pp \in Nat \ {0} : pp = r.listing.perPage
    BY <1>5 DEF InRange
  <2>2. (c + pp - 1) \div pp \in Nat
    BY <2>1
  <2> QED BY <2>1, <2>2 DEF PagesOf
<1>7. ASSUME Set(t, [r EXCEPT !.pc = "rows", !.listing.total = c, !.listing.totalPages = many])
      PROVE  \E q : Fits(q) /\ Set(t, q)
  <2>1. PICK l : l = [[r.listing EXCEPT !.total = c] EXCEPT !.totalPages = many]
    OBVIOUS
  <2>2. /\ l \in Listings /\ l.page = r.listing.page /\ l.perPage = r.listing.perPage
        /\ l.total = c /\ l.totalPages = many
    BY <1>5, <2>1 DEF Listings
  <2>3. PICK q : q = [r EXCEPT !.pc = "rows", !.listing.total = c, !.listing.totalPages = many]
    OBVIOUS
  <2>4. q = [[r EXCEPT !.pc = "rows"] EXCEPT !.listing = l]
    BY <2>1, <2>3 DEF Handlers
  <2>5. q \in HandlersWith(Listings) /\ q.pc = "rows" /\ q.listing = l
    <3>1. r \in HandlersWith(Listings) /\ "rows" \in Steps
      BY HandlersTyped DEF Steps
    <3> HIDE DEF Listings, Steps, Answers, Drinks, NoDrink
    <3> QED BY <2>2, <2>4, <3>1 DEF HandlersWith
  <2>6. Fits(q)
    BY <1>2, <1>4, <1>5, <1>6, <2>2, <2>5, HandlersTyped DEF Fits, InRange, Counts, table
  <2> QED BY <1>7, <2>3, <2>6
<1> QED BY <1>1, <1>3, <1>4, <1>6, <1>7 DEF Count

\* What Rows shows.
LEMMA RowsShown ==
  ASSUME NEW t \in Threads, Rows(t)
  PROVE  \/ Set(t, End(h[t], "500"))
         \/ Set(t, End([h[t] EXCEPT !.listing.shown =
                           PageRows(DOMAIN menu, h[t].listing.page, h[t].listing.perPage)], "200"))
BY DEF Rows, PageRows

\* A listing with the rows of its page.
LEMMA ShownFits ==
  ASSUME NEW r \in Handlers, NEW shown \in Seq(Nat)
  PROVE  /\ [r EXCEPT !.listing.shown = shown] \in Handlers
         /\ [r EXCEPT !.listing.shown = shown].listing = [r.listing EXCEPT !.shown = shown]
<1>1. r \in HandlersWith(Listings) /\ r.listing \in Listings
  BY HandlersTyped DEF HandlersWith
<1>2. PICK l \in Listings : l = [r.listing EXCEPT !.shown = shown]
  BY <1>1 DEF Listings
<1>3. PICK q : q = [r EXCEPT !.listing.shown = shown]
  OBVIOUS
<1>4. q = [r EXCEPT !.listing = l]
  BY <1>2, <1>3 DEF Handlers
<1>5. q \in HandlersWith(Listings) /\ q.listing = l
  <2> HIDE DEF Listings, Steps, Answers, Drinks, NoDrink
  <2> QED BY <1>1, <1>4 DEF HandlersWith
<1> QED BY <1>2, <1>3, <1>5, HandlersTyped

\* query.limit(per_page).offset((page - 1) * per_page)
LEMMA RowsFits ==
  ASSUME IndInv, ListInv, NEW t \in Threads, Rows(t)
  PROVE  \E q : Fits(q) /\ Set(t, q)
<1>1. PICK r \in Handlers : r = h[t]
  BY DEF ListInv
<1>2. "500" \in Answers /\ "200" \in Answers
  BY DEF Answers
<1>3. CASE Set(t, End(r, "500"))
  BY <1>2, <1>3, EndFits
<1>4. InRange(r.listing)
  BY <1>1 DEF ListInv, Rows
<1>5. PICK shown \in Seq(Nat) : shown = PageRows(DOMAIN menu, r.listing.page, r.listing.perPage)
  <2>1. PICK D \in SUBSET Nat : D = DOMAIN menu /\ IsFiniteSet(D)
    BY IdsFinite
  <2>2. PICK s : s = PageRows(D, r.listing.page, r.listing.perPage)
    OBVIOUS
  <2>3. s \in Seq(D)
    <3>1. r.listing.page \in Nat \ {0} /\ r.listing.perPage \in Nat \ {0}
      BY <1>4 DEF InRange
    <3> QED BY <2>1, <2>2, <3>1, PageHasItsRows
  <2>4. s \in Seq(Nat)
    BY <2>1, <2>3
  <2> QED BY <2>1, <2>2, <2>4
<1>6. CASE Set(t, End([r EXCEPT !.listing.shown = shown], "200"))
  BY <1>2, <1>6, ShownFits, EndFits
<1> QED BY <1>1, <1>3, <1>5, <1>6, RowsShown

\* A handler for one drink at its next step.
Onward(r, step, id, changed, seen, before) ==
    [r EXCEPT !.pc = step, !.id = id, !.changed = changed, !.seen = seen, !.before = before]

\* A handler for one drink goes on.
LEMMA DrinkFits ==
  ASSUME IndInv, ListInv, NEW t \in Threads,
         Show(t) \/ Load(t) \/ Insert(t) \/ Write(t) \/ Delete(t) \/ Reload(t)
  PROVE  \E q : Fits(q) /\ Set(t, q)
<1>1. PICK r \in Handlers : r = h[t]
  BY DEF ListInv
<1>2. {"200", "404", "409", "422", "500"} \subseteq Answers
  BY DEF Answers
<1>3. ASSUME NEW a \in {"200", "404", "409", "422", "500"}, Set(t, End(r, a))
      PROVE  \E q : Fits(q) /\ Set(t, q)
  BY <1>2, <1>3, EndFits
<1>4. ASSUME NEW step \in Steps \ {"count", "rows"}, NEW id \in Nat, NEW changed \in BOOLEAN,
             NEW seen \in Drinks \cup {NoDrink}, NEW before \in Drinks \cup {NoDrink},
             Set(t, Onward(r, step, id, changed, seen, before))
      PROVE  \E q : Fits(q) /\ Set(t, q)
  <2>1. PICK q : q = Onward(r, step, id, changed, seen, before)
    OBVIOUS
  <2>2. q \in HandlersWith(Listings) /\ q.pc = step
    <3>1. r \in HandlersWith(Listings)
      BY HandlersTyped
    <3> HIDE DEF Listings, Steps, Answers, Drinks, NoDrink
    <3> QED BY <1>4, <2>1, <3>1 DEF HandlersWith, Onward
  <2> QED BY <1>4, <2>1, <2>2, HandlersTyped, OthersFit
<1>5. /\ r.id \in Nat /\ r.changed \in BOOLEAN
      /\ r.seen \in Drinks \cup {NoDrink} /\ r.before \in Drinks \cup {NoDrink}
  BY DEF Handlers
<1>6. {"write", "delete", "reload", "record"} \subseteq Steps \ {"count", "rows"}
  BY DEF Steps
<1>7. CASE Show(t)
  BY <1>1, <1>3, <1>7 DEF Show
<1>8. CASE Load(t)
  <2>1. \/ \E a \in {"404", "422", "500"} : Set(t, End(r, a))
        \/ /\ r.id \in DOMAIN menu
           /\ \E step \in {"write", "delete"} :
                 Set(t, [r EXCEPT !.pc = step, !.seen = menu[r.id], !.before = menu[r.id]])
    <3>1. (IF r.op = "update" THEN "write" ELSE "delete") \in {"write", "delete"}
      OBVIOUS
    <3> QED BY <1>1, <1>8, <3>1 DEF Load
  <2>2. ASSUME r.id \in DOMAIN menu, NEW step \in {"write", "delete"},
               Set(t, [r EXCEPT !.pc = step, !.seen = menu[r.id], !.before = menu[r.id]])
        PROVE  \E q : Fits(q) /\ Set(t, q)
    <3>1. PICK drink \in Drinks : drink = menu[r.id]
      BY <2>2 DEF IndInv, TableInv, TableTypeOK
    <3>2. Onward(r, step, r.id, r.changed, drink, drink)
             = [r EXCEPT !.pc = step, !.seen = drink, !.before = drink]
      BY DEF Handlers, Onward
    <3> QED BY <1>4, <1>5, <1>6, <2>2, <3>1, <3>2
  <2> QED BY <1>3, <2>1, <2>2
<1>9. CASE Insert(t)
  <2>1. ASSUME Set(t, [r EXCEPT !.pc = "reload", !.id = NextId, !.changed = TRUE])
        PROVE  \E q : Fits(q) /\ Set(t, q)
    <3>1. PICK id \in Nat : id = NextId
      BY NextIdIsNew DEF IndInv, TableInv, TableTypeOK
    <3>2. Onward(r, "reload", id, TRUE, r.seen, r.before)
             = [r EXCEPT !.pc = "reload", !.id = id, !.changed = TRUE]
      BY DEF Handlers, Onward
    <3>3. Set(t, Onward(r, "reload", id, TRUE, r.seen, r.before))
      BY <2>1, <3>1, <3>2
    <3> QED BY <1>4, <1>5, <1>6, <3>3
  <2> QED BY <1>1, <1>3, <1>9, <2>1 DEF Insert, WriteFails, Refuse
<1>10. CASE Write(t)
  <2>1. ASSUME NEW c \in BOOLEAN, Set(t, [r EXCEPT !.pc = "reload", !.changed = c])
        PROVE  \E q : Fits(q) /\ Set(t, q)
    <3>1. Onward(r, "reload", r.id, c, r.seen, r.before)
             = [r EXCEPT !.pc = "reload", !.changed = c]
      BY DEF Handlers, Onward
    <3> QED BY <1>4, <1>5, <1>6, <2>1, <3>1
  <2>2. To(r, "reload") = [r EXCEPT !.pc = "reload", !.changed = r.changed]
    BY DEF Handlers, To
  <2> QED BY <1>1, <1>3, <1>5, <1>10, <2>1, <2>2 DEF Write, WriteFails, Refuse
<1>11. CASE Delete(t)
  <2>1. ASSUME NEW c \in BOOLEAN, Set(t, [r EXCEPT !.pc = "record", !.changed = c])
        PROVE  \E q : Fits(q) /\ Set(t, q)
    <3>1. Onward(r, "record", r.id, c, r.seen, r.before)
             = [r EXCEPT !.pc = "record", !.changed = c]
      BY DEF Handlers, Onward
    <3> QED BY <1>4, <1>5, <1>6, <2>1, <3>1
  <2>2. (r.id \in DOMAIN menu) \in BOOLEAN
    OBVIOUS
  <2> QED BY <1>1, <1>3, <1>11, <2>1, <2>2 DEF Delete, WriteFails, Refuse
<1>12. CASE Reload(t)
  <2>1. ASSUME r.id \in DOMAIN menu, Set(t, [r EXCEPT !.pc = "record", !.seen = menu[r.id]])
        PROVE  \E q : Fits(q) /\ Set(t, q)
    <3>1. PICK drink \in Drinks : drink = menu[r.id]
      BY <2>1 DEF IndInv, TableInv, TableTypeOK
    <3>2. Onward(r, "record", r.id, r.changed, drink, r.before)
             = [r EXCEPT !.pc = "record", !.seen = drink]
      BY DEF Handlers, Onward
    <3> QED BY <1>4, <1>5, <1>6, <2>1, <3>1, <3>2
  <2> QED BY <1>1, <1>3, <1>12, <2>1 DEF Reload, Vanished
<1> QED BY <1>7, <1>8, <1>9, <1>10, <1>11, <1>12

\* audit.record and the answer.
LEMMA ReportFits ==
  ASSUME IndInv, ListInv, NEW t \in Threads, Record(t) \/ Answer(t)
  PROVE  \E q : Fits(q) /\ Set(t, q)
<1>1. PICK r \in Handlers : r = h[t]
  BY DEF ListInv
<1>2. {"200", "500"} \subseteq Answers /\ "answer" \in Steps
  BY DEF Answers, Steps
<1>3. ASSUME NEW p \in Handlers, NEW a \in {"200", "500"}, Set(t, End(p, a))
      PROVE  \E q : Fits(q) /\ Set(t, q)
  BY <1>2, <1>3, EndFits
<1>4. ASSUME NEW p \in Handlers, Set(t, To(p, "answer"))
      PROVE  \E q : Fits(q) /\ Set(t, q)
  <2>1. PICK q : q = To(p, "answer")
    OBVIOUS
  <2>2. q \in HandlersWith(Listings) /\ q.pc = "answer"
    <3>1. p \in HandlersWith(Listings)
      BY HandlersTyped
    <3> HIDE DEF Listings, Steps, Answers, Drinks, NoDrink
    <3> QED BY <1>2, <2>1, <3>1 DEF HandlersWith, To
  <2> QED BY <1>4, <2>1, <2>2, HandlersTyped, OthersFit
<1>5. CASE Record(t)
  <2>1. PICK recorded : recorded = [r EXCEPT !.audited = TRUE]
    OBVIOUS
  <2>2. recorded \in Handlers
    <3>1. r \in HandlersWith(Listings)
      BY HandlersTyped
    <3>2. recorded \in HandlersWith(Listings)
      <4> HIDE DEF Listings, Steps, Answers, Drinks, NoDrink
      <4> QED BY <2>1, <3>1 DEF HandlersWith
    <3> QED BY <3>2, HandlersTyped
  <2>3. PICK p \in {recorded, r} :
           Set(t, IF r.op = "delete" THEN End(p, "200") ELSE To(p, "answer"))
    BY <1>1, <1>5, <2>1 DEF Record
  <2>4. p \in Handlers
    BY <2>2
  <2>5. CASE r.op = "delete"
    BY <1>3, <2>3, <2>4, <2>5
  <2>6. CASE r.op # "delete"
    BY <1>4, <2>3, <2>4, <2>6
  <2> QED BY <2>5, <2>6
<1>6. CASE Answer(t)
  BY <1>1, <1>3, <1>6 DEF Answer, Vanished
<1> QED BY <1>5, <1>6

\* The process dies: no listing is on its way any more.
LEMMA CrashListings ==
  ASSUME IndInv, ListInv, Crash
  PROVE  ListInv'
<1>1. h' = [t \in Threads |-> IF h[t].pc = "done" THEN h[t] ELSE End(h[t], "lost")]
  BY DEF Crash
<1>2. ASSUME NEW t \in Threads PROVE h'[t] \in Handlers /\ h'[t].pc = "done"
  <2>1. "lost" \in Answers
    BY DEF Answers
  <2>2. PICK r \in Handlers : r = h[t]
    BY DEF ListInv
  <2>3. PICK q : q = End(r, "lost")
    OBVIOUS
  <2>4. q \in HandlersWith(Listings) /\ q.pc = "done"
    BY <2>1, <2>3, HandlersTyped, EndFields
  <2>5. q \in Handlers
    BY <2>4, HandlersTyped
  <2> QED BY <1>1, <2>2, <2>3, <2>4, <2>5
<1>3. h' \in [Threads -> Handlers]
  <2> HIDE DEF Handlers
  <2> QED BY <1>1, <1>2
<1> QED BY <1>2, <1>3 DEF ListInv

\* A new request: alone, it is no listing that has counted.
LEMMA FreshListing ==
  ASSUME ListInv, NEW t \in Threads,
         overlapped' = (overlapped \/ \E other \in Threads : h[other].pc # "done"),
         NEW q \in Handlers, Set(t, q), q.pc # "rows",
         q.pc = "count" => InRange(q.listing)
  PROVE  ListInv'
<1>1. h'[t] = q /\ \A u \in Threads : u # t => h'[u] = h[u]
  BY DEF Set, ListInv
<1>2. h' \in [Threads -> Handlers]
  <2> HIDE DEF Handlers
  <2> QED BY DEF Set, ListInv
<1>3. \A u \in Threads : h'[u].pc \in {"count", "rows"} => InRange(h'[u].listing)
  BY <1>1 DEF ListInv
<1>4. ASSUME ~overlapped' PROVE \A u \in Threads : h'[u].pc # "rows"
  BY <1>1, <1>4
<1> QED BY <1>2, <1>3, <1>4 DEF ListInv

\* A request for one drink is no listing.
LEMMA BeginListings ==
  ASSUME ListInv, NEW t \in Threads, Begin(t)
  PROVE  ListInv'
<1>1. overlapped' = (overlapped \/ \E other \in Threads : h[other].pc # "done")
  BY DEF Begin
<1>2. PICK op \in Operations \ {"list"}, id \in RequestIds,
           title \in Titles \cup {Absent}, recipe \in Recipes \cup {Absent, Invalid} :
         Set(t, [NoRequest EXCEPT
                      !.pc = FirstStep(op), !.op = op,
                      !.id = IF op = "create" THEN 0 ELSE id,
                      !.title = title, !.recipe = recipe])
  BY DEF Begin
<1>3. op \in {"show", "create", "update", "delete"} /\ id \in Nat
  BY ApiAssumption
<1>4. PICK step \in Steps \ {"count", "rows"} : step = FirstStep(op)
  <2>1. FirstStep(op) = IF op = "create" THEN "insert" ELSE IF op = "show" THEN "show" ELSE "load"
    BY <1>3 DEF FirstStep
  <2> QED BY <2>1 DEF Steps
<1>5. PICK own \in Nat : own = IF op = "create" THEN 0 ELSE id
  BY <1>3
<1>6. PICK q : q = [NoRequest EXCEPT !.pc = step, !.op = op, !.id = own, !.title = title,
                                     !.recipe = recipe]
  OBVIOUS
<1>7. NoRequest \in HandlersWith({NoPage})
  BY NoRequestIsHandler
<1>8. q \in HandlersWith({NoPage}) /\ q.pc = step
  <2> HIDE DEF NoRequest, NoPage, Steps, Answers, Drinks, NoDrink, Absent, Invalid
  <2> QED BY <1>3, <1>6, <1>7 DEF HandlersWith
<1>9. NoPage \in Listings
  BY DEF NoPage, Listings
<1>10. q \in Handlers
  BY <1>8, <1>9, Wider, HandlersTyped
<1>11. Set(t, q)
  BY <1>2, <1>4, <1>5, <1>6
<1> QED BY <1>1, <1>8, <1>10, <1>11, FreshListing

\* A listing begins with a page in range, or is refused.
LEMMA BeginListListings ==
  ASSUME ListInv, NEW t \in Threads, BeginList(t)
  PROVE  ListInv'
<1>1. overlapped' = (overlapped \/ \E other \in Threads : h[other].pc # "done")
  BY DEF BeginList
<1>2. PICK p \in PageRequests :
         LET r == [NoRequest EXCEPT !.pc = "count", !.op = "list",
                                    !.listing.page = p[1], !.listing.perPage = p[2]]
         IN Set(t, IF p[1] < 1 \/ p[2] \notin 1..100 THEN End(r, "400") ELSE r)
  BY DEF BeginList
<1>3. PICK page \in Int, pp \in Int : p = <<page, pp>>
  BY ApiAssumption
<1>4. PICK r : r = [NoRequest EXCEPT !.pc = "count", !.op = "list",
                                     !.listing.page = page, !.listing.perPage = pp]
  OBVIOUS
<1>5. Set(t, IF page < 1 \/ pp \notin 1..100 THEN End(r, "400") ELSE r)
  BY <1>2, <1>3, <1>4
<1>6. PICK l : l = [[NoPage EXCEPT !.page = page] EXCEPT !.perPage = pp]
  OBVIOUS
<1>7. l \in Listings /\ l.page = page /\ l.perPage = pp
  <2>1. NoPage \in Listings
    BY DEF NoPage, Listings
  <2> HIDE DEF NoPage
  <2> QED BY <1>6, <2>1 DEF Listings
<1>8. /\ NoRequest \in HandlersWith({NoPage}) /\ NoRequest.listing = NoPage
      /\ "count" \in Steps /\ "400" \in Answers
  BY NoRequestIsHandler DEF NoRequest, Steps, Answers
<1>9. r \in HandlersWith(Listings) /\ r.pc = "count" /\ r.listing = l
  <2> HIDE DEF NoRequest, NoPage, Listings, Steps, Answers, Drinks, NoDrink, Absent, Invalid
  <2>1. r = [NoRequest EXCEPT !.pc = "count", !.op = "list", !.listing = l]
    BY <1>4, <1>6, <1>8 DEF HandlersWith
  <2> QED BY <1>7, <1>8, <2>1 DEF HandlersWith
<1>10. CASE page < 1 \/ pp \notin 1..100
  <2>1. PICK q : q = End(r, "400")
    OBVIOUS
  <2>2. q \in HandlersWith(Listings) /\ q.pc = "done"
    BY <1>8, <1>9, <2>1, EndFields
  <2>3. Set(t, q)
    BY <1>5, <1>10, <2>1
  <2> QED BY <1>1, <2>2, <2>3, HandlersTyped, FreshListing
<1>11. CASE ~(page < 1 \/ pp \notin 1..100)
  <2>1. InRange(r.listing)
    BY <1>7, <1>9, <1>11 DEF InRange
  <2>2. Set(t, r)
    BY <1>5, <1>11
  <2> QED BY <1>1, <1>9, <2>1, <2>2, HandlersTyped, FreshListing
<1> QED BY <1>10, <1>11

LEMMA ListingsHold == Spec => []ListInv
<1>1. Init => ListInv
  <2> SUFFICES ASSUME Init PROVE ListInv
    OBVIOUS
  <2>1. NoRequest \in HandlersWith({NoPage}) /\ NoRequest.pc = "done" /\ NoPage \in Listings
    BY NoRequestIsHandler DEF NoPage, Listings
  <2>2. NoRequest \in Handlers
    BY <2>1, Wider, HandlersTyped
  <2> HIDE DEF Handlers, NoRequest
  <2>3. h \in [Threads -> Handlers] /\ \A t \in Threads : h[t].pc = "done"
    BY <2>1, <2>2 DEF Init
  <2> QED BY <2>3 DEF ListInv
<1>2. ASSUME IndInv, ListInv, UNCHANGED overlapped, NEW t \in Threads, Handle(t) PROVE ListInv'
  <2>1. h[t].pc # "done"
    BY <1>2 DEF Handle, Count, Rows, Show, Load, Insert, Write, Delete, Reload, Record, Answer
  <2>2. PICK q : Fits(q) /\ Set(t, q)
    BY <1>2, CountFits, RowsFits, DrinkFits, ReportFits DEF Handle
  <2> QED BY <1>2, <2>1, <2>2, ListingsStay
<1>3. ASSUME ListInv, UNCHANGED vars PROVE ListInv'
  BY <1>3 DEF ListInv, vars, table
<1>4. IndInv /\ ListInv /\ [Next]_vars => ListInv'
  BY <1>2, <1>3, BeginListings, BeginListListings, CrashListings DEF Next
<1> QED BY <1>1, <1>4, Invariance, PTL DEF Spec

\* What the trail and the counters hold.
NotesInv ==
    /\ log \subseteq Events
    /\ faults \in 0..MaxFaults /\ requests \in 0..MaxRequests
    /\ overlapped \in BOOLEAN

\* audit.record stores an event.
LEMMA RecordsEvents ==
  ASSUME IndInv, ListInv, NotesInv, NEW t \in Threads, Record(t)
  PROVE  log' \subseteq Events
<1>1. PICK r \in Handlers : r = h[t]
  BY DEF ListInv
<1>2. r.op \in {"create", "update", "delete"}
  <2>1. r.pc = "record" /\ h[t].pc # "done"
    BY <1>1 DEF Record
  <2>2. Sound(r)
    BY <1>1, <2>1, OnItsWay
  <2> QED BY <2>1, <2>2 DEF Handlers, Sound, PathOf
<1>3. PICK after \in Drinks \cup {NoDrink} : after = IF r.op = "delete" THEN NoDrink ELSE r.seen
  BY DEF Handlers
<1>4. PICK e : e = [action |-> Action(r.op), id |-> r.id, before |-> r.before, after |-> after]
  OBVIOUS
<1>5. e \in Events
  <2>1. Action(r.op) \in {"created", "updated", "deleted"}
    BY <1>2 DEF Action
  <2>2. r.id \in Nat /\ r.before \in Drinks \cup {NoDrink}
    BY DEF Handlers
  <2> HIDE DEF Drinks, NoDrink
  <2> QED BY <1>3, <1>4, <2>1, <2>2 DEF Events
<1>6. log' = log \cup {e} \/ log' = log
  BY <1>1, <1>3, <1>4 DEF Record
<1> QED BY <1>5, <1>6 DEF NotesInv

\* No step leaves the bounds.
LEMMA NotesStep ==
  ASSUME IndInv, ListInv, NotesInv, [Next]_vars
  PROVE  NotesInv'
<1>1. log' \subseteq Events
  <2>1. CASE UNCHANGED log
    BY <2>1 DEF NotesInv
  <2>2. UNCHANGED log \/ \E t \in Threads : Record(t)
    BY DEF Next, vars, Begin, BeginList, Crash, Handle, Count, Rows, Show, Load, Insert, Write,
           Delete, Reload, Answer
  <2> QED BY <2>1, <2>2, RecordsEvents
<1>2. /\ MaxFaults \in Nat /\ MaxRequests \in Nat
      /\ faults \in 0..MaxFaults /\ requests \in 0..MaxRequests /\ overlapped \in BOOLEAN
  BY ApiAssumption DEF NotesInv
<1>3. ASSUME UNCHANGED vars PROVE faults' = faults /\ requests' = requests /\ overlapped' = overlapped
  BY <1>3 DEF vars
<1>4. ASSUME NEW t \in Threads, Begin(t) \/ BeginList(t)
      PROVE  /\ faults' = faults /\ requests < MaxRequests /\ requests' = requests + 1
             /\ overlapped' \in BOOLEAN
  BY <1>2, <1>4 DEF Begin, BeginList
<1>5. ASSUME NEW t \in Threads, Handle(t)
      PROVE  requests' = requests /\ (faults' = faults \/ (faults < MaxFaults /\ faults' = faults + 1))
  <2>1. UNCHANGED requests
    BY <1>5 DEF Handle, Count, Rows, Show, Load, Insert, Write, Delete, Reload, Record, Answer
  <2>2. Count(t) \/ Rows(t) \/ Show(t) \/ Load(t) => Works \/ Fault("busy")
    BY DEF Count, Rows, Show, Load
  <2>3. Insert(t) \/ Write(t) \/ Delete(t) => Works \/ Fault("busy")
    BY DEF Insert, Write, Delete, WriteFails
  <2>4. Reload(t) \/ Record(t) \/ Answer(t) => Works \/ Fault("busy")
    BY DEF Reload, Record, Answer
  <2>5. Works \/ Fault("busy")
    BY <1>5, <2>2, <2>3, <2>4 DEF Handle
  <2> QED BY <2>1, <2>5 DEF Works, Fault
<1>6. ASSUME Crash PROVE requests' = requests /\ faults < MaxFaults /\ faults' = faults + 1
  BY <1>6 DEF Crash, Fault
<1>7. /\ faults' = faults \/ (faults < MaxFaults /\ faults' = faults + 1)
      /\ requests' = requests \/ (requests < MaxRequests /\ requests' = requests + 1)
      /\ overlapped' \in BOOLEAN
  <2>1. CASE \E t \in Threads : Begin(t) \/ BeginList(t)
    BY <1>4, <2>1
  <2>2. CASE (Crash \/ \E t \in Threads : Handle(t)) /\ UNCHANGED overlapped
    <3>1. overlapped' \in BOOLEAN
      BY <1>2, <2>2
    <3> QED BY <1>5, <1>6, <2>2, <3>1
  <2>3. CASE UNCHANGED vars
    <3>1. overlapped' \in BOOLEAN
      BY <1>2, <1>3, <2>3
    <3> QED BY <1>3, <2>3, <3>1
  <2> QED BY <2>1, <2>2, <2>3 DEF Next
<1>8. faults' \in 0..MaxFaults /\ requests' \in 0..MaxRequests
  BY <1>2, <1>7
<1> QED BY <1>1, <1>7, <1>8 DEF NotesInv

\* Every variable of api.py's model has its type at every time: requests,
\* their pages and the trail included.
THEOREM TypeCorrect == Spec => []TypeOK
<1>1. Init => NotesInv
  <2>1. MaxFaults \in Nat /\ MaxRequests \in Nat
    BY ApiAssumption
  <2>2. Init => log = {} /\ faults = 0 /\ requests = 0 /\ overlapped = FALSE
    BY DEF Init
  <2>3. Init => overlapped \in BOOLEAN
    BY <2>2
  <2>4. Init => faults \in 0..MaxFaults /\ requests \in 0..MaxRequests /\ log \subseteq Events
    BY <2>1, <2>2
  <2> QED BY <2>3, <2>4 DEF NotesInv
<1>2. IndInv /\ ListInv /\ NotesInv /\ [Next]_vars => NotesInv'
  BY NotesStep
<1>3. IndInv /\ ListInv /\ NotesInv => TypeOK
  BY DEF IndInv, TableInv, ListInv, NotesInv, TypeOK
<1> QED BY <1>1, <1>2, <1>3, Invariance, ListingsHold, PTL DEF Spec

\* A handler that answers keeps its listing.
LEMMA EndListing ==
  ASSUME NEW r \in Handlers, NEW a
  PROVE  End(r, a).listing = r.listing /\ End(r, a).answer = a
BY DEF End, NoRequest

\* Only Rows answers a listing with 200.
LEMMA WhoListed ==
  ASSUME IndInv, ListInv, [Next]_vars, NEW t \in Threads, Leaves(t, "rows"), h'[t].answer = "200"
  PROVE  \E q : /\ h'[t] = End(q, "200") /\ q \in Handlers /\ UNCHANGED table
                /\ InRange(h[t].listing)
                /\ q.listing = [h[t].listing EXCEPT !.shown =
                                   PageRows(DOMAIN menu, h[t].listing.page, h[t].listing.perPage)]
<1>1. PICK r \in Handlers : r = h[t]
  BY DEF ListInv
<1>2. r.pc = "rows" /\ h'[t] # h[t] /\ InRange(r.listing)
  BY <1>1 DEF Leaves, ListInv
<1>3. ~Crash
  <2> SUFFICES ASSUME Crash PROVE FALSE
    OBVIOUS
  <2>1. h'[t] = End(r, "lost")
    BY <1>1, <1>2 DEF Crash
  <2> QED BY <2>1, EndListing
<1>4. Rows(t)
  <2>1. Handle(t)
    BY <1>1, <1>2, <1>3, WhoMoves
  <2> QED BY <1>1, <1>2, <2>1 DEF Handle, Count, Show, Load, Insert, Write, Delete, Reload, Record,
                                  Answer
<1>5. \A q : Set(t, q) => h'[t] = q
  BY DEF Set, ListInv
<1>6. ~Set(t, End(r, "500"))
  <2> SUFFICES ASSUME Set(t, End(r, "500")) PROVE FALSE
    OBVIOUS
  <2>1. h'[t] = End(r, "500")
    BY <1>5
  <2> QED BY <2>1, EndListing
<1>7. PICK shown : shown = PageRows(DOMAIN menu, r.listing.page, r.listing.perPage)
  OBVIOUS
<1>8. shown \in Seq(Nat)
  <2>1. PICK D \in SUBSET Nat : D = DOMAIN menu /\ IsFiniteSet(D)
    BY IdsFinite
  <2>2. r.listing.page \in Nat \ {0} /\ r.listing.perPage \in Nat \ {0}
    BY <1>2 DEF InRange
  <2>3. shown \in Seq(D)
    BY <1>7, <2>1, <2>2, PageHasItsRows
  <2> QED BY <2>1, <2>3
<1>9. PICK q : q = [r EXCEPT !.listing.shown = shown]
  OBVIOUS
<1>10. q \in Handlers /\ q.listing = [r.listing EXCEPT !.shown = shown]
  BY <1>8, <1>9, ShownFits
<1>11. h'[t] = End(q, "200")
  BY <1>1, <1>4, <1>5, <1>6, <1>7, <1>9, RowsShown
<1>12. UNCHANGED table
  BY <1>4 DEF Rows
<1> QED BY <1>1, <1>2, <1>7, <1>10, <1>11, <1>12

\* _ordered_drinks: pages of any size, of any menu, add up to the menu.
THEOREM PagesShowTheMenu == Spec => PagesAddUp
<1> DEFINE Adds(t) ==
       LET page == h'[t].listing
           shown == ToSet(page.shown)
       IN Leaves(t, "rows") /\ h'[t].answer = "200" =>
           /\ IsInjective(page.shown) /\ shown \subseteq DOMAIN menu
           /\ ~overlapped =>
                 /\ shown = {i \in DOMAIN menu : PageOf(i, page.perPage) = page.page}
                 /\ {PageOf(i, page.perPage) : i \in DOMAIN menu} = 1..page.totalPages
<1>1. ASSUME IndInv, ListInv, [Next]_vars, NEW t \in Threads, Leaves(t, "rows"),
             h'[t].answer = "200"
      PROVE  Adds(t)
  <2>1. PICK l \in Listings : l = h[t].listing
    BY <1>1 DEF ListInv, Handlers, Listings
  <2>2. PICK D \in SUBSET Nat : D = DOMAIN menu /\ IsFiniteSet(D)
    BY <1>1, IdsFinite
  <2>3. PICK shown : shown = PageRows(D, l.page, l.perPage)
    OBVIOUS
  <2>4. PICK q \in Handlers : /\ h'[t] = End(q, "200") /\ InRange(l)
                              /\ q.listing = [l EXCEPT !.shown = shown]
    BY <1>1, <2>1, <2>2, <2>3, WhoListed
  <2>5. PICK page : page = h'[t].listing
    OBVIOUS
  <2>6. page = [l EXCEPT !.shown = shown]
    BY <2>4, <2>5, EndListing
  <2>7. /\ page.shown = shown /\ page.page = l.page /\ page.perPage = l.perPage
        /\ page.totalPages = l.totalPages
    BY <2>6 DEF Listings
  <2>8. l.page \in Nat \ {0} /\ l.perPage \in Nat \ {0}
    BY <2>4 DEF InRange
  <2>9. \A i \in D : PageOf(i, l.perPage) = 1 + Cardinality(Before(D, i)) \div l.perPage
    BY <2>2 DEF PageOf, Before
  <2>10. /\ shown \in Seq(D) /\ IsInjective(shown)
         /\ ToSet(shown) = {i \in D : 1 + Cardinality(Before(D, i)) \div l.perPage = l.page}
    BY <2>2, <2>3, <2>8, PageHasItsRows
  <2>11. ToSet(shown) = {i \in D : PageOf(i, l.perPage) = l.page}
    BY <2>9, <2>10
  <2>12. ASSUME ~overlapped PROVE {PageOf(i, l.perPage) : i \in D} = 1..l.totalPages
    <3>1. Counts(l, D)
      BY <1>1, <2>1, <2>2, <2>12 DEF ListInv, Leaves
    <3>2. {1 + Cardinality(Before(D, i)) \div l.perPage : i \in D} = 1..l.totalPages
      BY <2>2, <2>8, <3>1, PagesAreFilled DEF Counts
    <3> QED BY <2>9, <3>2
  <2>13. /\ IsInjective(page.shown) /\ ToSet(page.shown) \subseteq DOMAIN menu
         /\ ~overlapped =>
               /\ ToSet(page.shown) = {i \in DOMAIN menu : PageOf(i, page.perPage) = page.page}
               /\ {PageOf(i, page.perPage) : i \in DOMAIN menu} = 1..page.totalPages
    BY <2>2, <2>7, <2>10, <2>11, <2>12
  <2> QED BY <2>5, <2>13
<1>2. IndInv /\ ListInv /\ [Next]_vars => [\A t \in Threads : Adds(t)]_vars
  <2> SUFFICES ASSUME IndInv, ListInv, [Next]_vars, NEW t \in Threads PROVE Adds(t)
    OBVIOUS
  <2>1. CASE Leaves(t, "rows") /\ h'[t].answer = "200"
    BY <1>1, <2>1
  <2> QED BY <2>1
<1>3. [][\A t \in Threads : Adds(t)]_vars => PagesAddUp
  BY PTL DEF PagesAddUp
<1> HIDE DEF Adds
<1> QED BY <1>2, <1>3, Invariance, ListingsHold, PTL DEF Spec
=============================================================================
