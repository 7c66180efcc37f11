-------------------------- MODULE MenuBootProofs --------------------------
(***************************************************************************)
(* Proofs about MenuBoot, for any list of demo drinks, any number of       *)
(* workers, any menu on the volume and any bound on failures and edits.    *)
(***************************************************************************)
EXTENDS MenuBoot, WellFoundedInduction, SequenceTheorems, TLAPS

-----------------------------------------------------------------------------
\* Lists of drinks.
Distinct(drinks) == \A i, j \in DOMAIN drinks : drinks[i].title = drinks[j].title => i = j

LEMMA ListProperties ==
  ASSUME NEW s \in Seq(NewDrinks)
  PROVE  /\ Len(s) \in Nat /\ DOMAIN s = 1..Len(s)
         /\ \A n \in DOMAIN s : s[n] \in NewDrinks /\ s[n].title \in Titles /\ s[n].recipe \in Recipes
<1>1. Len(s) \in Nat /\ DOMAIN s = 1..Len(s)
  BY LenProperties
<1>2. \A n \in DOMAIN s : s[n] \in NewDrinks
  BY <1>1, ElementOfSeq
<1> QED BY <1>1, <1>2 DEF NewDrinks

LEMMA EmptyList ==
  /\ <<>> \in Seq(NewDrinks) /\ Len(<<>>) = 0 /\ DOMAIN <<>> = {}
  /\ TitlesOf(<<>>) = {} /\ Distinct(<<>>)
BY EmptySeq DEF TitlesOf, Distinct

LEMMA JoinedLists ==
  ASSUME NEW s \in Seq(NewDrinks), NEW u \in Seq(NewDrinks)
  PROVE  /\ s \o u \in Seq(NewDrinks)
         /\ TitlesOf(s \o u) = TitlesOf(s) \cup TitlesOf(u)
         /\ Distinct(s) /\ Distinct(u) /\ TitlesOf(s) \cap TitlesOf(u) = {} => Distinct(s \o u)
<1>1. PICK j : j = s \o u
  OBVIOUS
<1>2. /\ Len(s) \in Nat /\ Len(u) \in Nat /\ DOMAIN s = 1..Len(s) /\ DOMAIN u = 1..Len(u)
  BY ListProperties
<1>3. /\ j \in Seq(NewDrinks) /\ Len(j) = Len(s) + Len(u)
      /\ \A n \in 1..(Len(s) + Len(u)) : j[n] = IF n <= Len(s) THEN s[n] ELSE u[n - Len(s)]
  BY <1>1, ConcatProperties
<1>4. DOMAIN j = 1..(Len(s) + Len(u))
  BY <1>3, ListProperties
<1>5. \A n \in DOMAIN j : \/ n \in DOMAIN s /\ j[n] = s[n]
                          \/ n - Len(s) \in DOMAIN u /\ j[n] = u[n - Len(s)] /\ n > Len(s)
  BY <1>2, <1>3, <1>4
<1>6. /\ \A n \in DOMAIN s : n \in DOMAIN j /\ j[n] = s[n]
      /\ \A n \in DOMAIN u : n + Len(s) \in DOMAIN j /\ j[n + Len(s)] = u[n]
  BY <1>2, <1>3, <1>4
<1>7. TitlesOf(j) = TitlesOf(s) \cup TitlesOf(u)
  <2>1. TitlesOf(j) \subseteq TitlesOf(s) \cup TitlesOf(u)
    BY <1>5 DEF TitlesOf
  <2>2. TitlesOf(s) \subseteq TitlesOf(j)
    BY <1>6 DEF TitlesOf
  <2>3. TitlesOf(u) \subseteq TitlesOf(j)
    BY <1>6 DEF TitlesOf
  <2> QED BY <2>1, <2>2, <2>3
<1>8. ASSUME Distinct(s), Distinct(u), TitlesOf(s) \cap TitlesOf(u) = {}
      PROVE  Distinct(j)
  <2> SUFFICES ASSUME NEW m \in DOMAIN j, NEW n \in DOMAIN j, j[m].title = j[n].title
               PROVE  m = n
    BY DEF Distinct
  <2>1. m \in Int /\ n \in Int
    BY <1>2, <1>4
  <2>2. CASE m \in DOMAIN s /\ j[m] = s[m] /\ n \in DOMAIN s /\ j[n] = s[n]
    BY <1>8, <2>2 DEF Distinct
  <2>3. CASE /\ m - Len(s) \in DOMAIN u /\ j[m] = u[m - Len(s)]
             /\ n - Len(s) \in DOMAIN u /\ j[n] = u[n - Len(s)]
    <3>1. m - Len(s) = n - Len(s)
      BY <1>8, <2>3 DEF Distinct
    <3> QED BY <1>2, <2>1, <3>1
  <2>4. ~(\E a \in DOMAIN s, b \in DOMAIN u : s[a].title = u[b].title)
    BY <1>8 DEF TitlesOf
  <2> QED BY <1>5, <2>2, <2>3, <2>4
<1> QED BY <1>1, <1>3, <1>7, <1>8

LEMMA OneDrink ==
  ASSUME NEW d \in NewDrinks
  PROVE  /\ <<d>> \in Seq(NewDrinks) /\ Len(<<d>>) = 1
         /\ TitlesOf(<<d>>) = {d.title} /\ Distinct(<<d>>)
<1>1. <<d>> \in Seq(NewDrinks) /\ Len(<<d>>) = 1 /\ DOMAIN <<d>> = {1} /\ <<d>>[1] = d
  OBVIOUS
<1> QED BY <1>1 DEF TitlesOf, Distinct

-----------------------------------------------------------------------------
\* A set of ids has a largest one.
LEMMA LargestId ==
  ASSUME NEW S \in SUBSET Nat, S # {}, NEW b \in Nat, \A x \in S : x <= b
  PROVE  Max(S) \in S /\ \A y \in S : y <= Max(S)
<1> DEFINE Below == {b - x : x \in S}
           R == OpToRel(<, Nat)
<1>1. Below \subseteq Nat /\ Below # {}
  <2>1. \A x \in S : b - x \in Nat
    OBVIOUS
  <2> QED BY <2>1
<1>2. IsWellFoundedOn(R, Nat)
  BY NatLessThanWellFounded
<1>3. \A y, x \in Nat : y < x => <<y, x>> \in R
  BY DEF OpToRel
<1> HIDE DEF R
<1>4. PICK m \in Below : \A y \in Below : ~(<<y, m>> \in R)
  BY <1>1, <1>2, WFMin
<1>5. PICK x \in S : m = b - x
  OBVIOUS
<1>6. \A y \in S : x >= y
  <2> SUFFICES ASSUME NEW y \in S, ~(x >= y) PROVE FALSE
    OBVIOUS
  <2>1. x \in Nat /\ y \in Nat /\ x < y
    OBVIOUS
  <2>2. b - y \in Below /\ b - y < m /\ b - y \in Nat /\ m \in Nat
    BY <1>1, <1>5, <2>1
  <2> QED BY <1>3, <1>4, <2>2
<1> QED BY <1>6 DEF Max

\* The next id is above those in use.
LEMMA NextIdIsAbove ==
  ASSUME TableTypeOK
  PROVE  NextId \in 1..births + 1 /\ births \in Nat /\ \A i \in DOMAIN menu : i \in Nat /\ i < NextId
<1> DEFINE S == DOMAIN menu \cup {0}
<1>1. S \in SUBSET Nat /\ S # {} /\ births \in Nat /\ \A x \in S : x <= births
  BY DEF TableTypeOK
<1>2. Max(S) \in S /\ \A y \in S : y <= Max(S)
  BY <1>1, LargestId
<1>3. NextId = 1 + Max(S)
  BY DEF NextId
<1> HIDE DEF S
<1>4. \A i \in DOMAIN menu : i \in S
  BY DEF S
<1>5. /\ Max(S) \in Nat /\ Max(S) <= births
      /\ \A i \in DOMAIN menu : i \in Nat /\ i <= Max(S)
  BY <1>1, <1>2, <1>4
<1> QED BY <1>1, <1>3, <1>5

\* INSERT of drinks whose titles are new.
LEMMA Inserting ==
  ASSUME TableTypeOK, Distinct(menu), NEW s \in Seq(NewDrinks), InsertRows(s),
         Distinct(s), TitlesOf(s) \cap Stored = {}
  PROVE  TableTypeOK' /\ Distinct(menu)' /\ Stored' = Stored \cup TitlesOf(s)
<1>1. PICK id \in Nat : id = NextId
  BY NextIdIsAbove
<1>2. PICK len \in Nat : len = Len(s)
  BY ListProperties
<1>3. /\ id \in 1..births + 1 /\ births \in Nat
      /\ \A i \in DOMAIN menu : i \in Nat /\ i < id
  BY <1>1, NextIdIsAbove
<1>4. /\ DOMAIN s = 1..len
      /\ \A n \in 1..len : s[n].title \in Titles /\ s[n].recipe \in Recipes
  BY <1>2, ListProperties
<1>5. /\ births' = births + len
      /\ menu' = [i \in DOMAIN menu \cup id..(id + len - 1) |->
                    IF i < id THEN menu[i]
                    ELSE [title |-> s[i - id + 1].title, recipe |-> s[i - id + 1].recipe,
                          born |-> births + (i - id + 1)]]
  BY <1>1, <1>2 DEF InsertRows
<1>6. \A i \in DOMAIN menu : i \in DOMAIN menu' /\ menu'[i] = menu[i]
  BY <1>3, <1>5
<1>7. ASSUME NEW i \in id..(id + len - 1)
      PROVE  /\ i - id + 1 \in 1..len /\ i \in DOMAIN menu' /\ i \notin DOMAIN menu
             /\ menu'[i] \in Drinks /\ menu'[i].title = s[i - id + 1].title
             /\ menu'[i].born = births + (i - id + 1) /\ births + (i - id + 1) \in 1..births'
  <2>1. i \in Nat /\ i >= id /\ i - id + 1 \in 1..len
    BY <1>3
  <2>2. menu'[i] = [title |-> s[i - id + 1].title, recipe |-> s[i - id + 1].recipe,
                    born |-> births + (i - id + 1)]
    BY <1>3, <1>5, <2>1
  <2>3. births + (i - id + 1) \in 1..births' /\ births + (i - id + 1) \in Nat
    BY <1>3, <1>5, <2>1
  <2> QED BY <1>3, <1>4, <1>5, <2>1, <2>2, <2>3 DEF Drinks
<1>8. DOMAIN menu' = DOMAIN menu \cup id..(id + len - 1)
  BY <1>5
<1>9. TableTypeOK'
  <2>1. births' \in Nat /\ births' >= births /\ births' = births + len
    BY <1>3, <1>5
  <2>2. \A i \in DOMAIN menu : /\ i \in 1..births' /\ menu'[i] \in Drinks
                               /\ menu'[i].born \in 1..births'
    BY <1>3, <1>6, <2>1 DEF TableTypeOK
  <2>3. \A i \in id..(id + len - 1) : i \in 1..births'
    BY <1>3, <2>1
  <2>4. ASSUME NEW i \in DOMAIN menu'
        PROVE  i \in 1..births' /\ menu'[i] \in Drinks /\ menu'[i].born \in 1..births'
    <3>1. CASE i \in DOMAIN menu
      BY <2>2, <3>1
    <3>2. CASE i \in id..(id + len - 1)
      BY <1>7, <2>3, <3>2
    <3> QED BY <1>8, <3>1, <3>2
  <2> QED BY <2>1, <2>4 DEF TableTypeOK
<1>10. Distinct(menu)'
  <2> SUFFICES ASSUME NEW i \in DOMAIN menu', NEW j \in DOMAIN menu', menu'[i].title = menu'[j].title
               PROVE  i = j
    BY DEF Distinct
  <2>1. ASSUME NEW k \in DOMAIN menu, NEW l \in id..(id + len - 1)
        PROVE  menu'[k].title # menu'[l].title
    <3>1. menu'[k].title \in Stored
      BY <1>6 DEF Stored
    <3>2. menu'[l].title \in TitlesOf(s)
      BY <1>4, <1>7 DEF TitlesOf
    <3> QED BY <3>1, <3>2
  <2>2. CASE i \in DOMAIN menu /\ j \in DOMAIN menu
    BY <1>6, <2>2 DEF Distinct
  <2>3. CASE i \in id..(id + len - 1) /\ j \in id..(id + len - 1)
    <3>1. i - id + 1 = j - id + 1
      BY <1>4, <1>7, <2>3 DEF Distinct
    <3> QED BY <2>3, <3>1
  <2> QED BY <1>8, <2>1, <2>2, <2>3
<1>11. Stored' = Stored \cup TitlesOf(s)
  <2>1. Stored' \subseteq Stored \cup TitlesOf(s)
    <3> SUFFICES ASSUME NEW i \in DOMAIN menu' PROVE menu'[i].title \in Stored \cup TitlesOf(s)
      BY DEF Stored
    <3>1. CASE i \in DOMAIN menu
      BY <1>6, <3>1 DEF Stored
    <3>2. CASE i \in id..(id + len - 1)
      BY <1>4, <1>7, <3>2 DEF TitlesOf
    <3> QED BY <1>8, <3>1, <3>2
  <2>2. Stored \subseteq Stored'
    BY <1>6 DEF Stored
  <2>3. TitlesOf(s) \subseteq Stored'
    <3> SUFFICES ASSUME NEW n \in 1..len PROVE s[n].title \in Stored'
      BY <1>4 DEF TitlesOf
    <3>1. id + n - 1 \in id..(id + len - 1) /\ (id + n - 1) - id + 1 = n
      BY <1>3
    <3>2. id + n - 1 \in DOMAIN menu' /\ menu'[id + n - 1].title = s[n].title
      BY <1>7, <3>1
    <3> QED BY <3>2 DEF Stored
  <2> QED BY <2>1, <2>2, <2>3
<1> QED BY <1>9, <1>10, <1>11

\* DELETE of a row.
LEMMA Deleting ==
  ASSUME TableTypeOK, Distinct(menu), NEW id \in DOMAIN menu, DeleteRow(id)
  PROVE  TableTypeOK' /\ Distinct(menu)' /\ Stored \subseteq Stored' \cup {menu[id].title}
<1>1. /\ DOMAIN menu' = DOMAIN menu \ {id} /\ births' = births
      /\ \A i \in DOMAIN menu \ {id} : menu'[i] = menu[i]
  BY DEF DeleteRow, Restrict
<1>2. TableTypeOK'
  BY <1>1 DEF TableTypeOK
<1>3. Distinct(menu)'
  BY <1>1 DEF Distinct
<1>4. Stored \subseteq Stored' \cup {menu[id].title}
  BY <1>1 DEF Stored
<1> QED BY <1>2, <1>3, <1>4

\* UPDATE of a row, to a title that no other row has.
LEMMA Updating ==
  ASSUME TableTypeOK, Distinct(menu), NEW id \in DOMAIN menu, NEW title \in Titles,
         NEW recipe \in Recipes, TitleFree(title, id), UpdateRow(id, title, recipe)
  PROVE  /\ TableTypeOK' /\ Distinct(menu)'
         /\ Stored \subseteq Stored' \cup ({menu[id].title} \ {title})
<1>1. /\ DOMAIN menu' = DOMAIN menu /\ births' = births
      /\ \A i \in DOMAIN menu \ {id} : menu'[i] = menu[i]
  BY DEF UpdateRow
<1>2. menu[id] \in Drinks /\ menu[id].born \in 1..births
  BY DEF TableTypeOK
<1>3. menu'[id] \in Drinks /\ menu'[id].title = title /\ menu'[id].born = menu[id].born
  BY <1>2 DEF UpdateRow, Drinks
<1>4. TableTypeOK'
  BY <1>1, <1>2, <1>3 DEF TableTypeOK
<1>5. \A i \in DOMAIN menu \ {id} : menu'[i].title # menu'[id].title
  BY <1>1, <1>3 DEF TitleFree
<1>6. Distinct(menu)'
  BY <1>1, <1>5 DEF Distinct
<1>7. \A i \in DOMAIN menu : menu'[i].title = menu[i].title \/ i = id
  BY <1>1
<1>8. Stored \subseteq Stored' \cup ({menu[id].title} \ {title})
  BY <1>1, <1>3, <1>7 DEF Stored
<1> QED BY <1>4, <1>6, <1>8

-----------------------------------------------------------------------------
\* What a session has done so far: it holds the lock for what it has inserted, adds
\* one drink at a time, none twice and none that is there, and every demo title up
\* to where it stands is stored, is among its own, or a manager has taken it away.
SessionInv(w) ==
    /\ flushed[w] # <<>> => writer = w
    /\ Len(pending[w]) <= 1
    /\ Distinct(Inserted(w))
    /\ TitlesOf(flushed[w]) \cap Stored = {}
    /\ stage[w] = "seed" =>
          \A i \in DOMAIN DemoDrinks :
             i < at[w] => Demo(i) \in Stored \cup removed \cup TitlesOf(Inserted(w))

Complete == (\E w \in Workers : stage[w] = "serving") => DemoTitles \subseteq Stored \cup removed

IndInv ==
    /\ TypeOK /\ Distinct(menu) /\ Complete
    /\ \A w \in Workers : SessionInv(w)

\* A worker's session, as the types have it.
LEMMA SessionTypes ==
  ASSUME TypeOK, NEW w \in Workers
  PROVE  /\ flushed[w] \in Seq(NewDrinks) /\ pending[w] \in Seq(NewDrinks)
         /\ Inserted(w) \in Seq(NewDrinks)
         /\ TitlesOf(Inserted(w)) = TitlesOf(flushed[w]) \cup TitlesOf(pending[w])
         /\ at[w] \in 1..(Len(DemoDrinks) + 1) /\ stage[w] \in Stages
<1>1. flushed[w] \in Seq(NewDrinks) /\ pending[w] \in Seq(NewDrinks)
  BY DEF TypeOK
<1> QED BY <1>1, JoinedLists DEF TypeOK, Inserted

\* Another worker's session is not disturbed.
LEMMA SessionKept ==
  ASSUME IndInv, NEW v \in Workers, flushed'[v] = flushed[v], pending'[v] = pending[v],
         at'[v] = at[v], stage'[v] = stage[v],
         flushed[v] # <<>> => writer' = v /\ Stored' = Stored,
         Stored \cup removed \subseteq Stored' \cup removed'
  PROVE  SessionInv(v)'
<1>1. SessionInv(v) /\ Inserted(v)' = Inserted(v)
  BY DEF IndInv, Inserted
<1>2. TitlesOf(flushed[v]) \cap Stored' = {}
  <2>1. CASE flushed[v] = <<>>
    BY <2>1, EmptyList
  <2>2. CASE flushed[v] # <<>>
    BY <1>1, <2>2 DEF SessionInv
  <2> QED BY <2>1, <2>2
<1> QED BY <1>1, <1>2 DEF SessionInv, Demo

\* A worker that moves to another stage has nothing open.
LEMMA Entered ==
  ASSUME TypeOK, NEW w \in Workers, NEW next \in Stages, Enter(w, next)
  PROVE  /\ stage' \in [Workers -> Stages] /\ at' \in [Workers -> 1..(Len(DemoDrinks) + 1)]
         /\ pending' \in [Workers -> Seq(NewDrinks)] /\ flushed' \in [Workers -> Seq(NewDrinks)]
         /\ writer' \in Workers \cup {NoWorker}
         /\ stage'[w] = next /\ SessionInv(w)'
         /\ \A v \in Workers \ {w} :
               /\ flushed'[v] = flushed[v] /\ pending'[v] = pending[v]
               /\ at'[v] = at[v] /\ stage'[v] = stage[v]
               /\ writer = v => writer' = v
<1>1. Len(DemoDrinks) \in Nat /\ <<>> \in Seq(NewDrinks)
  BY BootAssumption, ListProperties, EmptyList
<1>2. /\ stage' = [stage EXCEPT ![w] = next] /\ at' = [at EXCEPT ![w] = 1]
      /\ pending' = [pending EXCEPT ![w] = <<>>] /\ flushed' = [flushed EXCEPT ![w] = <<>>]
      /\ writer' = IF writer = w THEN NoWorker ELSE writer
  BY DEF Enter
<1>3. at'[w] = 1 /\ pending'[w] = <<>> /\ flushed'[w] = <<>> /\ stage'[w] = next
  BY <1>2 DEF TypeOK
<1>4. SessionInv(w)'
  <2>1. Inserted(w)' = <<>>
    BY <1>1, <1>3, ConcatEmptySeq DEF Inserted
  <2>2. \A i \in DOMAIN DemoDrinks : ~(i < 1)
    BY BootAssumption, ListProperties
  <2> QED BY <1>3, <2>1, <2>2, EmptyList DEF SessionInv
<1> QED BY <1>1, <1>2, <1>3, <1>4 DEF TypeOK

\* A worker that does not get to serve, or not yet, leaves the menu alone.
LEMMA MovesQuietly ==
  ASSUME IndInv, NEW w \in Workers, NEW next \in Stages \ {"serving"}, Enter(w, next),
         UNCHANGED <<table, edits, removed>>, tables' \in BOOLEAN, faults' \in 0..MaxFaults
  PROVE  IndInv'
<1>1. TypeOK /\ menu' = menu /\ births' = births /\ Stored' = Stored /\ removed' = removed
  BY DEF IndInv, table, Stored
<1>2. TypeOK' /\ SessionInv(w)'
  BY <1>1, Entered DEF TypeOK, TableTypeOK
<1>3. ASSUME NEW v \in Workers \ {w}
      PROVE  SessionInv(v)' /\ stage'[v] = stage[v]
  <2>1. /\ flushed'[v] = flushed[v] /\ pending'[v] = pending[v]
        /\ at'[v] = at[v] /\ stage'[v] = stage[v] /\ (writer = v => writer' = v)
    BY <1>1, Entered
  <2>2. flushed[v] # <<>> => writer = v
    BY DEF IndInv, SessionInv
  <2> QED BY <1>1, <2>1, <2>2, SessionKept
<1>4. stage'[w] # "serving"
  BY <1>1, Entered
<1>5. Complete' /\ Distinct(menu)'
  BY <1>1, <1>3, <1>4 DEF IndInv, Complete, Distinct, DemoTitles, Demo
<1> QED BY <1>2, <1>3, <1>5 DEF IndInv

LEMMA FaultTyped ==
  ASSUME IndInv
  PROVE  (UNCHANGED faults \/ Fault) => faults' \in 0..MaxFaults
BY BootAssumption DEF IndInv, TypeOK, Fault

LEMMA FlushFailsKeeps ==
  ASSUME IndInv, NEW w \in Workers, FlushFails(w)
  PROVE  IndInv'
<1>1. /\ Enter(w, "failed") /\ UNCHANGED <<table, edits, removed>>
      /\ tables' = tables /\ (UNCHANGED faults \/ Fault)
  BY DEF FlushFails
<1>2. tables' \in BOOLEAN /\ faults' \in 0..MaxFaults
  BY <1>1, FaultTyped DEF IndInv, TypeOK
<1> QED BY <1>1, <1>2, MovesQuietly DEF Stages

LEMMA BootBeginsKeeps ==
  ASSUME IndInv, NEW w \in Workers, Inspect(w) \/ CreateTables(w) \/ Respawn(w)
  PROVE  IndInv'
<1>1. PICK next \in {"inspect", "create", "seed", "failed"} : Enter(w, next)
  BY DEF Inspect, CreateTables, Respawn
<1>2. /\ UNCHANGED <<table, edits, removed>> /\ tables' \in {tables, TRUE}
      /\ (UNCHANGED faults \/ Fault)
  BY DEF Inspect, CreateTables, Respawn
<1>3. tables' \in BOOLEAN /\ faults' \in 0..MaxFaults
  BY <1>2, FaultTyped DEF IndInv, TypeOK
<1> QED BY <1>1, <1>2, <1>3, MovesQuietly DEF Stages

\* What a flush that goes through has found.
LEMMA Flushed ==
  ASSUME IndInv, NEW w \in Workers, Flushes(w)
  PROVE  /\ TitlesOf(Inserted(w)) \cap Stored = {}
         /\ Inserted(w) # <<>> => /\ pending[w] = <<>> => writer = w
                                  /\ writer \in {NoWorker, w}
<1>1. SessionInv(w) /\ TypeOK
  BY DEF IndInv
<1>2. TitlesOf(Inserted(w)) = TitlesOf(flushed[w]) \cup TitlesOf(pending[w])
  BY <1>1, SessionTypes
<1>3. TitlesOf(pending[w]) \cap Stored = {}
  BY EmptyList DEF Flushes, Taken
<1>4. flushed[w] = <<>> /\ pending[w] = <<>> => Inserted(w) = <<>>
  BY EmptyList, ConcatEmptySeq DEF Inserted
<1> QED BY <1>1, <1>2, <1>3, <1>4 DEF SessionInv, Flushes, MayWrite

LEMMA QueryKeeps ==
  ASSUME IndInv, NEW w \in Workers, Query(w)
  PROVE  IndInv'
<1> DEFINE found == Demo(at[w]) \in Stored \cup TitlesOf(Inserted(w))
           added == IF found THEN <<>> ELSE <<DemoDrinks[at[w]]>>
<1>1. CASE FlushFails(w)
  BY <1>1, FlushFailsKeeps
<1>2. CASE ~FlushFails(w)
  <2>1. /\ stage[w] = "seed" /\ at[w] <= Len(DemoDrinks) /\ Flushes(w)
        /\ writer' = IF pending[w] # <<>> THEN w ELSE writer
        /\ flushed' = [flushed EXCEPT ![w] = Inserted(w)]
        /\ pending' = [pending EXCEPT ![w] = added]
        /\ at' = [at EXCEPT ![w] = at[w] + 1]
        /\ UNCHANGED <<table, tables, stage, faults, edits, removed>>
    BY <1>2 DEF Query, AfterFound
  <2>2. /\ TypeOK /\ SessionInv(w) /\ menu' = menu /\ births' = births /\ Stored' = Stored
        /\ removed' = removed /\ stage' = stage
    BY <2>1 DEF IndInv, table, Stored
  <2>3. /\ Len(DemoDrinks) \in Nat /\ at[w] \in DOMAIN DemoDrinks
        /\ DemoDrinks[at[w]] \in NewDrinks /\ DemoDrinks[at[w]].title = Demo(at[w])
    <3>1. at[w] \in 1..(Len(DemoDrinks) + 1) /\ DemoDrinks \in Seq(NewDrinks)
      BY <2>2, BootAssumption, SessionTypes
    <3>2. Len(DemoDrinks) \in Nat /\ DOMAIN DemoDrinks = 1..Len(DemoDrinks)
      BY <3>1, ListProperties
    <3>3. at[w] \in DOMAIN DemoDrinks
      BY <2>1, <3>1, <3>2
    <3> QED BY <3>1, <3>2, <3>3, ListProperties DEF Demo
  <2>4. /\ added \in Seq(NewDrinks) /\ Len(added) <= 1 /\ Distinct(added)
        /\ TitlesOf(added) = IF found THEN {} ELSE {Demo(at[w])}
    <3>1. CASE found
      BY <3>1, EmptyList
    <3>2. CASE ~found
      BY <2>3, <3>2, OneDrink
    <3> QED BY <3>1, <3>2
  <2>5. Inserted(w) \in Seq(NewDrinks)
    BY <2>2, SessionTypes
  <2> HIDE DEF added
  <2>6. /\ flushed'[w] = Inserted(w) /\ pending'[w] = added /\ at'[w] = at[w] + 1
        /\ \A v \in Workers \ {w} : /\ flushed'[v] = flushed[v] /\ pending'[v] = pending[v]
                                      /\ at'[v] = at[v]
    BY <2>1, <2>2 DEF TypeOK
  <2>7. TypeOK'
    <3>1. at' \in [Workers -> 1..(Len(DemoDrinks) + 1)]
      BY <2>1, <2>2, <2>3, SessionTypes DEF TypeOK
    <3>2. /\ pending' \in [Workers -> Seq(NewDrinks)] /\ flushed' \in [Workers -> Seq(NewDrinks)]
          /\ writer' \in Workers \cup {NoWorker}
      BY <2>1, <2>2, <2>4, <2>5 DEF TypeOK
    <3> QED BY <2>1, <2>2, <3>1, <3>2 DEF TypeOK, TableTypeOK
  <2>8. SessionInv(w)'
    <3>1. Inserted(w)' = Inserted(w) \o added
      BY <2>6 DEF Inserted
    <3>2. /\ TitlesOf(Inserted(w) \o added) = TitlesOf(Inserted(w)) \cup TitlesOf(added)
          /\ Distinct(Inserted(w) \o added)
      BY <2>2, <2>4, <2>5, JoinedLists DEF SessionInv
    <3>3. Inserted(w) # <<>> => writer' = w
      BY <2>1, Flushed
    <3>4. TitlesOf(Inserted(w)) \cap Stored' = {}
      BY <2>1, <2>2, Flushed
    <3>5. ASSUME NEW i \in DOMAIN DemoDrinks, i < at[w] + 1
          PROVE  Demo(i) \in Stored \cup removed \cup TitlesOf(Inserted(w)) \cup TitlesOf(added)
      <4>1. i \in Nat /\ at[w] \in Nat
        BY <2>2, BootAssumption, ListProperties, SessionTypes
      <4>2. CASE i < at[w]
        BY <2>1, <2>2, <4>2 DEF SessionInv
      <4>3. CASE i = at[w]
        BY <2>4, <4>3
      <4> QED BY <3>5, <4>1, <4>2, <4>3
    <3> QED BY <2>2, <2>4, <2>6, <3>1, <3>2, <3>3, <3>4, <3>5 DEF SessionInv, Demo
  <2>9. ASSUME NEW v \in Workers \ {w}
        PROVE  SessionInv(v)'
    <3>1. flushed[v] # <<>> => writer = v
      BY DEF IndInv, SessionInv
    <3>2. flushed[v] # <<>> => pending[w] = <<>>
      BY <2>1, <3>1, BootAssumption DEF Flushes, MayWrite
    <3> QED BY <2>1, <2>2, <2>6, <3>1, <3>2, SessionKept
  <2>10. Complete' /\ Distinct(menu)'
    BY <2>2 DEF IndInv, Complete, Distinct, DemoTitles, Demo
  <2> QED BY <2>7, <2>8, <2>9, <2>10 DEF IndInv
<1> QED BY <1>1, <1>2

\* The commit: the session's drinks are on the menu, whatever the others do.
LEMMA CommitKeeps ==
  ASSUME IndInv, NEW w \in Workers, Commit(w)
  PROVE  IndInv'
<1>1. CASE FlushFails(w)
  BY <1>1, FlushFailsKeeps
<1>2. CASE ~FlushFails(w)
  <2>1. /\ stage[w] = "seed" /\ at[w] > Len(DemoDrinks) /\ Flushes(w)
        /\ InsertRows(Inserted(w)) /\ Enter(w, "serving")
        /\ UNCHANGED <<tables, faults, edits, removed>>
    BY <1>2 DEF Commit, Committed
  <2>2. TypeOK /\ SessionInv(w) /\ TableTypeOK /\ Distinct(menu)
    BY DEF IndInv, TypeOK
  <2>3. /\ Inserted(w) \in Seq(NewDrinks) /\ Distinct(Inserted(w))
        /\ TitlesOf(Inserted(w)) \cap Stored = {}
    BY <2>1, <2>2, SessionTypes, Flushed DEF SessionInv
  <2>4. TableTypeOK' /\ Distinct(menu)' /\ Stored' = Stored \cup TitlesOf(Inserted(w))
    BY <2>1, <2>2, <2>3, Inserting
  <2>5. TypeOK' /\ SessionInv(w)'
    BY <2>1, <2>2, <2>4, Entered DEF TypeOK, Stages
  <2>6. ASSUME NEW v \in Workers \ {w}
        PROVE  SessionInv(v)'
    <3>1. /\ flushed'[v] = flushed[v] /\ pending'[v] = pending[v]
          /\ at'[v] = at[v] /\ stage'[v] = stage[v] /\ (writer = v => writer' = v)
      BY <2>1, <2>2, Entered DEF Stages
    <3>2. flushed[v] # <<>> => writer = v
      BY DEF IndInv, SessionInv
    <3>3. flushed[v] # <<>> => Stored' = Stored
      <4>1. flushed[v] # <<>> => Inserted(w) = <<>>
        BY <2>1, <3>2, Flushed, BootAssumption
      <4> QED BY <2>4, <4>1, EmptyList
    <3>4. Stored \cup removed \subseteq Stored' \cup removed'
      BY <2>1, <2>4
    <3> QED BY <3>1, <3>2, <3>3, <3>4, SessionKept
  <2>7. DemoTitles' \subseteq Stored' \cup removed'
    <3> SUFFICES ASSUME NEW i \in DOMAIN DemoDrinks PROVE Demo(i) \in Stored' \cup removed'
      BY DEF DemoTitles, Demo
    <3>1. i < at[w]
      BY <2>1, <2>2, BootAssumption, ListProperties, SessionTypes
    <3>2. Demo(i) \in Stored \cup removed \cup TitlesOf(Inserted(w))
      BY <2>1, <2>2, <3>1 DEF SessionInv
    <3> QED BY <2>1, <2>4, <3>2
  <2> QED BY <2>4, <2>5, <2>6, <2>7 DEF IndInv, Complete
<1> QED BY <1>1, <1>2

\* When everything stops, or starts again, no session is left.
LEMMA DownKeeps ==
  ASSUME IndInv, Down \/ Restart
  PROVE  IndInv'
<1>1. /\ UNCHANGED <<table, tables, edits, removed>> /\ (UNCHANGED faults \/ Fault)
      /\ \E s \in {"down", "inspect"} : stage' = [w \in Workers |-> s]
  BY DEF Down, Restart
<1>2. /\ TypeOK /\ menu' = menu /\ births' = births /\ Stored' = Stored /\ removed' = removed
      /\ tables' = tables /\ edits' = edits
  BY <1>1 DEF IndInv, table, Stored
<1>3. faults' \in 0..MaxFaults
  BY <1>1, FaultTyped
<1>4. stage' \in [Workers -> Stages] /\ \A w \in Workers : stage'[w] \in {"down", "inspect"}
  BY <1>1 DEF Stages
<1>5. CASE Down
  <2>1. /\ at' = [w \in Workers |-> 1] /\ writer' = NoWorker
        /\ pending' = [w \in Workers |-> <<>>] /\ flushed' = [w \in Workers |-> <<>>]
    BY <1>5 DEF Down
  <2>2. Len(DemoDrinks) \in Nat /\ <<>> \in Seq(NewDrinks)
    BY BootAssumption, ListProperties, EmptyList
  <2>3. TypeOK'
    <3>1. at' \in [Workers -> 1..(Len(DemoDrinks) + 1)]
      BY <2>1, <2>2
    <3>2. pending' \in [Workers -> Seq(NewDrinks)] /\ flushed' \in [Workers -> Seq(NewDrinks)]
      BY <2>1, <2>2
    <3> QED BY <1>2, <1>3, <1>4, <2>1, <3>1, <3>2 DEF TypeOK, TableTypeOK
  <2>4. ASSUME NEW w \in Workers PROVE SessionInv(w)'
    <3>1. Inserted(w)' = <<>>
      BY <2>1, <2>2, ConcatEmptySeq DEF Inserted
    <3> QED BY <1>4, <2>1, <3>1, EmptyList DEF SessionInv
  <2> QED BY <1>2, <1>4, <2>3, <2>4 DEF IndInv, Complete, Distinct
<1>6. CASE Restart
  <2>1. UNCHANGED <<at, pending, flushed, writer>>
    BY <1>6 DEF Restart
  <2>2. TypeOK'
    BY <1>2, <1>3, <1>4, <2>1 DEF TypeOK, TableTypeOK
  <2>3. ASSUME NEW w \in Workers PROVE SessionInv(w)'
    BY <1>2, <1>4, <2>1 DEF IndInv, SessionInv, Inserted
  <2> QED BY <1>2, <1>4, <2>2, <2>3 DEF IndInv, Complete, Distinct
<1> QED BY <1>5, <1>6

\* A manager's edit waits for the lock, so no session has inserted anything.
LEMMA EditKeeps ==
  ASSUME IndInv, Edit
  PROVE  IndInv'
<1>1. /\ writer = NoWorker /\ edits' \in 0..MaxEdits
      /\ UNCHANGED <<tables, stage, at, pending, flushed, writer, faults>>
  BY BootAssumption DEF Edit, worker, IndInv, TypeOK
<1>2. TypeOK /\ TableTypeOK /\ Distinct(menu)
  BY DEF IndInv, TypeOK
<1>3. \A w \in Workers : flushed[w] = <<>>
  BY <1>1, BootAssumption DEF IndInv, SessionInv
<1>4. /\ TableTypeOK' /\ Distinct(menu)' /\ removed' \subseteq Titles
      /\ Stored \cup removed \subseteq Stored' \cup removed'
  <2>1. CASE RemoveDrink
    <3>1. PICK i \in DOMAIN menu : DeleteRow(i) /\ removed' = removed \cup {menu[i].title}
      BY <2>1 DEF RemoveDrink
    <3>2. menu[i].title \in Titles
      BY <1>2 DEF TableTypeOK, Drinks
    <3> QED BY <1>2, <3>1, <3>2, Deleting DEF TypeOK
  <2>2. CASE AddDrink
    <3>1. PICK d \in OwnDrinks : TitleFree(d.title, 0) /\ InsertRows(<<d>>) /\ UNCHANGED removed
      BY <2>2 DEF AddDrink
    <3>2. /\ <<d>> \in Seq(NewDrinks) /\ TitlesOf(<<d>>) = {d.title} /\ Distinct(<<d>>)
      BY OneDrink, BootAssumption
    <3>3. d.title \notin Stored
      BY <1>2, <3>1 DEF TitleFree, Stored, TableTypeOK
    <3>4. TableTypeOK' /\ Distinct(menu)' /\ Stored' = Stored \cup {d.title}
      BY <1>2, <3>1, <3>2, <3>3, Inserting
    <3> QED BY <1>2, <3>1, <3>4 DEF TypeOK
  <2>3. CASE ChangeDrink
    <3>1. PICK i \in DOMAIN menu, d \in OwnDrinks :
             \E title \in {menu[i].title, d.title}, recipe \in {menu[i].recipe, d.recipe} :
                /\ TitleFree(title, i) /\ UpdateRow(i, title, recipe)
                /\ removed' = removed \cup ({menu[i].title} \ {title})
      BY <2>3 DEF ChangeDrink
    <3>2. PICK title \in {menu[i].title, d.title}, recipe \in {menu[i].recipe, d.recipe} :
             /\ TitleFree(title, i) /\ UpdateRow(i, title, recipe)
             /\ removed' = removed \cup ({menu[i].title} \ {title})
      BY <3>1
    <3>3. menu[i].title \in Titles /\ menu[i].recipe \in Recipes
      BY <1>2 DEF TableTypeOK, Drinks
    <3>4. d.title \in Titles /\ d.recipe \in Recipes
      BY BootAssumption DEF NewDrinks
    <3>5. /\ TableTypeOK' /\ Distinct(menu)'
          /\ Stored \subseteq Stored' \cup ({menu[i].title} \ {title})
      BY <1>2, <3>2, <3>3, <3>4, Updating
    <3> QED BY <1>2, <3>2, <3>3, <3>5 DEF TypeOK
  <2> QED BY <2>1, <2>2, <2>3 DEF Edit
<1>5. TypeOK'
  BY <1>1, <1>2, <1>4 DEF TypeOK
<1>6. ASSUME NEW w \in Workers PROVE SessionInv(w)'
  BY <1>1, <1>3, <1>4, SessionKept
<1>7. Complete'
  BY <1>1, <1>4 DEF IndInv, Complete, DemoTitles, Demo
<1> QED BY <1>4, <1>5, <1>6, <1>7 DEF IndInv

\* The menu that a boot finds.
LEMMA InitHolds == Init => IndInv
<1> SUFFICES ASSUME Init PROVE IndInv
  OBVIOUS
<1>1. PICK m \in FirstMenus : TableOf(m) /\ tables \in {TRUE, m # <<>>}
  BY DEF Init
<1>2. m \in Seq(NewDrinks) /\ Distinct(m)
  BY BootAssumption DEF Distinct
<1>3. /\ Len(m) \in Nat /\ DOMAIN m = 1..Len(m)
      /\ \A i \in DOMAIN m : m[i].title \in Titles /\ m[i].recipe \in Recipes
  BY <1>2, ListProperties
<1>4. /\ DOMAIN menu = DOMAIN m /\ births = Len(m)
      /\ \A i \in DOMAIN m : menu[i] = [title |-> m[i].title, recipe |-> m[i].recipe, born |-> i]
  BY <1>1 DEF TableOf
<1>5. TableTypeOK /\ Distinct(menu)
  <2>1. \A i \in DOMAIN m : /\ menu[i] \in Drinks /\ menu[i].born \in 1..births
                            /\ menu[i].title = m[i].title
    BY <1>3, <1>4 DEF Drinks
  <2>2. TableTypeOK
    BY <1>3, <1>4, <2>1 DEF TableTypeOK
  <2>3. Distinct(menu)
    BY <1>2, <1>4, <2>1 DEF Distinct
  <2> QED BY <2>2, <2>3
<1>6. /\ stage = [w \in Workers |-> "inspect"] /\ at = [w \in Workers |-> 1]
      /\ pending = [w \in Workers |-> <<>>] /\ flushed = [w \in Workers |-> <<>>]
      /\ writer = NoWorker /\ faults = 0 /\ edits = 0 /\ removed = {}
  BY DEF Init
<1>7. Len(DemoDrinks) \in Nat /\ <<>> \in Seq(NewDrinks)
  BY BootAssumption, ListProperties, EmptyList
<1>8. TypeOK
  <2>1. pending \in [Workers -> Seq(NewDrinks)] /\ flushed \in [Workers -> Seq(NewDrinks)]
    BY <1>6, <1>7
  <2>2. tables \in BOOLEAN
    BY <1>1
  <2>3. at \in [Workers -> 1..(Len(DemoDrinks) + 1)] /\ stage \in [Workers -> Stages]
    BY <1>6, <1>7 DEF Stages
  <2> QED BY <1>5, <1>6, <2>1, <2>2, <2>3, BootAssumption DEF TypeOK
<1>9. ASSUME NEW w \in Workers PROVE SessionInv(w)
  <2>1. Inserted(w) = <<>>
    BY <1>6, <1>7, ConcatEmptySeq DEF Inserted
  <2> QED BY <1>6, <2>1, EmptyList DEF SessionInv
<1>10. Complete
  BY <1>6 DEF Complete
<1> QED BY <1>5, <1>8, <1>9, <1>10 DEF IndInv

THEOREM Invariance == Spec => []IndInv
<1>1. IndInv /\ [Next]_vars => IndInv'
  <2> SUFFICES ASSUME IndInv, [Next]_vars PROVE IndInv'
    OBVIOUS
  <2>1. CASE UNCHANGED vars
    <3>1. UNCHANGED <<menu, births, tables, stage, at, pending, flushed, writer, faults, edits, removed>>
      BY <2>1 DEF vars, table, worker
    <3>2. TypeOK'
      BY <3>1 DEF IndInv, TypeOK, TableTypeOK
    <3>3. Stored' = Stored
      BY <3>1 DEF Stored
    <3>4. \A w \in Workers : SessionInv(w)'
      BY <3>1, <3>3 DEF IndInv, SessionInv, Inserted
    <3>5. Distinct(menu)' /\ Complete'
      BY <3>1, <3>3 DEF IndInv, Distinct, Complete
    <3> QED BY <3>2, <3>4, <3>5 DEF IndInv
  <2>2. CASE Next
    BY <2>2, BootBeginsKeeps, QueryKeeps, CommitKeeps, DownKeeps, EditKeeps DEF Next, Boot
  <2> QED BY <2>1, <2>2
<1> QED BY InitHolds, <1>1, PTL DEF Spec

-----------------------------------------------------------------------------
\* The variables keep their types, through races, failures and restarts
\* (seed_demo_drinks and _prepare_database).
THEOREM TypeCorrect == Spec => []TypeOK
<1>1. IndInv => TypeOK
  BY DEF IndInv
<1> QED BY <1>1, Invariance, PTL

\* However many workers boot at once, fail half-way or boot again, no title is on the
\* menu twice, and a worker that serves does so with every demo title there, or
\* deleted or changed by a manager since the volume was found (seed_demo_drinks, "always comes back with a usable menu").
THEOREM MenuIsFull == Spec => []ServesFullMenu
<1>1. IndInv => ServesFullMenu
  BY DEF IndInv, ServesFullMenu, Distinct, Complete
<1> QED BY <1>1, Invariance, PTL
=============================================================================
