------------------------- MODULE MenuPageProofs -------------------------
(***************************************************************************)
(* Proofs about MenuPage, for any number of clicks and menu changes.       *)
(***************************************************************************)
EXTENDS MenuPage, FiniteSetTheorems, SequenceTheorems, TLAPS

\* The writes on their way, each of which may ask for a reload.
WritesInFlight == {i \in DOMAIN flight : flight[i].kind # "list"}

\* The type invariant, with the reloads still to come counted in.
TypeInv ==
    /\ role \in {"guest", "barista", "manager"}
    /\ exchanging \in BOOLEAN /\ leaving \in BOOLEAN
    /\ counter \in Nat /\ clicks \in 0..MaxClicks
    /\ ranFor \in {<<>>} \cup BOOLEAN \X (0..counter)
    /\ drinks \in [level : {"none", "public", "detailed"}, version : 0..version]
    /\ loading \in BOOLEAN /\ editing \in BOOLEAN
    /\ flight \in Seq(Requests)
    /\ version \in 0..MaxVersion /\ own \in 0..version /\ listFailed \in BOOLEAN

ReloadsCounted ==
    /\ IsFiniteSet(WritesInFlight)
    /\ counter + Cardinality(WritesInFlight) <= clicks

\* No answer is newer than the menu.
NoneAhead == \A i \in DOMAIN flight : flight[i].version <= version

\* The latest fetch in flight.
LatestList(i) ==
    /\ i \in DOMAIN flight /\ flight[i].kind = "list"
    /\ \A j \in DOMAIN flight : j > i => flight[j].kind # "list"

NoList == \A j \in DOMAIN flight : flight[j].kind # "list"

\* With answers in order, the latest fetch is what the page will end up with,
\* or has ended up with: the level that the effect has asked for, and, unless
\* another reload is due, no less than the writes reported.
PageKeepsUp ==
    InOrder /\ ranFor # <<>> =>
        \/ \E i \in DOMAIN flight :
              /\ LatestList(i)
              /\ flight[i].detailed = ranFor[1]
              /\ ranFor[2] = counter /\ flight[i].reply = "ok" => flight[i].version >= own
        \/ /\ NoList
           /\ ~listFailed => drinks.level = Level(ranFor[1])
           /\ ~listFailed /\ ranFor[2] = counter => drinks.version >= own

IndInv == TypeInv /\ ReloadsCounted /\ NoneAhead /\ PageKeepsUp

-----------------------------------------------------------------------------
\* RemoveAt closes the gap.
LEMMA RemoveAtProperties ==
  ASSUME NEW S, NEW s \in Seq(S), NEW i \in 1..Len(s)
  PROVE  /\ RemoveAt(s, i) \in Seq(S)
         /\ Len(RemoveAt(s, i)) = Len(s) - 1
         /\ \A j \in 1..Len(s) - 1 :
               RemoveAt(s, i)[j] = IF j < i THEN s[j] ELSE s[j + 1]
<1> DEFINE before == SubSeq(s, 1, i - 1)
           after == SubSeq(s, i + 1, Len(s))
<1>0. /\ Len(s) \in Nat /\ i \in Int /\ \A j \in 1..Len(s) : s[j] \in S
  BY ElementOfSeq
<1>1. /\ before \in Seq(S)
      /\ Len(before) = i - 1
      /\ \A j \in 1..i - 1 : before[j] = s[j]
  <2>1. \A j \in 1..i - 1 : s[j] \in S
    BY <1>0
  <2>2. /\ SubSeq(s, 1, i - 1) \in Seq(S)
        /\ Len(SubSeq(s, 1, i - 1)) = IF 1 <= i - 1 THEN i - 1 - 1 + 1 ELSE 0
        /\ \A j \in 1..i - 1 - 1 + 1 : SubSeq(s, 1, i - 1)[j] = s[1 + j - 1]
    BY <1>0, <2>1, SubSeqProperties
  <2> QED BY <1>0, <2>2
<1>2. /\ after \in Seq(S)
      /\ Len(after) = Len(s) - i
      /\ \A j \in 1..Len(s) - i : after[j] = s[i + j]
  <2>1. \A j \in i + 1..Len(s) : s[j] \in S
    BY <1>0
  <2>2. /\ SubSeq(s, i + 1, Len(s)) \in Seq(S)
        /\ Len(SubSeq(s, i + 1, Len(s))) =
              IF i + 1 <= Len(s) THEN Len(s) - (i + 1) + 1 ELSE 0
        /\ \A j \in 1..Len(s) - (i + 1) + 1 : SubSeq(s, i + 1, Len(s))[j] = s[i + 1 + j - 1]
    BY <1>0, <2>1, SubSeqProperties
  <2> QED BY <1>0, <2>2
<1>3. RemoveAt(s, i) = before \o after
  BY DEF RemoveAt
<1> HIDE DEF before, after
<1>4. /\ before \o after \in Seq(S)
      /\ Len(before \o after) = Len(before) + Len(after)
      /\ \A j \in 1..Len(before) + Len(after) :
            (before \o after)[j] = IF j <= Len(before) THEN before[j] ELSE after[j - Len(before)]
  BY <1>1, <1>2, ConcatProperties
<1>5. ASSUME NEW j \in 1..Len(s) - 1
      PROVE  RemoveAt(s, i)[j] = IF j < i THEN s[j] ELSE s[j + 1]
  <2>1. RemoveAt(s, i)[j] = IF j <= i - 1 THEN before[j] ELSE after[j - (i - 1)]
    <3>1. Len(before) = i - 1 /\ Len(after) = Len(s) - i
      BY <1>1, <1>2
    <3>2. j \in 1..Len(before) + Len(after)
      BY <1>0, <1>5, <3>1
    <3>3. (before \o after)[j] = IF j <= Len(before) THEN before[j] ELSE after[j - Len(before)]
      BY <1>4, <3>2
    <3> QED BY <1>3, <3>1, <3>3
  <2>2. CASE j < i
    BY <1>0, <1>1, <1>5, <2>1, <2>2
  <2>3. CASE j >= i
    <3>1. j - (i - 1) \in 1..Len(s) - i /\ i + (j - (i - 1)) = j + 1 /\ ~(j <= i - 1)
      BY <1>0, <1>5, <2>3
    <3>2. after[j - (i - 1)] = s[i + (j - (i - 1))]
      BY <1>2, <3>1
    <3> QED BY <1>0, <1>5, <2>1, <2>3, <3>1, <3>2
  <2> QED BY <1>0, <1>5, <2>2, <2>3
<1> QED BY <1>0, <1>1, <1>2, <1>3, <1>4, <1>5

\* Sending adds one request at the end.
LEMMA SendProperties ==
  ASSUME TypeInv, NEW kind \in {"list", "save", "remove"}, NEW detailed \in BOOLEAN,
         Send(kind, detailed)
  PROVE  /\ flight' \in Seq(Requests)
         /\ Len(flight') = Len(flight) + 1
         /\ \A i \in 1..Len(flight) : flight'[i] = flight[i]
         /\ flight'[Len(flight) + 1].kind = kind
         /\ flight'[Len(flight) + 1].detailed = detailed
         /\ flight'[Len(flight) + 1].reply = "none"
         /\ flight'[Len(flight) + 1].version = 0
<1> DEFINE r == [kind |-> kind, detailed |-> detailed, reply |-> "none", version |-> 0]
<1>1. r \in Requests
  BY PageAssumption DEF Requests
<1>2. flight \in Seq(Requests)
  BY DEF TypeInv
<1>3. flight' = Append(flight, r)
  BY DEF Send
<1>4. r.kind = kind /\ r.detailed = detailed /\ r.reply = "none" /\ r.version = 0
  OBVIOUS
<1> HIDE DEF r
<1> QED BY <1>1, <1>2, <1>3, <1>4, AppendProperties

\* Its writes are counted.
LEMMA SendCounts ==
  ASSUME TypeInv, IsFiniteSet(WritesInFlight),
         NEW kind \in {"list", "save", "remove"}, NEW detailed \in BOOLEAN,
         Send(kind, detailed)
  PROVE  /\ IsFiniteSet(WritesInFlight')
         /\ Cardinality(WritesInFlight') =
               Cardinality(WritesInFlight) + IF kind = "list" THEN 0 ELSE 1
<1>1. /\ Len(flight) \in Nat /\ DOMAIN flight = 1..Len(flight)
      /\ DOMAIN flight' = 1..Len(flight) + 1
      /\ \A i \in 1..Len(flight) : flight'[i] = flight[i]
      /\ flight'[Len(flight) + 1].kind = kind
  <2>1. /\ flight' \in Seq(Requests)
        /\ Len(flight') = Len(flight) + 1
        /\ \A i \in 1..Len(flight) : flight'[i] = flight[i]
        /\ flight'[Len(flight) + 1].kind = kind
    BY SendProperties
  <2> QED BY <2>1, LenProperties DEF TypeInv
<1>2. CASE kind = "list"
  <2>1. WritesInFlight' = WritesInFlight
    BY <1>1, <1>2 DEF WritesInFlight
  <2>2. Cardinality(WritesInFlight) \in Nat
    BY FS_CardinalityType
  <2> QED BY <1>2, <2>1, <2>2
<1>3. CASE kind # "list"
  <2>1. WritesInFlight' = WritesInFlight \cup {Len(flight) + 1}
    BY <1>1, <1>3 DEF WritesInFlight
  <2>2. Len(flight) + 1 \notin WritesInFlight
    BY <1>1 DEF WritesInFlight
  <2> QED BY <1>3, <2>1, <2>2, FS_AddElement
<1> QED BY <1>2, <1>3

\* A write that has arrived is counted no more.
LEMMA RemoveCounts ==
  ASSUME TypeInv, IsFiniteSet(WritesInFlight),
         NEW i \in DOMAIN flight, flight' = RemoveAt(flight, i)
  PROVE  /\ IsFiniteSet(WritesInFlight')
         /\ Cardinality(WritesInFlight') <=
               Cardinality(WritesInFlight) - IF flight[i].kind = "list" THEN 0 ELSE 1
<1> DEFINE shift == [j \in WritesInFlight' |-> IF j < i THEN j ELSE j + 1]
<1>1. /\ Len(flight) \in Nat /\ DOMAIN flight = 1..Len(flight)
      /\ DOMAIN flight' = 1..Len(flight) - 1
      /\ \A j \in 1..Len(flight) - 1 : flight'[j] = IF j < i THEN flight[j] ELSE flight[j + 1]
  <2>1. i \in 1..Len(flight) /\ flight \in Seq(Requests)
    BY LenProperties DEF TypeInv
  <2>2. /\ flight' \in Seq(Requests)
        /\ Len(flight') = Len(flight) - 1
        /\ \A j \in 1..Len(flight) - 1 : flight'[j] = IF j < i THEN flight[j] ELSE flight[j + 1]
    BY <2>1, RemoveAtProperties
  <2> QED BY <2>1, <2>2, LenProperties
<1>2. ASSUME NEW j \in WritesInFlight'
      PROVE  /\ j \in 1..Len(flight) - 1
             /\ shift[j] \in WritesInFlight \ {i}
  <2>1. j \in 1..Len(flight) - 1 /\ flight'[j].kind # "list"
    BY <1>1, <1>2 DEF WritesInFlight
  <2>2. shift[j] = IF j < i THEN j ELSE j + 1
    BY <1>2
  <2>3. shift[j] \in 1..Len(flight) /\ shift[j] # i /\ flight[shift[j]].kind # "list"
    BY <1>1, <2>1, <2>2
  <2> QED BY <1>1, <2>1, <2>3 DEF WritesInFlight
<1>3. shift \in Injection(WritesInFlight', WritesInFlight \ {i})
  <2>1. shift \in [WritesInFlight' -> WritesInFlight \ {i}]
    BY <1>2
  <2>2. ASSUME NEW a \in WritesInFlight', NEW b \in WritesInFlight', shift[a] = shift[b]
        PROVE  a = b
    <3>1. a \in 1..Len(flight) - 1 /\ b \in 1..Len(flight) - 1
      BY <1>2
    <3>2. shift[a] = (IF a < i THEN a ELSE a + 1) /\ shift[b] = IF b < i THEN b ELSE b + 1
      OBVIOUS
    <3> QED BY <1>1, <2>2, <3>1, <3>2
  <2> QED BY <2>1, <2>2 DEF Injection, IsInjective
<1> HIDE DEF shift
<1>4. /\ IsFiniteSet(WritesInFlight \ {i})
      /\ Cardinality(WritesInFlight \ {i}) =
            IF i \in WritesInFlight THEN Cardinality(WritesInFlight) - 1
                                    ELSE Cardinality(WritesInFlight)
  BY FS_RemoveElement
<1>5. /\ IsFiniteSet(WritesInFlight')
      /\ Cardinality(WritesInFlight') <= Cardinality(WritesInFlight \ {i})
  BY <1>3, <1>4, FS_Injection
<1>6. i \in WritesInFlight <=> flight[i].kind # "list"
  BY DEF WritesInFlight
<1>7. Cardinality(WritesInFlight) \in Nat
  BY FS_CardinalityType
<1> QED BY <1>4, <1>5, <1>6, <1>7

-----------------------------------------------------------------------------
LEMMA InitHolds == Init => IndInv
<1> SUFFICES ASSUME Init PROVE IndInv
  OBVIOUS
<1>1. flight = <<>> /\ DOMAIN flight = {}
  BY DEF Init
<1>2. TypeInv
  <2>1. flight \in Seq(Requests)
    BY <1>1, EmptySeq
  <2>2. drinks \in [level : {"none", "public", "detailed"}, version : 0..version]
    BY DEF Init
  <2>3. 0 \in 0..MaxClicks /\ 0 \in 0..MaxVersion /\ 0 \in 0..0
    BY PageAssumption
  <2>4. /\ exchanging \in BOOLEAN /\ leaving \in BOOLEAN /\ loading \in BOOLEAN
        /\ editing \in BOOLEAN /\ listFailed \in BOOLEAN
    BY DEF Init
  <2> QED BY <2>1, <2>2, <2>3, <2>4 DEF Init, TypeInv
<1>3. ReloadsCounted
  <2>1. WritesInFlight = {}
    BY <1>1 DEF WritesInFlight
  <2> QED BY <2>1, FS_EmptySet DEF Init, ReloadsCounted
<1> QED BY <1>1, <1>2, <1>3 DEF Init, IndInv, NoneAhead, PageKeepsUp

\* Each request in flight is one.
LEMMA FlightTyped ==
  ASSUME TypeInv, NEW i \in DOMAIN flight
  PROVE  /\ flight[i] \in Requests /\ flight[i].kind \in {"list", "save", "remove"}
         /\ flight[i].detailed \in BOOLEAN /\ flight[i].reply \in {"none", "ok", "failed"}
         /\ flight[i].version \in 0..MaxVersion /\ flight[i].version \in Nat
<1>1. flight \in Seq(Requests) /\ i \in 1..Len(flight)
  BY LenProperties DEF TypeInv
<1>2. flight[i] \in Requests
  BY <1>1, ElementOfSeq
<1> QED BY <1>2, PageAssumption DEF Requests

\* What touches neither requests nor reloads nor the list leaves it true; the
\* menu may grow, the user may sign in and out and open the form.
LEMMA FarFromFlight ==
  ASSUME IndInv, UNCHANGED <<counter, ranFor, drinks, loading, flight, own, listFailed>>,
         role' \in {"guest", "barista", "manager"}, exchanging' \in BOOLEAN,
         leaving' \in BOOLEAN, editing' \in BOOLEAN, clicks' \in clicks..MaxClicks,
         version' \in version..MaxVersion
  PROVE  IndInv'
<1>1. TypeInv'
  BY DEF IndInv, TypeInv
<1>2. WritesInFlight' = WritesInFlight
  BY DEF WritesInFlight
<1>3. ReloadsCounted'
  <2>1. Cardinality(WritesInFlight) \in Nat
    BY FS_CardinalityType DEF IndInv, ReloadsCounted
  <2> QED BY <1>2, <2>1, PageAssumption DEF IndInv, ReloadsCounted, TypeInv
<1>4. NoneAhead'
  <2>1. \A i \in DOMAIN flight : flight[i].version \in Int
    BY FlightTyped DEF IndInv
  <2> QED BY <2>1, PageAssumption DEF IndInv, NoneAhead, TypeInv
<1>5. PageKeepsUp'
  BY DEF IndInv, PageKeepsUp, LatestList, NoList
<1> QED BY <1>1, <1>3, <1>4, <1>5 DEF IndInv

LEMMA TokenArrivesStep == IndInv /\ TokenArrives => IndInv'
<1> SUFFICES ASSUME IndInv, TokenArrives PROVE IndInv'
  OBVIOUS
<1>1. /\ role' \in {"guest", "barista", "manager"} /\ exchanging' \in BOOLEAN
      /\ leaving' \in BOOLEAN /\ editing' \in BOOLEAN /\ clicks' \in clicks..MaxClicks
      /\ version' \in version..MaxVersion
  <2>1. exchanging' \in BOOLEAN /\ leaving' \in BOOLEAN /\ editing' \in BOOLEAN
    BY DEF IndInv, TypeInv, TokenArrives
  <2>2. role' \in {"guest", "barista", "manager"}
    BY DEF IndInv, TypeInv, TokenArrives
  <2>3. clicks' \in clicks..MaxClicks /\ version' \in version..MaxVersion
    BY PageAssumption DEF IndInv, TypeInv, TokenArrives
  <2> QED BY <2>1, <2>2, <2>3
<1> QED BY <1>1, FarFromFlight DEF TokenArrives

LEMMA SignOutStep == IndInv /\ SignOut => IndInv'
<1> SUFFICES ASSUME IndInv, SignOut PROVE IndInv'
  OBVIOUS
<1>1. /\ role' \in {"guest", "barista", "manager"} /\ exchanging' \in BOOLEAN
      /\ leaving' \in BOOLEAN /\ editing' \in BOOLEAN /\ clicks' \in clicks..MaxClicks
      /\ version' \in version..MaxVersion
  BY PageAssumption DEF IndInv, TypeInv, SignOut, Click
<1> QED BY <1>1, FarFromFlight DEF SignOut

\* A new page starts afresh.
LEMMA UnloadStep == IndInv /\ Unload => IndInv'
<1> SUFFICES ASSUME IndInv, Unload PROVE IndInv'
  OBVIOUS
<1>1. /\ flight' = <<>> /\ DOMAIN flight' = {} /\ ranFor' = <<>> /\ counter' = 0
      /\ drinks' = [level |-> "none", version |-> 0] /\ own' = 0
      /\ UNCHANGED <<role, version, clicks>>
  BY DEF Unload
<1>2. TypeInv'
  <2>1. flight' \in Seq(Requests)
    BY <1>1, EmptySeq
  <2>2. /\ exchanging' \in BOOLEAN /\ leaving' \in BOOLEAN /\ loading' \in BOOLEAN
        /\ editing' \in BOOLEAN /\ listFailed' \in BOOLEAN
    BY DEF Unload
  <2>3. drinks' \in [level : {"none", "public", "detailed"}, version : 0..version']
    BY <1>1, PageAssumption DEF IndInv, TypeInv
  <2>4. own' \in 0..version' /\ counter' \in Nat
    BY <1>1, PageAssumption DEF IndInv, TypeInv
  <2> QED BY <1>1, <2>1, <2>2, <2>3, <2>4 DEF IndInv, TypeInv
<1>3. ReloadsCounted'
  <2>1. WritesInFlight' = {}
    BY <1>1 DEF WritesInFlight
  <2>2. IsFiniteSet(WritesInFlight') /\ Cardinality(WritesInFlight') = 0
    BY <2>1, FS_EmptySet
  <2> QED BY <1>1, <2>2, PageAssumption DEF IndInv, TypeInv, ReloadsCounted
<1> QED BY <1>1, <1>2, <1>3 DEF IndInv, NoneAhead, PageKeepsUp

LEMMA ToggleFormStep == IndInv /\ ToggleForm => IndInv'
<1> SUFFICES ASSUME IndInv, ToggleForm PROVE IndInv'
  OBVIOUS
<1>1. /\ role' \in {"guest", "barista", "manager"} /\ exchanging' \in BOOLEAN
      /\ leaving' \in BOOLEAN /\ editing' \in BOOLEAN /\ clicks' \in clicks..MaxClicks
      /\ version' \in version..MaxVersion
  BY PageAssumption DEF IndInv, TypeInv, ToggleForm, Click, user
<1> QED BY <1>1, FarFromFlight DEF ToggleForm

LEMMA OthersWriteStep == IndInv /\ OthersWrite => IndInv'
<1> SUFFICES ASSUME IndInv, OthersWrite PROVE IndInv'
  OBVIOUS
<1>1. /\ role' \in {"guest", "barista", "manager"} /\ exchanging' \in BOOLEAN
      /\ leaving' \in BOOLEAN /\ editing' \in BOOLEAN /\ clicks' \in clicks..MaxClicks
      /\ version' \in version..MaxVersion
  BY PageAssumption DEF IndInv, TypeInv, OthersWrite, user
<1> QED BY <1>1, FarFromFlight DEF OthersWrite

\* Refresh: another reload is due, so the page promises no more than before.
LEMMA RefreshStep == IndInv /\ Refresh => IndInv'
<1> SUFFICES ASSUME IndInv, Refresh PROVE IndInv'
  OBVIOUS
<1>1. TypeInv'
  BY PageAssumption DEF IndInv, TypeInv, Refresh, Click, user
<1>2. WritesInFlight' = WritesInFlight
  BY DEF WritesInFlight, Refresh
<1>3. ReloadsCounted'
  <2>1. Cardinality(WritesInFlight) \in Nat
    BY FS_CardinalityType DEF IndInv, ReloadsCounted
  <2> QED BY <1>2, <2>1, PageAssumption DEF IndInv, ReloadsCounted, TypeInv, Refresh, Click
<1>4. NoneAhead'
  BY DEF IndInv, NoneAhead, Refresh
<1>5. PageKeepsUp'
  <2>1. ranFor' # <<>> => ranFor'[2] # counter'
    BY DEF IndInv, TypeInv, Refresh
  <2> QED BY <2>1 DEF IndInv, PageKeepsUp, LatestList, NoList, Refresh
<1> QED BY <1>1, <1>3, <1>4, <1>5 DEF IndInv

\* A request is sent: the old ones keep their places.
LEMMA SendKeeps ==
  ASSUME IndInv, NEW kind \in {"list", "save", "remove"}, NEW detailed \in BOOLEAN,
         Send(kind, detailed), UNCHANGED <<counter, version>>,
         clicks' >= clicks + IF kind = "list" THEN 0 ELSE 1, clicks' \in Nat
  PROVE  /\ flight' \in Seq(Requests)
         /\ ReloadsCounted' /\ NoneAhead'
         /\ DOMAIN flight = 1..Len(flight) /\ DOMAIN flight' = 1..Len(flight) + 1
         /\ Len(flight) \in Nat
         /\ \A i \in 1..Len(flight) : flight'[i] = flight[i]
         /\ flight'[Len(flight) + 1].kind = kind
         /\ flight'[Len(flight) + 1].detailed = detailed
         /\ flight'[Len(flight) + 1].reply = "none"
<1>0. TypeInv /\ ReloadsCounted /\ NoneAhead
  BY DEF IndInv
<1>1. /\ flight' \in Seq(Requests)
      /\ Len(flight') = Len(flight) + 1
      /\ \A i \in 1..Len(flight) : flight'[i] = flight[i]
      /\ flight'[Len(flight) + 1].kind = kind
      /\ flight'[Len(flight) + 1].detailed = detailed
      /\ flight'[Len(flight) + 1].reply = "none"
      /\ flight'[Len(flight) + 1].version = 0
  BY <1>0, SendProperties
<1>2. DOMAIN flight = 1..Len(flight) /\ DOMAIN flight' = 1..Len(flight) + 1 /\ Len(flight) \in Nat
  BY <1>0, <1>1, LenProperties DEF TypeInv
<1>3. ReloadsCounted'
  <2>1. /\ IsFiniteSet(WritesInFlight')
        /\ Cardinality(WritesInFlight') =
              Cardinality(WritesInFlight) + IF kind = "list" THEN 0 ELSE 1
    BY <1>0, SendCounts DEF ReloadsCounted
  <2>2. Cardinality(WritesInFlight) \in Nat
    BY <1>0, FS_CardinalityType DEF ReloadsCounted
  <2> QED BY <1>0, <2>1, <2>2, PageAssumption DEF ReloadsCounted, TypeInv
<1>4. NoneAhead'
  <2>1. version \in Nat
    BY <1>0, PageAssumption DEF TypeInv
  <2> QED BY <1>0, <1>1, <1>2, <2>1 DEF NoneAhead
<1> QED BY <1>1, <1>2, <1>3, <1>4

\* The effect: its fetch becomes the latest.
LEMMA RunEffectStep == IndInv /\ RunEffect => IndInv'
<1> SUFFICES ASSUME IndInv, RunEffect PROVE IndInv'
  OBVIOUS
<1>0. /\ Detailed \in BOOLEAN /\ Send("list", Detailed)
      /\ UNCHANGED <<user, counter, drinks, editing, version, clicks, own, listFailed>>
      /\ ranFor' = <<Detailed, counter>> /\ loading' = TRUE /\ clicks \in Nat
  BY PageAssumption DEF RunEffect, CounterKept, Inputs, Detailed, IndInv, TypeInv
<1>1. /\ flight' \in Seq(Requests)
      /\ ReloadsCounted' /\ NoneAhead'
      /\ DOMAIN flight = 1..Len(flight) /\ DOMAIN flight' = 1..Len(flight) + 1
      /\ Len(flight) \in Nat
      /\ flight'[Len(flight) + 1].kind = "list"
      /\ flight'[Len(flight) + 1].detailed = Detailed
      /\ flight'[Len(flight) + 1].reply = "none"
  BY <1>0, SendKeeps
<1>2. TypeInv'
  BY <1>0, <1>1 DEF IndInv, TypeInv, user
<1>3. PageKeepsUp'
  <2>0. PICK n \in Nat : n = Len(flight) + 1
    BY <1>1
  <2>1. /\ n \in DOMAIN flight' /\ flight'[n].kind = "list"
        /\ flight'[n].detailed = Detailed /\ flight'[n].reply = "none"
        /\ \A j \in DOMAIN flight' : j > n => flight'[j].kind # "list"
    BY <1>1, <2>0
  <2>2. LatestList(n)'
    BY <2>1 DEF LatestList
  <2>3. flight'[n].detailed = ranFor'[1]
    BY <1>0, <2>1
  <2>4. flight'[n].reply # "ok"
    BY <2>1
  <2> QED BY <2>1, <2>2, <2>3, <2>4 DEF PageKeepsUp
<1> QED BY <1>1, <1>2, <1>3 DEF IndInv

\* A write joins the requests and is no fetch.
LEMMA WriteStep ==
  ASSUME IndInv, NEW kind \in {"save", "remove"}, Write(kind)
  PROVE  IndInv'
<1>0. /\ Send(kind, FALSE) /\ clicks' = clicks + 1 /\ clicks' \in 0..MaxClicks
      /\ UNCHANGED <<user, counter, ranFor, drinks, loading, editing, version, own, listFailed>>
      /\ clicks \in Nat
  <2>1. clicks \in 0..MaxClicks
    BY DEF IndInv, TypeInv
  <2>2. clicks < MaxClicks /\ clicks' = clicks + 1
    BY DEF Write, Click
  <2>3. Send(kind, FALSE)
    BY DEF Write
  <2>4. UNCHANGED <<user, counter, ranFor, drinks, loading, editing, version, own, listFailed>>
    BY DEF Write
  <2>5. clicks' \in 0..MaxClicks /\ clicks \in Nat
    BY <2>1, <2>2, PageAssumption
  <2> QED BY <2>2, <2>3, <2>4, <2>5
<1>1. /\ flight' \in Seq(Requests)
      /\ ReloadsCounted' /\ NoneAhead'
      /\ DOMAIN flight = 1..Len(flight) /\ DOMAIN flight' = 1..Len(flight) + 1
      /\ Len(flight) \in Nat
      /\ \A i \in 1..Len(flight) : flight'[i] = flight[i]
      /\ flight'[Len(flight) + 1].kind = kind
  <2>1. clicks' >= clicks + (IF kind = "list" THEN 0 ELSE 1) /\ clicks' \in Nat
    BY <1>0
  <2> QED BY <1>0, <2>1, SendKeeps
<1>2. TypeInv'
  BY <1>0, <1>1 DEF IndInv, TypeInv, user
<1>3. \A j \in DOMAIN flight' : j \in DOMAIN flight \/ flight'[j].kind # "list"
  BY <1>1
<1>4. PageKeepsUp'
  <2>1. ASSUME NEW i \in DOMAIN flight, LatestList(i) PROVE LatestList(i)'
    BY <1>1, <1>3, <2>1 DEF LatestList
  <2>2. ASSUME NoList PROVE NoList'
    BY <1>1, <1>3, <2>2 DEF NoList
  <2>3. \A i \in DOMAIN flight : i \in DOMAIN flight' /\ flight'[i] = flight[i]
    BY <1>1
  <2> QED BY <1>0, <2>1, <2>2, <2>3 DEF IndInv, PageKeepsUp
<1> QED BY <1>1, <1>2, <1>4 DEF IndInv

\* An answer fills in a request and changes nothing else in flight.
LEMMA ReplyProperties ==
  ASSUME TypeInv, NEW i \in DOMAIN flight, NEW reply \in {"ok", "failed"},
         NEW v \in 0..MaxVersion,
         flight' = [flight EXCEPT ![i].reply = reply, ![i].version = v]
  PROVE  /\ flight' \in Seq(Requests) /\ DOMAIN flight' = DOMAIN flight
         /\ \A j \in DOMAIN flight :
               /\ flight'[j].kind = flight[j].kind /\ flight'[j].detailed = flight[j].detailed
               /\ j # i => flight'[j] = flight[j]
         /\ flight'[i].reply = reply /\ flight'[i].version = v
<1> DEFINE e == [flight[i] EXCEPT !.reply = reply, !.version = v]
<1>1. flight \in Seq(Requests) /\ i \in 1..Len(flight) /\ flight[i] \in Requests
  BY FlightTyped, LenProperties DEF TypeInv
<1>2. /\ e \in Requests /\ e.kind = flight[i].kind /\ e.detailed = flight[i].detailed
      /\ e.reply = reply /\ e.version = v
  BY <1>1 DEF Requests
<1>3. flight' = [flight EXCEPT ![i] = e]
  BY <1>1
<1> HIDE DEF e
<1>4. /\ [flight EXCEPT ![i] = e] \in Seq(Requests)
      /\ Len([flight EXCEPT ![i] = e]) = Len(flight)
      /\ \A j \in 1..Len(flight) : [flight EXCEPT ![i] = e][j] = IF j = i THEN e ELSE flight[j]
  <2>1. e \in Requests
    BY <1>2
  <2> QED BY <1>1, <2>1, ExceptSeq
<1>5. DOMAIN flight' = DOMAIN flight /\ DOMAIN flight = 1..Len(flight)
  BY <1>1, <1>3, <1>4, LenProperties
<1> QED BY <1>1, <1>2, <1>3, <1>4, <1>5

\* The server answers the menu as it then is: no older than what was reported.
LEMMA ReplyStep ==
  ASSUME IndInv, NEW i \in DOMAIN flight, Reply(i)
  PROVE  IndInv'
<1>0. /\ version' \in version..MaxVersion /\ version \in Nat /\ version' \in Nat
      /\ own \in 0..version
  BY PageAssumption DEF Reply, IndInv, TypeInv
<1>1. PICK reply \in {"ok", "failed"} :
         /\ reply = "ok" => (flight[i].kind # "list" <=> version' # version)
         /\ flight' = [flight EXCEPT ![i].reply = reply,
                                     ![i].version = IF reply = "ok" THEN version' ELSE 0]
  BY DEF Reply
<1>2. PICK v \in 0..MaxVersion : v = IF reply = "ok" THEN version' ELSE 0
  BY <1>0, PageAssumption
<1>3. /\ flight' \in Seq(Requests) /\ DOMAIN flight' = DOMAIN flight
      /\ \A j \in DOMAIN flight :
            /\ flight'[j].kind = flight[j].kind /\ flight'[j].detailed = flight[j].detailed
            /\ j # i => flight'[j] = flight[j]
      /\ flight'[i].reply = reply /\ flight'[i].version = v
  <2>1. flight' = [flight EXCEPT ![i].reply = reply, ![i].version = v]
    BY <1>1, <1>2
  <2>2. TypeInv
    BY DEF IndInv
  <2> QED BY <2>1, <2>2, ReplyProperties
<1>4. UNCHANGED <<user, counter, ranFor, drinks, loading, editing, clicks, own, listFailed>>
  BY DEF Reply
<1>5. TypeInv'
  <2>1. version' \in 0..MaxVersion /\ own' \in 0..version'
    BY <1>0, <1>4, PageAssumption
  <2>2. drinks' \in [level : {"none", "public", "detailed"}, version : 0..version']
    BY <1>0, <1>4, PageAssumption DEF IndInv, TypeInv
  <2> QED BY <1>3, <1>4, <2>1, <2>2 DEF IndInv, TypeInv, user
<1>6. ReloadsCounted'
  <2>1. WritesInFlight' = WritesInFlight
    BY <1>3 DEF WritesInFlight
  <2> QED BY <1>4, <2>1 DEF IndInv, ReloadsCounted
<1>7. NoneAhead'
  <2>1. v <= version'
    BY <1>0, <1>2
  <2>2. ASSUME NEW j \in DOMAIN flight, j # i PROVE flight'[j].version <= version'
    <3>1. flight[j].version \in Nat /\ flight[j].version <= version
      BY FlightTyped DEF IndInv, NoneAhead
    <3> QED BY <1>0, <1>3, <2>2, <3>1
  <2> QED BY <1>3, <2>1, <2>2 DEF NoneAhead
<1>8. PageKeepsUp'
  <2>1. ASSUME NEW k \in DOMAIN flight, LatestList(k) PROVE LatestList(k)'
    BY <1>3, <2>1 DEF LatestList
  <2>2. ASSUME NoList PROVE NoList'
    BY <1>3, <2>2 DEF NoList
  <2>3. ASSUME NEW k \in DOMAIN flight, LatestList(k),
               flight[k].reply = "ok" => flight[k].version >= own,
               flight'[k].reply = "ok"
        PROVE  flight'[k].version >= own
    <3>1. CASE k # i
      BY <1>3, <2>3, <3>1
    <3>2. CASE k = i
      <4>1. flight'[k].version = version'
        BY <1>2, <1>3, <2>3, <3>2
      <4> QED BY <1>0, <4>1
    <3> QED BY <3>1, <3>2
  <2>4. InOrder /\ ranFor # <<>> =>
           \/ \E k \in DOMAIN flight' :
                 /\ LatestList(k)'
                 /\ flight'[k].detailed = ranFor[1]
                 /\ ranFor[2] = counter /\ flight'[k].reply = "ok" => flight'[k].version >= own
           \/ /\ NoList'
              /\ ~listFailed => drinks.level = Level(ranFor[1])
              /\ ~listFailed /\ ranFor[2] = counter => drinks.version >= own
    BY <1>3, <2>1, <2>2, <2>3 DEF IndInv, PageKeepsUp
  <2> QED BY <1>4, <2>4 DEF PageKeepsUp
<1> QED BY <1>5, <1>6, <1>7, <1>8 DEF IndInv

\* What is left in flight after an answer has arrived.
LEMMA DeliverKeeps ==
  ASSUME IndInv, NEW i \in DOMAIN flight, Deliver(i)
  PROVE  /\ flight' \in Seq(Requests) /\ Len(flight) \in Nat
         /\ DOMAIN flight = 1..Len(flight) /\ DOMAIN flight' = 1..Len(flight) - 1
         /\ \A j \in DOMAIN flight' : flight'[j] = IF j < i THEN flight[j] ELSE flight[j + 1]
         /\ NoneAhead'
<1>1. /\ flight \in Seq(Requests) /\ i \in 1..Len(flight)
      /\ Len(flight) \in Nat /\ DOMAIN flight = 1..Len(flight)
  BY LenProperties DEF IndInv, TypeInv
<1>2. flight' = RemoveAt(flight, i) /\ version' = version
  BY DEF Deliver
<1>3. /\ flight' \in Seq(Requests)
      /\ Len(flight') = Len(flight) - 1
      /\ \A j \in 1..Len(flight) - 1 :
            flight'[j] = IF j < i THEN flight[j] ELSE flight[j + 1]
  BY <1>1, <1>2, RemoveAtProperties
<1>4. DOMAIN flight' = 1..Len(flight) - 1
  BY <1>3, LenProperties
<1>5. NoneAhead'
  <2>1. ASSUME NEW j \in DOMAIN flight' PROVE flight'[j].version <= version'
    <3>1. j \in DOMAIN flight /\ j + 1 \in DOMAIN flight
      BY <1>1, <1>4
    <3>2. flight[j].version <= version /\ flight[j + 1].version <= version
      BY <3>1 DEF IndInv, NoneAhead
    <3> QED BY <1>2, <1>3, <1>4, <3>2
  <2> QED BY <2>1 DEF NoneAhead
<1> QED BY <1>1, <1>3, <1>4, <1>5

\* With answers in order, what arrives is the oldest request: the latest fetch
\* moves up by one, or it is the one that arrives.
LEMMA LatestMovesUp ==
  ASSUME IndInv, InOrder, NEW i \in DOMAIN flight, Deliver(i), NEW k \in DOMAIN flight,
         LatestList(k)
  PROVE  \/ k = i /\ NoList'
         \/ \E n \in DOMAIN flight' : n = k - 1 /\ LatestList(n)' /\ flight'[n] = flight[k]
<1>1. i = 1
  BY DEF Deliver
<1>2. /\ Len(flight) \in Nat
      /\ DOMAIN flight = 1..Len(flight) /\ DOMAIN flight' = 1..Len(flight) - 1
      /\ \A j \in DOMAIN flight' : j + 1 \in DOMAIN flight /\ flight'[j] = flight[j + 1]
  <2>1. /\ Len(flight) \in Nat
        /\ DOMAIN flight = 1..Len(flight) /\ DOMAIN flight' = 1..Len(flight) - 1
        /\ \A j \in DOMAIN flight' : flight'[j] = IF j < i THEN flight[j] ELSE flight[j + 1]
    BY DeliverKeeps
  <2> QED BY <1>1, <2>1
<1>3. CASE k = 1
  <2>1. \A j \in DOMAIN flight' : j + 1 > k
    BY <1>2, <1>3
  <2> QED BY <1>1, <1>2, <1>3, <2>1 DEF LatestList, NoList
<1>4. CASE k # 1
  <2>1. PICK n \in DOMAIN flight' : n = k - 1
    BY <1>2, <1>4
  <2>2. flight'[n] = flight[k]
    BY <1>2, <2>1
  <2>3. ASSUME NEW j \in DOMAIN flight', j > n PROVE flight'[j].kind # "list"
    <3>1. j + 1 \in DOMAIN flight /\ j + 1 > k
      BY <1>2, <2>1, <2>3
    <3> QED BY <1>2, <3>1 DEF LatestList
  <2>4. LatestList(n)'
    BY <2>1, <2>2, <2>3 DEF LatestList
  <2> QED BY <2>1, <2>2, <2>4
<1> QED BY <1>3, <1>4

\* Without a fetch in flight none appears.
LEMMA StillNoList ==
  ASSUME IndInv, NEW i \in DOMAIN flight, Deliver(i), NoList
  PROVE  NoList'
<1>1. /\ Len(flight) \in Nat
      /\ DOMAIN flight = 1..Len(flight) /\ DOMAIN flight' = 1..Len(flight) - 1
      /\ \A j \in DOMAIN flight' : flight'[j] = IF j < i THEN flight[j] ELSE flight[j + 1]
  BY DeliverKeeps
<1>2. \A j \in DOMAIN flight' : j \in DOMAIN flight /\ j + 1 \in DOMAIN flight
  BY <1>1
<1> QED BY <1>1, <1>2 DEF NoList

\* A list arrives: the page shows it, whatever its age.
LEMMA ListArrivesStep ==
  ASSUME IndInv, NEW i \in DOMAIN flight, Deliver(i), flight[i].kind = "list"
  PROVE  IndInv'
<1> DEFINE got == flight[i]
<1>0. /\ got \in Requests /\ got.detailed \in BOOLEAN /\ got.reply \in {"ok", "failed"}
      /\ got.version \in Nat /\ got.version <= version
  BY FlightTyped DEF IndInv, NoneAhead, Deliver
<1>1. /\ drinks' = IF got.reply = "ok" THEN [level |-> Level(got.detailed), version |-> got.version]
                                      ELSE drinks
      /\ loading' = FALSE
      /\ listFailed' = (got.reply = "failed")
      /\ UNCHANGED <<counter, editing, own>> /\ UNCHANGED <<user, ranFor, version, clicks>>
      /\ flight' = RemoveAt(flight, i)
  BY DEF Deliver, ListArrives, LoadingAfter
<1>2. /\ flight' \in Seq(Requests) /\ NoneAhead'
  BY DeliverKeeps
<1>3. TypeInv'
  <2>1. drinks' \in [level : {"none", "public", "detailed"}, version : 0..version']
    <3>1. CASE got.reply = "ok"
      <4>1. Level(got.detailed) \in {"none", "public", "detailed"}
        BY DEF Level
      <4>2. got.version \in 0..version'
        BY <1>0, <1>1, PageAssumption DEF IndInv, TypeInv
      <4> QED BY <1>1, <3>1, <4>1, <4>2
    <3>2. CASE got.reply # "ok"
      BY <1>1, <3>2 DEF IndInv, TypeInv
    <3> QED BY <3>1, <3>2
  <2>2. loading' \in BOOLEAN /\ listFailed' \in BOOLEAN
    BY <1>1
  <2> QED BY <1>1, <1>2, <2>1, <2>2 DEF IndInv, TypeInv, user
<1>4. ReloadsCounted'
  <2>1. /\ IsFiniteSet(WritesInFlight')
        /\ Cardinality(WritesInFlight') <= Cardinality(WritesInFlight) - 0
    BY <1>1, RemoveCounts DEF IndInv, ReloadsCounted
  <2>2. Cardinality(WritesInFlight) \in Nat /\ Cardinality(WritesInFlight') \in Nat
    BY <2>1, FS_CardinalityType DEF IndInv, ReloadsCounted
  <2> QED BY <1>1, <2>1, <2>2, PageAssumption DEF IndInv, ReloadsCounted, TypeInv
<1>5. PageKeepsUp'
  <2> SUFFICES ASSUME InOrder, ranFor # <<>> PROVE PageKeepsUp'
    BY <1>1 DEF PageKeepsUp
  <2>1. ~NoList
    BY DEF NoList
  <2>2. PICK k \in DOMAIN flight :
           /\ LatestList(k)
           /\ flight[k].detailed = ranFor[1]
           /\ ranFor[2] = counter /\ flight[k].reply = "ok" => flight[k].version >= own
    BY <2>1 DEF IndInv, PageKeepsUp
  <2>3. CASE k = i /\ NoList'
    <3>1. ~listFailed' => /\ drinks'.level = Level(ranFor[1])
                         /\ drinks'.version = got.version /\ got.reply = "ok"
      BY <1>0, <1>1, <2>2, <2>3
    <3> QED BY <1>1, <2>2, <2>3, <3>1 DEF PageKeepsUp
  <2>4. CASE \E n \in DOMAIN flight' : n = k - 1 /\ LatestList(n)' /\ flight'[n] = flight[k]
    <3>1. PICK n \in DOMAIN flight' : LatestList(n)' /\ flight'[n] = flight[k]
      BY <2>4
    <3> QED BY <1>1, <2>2, <3>1 DEF PageKeepsUp
  <2> QED BY <2>2, <2>3, <2>4, LatestMovesUp
<1> QED BY <1>2, <1>3, <1>4, <1>5 DEF IndInv

\* A write is answered: a success makes another reload due.
LEMMA WriteArrivesStep ==
  ASSUME IndInv, NEW i \in DOMAIN flight, Deliver(i), flight[i].kind # "list"
  PROVE  IndInv'
<1> DEFINE got == flight[i]
<1>0. /\ got \in Requests /\ got.reply \in {"ok", "failed"}
      /\ got.version \in Nat /\ got.version <= version /\ got.kind \in {"save", "remove"}
  BY FlightTyped DEF IndInv, NoneAhead, Deliver
<1>1. /\ counter' = IF got.reply = "ok" THEN counter + 1 ELSE counter
      /\ own' = IF got.reply = "ok" /\ got.version > own THEN got.version ELSE own
      /\ editing' = (editing /\ got.kind = "remove")
      /\ UNCHANGED <<drinks, loading, listFailed>> /\ UNCHANGED <<user, ranFor, version, clicks>>
      /\ flight' = RemoveAt(flight, i)
  BY DEF Deliver, WriteArrives, ReloadAfter
<1>2. /\ flight' \in Seq(Requests) /\ NoneAhead'
  BY DeliverKeeps
<1>3. TypeInv'
  <2>1. counter' \in Nat /\ counter' >= counter /\ counter \in Nat
    BY <1>1 DEF IndInv, TypeInv
  <2>2. ranFor' \in {<<>>} \cup BOOLEAN \X (0..counter')
    <3>1. \A n \in 0..counter : n \in 0..counter'
      BY <2>1
    <3> QED BY <1>1, <3>1 DEF IndInv, TypeInv
  <2>3. own' \in 0..version'
    BY <1>0, <1>1, PageAssumption DEF IndInv, TypeInv
  <2>4. editing' \in BOOLEAN
    BY <1>1
  <2> QED BY <1>1, <1>2, <2>1, <2>2, <2>3, <2>4 DEF IndInv, TypeInv, user
<1>4. ReloadsCounted'
  <2>1. /\ IsFiniteSet(WritesInFlight')
        /\ Cardinality(WritesInFlight') <= Cardinality(WritesInFlight) - 1
    BY <1>1, RemoveCounts DEF IndInv, ReloadsCounted
  <2>2. Cardinality(WritesInFlight) \in Nat /\ Cardinality(WritesInFlight') \in Nat
    BY <2>1, FS_CardinalityType DEF IndInv, ReloadsCounted
  <2> QED BY <1>1, <2>1, <2>2, PageAssumption DEF IndInv, ReloadsCounted, TypeInv
<1>5. PageKeepsUp'
  <2> SUFFICES ASSUME InOrder, ranFor # <<>> PROVE PageKeepsUp'
    BY <1>1 DEF PageKeepsUp
  <2>0. ranFor[2] = counter' => counter' = counter /\ own' = own
    <3>1. ranFor[2] <= counter /\ ranFor[2] \in Nat /\ counter \in Nat
      BY DEF IndInv, TypeInv
    <3> QED BY <1>1, <3>1
  <2>1. ASSUME NoList,
               ~listFailed => drinks.level = Level(ranFor[1]),
               ~listFailed /\ ranFor[2] = counter => drinks.version >= own
        PROVE  PageKeepsUp'
    <3>1. NoList'
      BY <2>1, StillNoList
    <3> QED BY <1>1, <2>0, <2>1, <3>1 DEF PageKeepsUp
  <2>2. ASSUME NEW k \in DOMAIN flight, LatestList(k),
               flight[k].detailed = ranFor[1],
               ranFor[2] = counter /\ flight[k].reply = "ok" => flight[k].version >= own
        PROVE  PageKeepsUp'
    <3>1. k # i
      BY <2>2 DEF LatestList
    <3>2. PICK n \in DOMAIN flight' : LatestList(n)' /\ flight'[n] = flight[k]
      BY <2>2, <3>1, LatestMovesUp
    <3> QED BY <1>1, <2>0, <2>2, <3>2 DEF PageKeepsUp
  <2> QED BY <2>1, <2>2 DEF IndInv, PageKeepsUp
<1> QED BY <1>2, <1>3, <1>4, <1>5 DEF IndInv

LEMMA StutterStep == IndInv /\ UNCHANGED vars => IndInv'
BY DEF IndInv, TypeInv, ReloadsCounted, WritesInFlight, NoneAhead, PageKeepsUp, LatestList,
       NoList, vars, user

LEMMA Invariance == Spec => []IndInv
<1>1. IndInv /\ [Next]_vars => IndInv'
  <2> SUFFICES ASSUME IndInv, [Next]_vars PROVE IndInv'
    OBVIOUS
  <2>1. CASE TokenArrives
    BY <2>1, TokenArrivesStep
  <2>2. CASE SignOut
    BY <2>2, SignOutStep
  <2>3. CASE RunEffect
    BY <2>3, RunEffectStep
  <2>4. CASE Refresh
    BY <2>4, RefreshStep
  <2>5. CASE ToggleForm
    BY <2>5, ToggleFormStep
  <2>6. CASE Write("save") \/ Write("remove")
    BY <2>6, WriteStep
  <2>7. CASE Answer
    BY <2>7, ReplyStep DEF Answer
  <2>8. CASE OthersWrite
    BY <2>8, OthersWriteStep
  <2>9. CASE Arrive
    BY <2>9, ListArrivesStep, WriteArrivesStep DEF Arrive
  <2>10. CASE UNCHANGED vars
    BY <2>10, StutterStep
  <2>11. CASE Unload
    BY <2>11, UnloadStep
  <2> QED BY <2>1, <2>2, <2>3, <2>4, <2>5, <2>6, <2>7, <2>8, <2>9, <2>10, <2>11 DEF Next
<1> QED BY <1>1, InitHolds, PTL DEF Spec

-----------------------------------------------------------------------------
\* Every variable has its type, whatever the order of the answers; each reload
\* stems from a click (Refresh, or a write of save or remove that succeeded).
THEOREM TypeCorrect == Spec => []TypeOK
<1>1. IndInv => TypeOK
  <2> SUFFICES ASSUME IndInv PROVE TypeOK
    OBVIOUS
  <2>1. Cardinality(WritesInFlight) \in Nat
    BY FS_CardinalityType DEF IndInv, ReloadsCounted
  <2>2. counter \in 0..clicks
    BY <2>1, PageAssumption DEF IndInv, TypeInv, ReloadsCounted
  <2> QED BY <2>2 DEF IndInv, TypeInv, TypeOK
<1> QED BY <1>1, Invariance, PTL

\* With answers in order, the settled page shows the menu at the level of the
\* present token (fetchDrinks).
THEOREM LevelSettles ==
  ASSUME InOrder
  PROVE  Spec => []SettledLevel
<1>1. IndInv => SettledLevel
  <2> SUFFICES ASSUME IndInv, Settled, ~listFailed
               PROVE  drinks.level = Level(Detailed)
    BY DEF SettledLevel
  <2>1. DOMAIN flight = {} /\ ranFor = <<Detailed, counter>>
    BY DEF Settled, Inputs
  <2> QED BY <2>1 DEF IndInv, PageKeepsUp
<1> QED BY <1>1, Invariance, PTL

\* With answers in order, the settled page shows every write it has reported
\* (save and remove call load).
THEOREM OwnWritesShow ==
  ASSUME InOrder
  PROVE  Spec => []ReadsOwnWrites
<1>1. IndInv => ReadsOwnWrites
  <2> SUFFICES ASSUME IndInv, Settled, ~listFailed
               PROVE  drinks.version >= own
    BY DEF ReadsOwnWrites
  <2>1. DOMAIN flight = {} /\ ranFor = <<Detailed, counter>>
    BY DEF Settled, Inputs
  <2> QED BY <2>1 DEF IndInv, PageKeepsUp
<1> QED BY <1>1, Invariance, PTL

=============================================================================
