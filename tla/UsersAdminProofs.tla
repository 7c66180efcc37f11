-------------------------- MODULE UsersAdminProofs --------------------------
(***************************************************************************)
(* Proofs about UsersAdmin, for every set of accounts, threads and worker  *)
(* processes, every distribution of roles at the start and every bound on  *)
(* faults and requests.                                                    *)
(***************************************************************************)
EXTENDS UsersAdmin, FiniteSetTheorems, TLAPS

\* The calls each handler makes.
PathOf(op) ==
    IF op = "read" THEN {"caller", "lookup", "remember", "look"}
    ELSE IF op = "create" THEN {"caller", "lookup", "remember", "roleIds", "post",
                                "assign", "rollback", "ticket"}
    ELSE IF op = "update" THEN {"target", "caller", "lookup", "remember", "update",
                                "roleIds", "strip", "assign", "clear", "final"}
    ELSE {"target", "caller", "lookup", "remember", "delete", "wiped"}

\* Before the caller's roles are known.
Undecided == {"target", "caller", "lookup", "remember"}

\* The invariant of the tenant: accounts, roles, and what was ever true of them.
TenantInv ==
    /\ exists \subseteq everExisted /\ everExisted \subseteq Users
    /\ roles \in [Users -> SUBSET Roles] /\ everHeld \in [Users -> SUBSET Roles]
    /\ blocked \subseteq exists
    /\ \A u \in Users :
          /\ roles[u] \subseteq everHeld[u]
          /\ u \notin exists => roles[u] = {}
          /\ u \notin everExisted => everHeld[u] = {}

\* A token, and a cached answer, name roles the account has held.
TokensInv ==
    /\ rolesClaim \in BOOLEAN
    /\ claim \in [Users -> SUBSET Roles] /\ capable \in [Users -> BOOLEAN]
    /\ \A u \in Users : claim[u] \subseteq everHeld[u]
    /\ \A u \in Users : capable[u] => u \in everExisted

CacheInv ==
    /\ cache \in [Workers -> [Users -> (SUBSET Roles) \cup {Unknown}]]
    /\ \A w \in Workers : /\ IsFiniteSet(Entries(w))
                          /\ Cardinality(Entries(w)) <= CacheBound + 1
    /\ \A w \in Workers, u \in Users : cache[w][u] = Unknown \/ cache[w][u] \subseteq everHeld[u]

GrantsInv ==
    /\ grants \subseteq [by : Users, to : Users, role : Roles]
    /\ ChainOfCommand

AuditInv ==
    /\ audit \subseteq Rows
    /\ \A row \in audit : row.on \in everExisted
    /\ AuditTellsTheTruth

CountsInv == faults \in [Faults -> Nat] /\ requests \in 0..MaxRequests

SharedInv == TenantInv /\ TokensInv /\ CacheInv /\ GrantsInv /\ AuditInv /\ CountsInv

\* What a handler knows of its caller was true once.
KnowsCaller(r) ==
    /\ r.actor \in everExisted
    /\ r.claim \subseteq everHeld[r.actor] /\ r.view \subseteq everHeld[r.actor]
    /\ r.rank <= RankOf(everHeld[r.actor])

\* What it knows of its target: a role at the top of the ladder is never new.
KnowsTarget(r) ==
    /\ r.op \in {"update", "delete"} => r.target \in Users
    /\ r.op \in {"update", "delete"} /\ r.pc # "target" =>
          /\ r.target \in everExisted /\ r.seen \subseteq everHeld[r.target]
          /\ "administrator" \in roles[r.target] => "administrator" \in r.seen
    /\ r.pc \in {"assign", "rollback", "ticket"} /\ r.op = "create" =>
          /\ r.target \in everExisted /\ r.target # r.actor
          /\ "administrator" \notin roles[r.target]

\* The checks it made on its way.
Checked(r) ==
    /\ r.op \in {"update", "delete"} /\ r.pc \notin Undecided => MayAdminister(r, r.rank)
    /\ r.pc \in {"roleIds", "strip", "assign", "post", "rollback", "ticket"} =>
          MayGrant(r, r.rank)

\* What it is about to report has happened.
Reports(r) ==
    /\ r.pc = "ticket" => [by |-> r.actor, to |-> r.target, role |-> r.role] \in grants
    /\ r.pc = "clear" => r.role \in everHeld[r.target]
    /\ r.pc = "final" => r.role \in everHeld[r.target] \cup {NoRole}
    /\ r.pc = "wiped" => r.target \notin exists

Consistent(r) == r.pc # "done" =>
    /\ r.pc \in PathOf(r.op)
    /\ KnowsCaller(r) /\ KnowsTarget(r) /\ Checked(r) /\ Reports(r)

HandlersInv ==
    /\ h \in [Threads -> Handlers]
    /\ \A t \in Threads : Consistent(h[t])

IndInv == SharedInv /\ HandlersInv

-----------------------------------------------------------------------------
\* The ladder of roles.
LEMMA RankRange == ASSUME NEW S PROVE RankOf(S) \in -1..2
BY DEF RankOf

\* More roles, no lower rank.
LEMMA RankMonotone ==
  ASSUME NEW S, NEW T, S \subseteq T
  PROVE  RankOf(S) <= RankOf(T)
BY DEF RankOf

\* Who is outranked is no administrator.
LEMMA TopOfLadder ==
  ASSUME NEW S, NEW n \in -1..2, RankOf(S) < n
  PROVE  "administrator" \notin S
BY DEF RankOf

\* A handler that moves on to another call stays what it is.
LEMMA ToFields ==
  ASSUME NEW r \in Handlers, NEW s \in Steps
  PROVE  /\ To(r, s) \in Handlers /\ To(r, s).pc = s
         /\ To(r, s).op = r.op /\ To(r, s).actor = r.actor /\ To(r, s).target = r.target
         /\ To(r, s).role = r.role /\ To(r, s).block = r.block /\ To(r, s).claim = r.claim
         /\ To(r, s).seen = r.seen /\ To(r, s).view = r.view /\ To(r, s).rank = r.rank
         /\ To(r, s).changed = r.changed /\ To(r, s).audited = r.audited
         /\ To(r, s).answer = r.answer
BY DEF To, Handlers

\* A thread at rest is one, too.
LEMMA NoRequestIsHandler == NoRequest \in Handlers /\ NoRequest.pc = "done"
<1>1. "done" \in Steps /\ NoUser \in Users \cup {NoUser} /\ {} \in SUBSET Roles
      /\ NoRole \in Roles \cup {NoRole, "unlisted"} /\ -1 \in -1..2
  BY DEF Steps
<1>2. NoRequest.pc = "done"
  BY DEF NoRequest
<1> HIDE DEF Steps, Roles, NoRole
<1> QED BY <1>1, <1>2 DEF NoRequest, Handlers

\* A handler that answers is done.
LEMMA EndFields ==
  ASSUME NEW r \in Handlers, NEW a \in {"ok", "forbidden", "invalid", "error"}
  PROVE  End(r, a) \in Handlers /\ End(r, a).pc = "done" /\ End(r, a).answer = a
<1>1. NoRequest \in Handlers /\ NoRequest.pc = "done"
  BY NoRequestIsHandler
<1>2. r.changed \in BOOLEAN /\ r.audited \in BOOLEAN
  BY DEF Handlers
<1> DEFINE first == [NoRequest EXCEPT !.changed = r.changed]
           second == [first EXCEPT !.audited = r.audited]
<1> HIDE DEF NoRequest
<1>3. first \in Handlers /\ first.pc = "done"
  BY <1>1, <1>2 DEF Handlers
<1>4. second \in Handlers /\ second.pc = "done"
  BY <1>2, <1>3 DEF Handlers
<1>5. End(r, a) = [second EXCEPT !.answer = a]
  BY DEF End
<1> HIDE DEF second
<1> QED BY <1>4, <1>5 DEF Handlers

\* A handler on its way with the same request, q after r.
SameRequest(q, r) ==
    /\ q.op = r.op /\ q.actor = r.actor /\ q.target = r.target /\ q.role = r.role
    /\ q.block = r.block /\ q.claim = r.claim /\ q.seen = r.seen

\* The same but for what it has seen of its target.
SameButSeen(q, r) ==
    /\ q.op = r.op /\ q.actor = r.actor /\ q.target = r.target /\ q.role = r.role
    /\ q.claim = r.claim /\ q.view = r.view /\ q.rank = r.rank

\* The next call of a handler that may go on with its caller's roles S.
GoesOn(q, r, S) ==
    /\ SameRequest(q, r) /\ q.view = r.view /\ q.rank = RankOf(S)
    /\ q.pc = IF r.op = "read" THEN "look" ELSE IF r.op = "create" THEN "roleIds" ELSE r.op
    /\ r.op = "create" => MayGrant(r, RankOf(S))
    /\ r.op \in {"update", "delete"} => MayAdminister(r, RankOf(S))

\* What Decide returns: the end of the request, or its next call.
LEMMA DecideFields ==
  ASSUME NEW r \in Handlers, NEW S \in SUBSET Roles
  PROVE  /\ Decide(r, S) \in Handlers
         /\ Decide(r, S).pc = "done" \/ GoesOn(Decide(r, S), r, S)
<1> DEFINE known == [r EXCEPT !.rank = RankOf(S)]
<1>1. /\ known \in Handlers /\ SameRequest(known, r)
      /\ known.view = r.view /\ known.rank = RankOf(S)
  BY RankRange DEF Handlers, SameRequest
<1>2. r.op \in {"read", "create", "update", "delete"}
  BY DEF Handlers
<1>3. Decide(r, S) =
         IF r.op = "read" THEN To(known, "look")
         ELSE IF r.op = "create"
              THEN IF MayGrant(r, RankOf(S)) THEN To(known, "roleIds") ELSE End(known, "forbidden")
         ELSE IF MayAdminister(r, RankOf(S)) THEN To(known, r.op) ELSE End(known, "forbidden")
  BY <1>2 DEF Decide, DecideCreate, DecideUpdate, DecideDelete
<1> HIDE DEF known
<1>4. /\ "look" \in Steps /\ "roleIds" \in Steps /\ "update" \in Steps /\ "delete" \in Steps
  BY DEF Steps
<1>5. End(known, "forbidden") \in Handlers /\ End(known, "forbidden").pc = "done"
  BY <1>1, EndFields
<1>6. \A s \in Steps : /\ To(known, s) \in Handlers /\ SameRequest(To(known, s), r)
                        /\ To(known, s).pc = s
                        /\ To(known, s).view = r.view /\ To(known, s).rank = RankOf(S)
  BY <1>1, ToFields DEF SameRequest
<1>7. CASE r.op = "read"
  BY <1>3, <1>4, <1>6, <1>7 DEF GoesOn
<1>8. CASE r.op = "create"
  BY <1>3, <1>4, <1>5, <1>6, <1>8 DEF GoesOn
<1>9. CASE r.op = "update"
  BY <1>3, <1>4, <1>5, <1>6, <1>9 DEF GoesOn
<1>10. CASE r.op = "delete"
  BY <1>3, <1>4, <1>5, <1>6, <1>10 DEF GoesOn
<1> QED BY <1>2, <1>7, <1>8, <1>9, <1>10

-----------------------------------------------------------------------------
\* The invariant at the start: nobody has held more than he holds, nothing is under way.
LEMMA InitHolds == Init => IndInv
<1> SUFFICES ASSUME Init PROVE IndInv
  OBVIOUS
<1> USE UsersAssumption
<1>1. TenantInv
  BY DEF Init, TenantInv, Accounts
<1>2. TokensInv
  <2>1. \A u \in Users : capable[u] => u \in everExisted
    <3> SUFFICES ASSUME NEW u \in Users, capable[u] PROVE u \in everExisted
      OBVIOUS
    <3>1. RankOf(roles[u]) >= 1
      BY DEF Init
    <3>2. roles[u] # {}
      BY <3>1 DEF RankOf
    <3> QED BY <3>2 DEF Init, Accounts
  <2>2. claim \in [Users -> SUBSET Roles] /\ \A u \in Users : claim[u] \subseteq everHeld[u]
    BY DEF Init, Accounts
  <2>3. rolesClaim \in BOOLEAN /\ capable \in [Users -> BOOLEAN]
    BY DEF Init
  <2> QED BY <2>1, <2>2, <2>3 DEF TokensInv
<1>3. CacheInv
  <2>1. \A w \in Workers : Entries(w) = {}
    BY DEF Init, Entries
  <2>2. \A w \in Workers, u \in Users : cache[w][u] = Unknown
    BY DEF Init
  <2>3. cache \in [Workers -> [Users -> (SUBSET Roles) \cup {Unknown}]]
    BY DEF Init
  <2>4. IsFiniteSet({}) /\ Cardinality({}) <= CacheBound + 1
    BY FS_EmptySet
  <2>5. \A w \in Workers : /\ IsFiniteSet(Entries(w))
                            /\ Cardinality(Entries(w)) <= CacheBound + 1
    BY <2>1, <2>4
  <2> QED BY <2>2, <2>3, <2>5 DEF CacheInv
<1>4. GrantsInv /\ AuditInv
  BY DEF Init, GrantsInv, AuditInv, ChainOfCommand, AuditTellsTheTruth
<1>5. CountsInv
  BY DEF Init, CountsInv
<1>6. HandlersInv
  <2>1. NoRequest \in Handlers /\ NoRequest.pc = "done"
    BY NoRequestIsHandler
  <2> HIDE DEF NoRequest
  <2> QED BY <2>1 DEF Init, HandlersInv, Consistent
<1> QED BY <1>1, <1>2, <1>3, <1>4, <1>5, <1>6 DEF IndInv, SharedInv

-----------------------------------------------------------------------------
\* What no step of anybody takes back.
Grows ==
    /\ everExisted \subseteq everExisted'
    /\ \A u \in Users : everHeld[u] \subseteq everHeld'[u]
    /\ \A u \in everExisted : u \in exists' => u \in exists
    /\ \A u \in Users : "administrator" \in roles'[u] => "administrator" \in roles[u]
    /\ grants \subseteq grants'

\* So what a handler q knows, has checked or can report stays true in a step.
LEMMA CallerCarries ==
  ASSUME IndInv, SharedInv', Grows, NEW t \in Threads, NEW q \in Handlers, h'[t] = q,
         KnowsCaller(q)
  PROVE  KnowsCaller(h[t])'
<1>1. q.actor \in Users
  BY DEF KnowsCaller, IndInv, SharedInv, TenantInv
<1>2. everHeld[q.actor] \subseteq everHeld'[q.actor]
  BY <1>1 DEF Grows
<1>3. RankOf(everHeld[q.actor]) <= RankOf(everHeld'[q.actor])
  BY <1>2, RankMonotone
<1>4. /\ RankOf(everHeld[q.actor]) \in Int /\ RankOf(everHeld'[q.actor]) \in Int
      /\ q.rank \in Int
  BY RankRange DEF Handlers
<1>5. q.rank <= RankOf(everHeld'[q.actor])
  BY <1>3, <1>4 DEF KnowsCaller
<1> QED BY <1>2, <1>5 DEF KnowsCaller, Grows

\* What it knows of its target stays true, as nobody becomes an administrator.
LEMMA TargetCarries ==
  ASSUME IndInv, SharedInv', Grows, NEW t \in Threads, NEW q \in Handlers, h'[t] = q,
         KnowsTarget(q)
  PROVE  KnowsTarget(h[t])'
<1>1. everExisted \subseteq Users
  BY DEF IndInv, SharedInv, TenantInv
<1> QED BY <1>1 DEF KnowsTarget, Grows

\* Its checks are about what it read, which stays as it is.
LEMMA ChecksCarry ==
  ASSUME NEW t \in Threads, NEW q \in Handlers, h'[t] = q, Checked(q)
  PROVE  Checked(h[t])'
BY DEF Checked, MayAdminister, MayGrant

\* What it can report stays so.
LEMMA ReportsCarry ==
  ASSUME IndInv, SharedInv', Grows, NEW t \in Threads, NEW q \in Handlers, h'[t] = q,
         q.pc \in PathOf(q.op), KnowsTarget(q), Reports(q)
  PROVE  Reports(h[t])'
<1>1. q.pc \in {"clear", "final", "wiped"} => q.target \in everExisted
  BY DEF KnowsTarget, PathOf, Handlers
<1>2. everExisted \subseteq Users
  BY DEF IndInv, SharedInv, TenantInv
<1> QED BY <1>1, <1>2 DEF Reports, Grows

\* In particular nothing is lost while the handler's own call changes nothing it knows.
LEMMA ConsistencyCarries ==
  ASSUME IndInv, SharedInv', Grows, NEW t \in Threads, NEW q \in Handlers, h'[t] = q,
         Consistent(q)
  PROVE  Consistent(h[t])'
<1> SUFFICES ASSUME q.pc # "done" PROVE Consistent(h[t])'
  BY DEF Consistent
<1>1. q.pc \in PathOf(q.op) /\ KnowsCaller(q) /\ KnowsTarget(q) /\ Checked(q) /\ Reports(q)
  BY DEF Consistent
<1>2. KnowsCaller(h[t])' /\ KnowsTarget(h[t])' /\ Checked(h[t])' /\ Reports(h[t])'
  BY <1>1, CallerCarries, TargetCarries, ChecksCarry, ReportsCarry
<1> QED BY <1>1, <1>2 DEF Consistent

\* A step of one thread: what is left to show about it.
LEMMA OneThreadMoves ==
  ASSUME IndInv, SharedInv', Grows, NEW t \in Threads, NEW q,
         Set(t, q), q \in Handlers, Consistent(h[t])'
  PROVE  IndInv'
<1>1. h' \in [Threads -> Handlers] /\ \A s \in Threads : s # t => h'[s] = h[s]
  BY DEF Set, IndInv, HandlersInv
<1>2. \A s \in Threads : Consistent(h[s])'
  BY <1>1, ConsistencyCarries DEF IndInv, HandlersInv
<1> QED BY <1>1, <1>2 DEF IndInv, HandlersInv

\* The parts of the shared state that a step leaves alone.
LEMMA NoGrowthNeeded ==
  ASSUME SharedInv, UNCHANGED <<tenant, history>>
  PROVE  Grows /\ TenantInv' /\ GrantsInv'
BY DEF tenant, history, Grows, SharedInv, TenantInv, GrantsInv, ChainOfCommand

\* Tokens name roles that were held.
LEMMA TokensStay ==
  ASSUME SharedInv, Grows, UNCHANGED tokens
  PROVE  TokensInv'
<1>1. \A u \in Users : claim[u] \subseteq everHeld'[u]
  BY DEF SharedInv, TokensInv, Grows
<1> QED BY <1>1 DEF SharedInv, TokensInv, Grows, tokens

\* So do caches.
LEMMA CacheStays ==
  ASSUME SharedInv, Grows, UNCHANGED cache
  PROVE  CacheInv'
<1>1. \A w \in Workers, u \in Users : cache[w][u] = Unknown \/ cache[w][u] \subseteq everHeld'[u]
  BY DEF SharedInv, CacheInv, Grows
<1> QED BY <1>1 DEF SharedInv, CacheInv, Entries

\* The rows of the audit log stay true.
LEMMA AuditStays ==
  ASSUME SharedInv, Grows, UNCHANGED audit
  PROVE  AuditInv'
<1>1. audit \subseteq Rows /\ everExisted \subseteq Users
  BY DEF SharedInv, AuditInv, TenantInv
<1>2. \A row \in audit : row.on \in everExisted'
  BY DEF SharedInv, AuditInv, Grows
<1>3. ASSUME NEW row \in audit
      PROVE  CASE row.action = "deleted" -> row.on \notin exists'
               [] row.action = "created" ->
                     [by |-> row.by, to |-> row.on, role |-> row.role] \in grants'
               [] row.action = "updated" -> row.role \in everHeld'[row.on] \cup {NoRole}
  <2>1. row.action \in {"created", "updated", "deleted"} /\ row.on \in everExisted
        /\ row.on \in Users
    BY <1>1 DEF Rows, SharedInv, AuditInv
  <2>2. CASE row.action = "deleted"
    BY <2>1, <2>2 DEF SharedInv, AuditInv, AuditTellsTheTruth, Grows
  <2>3. CASE row.action = "created"
    BY <2>1, <2>3 DEF SharedInv, AuditInv, AuditTellsTheTruth, Grows
  <2>4. CASE row.action = "updated"
    BY <2>1, <2>4 DEF SharedInv, AuditInv, AuditTellsTheTruth, Grows
  <2> QED BY <2>1, <2>2, <2>3, <2>4
<1> QED BY <1>1, <1>2, <1>3 DEF AuditInv, AuditTellsTheTruth

\* The counters of failures stay counters.
LEMMA FaultsAreCounted ==
  ASSUME SharedInv, Works \/ \E kind : Fault(kind)
  PROVE  faults' \in [Faults -> Nat]
<1>1. faults \in [Faults -> Nat]
  BY DEF SharedInv, CountsInv
<1>2. CASE Works
  BY <1>1, <1>2 DEF Works
<1>3. ASSUME NEW kind, Fault(kind) PROVE faults' \in [Faults -> Nat]
  BY <1>1, <1>3 DEF Fault
<1> QED BY <1>2, <1>3

\* A handler that only reads.
LEMMA ReadingIsSafe ==
  ASSUME IndInv, UNCHANGED <<tenant, tokens, cache, audit, requests, history>>,
         Works \/ \E kind : Fault(kind)
  PROVE  SharedInv' /\ Grows
<1>1. SharedInv
  BY DEF IndInv
<1>2. Grows /\ TenantInv' /\ GrantsInv'
  BY <1>1, NoGrowthNeeded
<1>3. TokensInv' /\ CacheInv' /\ AuditInv'
  BY <1>1, <1>2, TokensStay, CacheStays, AuditStays
<1>4. CountsInv'
  BY <1>1, FaultsAreCounted DEF SharedInv, CountsInv
<1> QED BY <1>2, <1>3, <1>4 DEF SharedInv

\* A handler answers.
LEMMA AnswersKeepInv ==
  ASSUME IndInv, SharedInv', Grows, NEW t \in Threads, NEW r \in Handlers,
         NEW a \in {"ok", "forbidden", "invalid", "error"}, Set(t, End(r, a))
  PROVE  IndInv'
<1>1. End(r, a) \in Handlers /\ Consistent(End(r, a))
  BY EndFields DEF Consistent
<1>2. h'[t] = End(r, a)
  BY DEF Set, IndInv, HandlersInv
<1>3. Consistent(h[t])'
  BY <1>1, <1>2, ConsistencyCarries
<1> QED BY <1>1, <1>3, OneThreadMoves

\* A handler goes on as q, and q knows nothing that was not so before.
LEMMA GoingOnKeepsInv ==
  ASSUME IndInv, SharedInv', Grows, NEW t \in Threads, NEW q \in Handlers, Set(t, q),
         Consistent(q)
  PROVE  IndInv'
<1>1. h'[t] = q
  BY DEF Set, IndInv, HandlersInv
<1>2. Consistent(h[t])'
  BY <1>1, ConsistencyCarries
<1> QED BY <1>2, OneThreadMoves

\* What is known of a handler that is about to make a call.
LEMMA OnItsWay ==
  ASSUME IndInv, NEW t \in Threads, h[t].pc # "done"
  PROVE  /\ h[t] \in Handlers /\ h[t].pc \in PathOf(h[t].op)
         /\ h[t].op \in {"read", "create", "update", "delete"}
         /\ KnowsCaller(h[t]) /\ KnowsTarget(h[t]) /\ Checked(h[t]) /\ Reports(h[t])
         /\ h[t].actor \in Users
<1>1. h[t] \in Handlers /\ Consistent(h[t])
  BY DEF IndInv, HandlersInv
<1> QED BY <1>1 DEF Consistent, KnowsCaller, Handlers, IndInv, SharedInv, TenantInv

\* A call that brings no answer, seen as a fault or none.
LEMMA FailedCalls ==
  ASSUME NEW u, CallFails(u) \/ Refused(u) \/ AnswerFails
  PROVE  Works \/ \E kind : Fault(kind)
BY DEF CallFails, Refused, AnswerFails

\* A write that takes effect though the handler sees it raise is a fault.
LEMMA FailedAnswers ==
  ASSUME AnswerFails
  PROVE  \E kind \in {"lost", "unreadable"} : Fault(kind)
BY DEF AnswerFails

-----------------------------------------------------------------------------
\* The handlers' reads.
LEMMA ReadTargetStep ==
  ASSUME IndInv, NEW t \in Threads, ReadTarget(t)
  PROVE  IndInv'
<1> DEFINE r == h[t]
           q == [r EXCEPT !.pc = "caller", !.seen = roles[r.target]]
<1>1. r.pc = "target" /\ r.pc # "done"
  BY DEF ReadTarget
<1>2. /\ r \in Handlers /\ r.pc \in PathOf(r.op)
      /\ r.op \in {"read", "create", "update", "delete"}
      /\ KnowsCaller(r) /\ KnowsTarget(r) /\ r.actor \in Users
  BY <1>1, OnItsWay
<1>3. SharedInv' /\ Grows
  BY FailedCalls, ReadingIsSafe DEF ReadTarget
<1>4. CASE r.target \in exists /\ Set(t, q)
  <2>1. r.op \in {"update", "delete"} /\ r.target \in Users
    BY <1>1, <1>2 DEF PathOf, KnowsTarget
  <2>2. r.target \in everExisted /\ roles[r.target] \in SUBSET Roles
        /\ roles[r.target] \subseteq everHeld[r.target]
    BY <1>4, <2>1 DEF IndInv, SharedInv, TenantInv
  <2>3. q \in Handlers
    BY <1>2, <2>2 DEF Handlers, Steps
  <2>4. SameButSeen(q, r) /\ q.pc = "caller" /\ q.seen = roles[r.target]
    BY <1>2 DEF Handlers, SameButSeen
  <2> HIDE DEF q
  <2>5. KnowsCaller(q)
    BY <1>2, <2>4 DEF KnowsCaller, SameButSeen
  <2>6. KnowsTarget(q)
    BY <2>1, <2>2, <2>4 DEF KnowsTarget, SameButSeen
  <2>7. Checked(q) /\ Reports(q) /\ q.pc \in PathOf(q.op)
    BY <2>1, <2>4 DEF Checked, Reports, Undecided, PathOf, SameButSeen
  <2> QED BY <1>3, <1>4, <2>3, <2>5, <2>6, <2>7, GoingOnKeepsInv DEF Consistent
<1>5. CASE Set(t, End(r, "error"))
  BY <1>2, <1>3, <1>5, AnswersKeepInv
<1> QED BY <1>4, <1>5 DEF ReadTarget

\* A handler that learns its caller's roles S, all of which the caller has held.
LEMMA DecisionKeepsInv ==
  ASSUME IndInv, SharedInv', Grows, NEW t \in Threads, NEW S \in SUBSET Roles,
         h[t].pc \in {"caller", "remember"}, S \subseteq everHeld[h[t].actor],
         Set(t, Decide(h[t], S))
  PROVE  IndInv'
<1> DEFINE r == h[t]
           q == Decide(r, S)
<1>1. /\ r \in Handlers /\ r.pc \in PathOf(r.op)
      /\ r.op \in {"read", "create", "update", "delete"}
      /\ KnowsCaller(r) /\ KnowsTarget(r) /\ r.actor \in Users
  BY OnItsWay
<1>2. q \in Handlers /\ (q.pc = "done" \/ GoesOn(q, r, S))
  BY <1>1, DecideFields
<1> HIDE DEF q
<1>3. CASE q.pc = "done"
  BY <1>2, <1>3, GoingOnKeepsInv DEF Consistent, q
<1>4. CASE GoesOn(q, r, S)
  <2>1. KnowsCaller(q)
    <3>1. RankOf(S) <= RankOf(everHeld[r.actor])
      BY RankMonotone
    <3> QED BY <1>1, <1>4, <3>1 DEF KnowsCaller, GoesOn, SameRequest
  <2>2. q.pc \in PathOf(q.op)
    BY <1>1, <1>4 DEF GoesOn, SameRequest, PathOf
  <2>3. KnowsTarget(q)
    BY <1>1, <1>4 DEF KnowsTarget, GoesOn, SameRequest
  <2>4. Checked(q)
    BY <1>1, <1>4 DEF Checked, GoesOn, SameRequest, MayAdminister, MayGrant
  <2>5. Reports(q)
    BY <1>1, <1>4 DEF Reports, GoesOn
  <2> QED BY <1>2, <2>1, <2>2, <2>3, <2>4, <2>5, GoingOnKeepsInv DEF Consistent, q
<1> QED BY <1>2, <1>3, <1>4

\* caller_roles: from the token, from the cache, or still to ask.
LEMMA ResolveCallerStep ==
  ASSUME IndInv, NEW t \in Threads, ResolveCaller(t)
  PROVE  IndInv'
<1> DEFINE r == h[t]
           cached == cache[WorkerOf[t]][r.actor]
<1>1. /\ r.pc = "caller" /\ Works
      /\ UNCHANGED <<tenant, tokens, cache, audit, requests, history>>
  BY DEF ResolveCaller, Works
<1>2. /\ r \in Handlers /\ r.pc \in PathOf(r.op)
      /\ r.op \in {"read", "create", "update", "delete"}
      /\ KnowsCaller(r) /\ KnowsTarget(r) /\ r.actor \in Users
  BY <1>1, OnItsWay
<1>3. SharedInv' /\ Grows
  BY <1>1, ReadingIsSafe
<1>4. CASE r.claim # {} /\ Set(t, Decide(r, r.claim))
  <2>1. r.claim \in SUBSET Roles /\ r.claim \subseteq everHeld[r.actor]
    BY <1>2 DEF Handlers, KnowsCaller
  <2> QED BY <1>1, <1>3, <1>4, <2>1, DecisionKeepsInv
<1>5. CASE cached # Unknown /\ Set(t, Decide(r, cached))
  <2>1. WorkerOf[t] \in Workers
    BY UsersAssumption
  <2>2. cached \in SUBSET Roles /\ cached \subseteq everHeld[r.actor]
    BY <1>2, <1>5, <2>1 DEF IndInv, SharedInv, CacheInv
  <2> QED BY <1>1, <1>3, <1>5, <2>2, DecisionKeepsInv
<1>6. CASE Set(t, To(r, "lookup"))
  <2> DEFINE q == To(r, "lookup")
  <2>1. q \in Handlers /\ SameRequest(q, r) /\ q.view = r.view /\ q.rank = r.rank
        /\ q.pc = "lookup"
    BY <1>2, ToFields DEF Steps, SameRequest
  <2> HIDE DEF q
  <2>2. KnowsCaller(q) /\ KnowsTarget(q)
    BY <1>1, <1>2, <2>1 DEF KnowsCaller, KnowsTarget, SameRequest
  <2>3. Checked(q) /\ Reports(q) /\ q.pc \in PathOf(q.op)
    BY <1>1, <1>2, <2>1 DEF Checked, Reports, Undecided, PathOf, SameRequest
  <2> QED BY <1>3, <1>6, <2>1, <2>2, <2>3, GoingOnKeepsInv DEF Consistent, q
<1> QED BY <1>4, <1>5, <1>6 DEF ResolveCaller

\* caller_roles: from Auth0, an error counting as no role.
LEMMA LookUpCallerStep ==
  ASSUME IndInv, NEW t \in Threads, LookUpCaller(t)
  PROVE  IndInv'
<1> DEFINE r == h[t]
           Found(S) == [r EXCEPT !.pc = "remember", !.view = S]
<1>1. r.pc = "lookup" /\ r.pc # "done"
  BY DEF LookUpCaller
<1>2. /\ r \in Handlers /\ r.pc \in PathOf(r.op)
      /\ r.op \in {"read", "create", "update", "delete"}
      /\ KnowsCaller(r) /\ KnowsTarget(r) /\ r.actor \in Users
  BY <1>1, OnItsWay
<1>3. SharedInv' /\ Grows
  BY FailedCalls, ReadingIsSafe DEF LookUpCaller
<1>4. ASSUME NEW S \in SUBSET Roles, S \subseteq everHeld[r.actor], Set(t, Found(S))
      PROVE  IndInv'
  <2> DEFINE q == Found(S)
  <2>1. q \in Handlers /\ SameRequest(q, r) /\ q.view = S /\ q.rank = r.rank
        /\ q.pc = "remember"
    BY <1>2 DEF Handlers, Steps, SameRequest
  <2> HIDE DEF q
  <2>2. KnowsCaller(q) /\ KnowsTarget(q)
    BY <1>1, <1>2, <1>4, <2>1 DEF KnowsCaller, KnowsTarget, SameRequest
  <2>3. Checked(q) /\ Reports(q) /\ q.pc \in PathOf(q.op)
    BY <1>1, <1>2, <2>1 DEF Checked, Reports, Undecided, PathOf, SameRequest
  <2> QED BY <1>3, <1>4, <2>1, <2>2, <2>3, GoingOnKeepsInv DEF Consistent, q
<1>5. roles[r.actor] \in SUBSET Roles /\ roles[r.actor] \subseteq everHeld[r.actor]
  BY <1>2 DEF IndInv, SharedInv, TenantInv
<1>6. CASE Set(t, Found(roles[r.actor]))
  BY <1>4, <1>5, <1>6
<1>7. CASE Set(t, Found({}))
  <2> DEFINE nothing == {}
  <2>1. nothing \in SUBSET Roles /\ nothing \subseteq everHeld[r.actor]
    OBVIOUS
  <2>2. Set(t, Found(nothing))
    BY <1>7
  <2> HIDE DEF nothing, Found
  <2> QED BY <1>4, <2>1, <2>2
<1>8. CASE Set(t, End(r, "error"))
  BY <1>2, <1>3, <1>8, AnswersKeepInv
<1> QED BY <1>6, <1>7, <1>8 DEF LookUpCaller

\* get_user answers.
LEMMA LookStep ==
  ASSUME IndInv, NEW t \in Threads, Look(t)
  PROVE  IndInv'
<1>1. h[t] \in Handlers
  BY DEF IndInv, HandlersInv
<1>2. SharedInv' /\ Grows
  BY FailedCalls, ReadingIsSafe DEF Look
<1>3. \E a \in {"ok", "error"} : Set(t, End(h[t], a))
  BY DEF Look
<1> QED BY <1>1, <1>2, <1>3, AnswersKeepInv

\* A handler that goes on after its checks with the same knowledge.
LEMMA NextCallKnows ==
  ASSUME IndInv, NEW t \in Threads, h[t].pc \notin Undecided \cup {"done"},
         NEW q \in Handlers, SameRequest(q, h[t]), q.view = h[t].view, q.rank = h[t].rank
  PROVE  /\ KnowsCaller(q)
         /\ h[t].op # "create" => KnowsTarget(q)
         /\ q.op \in {"update", "delete"} => MayAdminister(q, q.rank)
<1>1. h[t].pc # "done"
  BY DEF Undecided
<1>2. KnowsCaller(h[t]) /\ KnowsTarget(h[t]) /\ Checked(h[t])
  BY <1>1, OnItsWay
<1> QED BY <1>2 DEF KnowsCaller, KnowsTarget, Checked, SameRequest, MayAdminister, Undecided

\* After the stale roles are gone, the new role is still to assign, or was there.
LEMMA AfterStripKeepsInv ==
  ASSUME IndInv, SharedInv', Grows, NEW t \in Threads, h[t].pc \in {"roleIds", "strip"},
         h[t].op = "update", NEW r \in Handlers, SameRequest(r, h[t]), r.view = h[t].view,
         r.rank = h[t].rank, Set(t, AfterStrip(r))
  PROVE  IndInv'
<1> DEFINE step == IF r.role \notin r.seen THEN "assign" ELSE "clear"
           q == To(r, step)
<1>1. step \in Steps
  BY DEF Steps
<1> HIDE DEF step
<1>2. q \in Handlers /\ SameRequest(q, h[t]) /\ q.view = h[t].view /\ q.rank = h[t].rank
      /\ q.pc = step
  BY <1>1, ToFields DEF SameRequest
<1>3. Set(t, q)
  BY DEF AfterStrip, step
<1> HIDE DEF q
<1>4. h[t].pc # "done" /\ h[t].pc \notin Undecided \cup {"done"}
  BY DEF Undecided
<1>5. KnowsCaller(q) /\ KnowsTarget(q) /\ MayAdminister(q, q.rank)
  BY <1>2, <1>4, NextCallKnows DEF SameRequest
<1>6. Checked(q)
  <2>1. MayGrant(h[t], h[t].rank)
    BY <1>4, OnItsWay DEF Checked
  <2> QED BY <1>2, <1>5, <2>1 DEF Checked, MayGrant, SameRequest
<1>7. Reports(q)
  <2>1. h[t].seen \subseteq everHeld[h[t].target]
    BY <1>4, OnItsWay DEF KnowsTarget, Undecided
  <2> QED BY <1>2, <2>1 DEF Reports, SameRequest, step
<1>8. q.pc \in PathOf(q.op)
  BY <1>2 DEF PathOf, SameRequest, step
<1> QED BY <1>2, <1>3, <1>5, <1>6, <1>7, <1>8, GoingOnKeepsInv DEF Consistent

\* _role_ids_by_name, on the way to the first role call.
LEMMA ListRolesStep ==
  ASSUME IndInv, NEW t \in Threads, ListRoles(t)
  PROVE  IndInv'
<1> DEFINE r == h[t]
<1>1. r.pc = "roleIds" /\ r.pc # "done" /\ r.pc \notin Undecided \cup {"done"}
  BY DEF ListRoles, Undecided
<1>2. /\ r \in Handlers /\ r.pc \in PathOf(r.op)
      /\ r.op \in {"read", "create", "update", "delete"}
      /\ KnowsCaller(r) /\ KnowsTarget(r) /\ Checked(r) /\ r.actor \in Users
  BY <1>1, OnItsWay
<1>3. SharedInv' /\ Grows
  BY ReadingIsSafe DEF ListRoles
<1>4. r.op \in {"create", "update"}
  BY <1>1, <1>2 DEF PathOf
<1>5. ASSUME NEW s \in {"post", "strip"}, s = "post" <=> r.op = "create", Set(t, To(r, s))
      PROVE  IndInv'
  <2> DEFINE q == To(r, s)
  <2>1. q \in Handlers /\ SameRequest(q, r) /\ q.view = r.view /\ q.rank = r.rank /\ q.pc = s
    BY <1>2, ToFields DEF Steps, SameRequest
  <2> HIDE DEF q
  <2>2. KnowsCaller(q) /\ KnowsTarget(q)
    BY <1>1, <1>2, <1>4, <2>1 DEF KnowsCaller, KnowsTarget, SameRequest
  <2>3. Checked(q)
    BY <1>1, <1>2, <2>1 DEF Checked, SameRequest, MayGrant, MayAdminister, Undecided
  <2>4. Reports(q) /\ q.pc \in PathOf(q.op)
    BY <1>4, <1>5, <2>1 DEF Reports, PathOf, SameRequest
  <2> QED BY <1>3, <1>5, <2>1, <2>2, <2>3, <2>4, GoingOnKeepsInv DEF Consistent, q
<1>6. CASE r.op = "update" /\ Set(t, AfterStrip(r))
  <2>1. SameRequest(r, h[t])
    BY DEF SameRequest
  <2> QED BY <1>1, <1>2, <1>3, <1>6, <2>1, AfterStripKeepsInv
<1>7. CASE Set(t, End(r, "error"))
  BY <1>2, <1>3, <1>7, AnswersKeepInv
<1> QED BY <1>4, <1>5, <1>6, <1>7 DEF ListRoles

\* A request comes in, with what its token says.
LEMMA BeginStep ==
  ASSUME IndInv, NEW t \in Threads, Begin(t)
  PROVE  IndInv'
<1>1. PICK op \in Operations, actor \in {u \in Users : capable[u]}, target \in Users,
          role \in RoleInputs, block \in BlockInputs :
          Set(t, [NoRequest EXCEPT
                !.pc = IF op \in {"update", "delete"} THEN "target" ELSE "caller",
                !.op = op, !.actor = actor,
                !.target = IF op = "create" THEN NoUser ELSE target,
                !.role = role, !.block = block, !.claim = claim[actor]])
  BY DEF Begin
<1> DEFINE q == [NoRequest EXCEPT
                !.pc = IF op \in {"update", "delete"} THEN "target" ELSE "caller",
                !.op = op, !.actor = actor,
                !.target = IF op = "create" THEN NoUser ELSE target,
                !.role = role, !.block = block, !.claim = claim[actor]]
<1>2. actor \in everExisted /\ claim[actor] \in SUBSET Roles /\ claim[actor] \subseteq everHeld[actor]
  BY DEF IndInv, SharedInv, TokensInv
<1>3. op \in {"read", "create", "update", "delete"} /\ role \in Roles \cup {NoRole, "unlisted"}
      /\ block \in {"absent", "true", "false", "malformed"}
  BY UsersAssumption
<1>4. NoRequest \in Handlers /\ NoRequest.view = {} /\ NoRequest.rank = -1
  BY NoRequestIsHandler DEF NoRequest
<1>5. q \in Handlers
  <2> HIDE DEF NoRequest
  <2>1. (IF op \in {"update", "delete"} THEN "target" ELSE "caller") \in Steps
    BY DEF Steps
  <2>2. (IF op = "create" THEN NoUser ELSE target) \in Users \cup {NoUser}
    OBVIOUS
  <2> DEFINE step == IF op \in {"update", "delete"} THEN "target" ELSE "caller"
             whom == IF op = "create" THEN NoUser ELSE target
             one == [NoRequest EXCEPT !.pc = step, !.op = op, !.actor = actor]
             two == [one EXCEPT !.target = whom, !.role = role]
             three == [two EXCEPT !.block = block]
  <2>3. q = [three EXCEPT !.claim = claim[actor]]
    OBVIOUS
  <2> HIDE DEF step, whom
  <2>4. one \in Handlers
    BY <1>3, <1>4, <2>1 DEF Handlers, step
  <2> HIDE DEF one
  <2>5. two \in Handlers
    BY <1>3, <2>2, <2>4 DEF Handlers, whom
  <2> HIDE DEF two
  <2>6. three \in Handlers
    BY <1>3, <2>5 DEF Handlers
  <2> HIDE DEF three, q
  <2> QED BY <1>2, <2>3, <2>6 DEF Handlers
<1>6. /\ q.pc = IF op \in {"update", "delete"} THEN "target" ELSE "caller"
      /\ q.op = op /\ q.actor = actor /\ q.target = IF op = "create" THEN NoUser ELSE target
      /\ q.claim = claim[actor] /\ q.view = {} /\ q.rank = -1
  BY DEF NoRequest
<1> HIDE DEF q
<1>7. SharedInv' /\ Grows
  <2>1. SharedInv /\ UNCHANGED <<tenant, tokens, cache, audit, faults, history>>
    BY DEF Begin, IndInv
  <2>2. Grows /\ TenantInv' /\ GrantsInv'
    BY <2>1, NoGrowthNeeded
  <2>3. TokensInv' /\ CacheInv' /\ AuditInv'
    BY <2>1, <2>2, TokensStay, CacheStays, AuditStays
  <2>4. CountsInv'
    BY <2>1, UsersAssumption DEF Begin, SharedInv, CountsInv
  <2> QED BY <2>2, <2>3, <2>4 DEF SharedInv
<1>8. KnowsCaller(q)
  <2>1. RankOf(everHeld[actor]) >= -1
    BY RankRange
  <2> QED BY <1>2, <1>6, <2>1 DEF KnowsCaller
<1>9. KnowsTarget(q) /\ Checked(q) /\ Reports(q) /\ q.pc \in PathOf(q.op)
  BY <1>3, <1>6 DEF KnowsTarget, Checked, Reports, PathOf, Undecided
<1> QED BY <1>1, <1>5, <1>7, <1>8, <1>9, GoingOnKeepsInv DEF Consistent, q

-----------------------------------------------------------------------------
\* The cache: one entry more, one less, or none.
LEMMA CacheChanges ==
  ASSUME CacheInv, NEW w \in Workers, NEW entries \in [Users -> (SUBSET Roles) \cup {Unknown}],
         \A u \in Users : entries[u] = Unknown \/ entries[u] \subseteq everHeld[u],
         IsFiniteSet({u \in Users : entries[u] # Unknown}),
         Cardinality({u \in Users : entries[u] # Unknown}) <= CacheBound + 1,
         cache' = [cache EXCEPT ![w] = entries], UNCHANGED everHeld
  PROVE  CacheInv'
<1>1. /\ cache' \in [Workers -> [Users -> (SUBSET Roles) \cup {Unknown}]]
      /\ cache'[w] = entries
      /\ \A v \in Workers : v # w => cache'[v] = cache[v]
  BY DEF CacheInv
<1>2. ASSUME NEW v \in Workers
      PROVE  /\ IsFiniteSet(Entries(v)')
             /\ Cardinality(Entries(v)') <= CacheBound + 1
  <2>1. CASE v = w
    BY <1>1, <2>1 DEF Entries
  <2>2. CASE v # w
    <3>1. Entries(v)' = Entries(v)
      BY <1>1, <2>2 DEF Entries
    <3> QED BY <3>1 DEF CacheInv
  <2> QED BY <2>1, <2>2
<1>3. \A v \in Workers, u \in Users : cache'[v][u] = Unknown \/ cache'[v][u] \subseteq everHeld[u]
  BY <1>1 DEF CacheInv
<1> QED BY <1>1, <1>2, <1>3 DEF CacheInv

\* An emptied cache holds nothing.
LEMMA CacheCleared ==
  ASSUME CacheInv, NEW w \in Workers, UNCHANGED everHeld,
         cache' = [cache EXCEPT ![w] = [u \in Users |-> Unknown]]
  PROVE  CacheInv'
<1> DEFINE empty == [u \in Users |-> Unknown]
<1>1. empty \in [Users -> (SUBSET Roles) \cup {Unknown}] /\ \A u \in Users : empty[u] = Unknown
  OBVIOUS
<1>2. {u \in Users : empty[u] # Unknown} = {}
  BY <1>1
<1>3. IsFiniteSet({}) /\ Cardinality({}) <= CacheBound + 1
  BY FS_EmptySet, UsersAssumption
<1> HIDE DEF empty
<1> QED BY <1>1, <1>2, <1>3, CacheChanges DEF empty

\* _TTLCache.set: room is made, one entry is added.
LEMMA RememberCallerStep ==
  ASSUME IndInv, NEW t \in Threads, RememberCaller(t)
  PROVE  IndInv'
<1> DEFINE r == h[t]
           w == WorkerOf[t]
           room == MakeRoom(w)
           entries == [room EXCEPT ![r.actor] = r.view]
<1>1. /\ r.pc = "remember" /\ r.pc # "done" /\ cache' = [cache EXCEPT ![w] = entries]
      /\ UNCHANGED <<tenant, tokens, audit, faults, requests, history>>
      /\ Set(t, Decide(r, r.view))
  BY DEF RememberCaller
<1>2. r \in Handlers /\ KnowsCaller(r) /\ r.actor \in Users
  BY <1>1, OnItsWay
<1>3. r.view \in SUBSET Roles /\ r.view \subseteq everHeld[r.actor]
  BY <1>2 DEF Handlers, KnowsCaller
<1>4. w \in Workers /\ SharedInv
  BY UsersAssumption DEF IndInv
<1>5. Grows /\ TenantInv' /\ GrantsInv'
  BY <1>1, <1>4, NoGrowthNeeded
<1>6. CacheInv'
  <2> DEFINE Held(f) == {u \in Users : f[u] # Unknown}
  <2>1. /\ room \in [Users -> (SUBSET Roles) \cup {Unknown}]
        /\ \A u \in Users : room[u] = Unknown \/ room[u] \subseteq everHeld[u]
        /\ IsFiniteSet(Held(room)) /\ Cardinality(Held(room)) <= CacheBound
    <3>1. CASE Cardinality(Entries(w)) > CacheBound
      <4>1. room = [u \in Users |-> Unknown]
        BY <3>1 DEF MakeRoom
      <4>2. Held(room) = {}
        BY <4>1
      <4> QED BY <4>1, <4>2, FS_EmptySet, UsersAssumption
    <3>2. CASE ~(Cardinality(Entries(w)) > CacheBound)
      <4>1. room = cache[w] /\ Held(room) = Entries(w)
        BY <3>2 DEF MakeRoom, Entries
      <4>2. Cardinality(Entries(w)) \in Nat
        BY <1>4, FS_CardinalityType DEF SharedInv, CacheInv
      <4>3. IsFiniteSet(Held(room)) /\ Cardinality(Held(room)) <= CacheBound
        <5> HIDE DEF Held, room
        <5>1. IsFiniteSet(Entries(w)) /\ Cardinality(Entries(w)) <= CacheBound
          BY <1>4, <3>2, <4>2, UsersAssumption DEF SharedInv, CacheInv
        <5> QED BY <4>1, <5>1
      <4>4. /\ room \in [Users -> (SUBSET Roles) \cup {Unknown}]
            /\ \A u \in Users : room[u] = Unknown \/ room[u] \subseteq everHeld[u]
        BY <1>4, <4>1 DEF SharedInv, CacheInv
      <4> QED BY <4>3, <4>4
    <3> QED BY <3>1, <3>2
  <2> HIDE DEF room
  <2>2. Held(entries) \subseteq Held(room) \cup {r.actor}
    BY <2>1
  <2>3. /\ IsFiniteSet(Held(room) \cup {r.actor})
        /\ Cardinality(Held(room) \cup {r.actor}) <= CacheBound + 1
    <3>1. Cardinality(Held(room)) \in Nat
      BY <2>1, FS_CardinalityType
    <3>2. /\ IsFiniteSet(Held(room) \cup {r.actor})
          /\ Cardinality(Held(room) \cup {r.actor}) \in
                {Cardinality(Held(room)), Cardinality(Held(room)) + 1}
      <4> HIDE DEF Held, r
      <4> QED BY <2>1, FS_AddElement
    <3> QED BY <2>1, <3>1, <3>2, UsersAssumption
  <2>4. IsFiniteSet(Held(entries)) /\ Cardinality(Held(entries)) <= CacheBound + 1
    <3>1. IsFiniteSet(Held(entries)) /\
          Cardinality(Held(entries)) <= Cardinality(Held(room) \cup {r.actor})
      <4> HIDE DEF Held
      <4> QED BY <2>2, <2>3, FS_Subset
    <3>2. Cardinality(Held(entries)) \in Nat /\ Cardinality(Held(room) \cup {r.actor}) \in Nat
      BY <2>3, <3>1, FS_CardinalityType
    <3> QED BY <2>3, <3>1, <3>2, UsersAssumption
  <2>5. /\ entries \in [Users -> (SUBSET Roles) \cup {Unknown}]
        /\ \A u \in Users : entries[u] = Unknown \/ entries[u] \subseteq everHeld[u]
    BY <1>2, <1>3, <2>1
  <2>6. CacheInv /\ UNCHANGED everHeld
    BY <1>1, <1>4 DEF SharedInv, history
  <2> HIDE DEF entries
  <2> QED BY <1>1, <1>4, <2>4, <2>5, <2>6, CacheChanges
<1>7. TokensInv' /\ AuditInv'
  BY <1>1, <1>4, <1>5, TokensStay, AuditStays
<1>8. CountsInv'
  BY <1>1, <1>4 DEF SharedInv, CountsInv
<1>9. SharedInv'
  BY <1>5, <1>6, <1>7, <1>8 DEF SharedInv
<1> QED BY <1>1, <1>3, <1>5, <1>9, DecisionKeepsInv

\* The shared state, when a worker's cache is emptied.
LEMMA ClearingIsSafe ==
  ASSUME IndInv, NEW w \in Workers, cache' = [cache EXCEPT ![w] = [u \in Users |-> Unknown]],
         UNCHANGED <<tenant, tokens, audit, requests, history>>,
         Works \/ \E kind : Fault(kind)
  PROVE  SharedInv' /\ Grows
<1>1. SharedInv
  BY DEF IndInv
<1>2. Grows /\ TenantInv' /\ GrantsInv'
  BY <1>1, NoGrowthNeeded
<1>3. CacheInv /\ UNCHANGED everHeld
  BY <1>1 DEF SharedInv, history
<1>4. CacheInv'
  BY <1>3, CacheCleared
<1>5. TokensInv' /\ AuditInv'
  BY <1>1, <1>2, TokensStay, AuditStays
<1>6. CountsInv'
  BY <1>1, FaultsAreCounted DEF SharedInv, CountsInv
<1> QED BY <1>2, <1>4, <1>5, <1>6 DEF SharedInv

\* update_user empties the cache.
LEMMA ClearAfterUpdateStep ==
  ASSUME IndInv, NEW t \in Threads, ClearAfterUpdate(t)
  PROVE  IndInv'
<1> DEFINE r == h[t]
           q == To(r, "final")
<1>1. r.pc = "clear" /\ r.pc # "done" /\ r.pc \notin Undecided \cup {"done"} /\ Set(t, q)
  BY DEF ClearAfterUpdate, Undecided
<1>2. WorkerOf[t] \in Workers
  BY UsersAssumption
<1>3. SharedInv' /\ Grows
  BY <1>2, ClearingIsSafe DEF ClearAfterUpdate, ClearCache, Works
<1>4. /\ r \in Handlers /\ r.pc \in PathOf(r.op)
      /\ r.op \in {"read", "create", "update", "delete"}
      /\ Checked(r) /\ Reports(r)
  BY <1>1, OnItsWay
<1>5. q \in Handlers /\ SameRequest(q, r) /\ q.view = r.view /\ q.rank = r.rank /\ q.pc = "final"
  BY <1>4, ToFields DEF Steps, SameRequest
<1> HIDE DEF q
<1>6. r.op = "update"
  BY <1>1, <1>4 DEF PathOf
<1>7. KnowsCaller(q) /\ KnowsTarget(q) /\ MayAdminister(q, q.rank)
  BY <1>1, <1>5, <1>6, NextCallKnows DEF SameRequest
<1>8. Checked(q) /\ Reports(q) /\ q.pc \in PathOf(q.op)
  BY <1>1, <1>4, <1>5, <1>6, <1>7 DEF Checked, Reports, PathOf, SameRequest
<1> QED BY <1>1, <1>3, <1>5, <1>7, <1>8, GoingOnKeepsInv DEF Consistent

\* An entry of a cache expires.
LEMMA ExpireStep ==
  ASSUME IndInv, NEW w \in Workers, NEW u \in Users, Expire(w, u)
  PROVE  IndInv'
<1> DEFINE entries == [cache[w] EXCEPT ![u] = Unknown]
<1>1. SharedInv /\ HandlersInv
  BY DEF IndInv
<1>2. /\ UNCHANGED <<tenant, tokens, h, audit, faults, requests, history>>
      /\ cache' = [cache EXCEPT ![w][u] = Unknown]
  BY DEF Expire
<1>3. Grows /\ TenantInv' /\ GrantsInv'
  BY <1>1, <1>2, NoGrowthNeeded
<1>4. CacheInv'
  <2>1. cache[w] \in [Users -> (SUBSET Roles) \cup {Unknown}]
    BY <1>1 DEF SharedInv, CacheInv
  <2>2. /\ entries \in [Users -> (SUBSET Roles) \cup {Unknown}]
        /\ \A v \in Users : entries[v] = Unknown \/ entries[v] \subseteq everHeld[v]
    BY <1>1, <2>1 DEF SharedInv, CacheInv
  <2>3. {v \in Users : entries[v] # Unknown} \subseteq Entries(w)
    BY <2>1 DEF Entries
  <2>4. IsFiniteSet(Entries(w)) /\ Cardinality(Entries(w)) <= CacheBound + 1
    BY <1>1 DEF SharedInv, CacheInv
  <2>5. cache' = [cache EXCEPT ![w] = entries]
    BY <1>2
  <2> DEFINE held == {v \in Users : entries[v] # Unknown}
  <2>6. IsFiniteSet(held) /\ Cardinality(held) <= CacheBound + 1
    <3> HIDE DEF held
    <3>1. held \subseteq Entries(w)
      BY <2>3 DEF held
    <3>2. IsFiniteSet(held) /\ Cardinality(held) <= Cardinality(Entries(w))
      BY <2>4, <3>1, FS_Subset
    <3>3. Cardinality(held) \in Nat /\ Cardinality(Entries(w)) \in Nat
      BY <2>4, <3>2, FS_CardinalityType
    <3> QED BY <2>4, <3>2, <3>3, UsersAssumption
  <2>7. CacheInv /\ UNCHANGED everHeld
    BY <1>1, <1>2 DEF SharedInv, history
  <2> HIDE DEF entries
  <2> QED BY <2>2, <2>5, <2>6, <2>7, CacheChanges
<1>5. TokensInv' /\ AuditInv'
  BY <1>1, <1>2, <1>3, TokensStay, AuditStays
<1>6. CountsInv'
  BY <1>1, <1>2 DEF SharedInv, CountsInv
<1>7. SharedInv'
  BY <1>3, <1>4, <1>5, <1>6 DEF SharedInv
<1>8. \A t \in Threads : Consistent(h[t])'
  BY <1>1, <1>2, <1>3, <1>7, ConsistencyCarries DEF HandlersInv
<1> QED BY <1>1, <1>2, <1>7, <1>8 DEF IndInv, HandlersInv

-----------------------------------------------------------------------------
\* A new row of the audit log, by a handler whose report is true.
LEMMA RecordIsTrue ==
  ASSUME IndInv, NEW t \in Threads, h[t].pc # "done",
         NEW action \in {"created", "updated", "deleted"}, Record(h[t], action),
         UNCHANGED <<tenant, history>>, h[t].target \in everExisted,
         action = "deleted" => h[t].target \notin exists,
         action = "created" => [by |-> h[t].actor, to |-> h[t].target, role |-> h[t].role] \in grants,
         action = "updated" => h[t].role \in everHeld[h[t].target] \cup {NoRole}
  PROVE  AuditInv'
<1> DEFINE r == h[t]
           new == [action |-> action, by |-> r.actor, on |-> r.target, role |-> r.role]
<1>1. r \in Handlers /\ r.actor \in Users
  BY OnItsWay
<1>2. SharedInv /\ Grows
  BY NoGrowthNeeded DEF IndInv
<1>3. r.target \in Users /\ everExisted \subseteq Users
  BY <1>2 DEF SharedInv, TenantInv
<1>4. audit' = audit \cup {new}
  BY DEF Record
<1>5. new \in Rows
  BY <1>1, <1>3 DEF Rows, Handlers
<1>6. ASSUME NEW row \in audit'
      PROVE  /\ row.on \in everExisted'
             /\ CASE row.action = "deleted" -> row.on \notin exists'
                  [] row.action = "created" ->
                        [by |-> row.by, to |-> row.on, role |-> row.role] \in grants'
                  [] row.action = "updated" -> row.role \in everHeld'[row.on] \cup {NoRole}
  <2>1. exists' = exists /\ grants' = grants /\ everHeld' = everHeld /\ everExisted' = everExisted
    BY DEF tenant, history
  <2>2. CASE row \in audit
    BY <1>2, <2>1, <2>2 DEF SharedInv, AuditInv, AuditTellsTheTruth
  <2>3. CASE row = new
    <3>1. row.action = action /\ row.by = r.actor /\ row.on = r.target /\ row.role = r.role
      BY <2>3
    <3>2. CASE action = "deleted"
      BY <2>1, <3>1, <3>2
    <3>3. CASE action = "created"
      BY <2>1, <3>1, <3>3
    <3>4. CASE action = "updated"
      BY <2>1, <3>1, <3>4
    <3> QED BY <3>2, <3>3, <3>4
  <2> QED BY <1>4, <2>2, <2>3
<1>7. audit' \subseteq Rows
  BY <1>2, <1>4, <1>5 DEF SharedInv, AuditInv
<1> QED BY <1>6, <1>7 DEF AuditInv, AuditTellsTheTruth

\* The handler that has written its row answers.
LEMMA RecordedAnswer ==
  ASSUME IndInv, NEW t \in Threads, SharedInv', Grows,
         Set(t, End([h[t] EXCEPT !.audited = TRUE], "ok"))
  PROVE  IndInv'
<1> DEFINE r == [h[t] EXCEPT !.audited = TRUE]
<1>1. h[t] \in Handlers
  BY DEF IndInv, HandlersInv
<1>2. r \in Handlers
  BY <1>1 DEF Handlers
<1> HIDE DEF r
<1> QED BY <1>2, AnswersKeepInv DEF r

\* update_user writes its row: the account has held the role.
LEMMA FinishUpdateStep ==
  ASSUME IndInv, NEW t \in Threads, FinishUpdate(t)
  PROVE  IndInv'
<1> DEFINE r == h[t]
<1>1. r.pc = "final" /\ r.pc # "done" /\ UNCHANGED <<tenant, tokens, cache, requests, history>>
      /\ (Works \/ \E kind : Fault(kind))
  BY FailedCalls DEF FinishUpdate
<1>2. /\ r \in Handlers /\ r.pc \in PathOf(r.op)
      /\ r.op \in {"read", "create", "update", "delete"}
      /\ KnowsTarget(r) /\ Reports(r)
  BY <1>1, OnItsWay
<1>3. CASE Record(r, "updated") /\ Set(t, End([r EXCEPT !.audited = TRUE], "ok"))
  <2>1. SharedInv
    BY DEF IndInv
  <2>2. Grows /\ TenantInv' /\ GrantsInv'
    BY <1>1, <2>1, NoGrowthNeeded
  <2>3. r.op = "update"
    BY <1>1, <1>2 DEF PathOf
  <2>4. r.target \in everExisted /\ r.role \in everHeld[r.target] \cup {NoRole}
    BY <1>1, <1>2, <2>3 DEF KnowsTarget, Reports
  <2>5. AuditInv'
    BY <1>1, <1>3, <2>4, RecordIsTrue
  <2>6. TokensInv' /\ CacheInv'
    BY <1>1, <2>1, <2>2, TokensStay, CacheStays
  <2>7. CountsInv'
    BY <1>1, <2>1, FaultsAreCounted DEF SharedInv, CountsInv
  <2>8. SharedInv'
    BY <2>2, <2>5, <2>6, <2>7 DEF SharedInv
  <2> QED BY <1>3, <2>2, <2>8, RecordedAnswer
<1>4. CASE Set(t, End(r, "error")) /\ UNCHANGED audit
  <2>1. SharedInv' /\ Grows
    BY <1>1, <1>4, ReadingIsSafe
  <2> QED BY <1>2, <1>4, <2>1, AnswersKeepInv
<1> QED BY <1>3, <1>4 DEF FinishUpdate

\* create_user writes its row: the role was granted.
LEMMA FinishCreateStep ==
  ASSUME IndInv, NEW t \in Threads, FinishCreate(t)
  PROVE  IndInv'
<1> DEFINE r == h[t]
<1>1. r.pc = "ticket" /\ r.pc # "done" /\ UNCHANGED <<tenant, tokens, cache, requests, history>>
  BY DEF FinishCreate
<1>2. /\ r \in Handlers /\ r.pc \in PathOf(r.op) /\ r.op \in {"read", "create", "update", "delete"}
      /\ KnowsTarget(r) /\ Reports(r)
  BY <1>1, OnItsWay
<1>3. SharedInv
  BY DEF IndInv
<1>4. CASE Fault("unreadable") /\ Set(t, End(r, "error")) /\ UNCHANGED audit
  <2>1. SharedInv' /\ Grows
    BY <1>1, <1>4, ReadingIsSafe
  <2> QED BY <1>2, <1>4, <2>1, AnswersKeepInv
<1>5. CASE Works /\ Record(r, "created") /\ Set(t, End([r EXCEPT !.audited = TRUE], "ok"))
  <2>1. Grows /\ TenantInv' /\ GrantsInv'
    BY <1>1, <1>3, NoGrowthNeeded
  <2>2. r.op = "create"
    BY <1>1, <1>2 DEF PathOf
  <2>3. r.target \in everExisted /\ [by |-> r.actor, to |-> r.target, role |-> r.role] \in grants
    BY <1>1, <1>2, <2>2 DEF KnowsTarget, Reports
  <2>4. AuditInv'
    BY <1>1, <1>5, <2>3, RecordIsTrue
  <2>5. TokensInv' /\ CacheInv'
    BY <1>1, <1>3, <2>1, TokensStay, CacheStays
  <2>6. CountsInv'
    BY <1>1, <1>3, <1>5, FaultsAreCounted DEF SharedInv, CountsInv
  <2>7. SharedInv'
    BY <2>1, <2>4, <2>5, <2>6 DEF SharedInv
  <2> QED BY <1>1, <1>5, <2>1, <2>7, RecordedAnswer
<1> QED BY <1>4, <1>5 DEF FinishCreate, Works

\* delete_user writes its row: the account is gone for good.
LEMMA FinishDeleteStep ==
  ASSUME IndInv, NEW t \in Threads, FinishDelete(t)
  PROVE  IndInv'
<1> DEFINE r == h[t]
<1>1. r.pc = "wiped" /\ r.pc # "done" /\ UNCHANGED <<tenant, tokens, requests, history>>
      /\ Works /\ Record(r, "deleted") /\ Set(t, End([r EXCEPT !.audited = TRUE], "ok"))
      /\ cache' = [cache EXCEPT ![WorkerOf[t]] = [u \in Users |-> Unknown]]
  BY DEF FinishDelete, Works, ClearCache
<1>2. /\ r.pc \in PathOf(r.op) /\ r.op \in {"read", "create", "update", "delete"}
      /\ KnowsTarget(r) /\ Reports(r)
  BY <1>1, OnItsWay
<1>3. SharedInv
  BY DEF IndInv
<1>4. Grows /\ TenantInv' /\ GrantsInv'
  BY <1>1, <1>3, NoGrowthNeeded
<1>5. r.op = "delete"
  BY <1>1, <1>2 DEF PathOf
<1>6. r.target \in everExisted /\ r.target \notin exists
  BY <1>1, <1>2, <1>5 DEF KnowsTarget, Reports
<1>7. AuditInv'
  BY <1>1, <1>6, RecordIsTrue
<1>8. TokensInv'
  BY <1>1, <1>3, <1>4, TokensStay
<1>9. CacheInv'
  <2>1. WorkerOf[t] \in Workers /\ CacheInv /\ UNCHANGED everHeld
    BY <1>1, <1>3, UsersAssumption DEF SharedInv, history
  <2> QED BY <1>1, <2>1, CacheCleared
<1>10. CountsInv'
  BY <1>1, <1>3, FaultsAreCounted DEF SharedInv, CountsInv
<1>11. SharedInv'
  BY <1>4, <1>7, <1>8, <1>9, <1>10 DEF SharedInv
<1> QED BY <1>1, <1>4, <1>11, RecordedAnswer

\* Signing in.
LEMMA LoginStep ==
  ASSUME IndInv, NEW u \in Users, Login(u)
  PROVE  IndInv'
<1>1. SharedInv /\ HandlersInv
  BY DEF IndInv
<1>2. UNCHANGED <<tenant, cache, h, audit, faults, requests, history>>
  BY DEF Login
<1>3. Grows /\ TenantInv' /\ GrantsInv'
  BY <1>1, <1>2, NoGrowthNeeded
<1>4. TokensInv'
  <2>1. u \in everExisted /\ roles[u] \in SUBSET Roles /\ roles[u] \subseteq everHeld[u]
    BY <1>1 DEF Login, SharedInv, TenantInv
  <2>2. UNCHANGED <<everHeld, everExisted, rolesClaim>>
    BY <1>2 DEF history, Login
  <2>3. claim' \in [Users -> SUBSET Roles] /\ \A v \in Users : claim'[v] \subseteq everHeld[v]
    BY <1>1, <2>1 DEF Login, SharedInv, TokensInv
  <2>4. capable' \in [Users -> BOOLEAN]
    BY <1>1 DEF Login, SharedInv, TokensInv
  <2>5. \A v \in Users : capable'[v] => v \in everExisted
    BY <1>1, <2>1 DEF Login, SharedInv, TokensInv
  <2> QED BY <1>1, <2>2, <2>3, <2>4, <2>5 DEF SharedInv, TokensInv
<1>5. CacheInv' /\ AuditInv'
  BY <1>1, <1>2, <1>3, CacheStays, AuditStays
<1>6. CountsInv'
  BY <1>1, <1>2 DEF SharedInv, CountsInv
<1>7. SharedInv'
  BY <1>3, <1>4, <1>5, <1>6 DEF SharedInv
<1>8. \A t \in Threads : Consistent(h[t])'
  BY <1>1, <1>2, <1>3, <1>7, ConsistencyCarries DEF HandlersInv
<1> QED BY <1>1, <1>2, <1>7, <1>8 DEF IndInv, HandlersInv

-----------------------------------------------------------------------------
\* The calls that change accounts.
LEMMA TenantChanges ==
  ASSUME IndInv, TenantInv', GrantsInv', Grows, UNCHANGED <<tokens, cache, audit, requests>>,
         Works \/ \E kind : Fault(kind)
  PROVE  SharedInv'
<1>1. SharedInv
  BY DEF IndInv
<1>2. TokensInv' /\ CacheInv' /\ AuditInv'
  BY <1>1, TokensStay, CacheStays, AuditStays
<1>3. CountsInv'
  BY <1>1, FaultsAreCounted DEF SharedInv, CountsInv
<1> QED BY <1>2, <1>3 DEF SharedInv

\* A write that is refused changes nothing.
LEMMA RefusedWrites ==
  ASSUME IndInv, NEW u, WriteFails(u), UNCHANGED <<tokens, cache, audit, requests>>
  PROVE  SharedInv' /\ Grows
<1>1. UNCHANGED <<tenant, history>> /\ (Works \/ \E kind : Fault(kind))
  BY FailedCalls DEF WriteFails
<1> QED BY <1>1, ReadingIsSafe

\* A handler that has changed something is otherwise the handler it was.
LEMMA WrittenFields ==
  ASSUME NEW r \in Handlers
  PROVE  LET written == [r EXCEPT !.changed = TRUE]
         IN /\ written \in Handlers /\ SameRequest(written, r)
            /\ written.view = r.view /\ written.rank = r.rank /\ written.pc = r.pc
BY DEF Handlers, SameRequest

\* update_user after its first call: the grant is checked before the roles are touched.
LEMMA AfterUpdateKeepsInv ==
  ASSUME IndInv, SharedInv', Grows, NEW t \in Threads, h[t].pc = "update",
         NEW r \in Handlers, SameRequest(r, h[t]), r.view = h[t].view,
         r.rank = h[t].rank, Set(t, AfterUpdate(r))
  PROVE  IndInv'
<1>1. h[t].pc # "done" /\ h[t].pc \notin Undecided \cup {"done"}
  BY DEF Undecided
<1>2. h[t].op = "update"
  BY <1>1, OnItsWay DEF PathOf
<1>3. ASSUME NEW s \in {"final", "roleIds"}, Set(t, To(r, s)),
             s = "final" => r.role = NoRole, s = "roleIds" => MayGrant(r, r.rank)
      PROVE  IndInv'
  <2> DEFINE q == To(r, s)
  <2>1. q \in Handlers /\ SameRequest(q, h[t]) /\ q.view = h[t].view /\ q.rank = h[t].rank
        /\ q.pc = s /\ q.role = r.role /\ q.rank = r.rank
    BY ToFields DEF Steps, SameRequest
  <2> HIDE DEF q
  <2>2. KnowsCaller(q) /\ KnowsTarget(q) /\ MayAdminister(q, q.rank)
    BY <1>1, <1>2, <2>1, NextCallKnows DEF SameRequest
  <2>3. Checked(q) /\ Reports(q) /\ q.pc \in PathOf(q.op)
    BY <1>2, <1>3, <2>1, <2>2 DEF Checked, Reports, PathOf, SameRequest, MayGrant
  <2> QED BY <1>3, <2>1, <2>2, <2>3, GoingOnKeepsInv DEF Consistent, q
<1>4. CASE r.role = NoRole
  BY <1>3, <1>4 DEF AfterUpdate
<1>5. CASE r.role # NoRole /\ MayGrant(r, r.rank)
  BY <1>3, <1>5 DEF AfterUpdate
<1>6. CASE Set(t, End(r, "forbidden"))
  BY <1>6, AnswersKeepInv
<1> QED BY <1>4, <1>5, <1>6 DEF AfterUpdate

\* update_user blocks, unblocks or reads.
LEMMA UpdateAccountStep ==
  ASSUME IndInv, NEW t \in Threads, UpdateAccount(t)
  PROVE  IndInv'
<1> DEFINE r == h[t]
           written == [r EXCEPT !.changed = TRUE]
<1>1. r.pc = "update" /\ r.pc # "done" /\ UNCHANGED <<tokens, cache, audit, requests>>
  BY DEF UpdateAccount
<1>2. r \in Handlers
  BY <1>1, OnItsWay
<1>3. /\ written \in Handlers /\ SameRequest(written, r)
      /\ written.view = r.view /\ written.rank = r.rank
  BY <1>2, WrittenFields
<1>4. SameRequest(r, r)
  BY DEF SameRequest
<1> HIDE DEF written
<1>5. CASE UNCHANGED <<tenant, history>> /\ Works /\ Set(t, End(r, "invalid"))
  <2>1. SharedInv' /\ Grows
    BY <1>1, <1>5, ReadingIsSafe
  <2> QED BY <1>2, <1>5, <2>1, AnswersKeepInv
<1>6. CASE /\ r.target \in exists /\ UNCHANGED <<exists, roles, history>>
           /\ blocked' = IF r.block = "true" THEN blocked \cup {r.target} ELSE blocked \ {r.target}
           /\ \/ Works /\ Set(t, AfterUpdate(written))
              \/ AnswerFails /\ Set(t, End(written, "error"))
  <2>1. TenantInv' /\ GrantsInv' /\ Grows
    BY <1>6 DEF IndInv, SharedInv, TenantInv, GrantsInv, ChainOfCommand, Grows, history
  <2>2. SharedInv'
    BY <1>1, <1>6, <2>1, TenantChanges, FailedAnswers
  <2> QED BY <1>1, <1>3, <1>6, <2>1, <2>2, AfterUpdateKeepsInv, AnswersKeepInv
<1>7. CASE UNCHANGED <<tenant, history>> /\ Works /\ Set(t, AfterUpdate(r))
  <2>1. SharedInv' /\ Grows
    BY <1>1, <1>7, ReadingIsSafe
  <2> QED BY <1>1, <1>2, <1>4, <1>7, <2>1, AfterUpdateKeepsInv
<1>8. CASE WriteFails(r.target) /\ Set(t, End(r, "error"))
  <2>1. SharedInv' /\ Grows
    BY <1>1, <1>8, RefusedWrites
  <2> QED BY <1>2, <1>8, <2>1, AnswersKeepInv
<1> QED BY <1>5, <1>6, <1>7, <1>8 DEF UpdateAccount, written

\* update_user takes the stale roles away.
LEMMA StripStep ==
  ASSUME IndInv, NEW t \in Threads, Strip(t)
  PROVE  IndInv'
<1> DEFINE r == h[t]
           written == [r EXCEPT !.changed = TRUE]
<1>1. r.pc = "strip" /\ r.pc # "done" /\ UNCHANGED <<tokens, cache, audit, requests>>
  BY DEF Strip
<1>2. r \in Handlers /\ r.pc \in PathOf(r.op) /\ r.op \in {"read", "create", "update", "delete"}
  BY <1>1, OnItsWay
<1>3. r.op = "update"
  BY <1>1, <1>2 DEF PathOf
<1>4. /\ written \in Handlers /\ SameRequest(written, r)
      /\ written.view = r.view /\ written.rank = r.rank
  BY <1>2, WrittenFields
<1> HIDE DEF written
<1>5. CASE /\ r.target \in exists /\ UNCHANGED <<exists, blocked, history>>
           /\ roles' = [roles EXCEPT ![r.target] = @ \ StaleRoles(r)]
           /\ \/ Works /\ Set(t, AfterStrip(written))
              \/ AnswerFails /\ Set(t, End(written, "error"))
  <2>1. roles' \in [Users -> SUBSET Roles] /\ \A u \in Users : roles'[u] \subseteq roles[u]
    BY <1>5 DEF IndInv, SharedInv, TenantInv
  <2>2. TenantInv' /\ GrantsInv' /\ Grows
    BY <1>5, <2>1 DEF IndInv, SharedInv, TenantInv, GrantsInv, ChainOfCommand, Grows, history
  <2>3. SharedInv'
    BY <1>1, <1>5, <2>2, TenantChanges, FailedAnswers
  <2> QED BY <1>1, <1>3, <1>4, <1>5, <2>2, <2>3, AfterStripKeepsInv, AnswersKeepInv
<1>6. CASE WriteFails(r.target) /\ Set(t, End(r, "error"))
  <2>1. SharedInv' /\ Grows
    BY <1>1, <1>6, RefusedWrites
  <2> QED BY <1>2, <1>6, <2>1, AnswersKeepInv
<1> QED BY <1>5, <1>6 DEF Strip, written

\* create_user's rollback, or the error of a failed role change.
LEMMA AssignFailsKeepsInv ==
  ASSUME IndInv, SharedInv', Grows, NEW t \in Threads, h[t].pc = "assign",
         NEW r \in Handlers, SameRequest(r, h[t]), r.view = h[t].view,
         r.rank = h[t].rank, Set(t, AssignFails(r))
  PROVE  IndInv'
<1>1. CASE Set(t, End(r, "error"))
  BY <1>1, AnswersKeepInv
<1>2. CASE r.op = "create" /\ Set(t, To(r, "rollback"))
  <2> DEFINE q == To(r, "rollback")
  <2>1. q \in Handlers /\ SameRequest(q, h[t]) /\ q.view = h[t].view /\ q.rank = h[t].rank
        /\ q.pc = "rollback"
    BY ToFields DEF Steps, SameRequest
  <2> HIDE DEF q
  <2>2. h[t].pc # "done" /\ h[t].op = "create"
    BY <1>2 DEF SameRequest
  <2>3. KnowsCaller(h[t]) /\ KnowsTarget(h[t]) /\ Checked(h[t])
    BY <2>2, OnItsWay
  <2>4. KnowsCaller(q) /\ KnowsTarget(q)
    BY <2>1, <2>2, <2>3 DEF KnowsCaller, KnowsTarget, SameRequest
  <2>5. Checked(q) /\ Reports(q) /\ q.pc \in PathOf(q.op)
    BY <2>1, <2>2, <2>3 DEF Checked, Reports, PathOf, SameRequest, MayGrant
  <2> QED BY <1>2, <2>1, <2>4, <2>5, GoingOnKeepsInv DEF Consistent, q
<1> QED BY <1>1, <1>2 DEF AssignFails

\* A role is handed out by somebody who outranks it, to somebody else.
LEMMA AssignIsOrderly ==
  ASSUME IndInv, NEW t \in Threads, h[t].pc = "assign", h[t].target \in exists,
         roles' = [roles EXCEPT ![h[t].target] = @ \cup {h[t].role}],
         everHeld' = [everHeld EXCEPT ![h[t].target] = @ \cup {h[t].role}],
         grants' = grants \cup {[by |-> h[t].actor, to |-> h[t].target, role |-> h[t].role]},
         UNCHANGED <<exists, blocked, everExisted>>
  PROVE  TenantInv' /\ GrantsInv' /\ Grows
<1> DEFINE r == h[t]
           new == [by |-> r.actor, to |-> r.target, role |-> r.role]
<1>1. r.pc # "done" /\ r.pc \notin Undecided \cup {"done"}
  BY DEF Undecided
<1>2. /\ r \in Handlers /\ r.pc \in PathOf(r.op)
      /\ r.op \in {"read", "create", "update", "delete"}
      /\ KnowsCaller(r) /\ KnowsTarget(r) /\ Checked(r) /\ r.actor \in Users
  BY <1>1, OnItsWay
<1>3. r.role \in Roles /\ RankOf({r.role}) < r.rank /\ r.rank \in -1..2
  BY <1>2 DEF Checked, MayGrant, Handlers
<1>4. "administrator" # r.role
  <2>1. "administrator" \notin {r.role}
    BY <1>3, TopOfLadder
  <2> QED BY <2>1
<1>5. SharedInv /\ r.target \in Users
  BY DEF IndInv, SharedInv, TenantInv
<1>6. TenantInv'
  BY <1>3, <1>5 DEF SharedInv, TenantInv
<1>7. \A u \in Users : everHeld[u] \subseteq everHeld'[u]
  BY <1>5 DEF SharedInv, TenantInv
<1>8. Grows
  <2>1. \A u \in Users : "administrator" \in roles'[u] => "administrator" \in roles[u]
    BY <1>4, <1>5 DEF SharedInv, TenantInv
  <2> QED BY <1>7, <2>1 DEF Grows
<1>9. r.actor # r.target
  BY <1>2 DEF PathOf, KnowsTarget, Checked, MayAdminister, Undecided
<1>10. ASSUME NEW g \in grants'
       PROVE  /\ g \in [by : Users, to : Users, role : Roles] /\ g.by # g.to
              /\ RankOf(everHeld'[g.by]) > RankOf({g.role})
  <2>1. CASE g \in grants
    <3>1. g \in [by : Users, to : Users, role : Roles] /\ g.by # g.to
          /\ RankOf(everHeld[g.by]) > RankOf({g.role})
      BY <1>5, <2>1 DEF SharedInv, GrantsInv, ChainOfCommand
    <3>2. RankOf(everHeld[g.by]) <= RankOf(everHeld'[g.by])
      BY <1>7, <3>1, RankMonotone
    <3>3. /\ RankOf(everHeld[g.by]) \in Int /\ RankOf(everHeld'[g.by]) \in Int
          /\ RankOf({g.role}) \in Int
      BY RankRange
    <3> QED BY <3>1, <3>2, <3>3
  <2>2. CASE g = new
    <3>1. g.by = r.actor /\ g.to = r.target /\ g.role = r.role
          /\ g \in [by : Users, to : Users, role : Roles]
      BY <1>2, <1>3, <1>5, <2>2
    <3>2. RankOf(everHeld[r.actor]) <= RankOf(everHeld'[r.actor])
      BY <1>2, <1>7, RankMonotone
    <3>3. /\ RankOf(everHeld[r.actor]) \in Int /\ RankOf(everHeld'[r.actor]) \in Int
          /\ RankOf({r.role}) \in Int
      BY RankRange
    <3>4. r.rank <= RankOf(everHeld[r.actor])
      BY <1>2 DEF KnowsCaller
    <3>5. RankOf(everHeld'[r.actor]) > RankOf({r.role})
      BY <1>3, <3>2, <3>3, <3>4
    <3> QED BY <1>9, <3>1, <3>5
  <2> QED BY <2>1, <2>2
<1>11. GrantsInv'
  BY <1>10 DEF GrantsInv, ChainOfCommand
<1> QED BY <1>6, <1>8, <1>11

\* A role is assigned, or the call fails.
LEMMA AssignStep ==
  ASSUME IndInv, NEW t \in Threads, Assign(t)
  PROVE  IndInv'
<1> DEFINE r == h[t]
           written == [r EXCEPT !.changed = TRUE]
           step == IF r.op = "create" THEN "ticket" ELSE "clear"
           new == [by |-> r.actor, to |-> r.target, role |-> r.role]
<1>1. /\ r.pc = "assign" /\ r.pc # "done" /\ r.pc \notin Undecided \cup {"done"}
      /\ UNCHANGED <<tokens, cache, audit, requests>>
  BY DEF Assign, Undecided
<1>2. /\ r \in Handlers /\ r.pc \in PathOf(r.op)
      /\ r.op \in {"read", "create", "update", "delete"}
      /\ KnowsCaller(r) /\ KnowsTarget(r) /\ Checked(r)
  BY <1>1, OnItsWay
<1>3. /\ written \in Handlers /\ SameRequest(written, r)
      /\ written.view = r.view /\ written.rank = r.rank
  BY <1>2, WrittenFields
<1>4. SameRequest(r, r) /\ r.op \in {"create", "update"}
  BY <1>1, <1>2 DEF SameRequest, PathOf
<1> HIDE DEF written
<1>5. CASE /\ r.target \in exists
           /\ roles' = [roles EXCEPT ![r.target] = @ \cup {r.role}]
           /\ everHeld' = [everHeld EXCEPT ![r.target] = @ \cup {r.role}]
           /\ grants' = grants \cup {new}
           /\ UNCHANGED <<exists, blocked, everExisted>>
           /\ \/ Works /\ Set(t, To(written, step))
              \/ Fault("lost") /\ Set(t, AssignFails(written))
              \/ Fault("unreadable") /\ Set(t, End(written, "error"))
  <2>1. TenantInv' /\ GrantsInv' /\ Grows
    BY <1>1, <1>5, AssignIsOrderly
  <2>2. SharedInv'
    BY <1>1, <1>5, <2>1, TenantChanges
  <2>3. CASE Set(t, AssignFails(written))
    BY <1>1, <1>3, <2>1, <2>2, <2>3, AssignFailsKeepsInv
  <2>4. CASE Set(t, To(written, step))
    <3> DEFINE q == To(written, step)
    <3>1. q \in Handlers /\ SameRequest(q, r) /\ q.view = r.view /\ q.rank = r.rank /\ q.pc = step
      BY <1>3, ToFields DEF Steps, SameRequest
    <3> HIDE DEF q
    <3>2. h'[t] = q
      BY <2>4 DEF Set, IndInv, HandlersInv, q
    <3>3. KnowsCaller(q) /\ KnowsTarget(q)
      BY <1>1, <1>2, <1>4, <3>1 DEF KnowsCaller, KnowsTarget, SameRequest
    <3>4. Checked(q) /\ q.pc \in PathOf(q.op)
      BY <1>1, <1>2, <1>4, <3>1
      DEF Checked, PathOf, SameRequest, MayGrant, MayAdminister, Undecided
    <3>5. Reports(h[t])'
      <4>1. r.target \in Users
        BY <1>5 DEF IndInv, SharedInv, TenantInv
      <4>2. r.role \in everHeld'[r.target] /\ new \in grants'
        BY <1>5, <4>1 DEF IndInv, SharedInv, TenantInv
      <4> QED BY <1>4, <3>1, <3>2, <4>2 DEF Reports, SameRequest
    <3>6. KnowsCaller(h[t])' /\ KnowsTarget(h[t])' /\ Checked(h[t])'
      BY <2>1, <2>2, <3>1, <3>2, <3>3, <3>4, CallerCarries, TargetCarries, ChecksCarry
    <3>7. Consistent(h[t])'
      BY <3>2, <3>4, <3>5, <3>6 DEF Consistent
    <3> QED BY <2>1, <2>2, <2>4, <3>1, <3>7, OneThreadMoves DEF q
  <2>5. CASE Set(t, End(written, "error"))
    BY <1>1, <1>3, <2>1, <2>2, <2>5, AnswersKeepInv
  <2> QED BY <1>5, <2>3, <2>4, <2>5
<1>6. CASE /\ UNCHANGED <<tenant, history>>
           /\ \/ Refused(r.target) /\ Set(t, AssignFails(r))
              \/ Fault("unreadable") /\ Set(t, End(r, "error"))
  <2>1. WriteFails(r.target)
    BY <1>6 DEF WriteFails, CallFails
  <2>2. SharedInv' /\ Grows
    BY <1>1, <2>1, RefusedWrites
  <2>3. CASE Set(t, End(r, "error"))
    BY <1>1, <1>2, <2>2, <2>3, AnswersKeepInv
  <2> QED BY <1>1, <1>2, <1>4, <1>6, <2>2, <2>3, AssignFailsKeepsInv
<1> QED BY <1>5, <1>6 DEF Assign, written

\* A new account, which has held no role, belongs to the handler that made it.
LEMMA PostUserStep ==
  ASSUME IndInv, NEW t \in Threads, PostUser(t)
  PROVE  IndInv'
<1> DEFINE r == h[t]
<1>1. r.pc = "post" /\ r.pc # "done" /\ UNCHANGED <<tokens, cache, audit, requests>>
  BY DEF PostUser
<1>2. /\ r \in Handlers /\ r.pc \in PathOf(r.op)
      /\ r.op \in {"read", "create", "update", "delete"}
      /\ KnowsCaller(r) /\ Checked(r) /\ r.actor \in Users
  BY <1>1, OnItsWay
<1>3. r.op = "create"
  BY <1>1, <1>2 DEF PathOf
<1>4. ASSUME NEW u \in Users \ everExisted,
             exists' = exists \cup {u}, everExisted' = everExisted \cup {u},
             UNCHANGED <<roles, blocked, grants, everHeld>>,
             \/ Works /\ Set(t, [r EXCEPT !.pc = "assign", !.target = u, !.changed = TRUE])
             \/ AnswerFails /\ Set(t, [End(r, "error") EXCEPT !.changed = TRUE])
      PROVE  IndInv'
  <2>1. TenantInv' /\ GrantsInv' /\ Grows
    BY <1>4 DEF IndInv, SharedInv, TenantInv, GrantsInv, ChainOfCommand, Grows
  <2>2. SharedInv'
    BY <1>1, <1>4, <2>1, TenantChanges, FailedAnswers
  <2>3. CASE Set(t, [r EXCEPT !.pc = "assign", !.target = u, !.changed = TRUE])
    <3> DEFINE q == [r EXCEPT !.pc = "assign", !.target = u, !.changed = TRUE]
    <3>1. q \in Handlers
      BY <1>2 DEF Handlers, Steps
    <3>2. /\ q.pc = "assign" /\ q.target = u /\ q.op = r.op /\ q.actor = r.actor
          /\ q.role = r.role /\ q.claim = r.claim /\ q.view = r.view /\ q.rank = r.rank
      BY <1>2 DEF Handlers
    <3> HIDE DEF q
    <3>3. h'[t] = q
      BY <2>3 DEF Set, IndInv, HandlersInv, q
    <3>4. KnowsCaller(q)
      BY <1>2, <3>2 DEF KnowsCaller
    <3>5. Checked(q) /\ q.pc \in PathOf(q.op)
      BY <1>1, <1>2, <1>3, <3>2 DEF Checked, PathOf, MayGrant
    <3>6. KnowsTarget(h[t])'
      <4>1. roles[u] = {} /\ r.actor # u
        BY <1>2, <1>4 DEF IndInv, SharedInv, TenantInv, KnowsCaller
      <4> QED BY <1>3, <1>4, <3>2, <3>3, <4>1 DEF KnowsTarget
    <3>7. KnowsCaller(h[t])' /\ Checked(h[t])'
      BY <2>1, <2>2, <3>1, <3>3, <3>4, <3>5, CallerCarries, ChecksCarry
    <3>8. Consistent(h[t])'
      BY <3>2, <3>3, <3>5, <3>6, <3>7 DEF Consistent, Reports
    <3> QED BY <2>1, <2>2, <2>3, <3>1, <3>8, OneThreadMoves DEF q
  <2>4. CASE Set(t, [End(r, "error") EXCEPT !.changed = TRUE])
    <3> DEFINE q == [End(r, "error") EXCEPT !.changed = TRUE]
    <3>1. End(r, "error") \in Handlers /\ End(r, "error").pc = "done"
      BY <1>2, EndFields
    <3>2. q \in Handlers /\ q.pc = "done"
      BY <3>1 DEF Handlers
    <3> HIDE DEF q
    <3> QED BY <2>1, <2>2, <2>4, <3>2, GoingOnKeepsInv DEF Consistent, q
  <2> QED BY <1>4, <2>3, <2>4
<1>5. CASE /\ UNCHANGED <<tenant, history>> /\ Set(t, End(r, "error"))
           /\ Fault("refused") \/ Fault("unreadable")
  <2>1. SharedInv' /\ Grows
    BY <1>1, <1>5, ReadingIsSafe
  <2> QED BY <1>2, <1>5, <2>1, AnswersKeepInv
<1> QED BY <1>4, <1>5 DEF PostUser

\* A removed account has no roles, and what it was stays known.
LEMMA RemoveIsOrderly ==
  ASSUME IndInv, NEW u, Remove(u)
  PROVE  TenantInv' /\ GrantsInv' /\ Grows
<1>1. UNCHANGED <<grants, everHeld, everExisted>>
  BY DEF Remove, history
<1>2. /\ roles' \in [Users -> SUBSET Roles]
      /\ \A v \in Users : roles'[v] \subseteq roles[v] /\ (v = u => roles'[v] = {})
  BY DEF Remove, IndInv, SharedInv, TenantInv
<1>3. TenantInv'
  BY <1>1, <1>2 DEF Remove, IndInv, SharedInv, TenantInv
<1> QED BY <1>1, <1>2, <1>3 DEF Remove, IndInv, SharedInv, GrantsInv, ChainOfCommand, Grows

\* create_user's rollback.
LEMMA RollbackStep ==
  ASSUME IndInv, NEW t \in Threads, Rollback(t)
  PROVE  IndInv'
<1>1. h[t] \in Handlers /\ Set(t, End(h[t], "error")) /\ UNCHANGED <<tokens, cache, audit, requests>>
  BY DEF IndInv, HandlersInv, Rollback
<1>2. SharedInv' /\ Grows
  <2>1. CASE Remove(h[t].target) /\ (Works \/ AnswerFails)
    BY <1>1, <2>1, RemoveIsOrderly, TenantChanges, FailedAnswers
  <2>2. CASE WriteFails(h[t].target)
    BY <1>1, <2>2, RefusedWrites
  <2> QED BY <2>1, <2>2 DEF Rollback
<1> QED BY <1>1, <1>2, AnswersKeepInv

\* delete_user removes its target.
LEMMA DeleteAccountStep ==
  ASSUME IndInv, NEW t \in Threads, DeleteAccount(t)
  PROVE  IndInv'
<1> DEFINE r == h[t]
           written == [r EXCEPT !.changed = TRUE]
<1>1. /\ r.pc = "delete" /\ r.pc # "done" /\ r.pc \notin Undecided \cup {"done"}
      /\ UNCHANGED <<tokens, cache, audit, requests>>
  BY DEF DeleteAccount, Undecided
<1>2. /\ r \in Handlers /\ r.pc \in PathOf(r.op)
      /\ r.op \in {"read", "create", "update", "delete"}
      /\ KnowsCaller(r) /\ KnowsTarget(r) /\ Checked(r)
  BY <1>1, OnItsWay
<1>3. /\ written \in Handlers /\ SameRequest(written, r)
      /\ written.view = r.view /\ written.rank = r.rank
  BY <1>2, WrittenFields
<1>4. r.op = "delete"
  BY <1>1, <1>2 DEF PathOf
<1> HIDE DEF written
<1>5. CASE Remove(r.target) /\ Works /\ Set(t, To(written, "wiped"))
  <2> DEFINE q == To(written, "wiped")
  <2>1. q \in Handlers /\ SameRequest(q, r) /\ q.view = r.view /\ q.rank = r.rank /\ q.pc = "wiped"
    BY <1>3, ToFields DEF Steps, SameRequest
  <2> HIDE DEF q
  <2>2. TenantInv' /\ GrantsInv' /\ Grows
    BY <1>5, RemoveIsOrderly
  <2>3. SharedInv'
    BY <1>1, <1>5, <2>2, TenantChanges
  <2>4. h'[t] = q
    BY <1>5 DEF Set, IndInv, HandlersInv, q
  <2>5. KnowsCaller(q) /\ KnowsTarget(q) /\ MayAdminister(q, q.rank)
    BY <1>1, <1>4, <2>1, NextCallKnows DEF SameRequest
  <2>6. Checked(q) /\ q.pc \in PathOf(q.op)
    BY <1>4, <2>1, <2>5 DEF Checked, PathOf, SameRequest
  <2>7. Reports(h[t])'
    <3>1. r.target \notin exists'
      BY <1>5 DEF Remove
    <3> QED BY <2>1, <2>4, <3>1 DEF Reports, SameRequest
  <2>8. KnowsCaller(h[t])' /\ KnowsTarget(h[t])' /\ Checked(h[t])'
    BY <2>1, <2>2, <2>3, <2>4, <2>5, <2>6, CallerCarries, TargetCarries, ChecksCarry
  <2>9. Consistent(h[t])'
    BY <2>4, <2>6, <2>7, <2>8 DEF Consistent
  <2> QED BY <1>5, <2>1, <2>2, <2>3, <2>9, OneThreadMoves DEF q
<1>6. CASE Remove(r.target) /\ AnswerFails /\ Set(t, End(written, "error"))
  <2>1. TenantInv' /\ GrantsInv' /\ Grows
    BY <1>6, RemoveIsOrderly
  <2>2. SharedInv'
    BY <1>1, <1>6, <2>1, TenantChanges, FailedAnswers
  <2> QED BY <1>3, <1>6, <2>1, <2>2, AnswersKeepInv
<1>7. CASE WriteFails(r.target) /\ Set(t, End(r, "error"))
  <2>1. SharedInv' /\ Grows
    BY <1>1, <1>7, RefusedWrites
  <2> QED BY <1>2, <1>7, <2>1, AnswersKeepInv
<1> QED BY <1>5, <1>6, <1>7 DEF DeleteAccount, written

-----------------------------------------------------------------------------
\* A worker dies, and its requests with it.
LEMMA CrashStep ==
  ASSUME IndInv, NEW w \in Workers, Crash(w)
  PROVE  IndInv'
<1>1. SharedInv' /\ Grows
  BY ClearingIsSafe DEF Crash
<1>2. ASSUME NEW t \in Threads
      PROVE  h'[t] \in Handlers /\ Consistent(h[t])'
  <2>1. h[t] \in Handlers /\ Consistent(h[t])
    BY DEF IndInv, HandlersInv
  <2>2. CASE h'[t] = h[t]
    BY <1>1, <2>1, <2>2, ConsistencyCarries
  <2>3. CASE h'[t] = End(h[t], "error")
    BY <2>1, <2>3, EndFields DEF Consistent
  <2> QED BY <2>2, <2>3 DEF Crash
<1>3. h' \in [Threads -> Handlers]
  BY <1>2 DEF Crash
<1> QED BY <1>1, <1>2, <1>3 DEF IndInv, HandlersInv

\* Every step of a handler.
LEMMA HandleStep ==
  ASSUME IndInv, NEW t \in Threads, Handle(t)
  PROVE  IndInv'
BY ReadTargetStep, ResolveCallerStep, LookUpCallerStep, RememberCallerStep, LookStep,
   UpdateAccountStep, ListRolesStep, StripStep, AssignStep, ClearAfterUpdateStep,
   FinishUpdateStep, PostUserStep, RollbackStep, FinishCreateStep, DeleteAccountStep,
   FinishDeleteStep DEF Handle

\* The invariant is inductive.
LEMMA NextHolds == IndInv /\ [Next]_vars => IndInv'
<1> SUFFICES ASSUME IndInv, [Next]_vars PROVE IndInv'
  OBVIOUS
<1>1. CASE Next
  BY <1>1, BeginStep, LoginStep, HandleStep, CrashStep, ExpireStep DEF Next
<1>2. CASE UNCHANGED vars
  <2>1. /\ UNCHANGED <<exists, roles, blocked, rolesClaim, claim, capable, cache, h, audit>>
        /\ UNCHANGED <<faults, requests, grants, everHeld, everExisted>>
    BY <1>2 DEF vars, tenant, tokens, history
  <2>2. UNCHANGED <<tenant, tokens, cache, audit, requests, history>> /\ Works
    BY <2>1 DEF tenant, tokens, history, Works
  <2>3. SharedInv' /\ Grows
    BY <2>2, ReadingIsSafe
  <2>4. \A t \in Threads : Consistent(h[t])'
    BY <2>1, <2>3, ConsistencyCarries DEF IndInv, HandlersInv
  <2> QED BY <2>1, <2>3, <2>4 DEF IndInv, HandlersInv
<1> QED BY <1>1, <1>2

\* So it holds always.
LEMMA Invariance == Spec => []IndInv
<1> QED BY InitHolds, NextHolds, PTL DEF Spec

-----------------------------------------------------------------------------
\* Type correctness; the cache of a worker never holds more than one entry above
\* its bound (users_api.py, _TTLCache.set).
THEOREM TypeCorrect == Spec => []TypeOK
<1>1. IndInv => TypeOK
  BY DEF IndInv, SharedInv, TenantInv, TokensInv, CacheInv, GrantsInv, AuditInv, CountsInv,
         HandlersInv, TypeOK
<1> QED BY <1>1, Invariance, PTL

\* No race, stale token, stale cache or failure lets an account promote itself or a
\* peer (users_api.py, _assert_may_grant).
THEOREM CommandIsChained == Spec => []ChainOfCommand
<1>1. IndInv => ChainOfCommand
  BY DEF IndInv, SharedInv, GrantsInv
<1> QED BY <1>1, Invariance, PTL

\* What the audit log says happened did happen (users_api.py, audit_record).
THEOREM AuditIsTrue == Spec => []AuditTellsTheTruth
<1>1. IndInv => AuditTellsTheTruth
  BY DEF IndInv, SharedInv, AuditInv
<1> QED BY <1>1, Invariance, PTL

\* Whoever a handler is about to change is no administrator, now.
LEMMA TargetIsJunior ==
  ASSUME IndInv, NEW t \in Threads, h[t].pc \in {"update", "strip", "assign", "rollback", "delete"}
  PROVE  "administrator" \notin roles[h[t].target]
<1> DEFINE r == h[t]
<1>1. r.pc # "done" /\ r.pc \notin Undecided
  BY DEF Undecided
<1>2. /\ r \in Handlers /\ r.pc \in PathOf(r.op)
      /\ r.op \in {"read", "create", "update", "delete"}
      /\ KnowsTarget(r) /\ Checked(r)
  BY <1>1, OnItsWay
<1>3. CASE r.op = "create"
  BY <1>2, <1>3 DEF KnowsTarget, PathOf
<1>4. CASE r.op \in {"update", "delete"}
  <2>1. RankOf(r.seen) < r.rank /\ r.rank \in -1..2
    BY <1>1, <1>2, <1>4 DEF Checked, MayAdminister, Handlers
  <2>2. "administrator" \notin r.seen
    BY <2>1, TopOfLadder
  <2> QED BY <1>1, <1>2, <1>4, <2>2 DEF KnowsTarget, Undecided
<1>5. r.op # "read"
  BY <1>2 DEF PathOf
<1> QED BY <1>2, <1>3, <1>4, <1>5

\* The calls on thread t change the account of its target alone, and make no administrator.
OneAccount(t) ==
    /\ h[t].pc \in {"update", "strip", "assign", "rollback", "delete"}
    /\ \A u \in Users \ {h[t].target} :
          /\ u \in exists' <=> u \in exists
          /\ roles'[u] = roles[u]
          /\ u \in blocked' <=> u \in blocked
    /\ \A u \in Users : "administrator" \in roles'[u] => "administrator" \in roles[u]
    /\ \A s \in Threads \ {t} : h'[s] = h[s]

OneMoreAccount(t) ==
    /\ h[t].pc = "post"
    /\ UNCHANGED <<roles, blocked>> /\ \A u \in exists : u \in exists'
    /\ \A s \in Threads \ {t} : h'[s] = h[s]

\* What a step may do to the tenant: nothing, change one account, or add one.
LEMMA WhoseAccount ==
  ASSUME IndInv, Next
  PROVE  UNCHANGED tenant \/ \E t \in Threads : OneAccount(t) \/ OneMoreAccount(t)
<1>1. ASSUME NEW t \in Threads, Begin(t) PROVE UNCHANGED tenant
  BY <1>1 DEF Begin
<1>2. ASSUME NEW u \in Users, Login(u) PROVE UNCHANGED tenant
  BY <1>2 DEF Login
<1>3. ASSUME NEW w \in Workers, Crash(w) \/ \E u \in Users : Expire(w, u) PROVE UNCHANGED tenant
  BY <1>3 DEF Crash, Expire
<1>4. ASSUME NEW t \in Threads,
             ReadTarget(t) \/ ResolveCaller(t) \/ LookUpCaller(t) \/ RememberCaller(t) \/ Look(t)
      PROVE  UNCHANGED tenant
  BY <1>4 DEF ReadTarget, ResolveCaller, LookUpCaller, RememberCaller, Look
<1>5. ASSUME NEW t \in Threads,
             \/ ListRoles(t) \/ ClearAfterUpdate(t) \/ FinishUpdate(t) \/ FinishCreate(t)
             \/ FinishDelete(t)
      PROVE  UNCHANGED tenant
  BY <1>5 DEF ListRoles, ClearAfterUpdate, FinishUpdate, FinishCreate, FinishDelete
<1>6. /\ roles \in [Users -> SUBSET Roles]
      /\ \A t \in Threads : \A q : Set(t, q) => \A s \in Threads \ {t} : h'[s] = h[s]
  BY DEF IndInv, SharedInv, TenantInv, HandlersInv, Set
<1>7. ASSUME NEW t \in Threads, UpdateAccount(t) PROVE UNCHANGED tenant \/ OneAccount(t)
  BY <1>6, <1>7 DEF UpdateAccount, WriteFails, tenant, OneAccount
<1>8. ASSUME NEW t \in Threads, Strip(t) PROVE UNCHANGED tenant \/ OneAccount(t)
  BY <1>6, <1>8 DEF Strip, WriteFails, OneAccount
<1>9. ASSUME NEW t \in Threads, Assign(t) PROVE UNCHANGED tenant \/ OneAccount(t)
  <2>1. CASE UNCHANGED tenant
    BY <2>1
  <2>2. CASE h[t].target \in exists /\ ~UNCHANGED tenant
    <3>1. Grows
      BY <1>9, <2>2, AssignIsOrderly DEF Assign
    <3> QED BY <1>6, <1>9, <2>2, <3>1 DEF Assign, OneAccount, Grows
  <2> QED BY <1>9, <2>1, <2>2 DEF Assign
<1>10. ASSUME NEW t \in Threads, h[t].pc \in {"rollback", "delete"}, Remove(h[t].target),
              \E q : Set(t, q)
       PROVE  OneAccount(t)
  <2>1. Grows
    BY <1>10, RemoveIsOrderly
  <2> QED BY <1>6, <1>10, <2>1 DEF Remove, OneAccount, Grows
<1>11. ASSUME NEW t \in Threads, Rollback(t) \/ DeleteAccount(t)
       PROVE  UNCHANGED tenant \/ OneAccount(t)
  BY <1>10, <1>11 DEF Rollback, DeleteAccount, WriteFails
<1>12. ASSUME NEW t \in Threads, PostUser(t) PROVE UNCHANGED tenant \/ OneMoreAccount(t)
  BY <1>6, <1>12 DEF PostUser, OneMoreAccount
<1>13. ASSUME NEW t \in Threads, Handle(t)
       PROVE  UNCHANGED tenant \/ OneAccount(t) \/ OneMoreAccount(t)
  BY <1>4, <1>5, <1>7, <1>8, <1>9, <1>11, <1>12, <1>13 DEF Handle
<1> QED BY <1>1, <1>2, <1>3, <1>13 DEF Next

\* No request touches an administrator or makes one, although the check of the rank and
\* the change are several calls apart (users_api.py, _assert_may_administer).
THEOREM NoRequestTouchesAdministrators == Spec => AdministratorsUntouchable
<1> DEFINE Kept(u) ==
             /\ u \in exists /\ "administrator" \in roles[u] =>
                   /\ u \in exists' /\ roles'[u] = roles[u]
                   /\ u \in blocked' <=> u \in blocked
             /\ "administrator" \in roles'[u] => "administrator" \in roles[u]
<1>1. ASSUME IndInv, Next PROVE \A u \in Users : Kept(u)
  <2>1. CASE UNCHANGED tenant
    BY <2>1 DEF tenant
  <2>2. ASSUME NEW t \in Threads, OneAccount(t)
        PROVE  \A u \in Users : Kept(u)
    <3>1. "administrator" \notin roles[h[t].target]
      BY <1>1, <2>2, TargetIsJunior DEF OneAccount
    <3> QED BY <2>2, <3>1 DEF OneAccount
  <2>3. ASSUME NEW t \in Threads, OneMoreAccount(t)
        PROVE  \A u \in Users : Kept(u)
    BY <2>3 DEF OneMoreAccount
  <2> HIDE DEF Kept
  <2> QED BY <1>1, <2>1, <2>2, <2>3, WhoseAccount
<1>2. IndInv /\ [Next]_vars => [\A u \in Users : Kept(u)]_vars
  BY <1>1
<1> QED BY <1>2, Invariance, PTL DEF Spec, AdministratorsUntouchable

-----------------------------------------------------------------------------
\* While no two requests have overlapped, a handler knows the roles of its target
\* exactly: those it read, less what it has stripped, and what it has assigned.
Exact(r) ==
    /\ r.op \in {"update", "delete"} /\ r.pc \in {"caller", "lookup", "remember", "update",
                                                 "delete", "roleIds", "strip"} =>
          roles[r.target] = r.seen
    /\ r.pc = "assign" => roles[r.target] = {}
    /\ r.pc = "clear" \/ (r.pc = "final" /\ r.role # NoRole) => roles[r.target] = {r.role}
    /\ r.pc = "rollback" => roles[r.target] \subseteq {r.role}

AloneInv == ~overlapped =>
    /\ \A s, t \in Threads : h[s].pc # "done" /\ h[t].pc # "done" => s = t
    /\ \A t \in Threads : Exact(h[t])

\* No request is under way at the start.
LEMMA AloneInitially == Init => AloneInv
BY DEF Init, AloneInv, Exact, NoRequest

\* The request that is alone goes on, or ends.
LEMMA StillAlone ==
  ASSUME IndInv, AloneInv, UNCHANGED overlapped, NEW t \in Threads, h[t].pc # "done",
         NEW q, Set(t, q), ~overlapped => Exact(h[t])'
  PROVE  AloneInv'
<1> SUFFICES ASSUME ~overlapped PROVE AloneInv'
  BY DEF AloneInv
<1>1. \A s \in Threads : s # t => h'[s] = h[s] /\ h[s].pc = "done"
  BY DEF Set, AloneInv
<1>2. \A s \in Threads : Exact(h[s])'
  BY <1>1 DEF Exact
<1> QED BY <1>1, <1>2 DEF AloneInv

\* The request that is alone ends.
LEMMA EndsAlone ==
  ASSUME IndInv, AloneInv, UNCHANGED overlapped, NEW t \in Threads, h[t].pc # "done",
         NEW r \in Handlers, NEW a \in {"ok", "forbidden", "invalid", "error"}, Set(t, End(r, a))
  PROVE  AloneInv'
<1>1. h'[t] = End(r, a)
  BY DEF Set, IndInv, HandlersInv
<1>2. h'[t].pc = "done"
  BY <1>1, EndFields
<1>3. Exact(h[t])'
  BY <1>2 DEF Exact
<1> QED BY <1>3, StillAlone

\* The request goes on as q, and its next call finds the roles as q has them.
LEMMA GoesOnAlone ==
  ASSUME IndInv, AloneInv, UNCHANGED overlapped, NEW t \in Threads, h[t].pc # "done",
         NEW q, Set(t, q),
         ~overlapped =>
            /\ q.op \in {"update", "delete"} /\ q.pc \in {"caller", "lookup", "remember", "update",
                                                         "delete", "roleIds", "strip"} =>
                  roles'[q.target] = q.seen
            /\ q.pc = "assign" => roles'[q.target] = {}
            /\ q.pc = "clear" \/ (q.pc = "final" /\ q.role # NoRole) => roles'[q.target] = {q.role}
            /\ q.pc = "rollback" => roles'[q.target] \subseteq {q.role}
  PROVE  AloneInv'
<1>1. h'[t] = q
  BY DEF Set, IndInv, HandlersInv
<1>2. ~overlapped => Exact(h[t])'
  BY <1>1 DEF Exact
<1> QED BY <1>2, StillAlone

\* Reading: the roles it saw are the roles there are.
LEMMA ReadsAlone ==
  ASSUME IndInv, AloneInv, UNCHANGED overlapped, NEW t \in Threads,
         ReadTarget(t) \/ LookUpCaller(t) \/ Look(t)
  PROVE  AloneInv'
<1> DEFINE r == h[t]
<1>1. r.pc \in {"target", "lookup", "look"} /\ r.pc # "done" /\ UNCHANGED roles
  BY DEF ReadTarget, LookUpCaller, Look, tenant
<1>2. r \in Handlers
  BY DEF IndInv, HandlersInv
<1>3. CASE \E a \in {"ok", "error"} : Set(t, End(r, a))
  BY <1>1, <1>2, <1>3, EndsAlone
<1>4. CASE Set(t, [r EXCEPT !.pc = "caller", !.seen = roles[r.target]])
  <2> DEFINE q == [r EXCEPT !.pc = "caller", !.seen = roles[r.target]]
  <2>1. q.pc = "caller" /\ q.seen = roles[r.target] /\ q.target = r.target
    BY <1>2 DEF Handlers
  <2> HIDE DEF q
  <2> QED BY <1>1, <1>4, <2>1, GoesOnAlone DEF q
<1>5. ASSUME NEW S, r.pc = "lookup", Set(t, [r EXCEPT !.pc = "remember", !.view = S])
      PROVE  AloneInv'
  <2> DEFINE q == [r EXCEPT !.pc = "remember", !.view = S]
  <2>1. q.pc = "remember" /\ q.seen = r.seen /\ q.target = r.target /\ q.op = r.op
    BY <1>2 DEF Handlers
  <2> HIDE DEF q
  <2>2. ~overlapped => (q.op \in {"update", "delete"} => roles'[q.target] = q.seen)
    BY <1>1, <1>5, <2>1 DEF AloneInv, Exact
  <2> QED BY <1>1, <1>5, <2>1, <2>2, GoesOnAlone DEF q
<1>6. CASE ReadTarget(t)
  BY <1>3, <1>4, <1>6 DEF ReadTarget
<1>7. CASE LookUpCaller(t)
  BY <1>3, <1>5, <1>7 DEF LookUpCaller
<1>8. CASE Look(t)
  BY <1>3, <1>8 DEF Look
<1> QED BY <1>6, <1>7, <1>8

\* Deciding changes neither.
LEMMA DecidesAlone ==
  ASSUME IndInv, AloneInv, UNCHANGED overlapped, NEW t \in Threads,
         ResolveCaller(t) \/ RememberCaller(t)
  PROVE  AloneInv'
<1> DEFINE r == h[t]
<1>1. r.pc \in {"caller", "remember"} /\ r.pc # "done" /\ UNCHANGED roles
  BY DEF ResolveCaller, RememberCaller, tenant
<1>2. r \in Handlers /\ r.actor \in Users /\ WorkerOf[t] \in Workers
      /\ r.op \in {"read", "create", "update", "delete"}
  BY <1>1, OnItsWay, UsersAssumption
<1>3. ASSUME NEW S \in SUBSET Roles, Set(t, Decide(r, S)) PROVE AloneInv'
  <2> DEFINE q == Decide(r, S)
  <2>1. q.pc = "done" \/ GoesOn(q, r, S)
    BY <1>2, DecideFields
  <2> HIDE DEF q
  <2>2. CASE q.pc = "done"
    BY <1>1, <1>3, <2>2, GoesOnAlone DEF q
  <2>3. CASE GoesOn(q, r, S)
    <3>1. /\ q.pc = IF r.op = "read" THEN "look" ELSE IF r.op = "create" THEN "roleIds" ELSE r.op
          /\ q.op = r.op /\ q.target = r.target /\ q.seen = r.seen
      BY <2>3 DEF GoesOn, SameRequest
    <3>2. ~overlapped /\ q.op \in {"update", "delete"} => roles'[q.target] = q.seen
      BY <1>1, <3>1 DEF AloneInv, Exact
    <3> QED BY <1>1, <1>2, <1>3, <3>1, <3>2, GoesOnAlone DEF q
  <2> QED BY <2>1, <2>2, <2>3
<1>4. CASE Set(t, To(r, "lookup")) /\ r.pc = "caller"
  <2> DEFINE q == To(r, "lookup")
  <2>1. q.pc = "lookup" /\ q.seen = r.seen /\ q.target = r.target /\ q.op = r.op
    BY <1>2, ToFields DEF Steps
  <2> HIDE DEF q
  <2>2. ~overlapped => (q.op \in {"update", "delete"} => roles'[q.target] = q.seen)
    BY <1>1, <1>4, <2>1 DEF AloneInv, Exact
  <2> QED BY <1>1, <1>4, <2>1, <2>2, GoesOnAlone DEF q
<1>5. r.claim \in SUBSET Roles /\ r.view \in SUBSET Roles
      /\ (cache[WorkerOf[t]][r.actor] # Unknown => cache[WorkerOf[t]][r.actor] \in SUBSET Roles)
  BY <1>2 DEF Handlers, IndInv, SharedInv, CacheInv
<1>6. CASE ResolveCaller(t)
  BY <1>3, <1>4, <1>5, <1>6 DEF ResolveCaller
<1>7. CASE RememberCaller(t)
  BY <1>3, <1>5, <1>7 DEF RememberCaller
<1> QED BY <1>6, <1>7

\* update_user's first call changes no roles.
LEMMA UpdatesAlone ==
  ASSUME IndInv, AloneInv, UNCHANGED overlapped, NEW t \in Threads, UpdateAccount(t)
  PROVE  AloneInv'
<1> DEFINE r == h[t]
           written == [r EXCEPT !.changed = TRUE]
<1>1. r.pc = "update" /\ r.pc # "done" /\ UNCHANGED roles
  BY DEF UpdateAccount, WriteFails, tenant
<1>2. r \in Handlers /\ r.op = "update"
  BY <1>1, OnItsWay DEF PathOf
<1>3. written \in Handlers /\ SameRequest(written, r)
  BY <1>2, WrittenFields
<1> HIDE DEF written
<1>4. ASSUME NEW r0 \in Handlers, SameRequest(r0, r), Set(t, AfterUpdate(r0)) PROVE AloneInv'
  <2>1. ASSUME NEW s \in {"final", "roleIds"}, Set(t, To(r0, s)), s = "final" => r0.role = NoRole
        PROVE  AloneInv'
    <3> DEFINE q == To(r0, s)
    <3>1. q.pc = s /\ q.op = r.op /\ q.target = r.target /\ q.seen = r.seen /\ q.role = r0.role
      BY <1>4, ToFields DEF Steps, SameRequest
    <3> HIDE DEF q
    <3>2. ~overlapped => roles'[q.target] = q.seen
      BY <1>1, <1>2, <3>1 DEF AloneInv, Exact
    <3> QED BY <1>1, <2>1, <3>1, <3>2, GoesOnAlone DEF q
  <2>2. CASE r0.role = NoRole
    BY <1>4, <2>1, <2>2 DEF AfterUpdate
  <2>3. CASE r0.role # NoRole /\ MayGrant(r0, r0.rank)
    BY <1>4, <2>1, <2>3 DEF AfterUpdate
  <2>4. CASE Set(t, End(r0, "forbidden"))
    BY <1>1, <1>4, <2>4, EndsAlone
  <2> QED BY <1>4, <2>2, <2>3, <2>4 DEF AfterUpdate
<1>5. SameRequest(r, r)
  BY DEF SameRequest
<1>6. CASE Set(t, AfterUpdate(r)) \/ Set(t, AfterUpdate(written))
  BY <1>2, <1>3, <1>4, <1>5, <1>6
<1>7. CASE Set(t, End(r, "error")) \/ Set(t, End(r, "invalid")) \/ Set(t, End(written, "error"))
  BY <1>1, <1>2, <1>3, <1>7, EndsAlone
<1> QED BY <1>6, <1>7 DEF UpdateAccount, written

\* Of the roles it saw, at most the new one is left.
LEMMA AfterStripAlone ==
  ASSUME IndInv, AloneInv, UNCHANGED overlapped, NEW t \in Threads, h[t].pc # "done",
         NEW r \in Handlers, Set(t, AfterStrip(r)),
         ~overlapped => roles'[r.target] = r.seen \ StaleRoles(r)
  PROVE  AloneInv'
<1> DEFINE step == IF r.role \notin r.seen THEN "assign" ELSE "clear"
           q == To(r, step)
<1>1. q.pc = step /\ q.target = r.target /\ q.role = r.role
  BY ToFields DEF Steps
<1>2. Set(t, q)
  BY DEF AfterStrip
<1> HIDE DEF q
<1>3. ~overlapped => roles'[q.target] = r.seen \ (r.seen \ {r.role})
  BY <1>1 DEF StaleRoles
<1>4. ~overlapped => /\ q.pc = "assign" => roles'[q.target] = {}
                     /\ q.pc = "clear" => roles'[q.target] = {q.role}
  BY <1>1, <1>3
<1>5. q.pc \in {"assign", "clear"}
  BY <1>1
<1> QED BY <1>2, <1>4, <1>5, GoesOnAlone

\* The roles are listed, the stale ones taken away.
LEMMA RolesAlone ==
  ASSUME IndInv, AloneInv, UNCHANGED overlapped, NEW t \in Threads, ListRoles(t) \/ Strip(t)
  PROVE  AloneInv'
<1> DEFINE r == h[t]
           written == [r EXCEPT !.changed = TRUE]
<1>1. r.pc \in {"roleIds", "strip"} /\ r.pc # "done"
  BY DEF ListRoles, Strip
<1>2. /\ r \in Handlers /\ r.pc \in PathOf(r.op)
      /\ r.op \in {"read", "create", "update", "delete"}
      /\ KnowsTarget(r)
  BY <1>1, OnItsWay
<1>3. written \in Handlers /\ SameRequest(written, r)
  BY <1>2, WrittenFields
<1> HIDE DEF written
<1>4. r.op = "update" /\ ~overlapped => roles[r.target] = r.seen
  BY <1>1 DEF AloneInv, Exact
<1>5. CASE Set(t, End(r, "error")) \/ Set(t, End(written, "error"))
  BY <1>1, <1>2, <1>3, <1>5, EndsAlone
<1>6. ASSUME NEW s \in {"post", "strip"}, Set(t, To(r, s)), UNCHANGED roles, s = "strip" => r.op = "update"
      PROVE  AloneInv'
  <2> DEFINE q == To(r, s)
  <2>1. q.pc = s /\ q.target = r.target /\ q.seen = r.seen
    BY <1>2, ToFields DEF Steps
  <2> HIDE DEF q
  <2> QED BY <1>1, <1>4, <1>6, <2>1, GoesOnAlone DEF q
<1>7. CASE UNCHANGED roles /\ r.op = "update" /\ StaleRoles(r) = {} /\ Set(t, AfterStrip(r))
  <2>1. ~overlapped => roles'[r.target] = r.seen \ StaleRoles(r)
    BY <1>4, <1>7
  <2> QED BY <1>1, <1>2, <1>7, <2>1, AfterStripAlone
<1>8. CASE ListRoles(t)
  <2>1. UNCHANGED roles /\ r.op \in {"create", "update"}
    BY <1>2, <1>8 DEF ListRoles, tenant, PathOf
  <2> QED BY <1>5, <1>6, <1>7, <1>8, <2>1 DEF ListRoles
<1>9. CASE Strip(t)
  <2>1. r.op = "update"
    BY <1>2, <1>9 DEF Strip, PathOf
  <2>2. CASE roles' = [roles EXCEPT ![r.target] = @ \ StaleRoles(r)] /\ Set(t, AfterStrip(written))
    <3>1. r.target \in Users
      BY <1>2, <2>1 DEF KnowsTarget
    <3>2. roles'[r.target] = roles[r.target] \ StaleRoles(r)
      BY <2>2, <3>1 DEF IndInv, SharedInv, TenantInv
    <3>3. written.target = r.target /\ written.seen = r.seen /\ StaleRoles(written) = StaleRoles(r)
      BY <1>3 DEF SameRequest, StaleRoles
    <3>4. ~overlapped => roles'[written.target] = written.seen \ StaleRoles(written)
      BY <1>4, <2>1, <3>2, <3>3
    <3> QED BY <1>1, <1>3, <2>2, <3>4, AfterStripAlone
  <2> QED BY <1>5, <1>9, <2>2 DEF Strip, written
<1> QED BY <1>8, <1>9

\* The new role is then the only one.
LEMMA AssignsAlone ==
  ASSUME IndInv, AloneInv, UNCHANGED overlapped, NEW t \in Threads, Assign(t)
  PROVE  AloneInv'
<1> DEFINE r == h[t]
           written == [r EXCEPT !.changed = TRUE]
<1>1. r.pc = "assign" /\ r.pc # "done"
  BY DEF Assign
<1>2. /\ r \in Handlers /\ r.pc \in PathOf(r.op)
      /\ r.op \in {"read", "create", "update", "delete"}
      /\ KnowsTarget(r)
  BY <1>1, OnItsWay
<1>3. written \in Handlers /\ SameRequest(written, r)
  BY <1>2, WrittenFields
<1>4. ~overlapped => roles[r.target] = {}
  BY <1>1 DEF AloneInv, Exact
<1> HIDE DEF written
<1>5. ASSUME NEW r0 \in Handlers, SameRequest(r0, r), Set(t, AssignFails(r0)),
             ~overlapped => roles'[r.target] \subseteq {r.role}
      PROVE  AloneInv'
  <2>1. CASE Set(t, End(r0, "error"))
    BY <1>1, <2>1, EndsAlone
  <2>2. CASE Set(t, To(r0, "rollback"))
    <3> DEFINE q == To(r0, "rollback")
    <3>1. q.pc = "rollback" /\ q.target = r.target /\ q.role = r.role
      BY <1>5, ToFields DEF Steps, SameRequest
    <3> HIDE DEF q
    <3> QED BY <1>1, <1>5, <2>2, <3>1, GoesOnAlone DEF q
  <2> QED BY <1>5, <2>1, <2>2 DEF AssignFails
<1>6. CASE /\ r.target \in exists /\ roles' = [roles EXCEPT ![r.target] = @ \cup {r.role}]
           /\ \/ Set(t, To(written, IF r.op = "create" THEN "ticket" ELSE "clear"))
              \/ Set(t, AssignFails(written))
  <2>1. roles'[r.target] = roles[r.target] \cup {r.role}
    BY <1>6 DEF IndInv, SharedInv, TenantInv
  <2>2. ~overlapped => roles'[r.target] = {r.role}
    BY <1>4, <2>1
  <2>3. CASE Set(t, AssignFails(written))
    BY <1>3, <1>5, <2>2, <2>3
  <2>4. CASE Set(t, To(written, IF r.op = "create" THEN "ticket" ELSE "clear"))
    <3> DEFINE step == IF r.op = "create" THEN "ticket" ELSE "clear"
               q == To(written, step)
    <3>1. q.pc = step /\ q.target = r.target /\ q.role = r.role
      BY <1>3, ToFields DEF Steps, SameRequest
    <3> HIDE DEF q
    <3>2. q.pc \in {"ticket", "clear"}
      BY <3>1
    <3> QED BY <1>1, <2>2, <2>4, <3>1, <3>2, GoesOnAlone DEF q
  <2> QED BY <1>6, <2>3, <2>4
<1>7. CASE Set(t, End(r, "error")) \/ Set(t, End(written, "error"))
  BY <1>1, <1>2, <1>3, <1>7, EndsAlone
<1>8. CASE UNCHANGED roles /\ Set(t, AssignFails(r))
  <2>1. SameRequest(r, r)
    BY DEF SameRequest
  <2>2. ~overlapped => roles'[r.target] \subseteq {r.role}
    BY <1>4, <1>8
  <2> QED BY <1>2, <1>5, <1>8, <2>1, <2>2
<1> QED BY <1>6, <1>7, <1>8 DEF Assign, tenant, written

\* The other calls leave the roles of an account that stays as they are.
LEMMA EndingsAlone ==
  ASSUME IndInv, AloneInv, UNCHANGED overlapped, NEW t \in Threads,
         \/ ClearAfterUpdate(t) \/ FinishUpdate(t) \/ FinishCreate(t) \/ FinishDelete(t)
         \/ PostUser(t) \/ Rollback(t) \/ DeleteAccount(t)
  PROVE  AloneInv'
<1> DEFINE r == h[t]
           written == [r EXCEPT !.changed = TRUE]
           audited == [r EXCEPT !.audited = TRUE]
<1>1. r.pc \in {"clear", "final", "ticket", "wiped", "post", "rollback", "delete"} /\ r.pc # "done"
  BY DEF ClearAfterUpdate, FinishUpdate, FinishCreate, FinishDelete, PostUser, Rollback,
         DeleteAccount
<1>2. r \in Handlers
  BY DEF IndInv, HandlersInv
<1>3. written \in Handlers /\ audited \in Handlers
  BY <1>2 DEF Handlers
<1> HIDE DEF written, audited
<1>4. CASE Set(t, End(r, "error")) \/ Set(t, End(written, "error")) \/ Set(t, End(audited, "ok"))
  BY <1>1, <1>2, <1>3, <1>4, EndsAlone
<1>5. CASE ClearAfterUpdate(t)
  <2> DEFINE q == To(r, "final")
  <2>1. q.pc = "final" /\ q.target = r.target /\ q.role = r.role
    BY <1>2, ToFields DEF Steps
  <2>2. Set(t, q) /\ r.pc = "clear" /\ UNCHANGED roles
    BY <1>5 DEF ClearAfterUpdate, tenant
  <2> HIDE DEF q
  <2>3. ~overlapped => roles'[q.target] = {q.role}
    BY <2>1, <2>2 DEF AloneInv, Exact
  <2> QED BY <1>1, <2>1, <2>2, <2>3, GoesOnAlone
<1>6. CASE FinishUpdate(t) \/ FinishCreate(t) \/ FinishDelete(t) \/ Rollback(t)
  BY <1>4, <1>6 DEF FinishUpdate, FinishCreate, FinishDelete, Rollback, audited
<1>7. CASE PostUser(t)
  <2>1. ASSUME NEW u \in Users \ everExisted, UNCHANGED roles,
               Set(t, [r EXCEPT !.pc = "assign", !.target = u, !.changed = TRUE])
        PROVE  AloneInv'
    <3> DEFINE q == [r EXCEPT !.pc = "assign", !.target = u, !.changed = TRUE]
    <3>1. q.pc = "assign" /\ q.target = u
      BY <1>2 DEF Handlers
    <3> HIDE DEF q
    <3>2. roles'[u] = {}
      BY <2>1 DEF IndInv, SharedInv, TenantInv
    <3> QED BY <1>1, <2>1, <3>1, <3>2, GoesOnAlone DEF q
  <2>2. CASE Set(t, [End(r, "error") EXCEPT !.changed = TRUE])
    <3> DEFINE q == [End(r, "error") EXCEPT !.changed = TRUE]
    <3>1. End(r, "error") \in Handlers /\ End(r, "error").pc = "done"
      BY <1>2, EndFields
    <3>2. q.pc = "done"
      BY <3>1 DEF Handlers
    <3> HIDE DEF q
    <3> QED BY <1>1, <2>2, <3>2, GoesOnAlone DEF q
  <2> QED BY <1>4, <1>7, <2>1, <2>2 DEF PostUser
<1>8. CASE DeleteAccount(t)
  <2>1. CASE Set(t, To(written, "wiped"))
    <3> DEFINE q == To(written, "wiped")
    <3>1. q.pc = "wiped"
      BY <1>3, ToFields DEF Steps
    <3> HIDE DEF q
    <3> QED BY <1>1, <2>1, <3>1, GoesOnAlone DEF q
  <2> QED BY <1>4, <1>8, <2>1 DEF DeleteAccount, written
<1> QED BY <1>5, <1>6, <1>7, <1>8

\* A new request starts with one of two calls.
LEMMA FirstCall ==
  ASSUME NEW t \in Threads, Begin(t)
  PROVE  \E q : /\ Set(t, q) /\ q.pc \in {"target", "caller"}
                /\ q.op \in {"update", "delete"} => q.pc = "target"
<1>1. PICK op \in Operations, actor \in {u \in Users : capable[u]}, target \in Users,
          role \in RoleInputs, block \in BlockInputs :
          Set(t, [NoRequest EXCEPT
                !.pc = IF op \in {"update", "delete"} THEN "target" ELSE "caller",
                !.op = op, !.actor = actor,
                !.target = IF op = "create" THEN NoUser ELSE target,
                !.role = role, !.block = block, !.claim = claim[actor]])
  BY DEF Begin
<1> DEFINE q == [NoRequest EXCEPT
                !.pc = IF op \in {"update", "delete"} THEN "target" ELSE "caller",
                !.op = op, !.actor = actor,
                !.target = IF op = "create" THEN NoUser ELSE target,
                !.role = role, !.block = block, !.claim = claim[actor]]
<1>2. q.pc = (IF op \in {"update", "delete"} THEN "target" ELSE "caller") /\ q.op = op
  BY DEF NoRequest
<1> HIDE DEF q
<1>3. q.pc \in {"target", "caller"} /\ (q.op \in {"update", "delete"} => q.pc = "target")
  BY <1>2
<1> QED BY <1>1, <1>3 DEF q

\* The exact knowledge is inductive, given the invariant.
LEMMA AloneHolds == IndInv /\ AloneInv /\ [Next]_vars => AloneInv'
<1> SUFFICES ASSUME IndInv, AloneInv, [Next]_vars PROVE AloneInv'
  OBVIOUS
<1>1. ASSUME NEW t \in Threads, Begin(t) PROVE AloneInv'
  <2>1. SUFFICES ASSUME ~overlapped' PROVE AloneInv'
    BY DEF AloneInv
  <2>2. ~overlapped /\ UNCHANGED roles /\ \A s \in Threads : h[s].pc = "done"
    BY <1>1, <2>1 DEF Begin, tenant
  <2>3. PICK q : /\ Set(t, q) /\ q.pc \in {"target", "caller"}
                 /\ q.op \in {"update", "delete"} => q.pc = "target"
    BY <1>1, FirstCall
  <2>4. h'[t] = q /\ \A s \in Threads : s # t => h'[s] = h[s]
    BY <2>3 DEF Set, IndInv, HandlersInv
  <2>5. \A s \in Threads : Exact(h[s])'
    BY <2>2, <2>3, <2>4 DEF Exact
  <2>6. \A s \in Threads : s # t => h'[s].pc = "done"
    BY <2>2, <2>4
  <2> QED BY <2>5, <2>6 DEF AloneInv
<1>2. ASSUME NEW t \in Threads, Handle(t), UNCHANGED overlapped PROVE AloneInv'
  BY <1>2, ReadsAlone, DecidesAlone, UpdatesAlone, RolesAlone, AssignsAlone, EndingsAlone DEF Handle
<1>3. ASSUME NEW w \in Workers, Crash(w), UNCHANGED overlapped PROVE AloneInv'
  <2>1. \A t \in Threads : h'[t] = h[t] \/ h'[t].pc = "done"
    <3>1. ASSUME NEW t \in Threads PROVE h'[t] = h[t] \/ h'[t].pc = "done"
      <4>1. h[t] \in Handlers
        BY DEF IndInv, HandlersInv
      <4> QED BY <1>3, <4>1, EndFields DEF Crash
    <3> QED BY <3>1
  <2>2. UNCHANGED <<roles, overlapped>>
    BY <1>3 DEF Crash, tenant
  <2>3. ~overlapped => \A t \in Threads : Exact(h[t])'
    BY <2>1, <2>2 DEF AloneInv, Exact
  <2> QED BY <2>1, <2>2, <2>3 DEF AloneInv
<1>4. ASSUME UNCHANGED <<h, roles, overlapped>> PROVE AloneInv'
  BY <1>4 DEF AloneInv, Exact
<1>5. CASE Next
  <2>1. ASSUME NEW u \in Users, Login(u) PROVE UNCHANGED <<h, roles>>
    BY <2>1 DEF Login, tenant
  <2>2. ASSUME NEW w \in Workers, NEW u \in Users, Expire(w, u) PROVE UNCHANGED <<h, roles>>
    BY <2>2 DEF Expire, tenant
  <2> QED BY <1>1, <1>2, <1>3, <1>4, <1>5, <2>1, <2>2 DEF Next
<1>6. CASE UNCHANGED vars
  BY <1>4, <1>6 DEF vars, tenant
<1> QED BY <1>5, <1>6

\* So both hold always.
LEMMA InvarianceAlone == Spec => [](IndInv /\ AloneInv)
<1>1. Init => IndInv /\ AloneInv
  BY InitHolds, AloneInitially
<1>2. (IndInv /\ AloneInv) /\ [Next]_vars => (IndInv /\ AloneInv)'
  BY NextHolds, AloneHolds
<1> QED BY <1>1, <1>2, PTL DEF Spec

\* While no two requests overlap, an account ranks below the caller when it is changed,
\* although the check may be several calls old (docs/RBAC.md, "Strictly junior targets
\* only").
THEOREM TargetsAreJunior == Spec => JuniorTargetsOnly
<1> DEFINE Junior(t) ==
             h'[t] # h[t] /\ tenant' # tenant /\ h[t].pc # "post" /\ ~overlapped =>
                 RankOf(roles[h[t].target]) < h[t].rank
<1>1. ASSUME IndInv, AloneInv, Next, NEW t \in Threads, h'[t] # h[t], tenant' # tenant,
             h[t].pc # "post", ~overlapped
      PROVE  RankOf(roles[h[t].target]) < h[t].rank
  <2> DEFINE r == h[t]
  <2>1. PICK s \in Threads : OneAccount(s) \/ OneMoreAccount(s)
    BY <1>1, WhoseAccount
  <2>2. s = t
    BY <1>1, <2>1 DEF OneAccount, OneMoreAccount
  <2>3. r.pc \in {"update", "strip", "assign", "rollback", "delete"}
    BY <1>1, <2>1, <2>2 DEF OneAccount, OneMoreAccount
  <2>4. r.pc # "done" /\ r.pc \notin Undecided
    BY <2>3 DEF Undecided
  <2>5. /\ r \in Handlers /\ r.pc \in PathOf(r.op)
        /\ r.op \in {"read", "create", "update", "delete"}
        /\ Checked(r) /\ Exact(r)
    BY <1>1, <2>4, OnItsWay DEF AloneInv
  <2>6. RankOf(r.seen) \in -1..2 /\ RankOf({r.role}) \in -1..2 /\ r.rank \in -1..2
    BY <2>5, RankRange DEF Handlers
  <2>7. CASE r.pc \in {"update", "strip", "delete"}
    <3>1. r.op \in {"update", "delete"} /\ roles[r.target] = r.seen
      BY <2>5, <2>7 DEF PathOf, Exact
    <3> QED BY <2>4, <2>5, <3>1 DEF Checked, MayAdminister
  <2>8. CASE r.pc \in {"assign", "rollback"}
    <3>1. RankOf({r.role}) < r.rank
      BY <2>5, <2>8 DEF Checked, MayGrant
    <3>2. roles[r.target] \subseteq {r.role}
      BY <2>5, <2>8 DEF Exact
    <3>3. RankOf(roles[r.target]) <= RankOf({r.role}) /\ RankOf(roles[r.target]) \in -1..2
      BY <3>2, RankMonotone, RankRange
    <3> QED BY <2>6, <3>1, <3>3
  <2> QED BY <2>3, <2>7, <2>8
<1>2. (IndInv /\ AloneInv) /\ [Next]_vars => [\A t \in Threads : Junior(t)]_vars
  BY <1>1
<1> QED BY <1>2, InvarianceAlone, PTL DEF Spec, JuniorTargetsOnly

\* While no two requests overlap, a role change that is answered with success leaves the
\* account with that role alone, whatever failed before (users_api.py, update_user).
THEOREM RolesAreReplaced == Spec => RoleReplaced
<1> DEFINE Replaced(t) ==
             h[t].pc = "final" /\ h'[t].answer = "ok" /\ h[t].role # NoRole /\ ~overlapped =>
                 roles[h[t].target] = {h[t].role}
<1>1. (IndInv /\ AloneInv) /\ [Next]_vars => [\A t \in Threads : Replaced(t)]_vars
  BY DEF AloneInv, Exact
<1> QED BY <1>1, InvarianceAlone, PTL DEF Spec, RoleReplaced

-----------------------------------------------------------------------------
\* At most one call of Auth0 was refused, none lost or unreadable, and no
\* process died.
Blameless == \A f \in Faults : faults[f] <= IF f = "refused" THEN 1 ELSE 0

\* Somebody is still at work on account u: the invitation that made it.
InGoodHands(u) == \E t \in Threads :
    h[t].target = u /\ h[t].op = "create" /\ h[t].pc \in {"assign", "rollback"}

\* A rollback under way has used up the one refusal, or has nothing to remove.
RefusalSpent(t) == h[t].pc = "rollback" =>
    h[t].target \notin exists \/ ("refused" \in Faults /\ faults["refused"] >= 1)

HalfInv == Blameless =>
    /\ \A u \in exists \ Accounts : everHeld[u] = {} => InGoodHands(u)
    /\ \A t \in Threads : RefusalSpent(t)

\* There is no invited account at the start.
LEMMA HalfInitially == Init => HalfInv
BY DEF Init, HalfInv, RefusalSpent, NoRequest

\* Faults are never forgotten.
LEMMA FaultsAddUp ==
  ASSUME IndInv, Works \/ \E kind : Fault(kind)
  PROVE  /\ \A f \in Faults : faults[f] \in Nat /\ faults'[f] \in Nat /\ faults[f] <= faults'[f]
         /\ Blameless' => /\ Blameless /\ ~Fault("lost") /\ ~Fault("unreadable")
                          /\ ~Fault("crash") /\ ~AnswerFails
         /\ Fault("refused") => "refused" \in Faults /\ faults'["refused"] = faults["refused"] + 1
<1>1. faults \in [Faults -> Nat]
  BY DEF IndInv, SharedInv, CountsInv
<1>2. \A kind : Fault(kind) => kind \in Faults /\ faults' = [faults EXCEPT ![kind] = @ + 1]
  BY DEF Fault
<1>3. \A f \in Faults : faults[f] \in Nat /\ faults'[f] \in Nat /\ faults[f] <= faults'[f]
  <2>1. CASE Works
    BY <1>1, <2>1 DEF Works
  <2>2. CASE \E kind : Fault(kind)
    BY <1>1, <1>2, <2>2
  <2> QED BY <2>1, <2>2
<1>4. Blameless' => Blameless
  BY <1>3 DEF Blameless
<1>5. ASSUME Blameless', NEW kind \in {"lost", "unreadable", "crash"}, Fault(kind)
      PROVE  FALSE
  <2>1. kind \in Faults /\ faults'[kind] = faults[kind] + 1 /\ faults[kind] \in Nat
    BY <1>1, <1>2, <1>5
  <2>2. faults'[kind] <= 0
    BY <1>5, <2>1 DEF Blameless
  <2> QED BY <2>1, <2>2
<1>6. Fault("refused") => "refused" \in Faults /\ faults'["refused"] = faults["refused"] + 1
  BY <1>1, <1>2
<1> QED BY <1>3, <1>4, <1>5, <1>6 DEF AnswerFails

\* The steps that neither make an account nor give up on one.
LEMMA NobodyAbandoned ==
  ASSUME IndInv, HalfInv, Works \/ \E kind : Fault(kind),
         exists' \subseteq exists, UNCHANGED everHeld,
         \A t \in Threads : \/ h'[t] = h[t]
                            \/ h[t].pc \notin {"assign", "rollback"} /\ h'[t].pc # "rollback"
  PROVE  HalfInv'
<1> SUFFICES ASSUME Blameless'
             PROVE  /\ \A u \in exists' \ Accounts : everHeld'[u] = {} => InGoodHands(u)'
                    /\ \A t \in Threads : RefusalSpent(t)'
  BY DEF HalfInv
<1>1. Blameless /\ \A f \in Faults : faults[f] \in Nat /\ faults'[f] \in Nat /\ faults[f] <= faults'[f]
  BY FaultsAddUp
<1>2. ASSUME NEW u \in exists' \ Accounts, everHeld'[u] = {} PROVE InGoodHands(u)'
  <2>1. PICK t \in Threads : /\ h[t].target = u /\ h[t].op = "create"
                             /\ h[t].pc \in {"assign", "rollback"}
    BY <1>1, <1>2 DEF HalfInv, InGoodHands
  <2>2. h'[t] = h[t]
    BY <2>1
  <2> QED BY <2>1, <2>2 DEF InGoodHands
<1>3. ASSUME NEW t \in Threads PROVE RefusalSpent(t)'
  BY <1>1 DEF HalfInv, RefusalSpent
<1> QED BY <1>2, <1>3

\* The next call of a handler is a rollback only after its assignment failed.
LEMMA NoRollbackElsewhere ==
  ASSUME IndInv, NEW t \in Threads,
         \/ ReadTarget(t) \/ ResolveCaller(t) \/ LookUpCaller(t) \/ RememberCaller(t) \/ Look(t)
         \/ UpdateAccount(t) \/ ListRoles(t) \/ Strip(t) \/ ClearAfterUpdate(t)
         \/ FinishUpdate(t) \/ FinishCreate(t) \/ DeleteAccount(t) \/ FinishDelete(t)
  PROVE  /\ h[t].pc \notin {"assign", "rollback"} /\ h'[t].pc # "rollback"
         /\ \A s \in Threads : s # t => h'[s] = h[s]
<1> DEFINE r == h[t]
           written == [r EXCEPT !.changed = TRUE]
           audited == [r EXCEPT !.audited = TRUE]
<1>1. h \in [Threads -> Handlers] /\ r \in Handlers /\ written \in Handlers /\ audited \in Handlers
  <2>1. r \in Handlers
    BY DEF IndInv, HandlersInv
  <2> QED BY <2>1 DEF IndInv, HandlersInv, Handlers
<1>2. ASSUME NEW q, Set(t, q), q.pc # "rollback"
      PROVE  h'[t].pc # "rollback" /\ \A s \in Threads : s # t => h'[s] = h[s]
  BY <1>1, <1>2 DEF Set
<1>3. ASSUME NEW r0 \in Handlers
      PROVE  /\ \A s \in Steps : To(r0, s).pc = s
             /\ \A a \in {"ok", "forbidden", "invalid", "error"} : End(r0, a).pc # "rollback"
             /\ AfterUpdate(r0).pc # "rollback" /\ AfterStrip(r0).pc # "rollback"
             /\ \A S \in SUBSET Roles : Decide(r0, S).pc # "rollback"
  <2>1. \A s \in Steps : To(r0, s).pc = s
    BY ToFields
  <2>2. \A a \in {"ok", "forbidden", "invalid", "error"} : End(r0, a).pc # "rollback"
    BY EndFields
  <2>3. AfterUpdate(r0).pc # "rollback" /\ AfterStrip(r0).pc # "rollback"
    BY <2>1, <2>2 DEF AfterUpdate, AfterStrip, Steps
  <2>4. \A S \in SUBSET Roles : Decide(r0, S).pc # "rollback"
    BY DecideFields DEF GoesOn, Handlers
  <2> QED BY <2>1, <2>2, <2>3, <2>4
<1>4. ASSUME NEW S PROVE /\ [r EXCEPT !.pc = "caller", !.seen = S].pc = "caller"
                         /\ [r EXCEPT !.pc = "remember", !.view = S].pc = "remember"
  BY <1>1 DEF Handlers
<1>5. \A s \in {"lookup", "post", "strip", "final", "wiped"} :
         To(r, s).pc # "rollback" /\ To(written, s).pc # "rollback"
  BY <1>1, <1>3 DEF Steps
<1> HIDE DEF written, audited
<1>6. CASE ReadTarget(t) \/ LookUpCaller(t) \/ Look(t)
  BY <1>1, <1>2, <1>3, <1>4, <1>6 DEF ReadTarget, LookUpCaller, Look
<1>7. CASE ResolveCaller(t) \/ RememberCaller(t)
  <2>1. r.pc # "done" /\ WorkerOf[t] \in Workers
    BY <1>7, UsersAssumption DEF ResolveCaller, RememberCaller
  <2>2. r.actor \in Users
    BY <2>1, OnItsWay
  <2>3. r.claim \in SUBSET Roles /\ r.view \in SUBSET Roles
        /\ (cache[WorkerOf[t]][r.actor] # Unknown => cache[WorkerOf[t]][r.actor] \in SUBSET Roles)
    BY <1>1, <2>1, <2>2 DEF Handlers, IndInv, SharedInv, CacheInv
  <2> QED BY <1>1, <1>2, <1>3, <1>5, <1>7, <2>3 DEF ResolveCaller, RememberCaller
<1>8. CASE UpdateAccount(t)
  BY <1>1, <1>2, <1>3, <1>8 DEF UpdateAccount, written
<1>9. CASE ListRoles(t) \/ Strip(t)
  BY <1>1, <1>2, <1>3, <1>5, <1>9 DEF ListRoles, Strip, written
<1>10. CASE ClearAfterUpdate(t) \/ FinishUpdate(t) \/ FinishCreate(t)
  BY <1>1, <1>2, <1>3, <1>5, <1>10 DEF ClearAfterUpdate, FinishUpdate, FinishCreate, audited
<1>11. CASE DeleteAccount(t) \/ FinishDelete(t)
  BY <1>1, <1>2, <1>3, <1>5, <1>11 DEF DeleteAccount, FinishDelete, written, audited
<1> QED BY <1>6, <1>7, <1>8, <1>9, <1>10, <1>11

\* Most steps are of that kind.
LEMMA QuietSteps ==
  ASSUME IndInv, HalfInv, NEW t \in Threads,
         \/ ReadTarget(t) \/ ResolveCaller(t) \/ LookUpCaller(t) \/ RememberCaller(t) \/ Look(t)
         \/ UpdateAccount(t) \/ ListRoles(t) \/ Strip(t) \/ ClearAfterUpdate(t)
         \/ FinishUpdate(t) \/ FinishCreate(t) \/ DeleteAccount(t) \/ FinishDelete(t)
  PROVE  HalfInv'
<1>1. /\ h[t].pc \notin {"assign", "rollback"} /\ h'[t].pc # "rollback"
      /\ \A s \in Threads : s # t => h'[s] = h[s]
  BY NoRollbackElsewhere
<1> DEFINE Quiet == /\ exists' \subseteq exists /\ UNCHANGED everHeld
                    /\ Works \/ \E kind : Fault(kind)
<1>2. Quiet
  <2>1. CASE ReadTarget(t) \/ LookUpCaller(t) \/ Look(t)
    BY <2>1, FailedCalls DEF ReadTarget, LookUpCaller, Look, tenant, history
  <2>2. CASE ResolveCaller(t) \/ RememberCaller(t)
    BY <2>2 DEF ResolveCaller, RememberCaller, tenant, history, Works
  <2>3. CASE UpdateAccount(t) \/ Strip(t)
    BY <2>3, FailedCalls DEF UpdateAccount, Strip, WriteFails, tenant, history
  <2>4. CASE ListRoles(t) \/ FinishUpdate(t)
    BY <2>4, FailedCalls DEF ListRoles, FinishUpdate, tenant, history
  <2>5. CASE ClearAfterUpdate(t) \/ FinishCreate(t) \/ FinishDelete(t)
    BY <2>5 DEF ClearAfterUpdate, FinishCreate, FinishDelete, tenant, history, Works
  <2>6. CASE DeleteAccount(t)
    BY <2>6, FailedCalls DEF DeleteAccount, WriteFails, Remove, tenant, history
  <2> QED BY <2>1, <2>2, <2>3, <2>4, <2>5, <2>6
<1>3. \A s \in Threads : \/ h'[s] = h[s]
                         \/ h[s].pc \notin {"assign", "rollback"} /\ h'[s].pc # "rollback"
  BY <1>1
<1> QED BY <1>2, <1>3, NobodyAbandoned

\* A new account is in the hands of the handler that made it.
LEMMA PostInGoodHands ==
  ASSUME IndInv, HalfInv, NEW t \in Threads, PostUser(t)
  PROVE  HalfInv'
<1> SUFFICES ASSUME Blameless' PROVE HalfInv'
  BY DEF HalfInv
<1> DEFINE r == h[t]
<1>1. r.pc = "post" /\ r.pc # "done" /\ (Works \/ \E kind : Fault(kind))
  BY FailedAnswers DEF PostUser
<1>2. r \in Handlers /\ r.op = "create" /\ r.actor \in Users
  BY <1>1, OnItsWay DEF PathOf
<1>3. Blameless /\ ~Fault("lost") /\ ~Fault("unreadable") /\ ~AnswerFails
      /\ \A f \in Faults : faults[f] \in Nat /\ faults'[f] \in Nat /\ faults[f] <= faults'[f]
  BY <1>1, FaultsAddUp
<1>4. ASSUME NEW u \in Users \ everExisted, exists' = exists \cup {u}, UNCHANGED everHeld,
             Set(t, [r EXCEPT !.pc = "assign", !.target = u, !.changed = TRUE])
      PROVE  HalfInv'
  <2>1. /\ h'[t].pc = "assign" /\ h'[t].target = u /\ h'[t].op = "create"
        /\ \A s \in Threads : s # t => h'[s] = h[s]
    BY <1>2, <1>4 DEF Set, IndInv, HandlersInv, Handlers
  <2>2. ASSUME NEW v \in exists' \ Accounts, everHeld'[v] = {} PROVE InGoodHands(v)'
    <3>1. CASE v = u
      BY <2>1, <3>1 DEF InGoodHands
    <3>2. CASE v # u
      <4>1. InGoodHands(v)
        BY <1>3, <1>4, <2>2, <3>2 DEF HalfInv
      <4>2. PICK s \in Threads : /\ h[s].target = v /\ h[s].op = "create"
                                 /\ h[s].pc \in {"assign", "rollback"}
        BY <4>1 DEF InGoodHands
      <4>3. h'[s] = h[s]
        BY <1>1, <2>1, <4>2
      <4> QED BY <4>2, <4>3 DEF InGoodHands
    <3> QED BY <3>1, <3>2
  <2>3. ASSUME NEW s \in Threads PROVE RefusalSpent(s)'
    <3>1. CASE s = t
      BY <2>1, <3>1 DEF RefusalSpent
    <3>2. CASE s # t /\ h[s].pc = "rollback"
      <4>1. RefusalSpent(s) /\ h'[s] = h[s]
        BY <1>3, <2>1, <3>2 DEF HalfInv
      <4>2. h[s].pc # "done"
        BY <3>2
      <4>3. KnowsTarget(h[s]) /\ h[s].pc \in PathOf(h[s].op) /\ h[s] \in Handlers
        BY <4>2, OnItsWay
      <4>4. h[s].op = "create"
        BY <3>2, <4>3 DEF PathOf, Handlers
      <4>5. h[s].target \in everExisted
        BY <3>2, <4>3, <4>4 DEF KnowsTarget
      <4> QED BY <1>3, <1>4, <4>1, <4>5 DEF RefusalSpent
    <3> QED BY <2>1, <3>1, <3>2 DEF RefusalSpent
  <2> QED BY <2>2, <2>3 DEF HalfInv
<1>5. CASE UNCHANGED <<tenant, history>> /\ Set(t, End(r, "error"))
  <2>1. h'[t].pc = "done" /\ \A s \in Threads : s # t => h'[s] = h[s]
    BY <1>2, <1>5, EndFields DEF Set, IndInv, HandlersInv
  <2>2. exists' \subseteq exists /\ UNCHANGED everHeld
    BY <1>5 DEF tenant, history
  <2>3. \A s \in Threads : \/ h'[s] = h[s]
                           \/ h[s].pc \notin {"assign", "rollback"} /\ h'[s].pc # "rollback"
    BY <1>1, <2>1
  <2> QED BY <1>1, <2>2, <2>3, NobodyAbandoned
<1> QED BY <1>3, <1>4, <1>5 DEF PostUser

\* Its role is assigned, or the rollback is on its way, the refusal spent.
LEMMA AssignInGoodHands ==
  ASSUME IndInv, HalfInv, NEW t \in Threads, Assign(t)
  PROVE  HalfInv'
<1> SUFFICES ASSUME Blameless' PROVE HalfInv'
  BY DEF HalfInv
<1> DEFINE r == h[t]
           written == [r EXCEPT !.changed = TRUE]
<1>1. r.pc = "assign" /\ (Works \/ \E kind : Fault(kind))
  BY FailedCalls DEF Assign
<1>2. r \in Handlers /\ r.role \in Roles \cup {NoRole, "unlisted"}
  BY DEF IndInv, HandlersInv, Handlers
<1>3. Blameless /\ ~Fault("lost") /\ ~Fault("unreadable") /\ ~AnswerFails
      /\ \A f \in Faults : faults[f] \in Nat /\ faults'[f] \in Nat /\ faults[f] <= faults'[f]
  BY <1>1, FaultsAddUp
<1>4. written \in Handlers
  BY <1>2, WrittenFields
<1> HIDE DEF written
<1>5. UNCHANGED exists
  BY DEF Assign, tenant
<1>6. \A q : Set(t, q) => h'[t] = q /\ \A s \in Threads : s # t => h'[s] = h[s]
  BY DEF Set, IndInv, HandlersInv
<1>7. CASE /\ r.target \in exists
           /\ everHeld' = [everHeld EXCEPT ![r.target] = @ \cup {r.role}]
           /\ Set(t, To(written, IF r.op = "create" THEN "ticket" ELSE "clear"))
  <2>1. h'[t].pc # "rollback" /\ \A s \in Threads : s # t => h'[s] = h[s]
    BY <1>4, <1>6, <1>7, ToFields DEF Steps
  <2>2. everHeld'[r.target] # {} /\ \A u \in Users : u # r.target => everHeld'[u] = everHeld[u]
    BY <1>7 DEF IndInv, SharedInv, TenantInv
  <2>3. ASSUME NEW u \in exists' \ Accounts, everHeld'[u] = {} PROVE InGoodHands(u)'
    <3>1. u # r.target /\ u \in Users /\ everHeld[u] = {}
      BY <1>5, <2>2, <2>3 DEF IndInv, SharedInv, TenantInv
    <3>2. PICK s \in Threads : /\ h[s].target = u /\ h[s].op = "create"
                               /\ h[s].pc \in {"assign", "rollback"}
      BY <1>3, <1>5, <2>3, <3>1 DEF HalfInv, InGoodHands
    <3>3. h'[s] = h[s]
      BY <2>1, <3>1, <3>2
    <3> QED BY <3>2, <3>3 DEF InGoodHands
  <2>4. ASSUME NEW s \in Threads PROVE RefusalSpent(s)'
    BY <1>3, <1>5, <2>1 DEF HalfInv, RefusalSpent
  <2> QED BY <2>3, <2>4 DEF HalfInv
<1>8. CASE /\ UNCHANGED <<tenant, history>> /\ Refused(r.target)
           /\ Set(t, AssignFails(r))
  <2>1. UNCHANGED everHeld
    BY <1>8 DEF history
  <2>2. \A s \in Threads : s # t => h'[s] = h[s]
    BY <1>6, <1>8
  <2>3. r.target \notin exists \/ ("refused" \in Faults /\ faults'["refused"] >= 1)
    <3>1. CASE Fault("refused")
      <4>1. "refused" \in Faults /\ faults'["refused"] = faults["refused"] + 1
        BY <3>1, FaultsAddUp
      <4> QED BY <1>3, <4>1
    <3> QED BY <1>8, <3>1 DEF Refused
  <2>4. /\ h'[t].pc = "rollback" => h'[t].target = r.target
        /\ r.op = "create" => /\ h'[t].pc = "rollback" /\ h'[t].target = r.target
                              /\ h'[t].op = "create"
    <3>1. /\ To(r, "rollback").pc = "rollback" /\ To(r, "rollback").target = r.target
          /\ To(r, "rollback").op = r.op /\ End(r, "error").pc = "done"
      BY <1>2, ToFields, EndFields DEF Steps
    <3> QED BY <1>6, <1>8, <3>1 DEF AssignFails
  <2>5. ASSUME NEW u \in exists' \ Accounts, everHeld'[u] = {} PROVE InGoodHands(u)'
    <3>1. PICK s \in Threads : /\ h[s].target = u /\ h[s].op = "create"
                               /\ h[s].pc \in {"assign", "rollback"}
      BY <1>3, <1>5, <2>1, <2>5 DEF HalfInv, InGoodHands
    <3>2. /\ h'[s].target = u /\ h'[s].op = "create" /\ h'[s].pc \in {"assign", "rollback"}
      BY <2>2, <2>4, <3>1
    <3> QED BY <3>2 DEF InGoodHands
  <2>6. ASSUME NEW s \in Threads PROVE RefusalSpent(s)'
    <3>1. CASE s = t
      BY <1>5, <2>3, <2>4, <3>1 DEF RefusalSpent
    <3>2. CASE s # t
      BY <1>3, <1>5, <2>2, <3>2 DEF HalfInv, RefusalSpent
    <3> QED BY <3>1, <3>2
  <2> QED BY <2>5, <2>6 DEF HalfInv
<1> QED BY <1>3, <1>7, <1>8 DEF Assign, written

\* A rollback that may not be refused removes the account.
LEMMA RollbackInGoodHands ==
  ASSUME IndInv, HalfInv, NEW t \in Threads, Rollback(t)
  PROVE  HalfInv'
<1> SUFFICES ASSUME Blameless' PROVE HalfInv'
  BY DEF HalfInv
<1> DEFINE r == h[t]
<1>1. r.pc = "rollback" /\ (Works \/ \E kind : Fault(kind)) /\ UNCHANGED everHeld
      /\ exists' \subseteq exists
  BY FailedCalls DEF Rollback, WriteFails, Remove, tenant, history
<1>2. r \in Handlers
  BY DEF IndInv, HandlersInv
<1>3. Blameless /\ ~Fault("lost") /\ ~Fault("unreadable") /\ ~AnswerFails
      /\ \A f \in Faults : faults[f] \in Nat /\ faults'[f] \in Nat /\ faults[f] <= faults'[f]
  BY <1>1, FaultsAddUp
<1>4. h'[t].pc = "done" /\ \A s \in Threads : s # t => h'[s] = h[s]
  BY <1>2, EndFields DEF Rollback, Set, IndInv, HandlersInv
<1>5. r.target \notin exists'
  <2>1. CASE Remove(r.target)
    BY <2>1 DEF Remove
  <2>2. CASE r.target \notin exists
    BY <1>1, <2>2
  <2>3. CASE Fault("refused") /\ r.target \in exists
    <3>1. "refused" \in Faults /\ faults["refused"] >= 1
      BY <1>1, <1>3, <2>3 DEF HalfInv, RefusalSpent
    <3>2. faults'["refused"] = faults["refused"] + 1
      BY <2>3, FaultsAddUp
    <3>3. faults'["refused"] <= 1
      BY <3>1 DEF Blameless
    <3> QED BY <1>3, <3>1, <3>2, <3>3
  <2> QED BY <1>3, <2>1, <2>2, <2>3 DEF Rollback, WriteFails, CallFails, Refused
<1>6. ASSUME NEW u \in exists' \ Accounts, everHeld'[u] = {} PROVE InGoodHands(u)'
  <2>1. PICK s \in Threads : /\ h[s].target = u /\ h[s].op = "create"
                             /\ h[s].pc \in {"assign", "rollback"}
    BY <1>1, <1>3, <1>6 DEF HalfInv, InGoodHands
  <2>2. h'[s] = h[s]
    BY <1>4, <1>5, <1>6, <2>1
  <2> QED BY <2>1, <2>2 DEF InGoodHands
<1>7. ASSUME NEW s \in Threads PROVE RefusalSpent(s)'
  BY <1>1, <1>3, <1>4 DEF HalfInv, RefusalSpent
<1> QED BY <1>6, <1>7 DEF HalfInv

\* Nobody lets go of an invited account.
LEMMA HalfHolds == IndInv /\ HalfInv /\ [Next]_vars => HalfInv'
<1> SUFFICES ASSUME IndInv, HalfInv, [Next]_vars PROVE HalfInv'
  OBVIOUS
<1>1. ASSUME NEW t \in Threads, Begin(t) PROVE HalfInv'
  <2>1. Works /\ exists' \subseteq exists /\ UNCHANGED everHeld /\ h[t].pc = "done"
    BY <1>1 DEF Begin, tenant, history, Works
  <2>2. \A s \in Threads : s # t => h'[s] = h[s]
    BY <1>1 DEF Begin, Set, IndInv, HandlersInv
  <2>3. h'[t].pc # "rollback"
    BY <1>1, FirstCall DEF Set, IndInv, HandlersInv
  <2>4. \A s \in Threads : \/ h'[s] = h[s]
                           \/ h[s].pc \notin {"assign", "rollback"} /\ h'[s].pc # "rollback"
    BY <2>1, <2>2, <2>3
  <2> QED BY <2>1, <2>4, NobodyAbandoned
<1>2. ASSUME NEW t \in Threads, Handle(t) PROVE HalfInv'
  BY <1>2, QuietSteps, PostInGoodHands, AssignInGoodHands, RollbackInGoodHands DEF Handle
<1>3. ASSUME NEW w \in Workers, Crash(w) PROVE HalfInv'
  BY <1>3, FaultsAddUp DEF Crash, HalfInv
<1>4. ASSUME UNCHANGED <<h, exists, everHeld, faults>> PROVE HalfInv'
  BY <1>4, NobodyAbandoned DEF Works
<1>5. CASE Next
  <2>1. ASSUME NEW u \in Users, Login(u) PROVE UNCHANGED <<h, exists, everHeld, faults>>
    BY <2>1 DEF Login, tenant, history
  <2>2. ASSUME NEW w \in Workers, NEW u \in Users, Expire(w, u)
        PROVE  UNCHANGED <<h, exists, everHeld, faults>>
    BY <2>2 DEF Expire, tenant, history
  <2> QED BY <1>1, <1>2, <1>3, <1>4, <1>5, <2>1, <2>2 DEF Next
<1>6. CASE UNCHANGED vars
  BY <1>4, <1>6 DEF vars, tenant, history
<1> QED BY <1>5, <1>6

\* An invited account has been given a role, or its invitation is still being processed,
\* if at most one call is refused, none is lost or unreadable, and no process dies
\* (users_api.py, the rollback of create_user, which answers to Auth0ManagementError alone).
THEOREM NoInvitationHalfDone == Spec => []NoHalfCreatedAccount
<1>1. Init => IndInv /\ HalfInv
  BY InitHolds, HalfInitially
<1>2. (IndInv /\ HalfInv) /\ [Next]_vars => (IndInv /\ HalfInv)'
  BY NextHolds, HalfHolds
<1>3. IndInv /\ HalfInv => NoHalfCreatedAccount
  BY DEF HalfInv, Blameless, InGoodHands, NoHalfCreatedAccount
<1> QED BY <1>1, <1>2, <1>3, PTL DEF Spec
=============================================================================
