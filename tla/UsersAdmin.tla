---------------------------- MODULE UsersAdmin ----------------------------
(***************************************************************************)
(* User administration, src/backend/src/management/users_api.py: the       *)
(* handlers that read, invite, re-role, block and delete Auth0 accounts.   *)
(* Request threads of several worker processes run them at once, and each  *)
(* call of the Auth0 Management API is a step of its own: what a handler   *)
(* read from Auth0 may be outdated when it acts on it.  A worker process   *)
(* caches the roles of callers (_self_roles_cache).                        *)
(*                                                                         *)
(* A call can fail before it takes effect ("refused": rate limit, error    *)
(* status, no connection) or after ("lost": the answer never arrives),     *)
(* both an Auth0ManagementError; or end in an exception of another type,   *)
(* before or after ("unreadable": a success whose body, or whose new       *)
(* token's body, is not the JSON expected).  The handlers catch only the   *)
(* former.  A worker can crash, which loses its requests and its cache.    *)
(*                                                                         *)
(* h[t] is the local state of the handler on thread t.  h[t].pc names the  *)
(* call it is about to make, or "done".                                    *)
(***************************************************************************)
EXTENDS Integers, FiniteSets, Functions

CONSTANTS
    Users,          \* account ids, those not yet created included
    NoUser,         \* the target of an invitation before Auth0 names it
    Threads, Workers, WorkerOf,  \* request threads, and the process of each
    InitialRoles,   \* roles of the accounts that exist at the start
    Operations,     \* the operations clients ask for
    RoleInputs,     \* "role" in a request body, NoRole when absent
    BlockInputs,    \* "blocked" in a request body
    Faults,         \* kinds of failure that happen
    MaxFaults,      \* bound on their number
    MaxRequests,    \* bound on the number of requests
    CacheBound      \* the 512 entries above which _TTLCache.set empties the cache

Roles == {"barista", "manager", "administrator"}
NoRole == "no role"
Unknown == {"unknown"}    \* a cache without an entry, never a set of roles

ASSUME UsersAssumption ==
    /\ NoUser \notin Users
    /\ WorkerOf \in [Threads -> Workers]
    /\ DOMAIN InitialRoles \subseteq Users
    /\ InitialRoles \in [DOMAIN InitialRoles -> SUBSET Roles]
    /\ Operations \subseteq {"read", "create", "update", "delete"}
    /\ RoleInputs \subseteq Roles \cup {NoRole, "unlisted"}
    /\ BlockInputs \subseteq {"absent", "true", "false", "malformed"}
    /\ Faults \subseteq {"refused", "lost", "unreadable", "crash"}
    /\ MaxFaults \in Nat /\ MaxRequests \in Nat /\ CacheBound \in Nat

VARIABLES
    exists, roles, blocked,     \* the Auth0 tenant
    rolesClaim,                 \* whether the Auth0 Action for the claim is installed
    claim, capable,             \* roles claim and capability of each token
    cache,                      \* _self_roles_cache of each worker
    h,                          \* the handlers
    audit,                      \* rows of the audit log
    faults, requests,           \* failures of each kind, and requests, so far
    grants, everHeld, everExisted, overlapped  \* history

tenant == <<exists, roles, blocked>>
tokens == <<rolesClaim, claim, capable>>
history == <<grants, everHeld, everExisted>>
vars == <<tenant, tokens, cache, h, audit, faults, requests, history, overlapped>>

-----------------------------------------------------------------------------
\* ROLE_RANKS and rank_of: the highest rank held, -1 for no recognised role.
RankOf(S) ==
    IF "administrator" \in S THEN 2
    ELSE IF "manager" \in S THEN 1
    ELSE IF "barista" \in S THEN 0
    ELSE -1

\* Rows of the audit log, and the local state of a handler.
Rows == [action : {"created", "updated", "deleted"}, by : Users,
         on : Users, role : Roles \cup {NoRole, "unlisted"}]

Steps == {"target", "caller", "lookup", "remember", "look", "update", "roleIds",
          "strip", "assign", "clear", "final", "post", "rollback", "ticket",
          "delete", "wiped", "done"}

Handlers ==
    [pc : Steps, op : {"read", "create", "update", "delete"},
     actor : Users \cup {NoUser}, target : Users \cup {NoUser},
     role : Roles \cup {NoRole, "unlisted"}, block : {"absent", "true", "false", "malformed"},
     claim : SUBSET Roles,     \* payload[ROLES_CLAIM]
     seen : SUBSET Roles,      \* existing_roles of the target
     view : SUBSET Roles,      \* roles of the caller as looked up
     rank : -1..2,             \* actor_rank
     changed : BOOLEAN,        \* history: an upstream write took effect
     audited : BOOLEAN,        \* history: the audit row was written
     answer : {"none", "ok", "forbidden", "invalid", "error"}]

Accounts == DOMAIN InitialRoles

\* A thread that handles no request.
NoRequest ==
    [pc |-> "done", op |-> "read", actor |-> NoUser, target |-> NoUser,
     role |-> NoRole, block |-> "absent", claim |-> {}, seen |-> {}, view |-> {},
     rank |-> -1, changed |-> FALSE, audited |-> FALSE, answer |-> "none"]

Init ==
    /\ exists = Accounts
    /\ roles = [u \in Users |-> IF u \in Accounts THEN InitialRoles[u] ELSE {}]
    /\ blocked = {}
    /\ rolesClaim \in BOOLEAN
    /\ claim = [u \in Users |-> IF rolesClaim THEN roles[u] ELSE {}]
    /\ capable = [u \in Users |-> RankOf(roles[u]) >= 1]
    /\ cache = [w \in Workers |-> [u \in Users |-> Unknown]]
    /\ h = [t \in Threads |-> NoRequest]
    /\ audit = {}
    /\ faults = [f \in Faults |-> 0] /\ requests = 0 /\ overlapped = FALSE
    /\ grants = {} /\ everHeld = roles /\ everExisted = exists

-----------------------------------------------------------------------------
\* How a handler moves on, and how a call of the Management API turns out.
Set(t, r) == h' = [h EXCEPT ![t] = r]
To(r, step) == [r EXCEPT !.pc = step]
End(r, answer) ==
    [NoRequest EXCEPT !.changed = r.changed, !.audited = r.audited, !.answer = answer]

Works == UNCHANGED faults
Fault(kind) ==
    /\ kind \in Faults
    /\ SumFunction(faults) < MaxFaults
    /\ faults' = [faults EXCEPT ![kind] = @ + 1]

\* A call about account u that raises Auth0ManagementError without an effect.
Refused(u) == (u \notin exists /\ Works) \/ Fault("refused")

\* A call about account u that raises, whatever the exception, without an effect.
CallFails(u) == Refused(u) \/ Fault("unreadable")
WriteFails(u) == CallFails(u) /\ UNCHANGED <<tenant, history>>

\* A write takes effect, but the handler sees it raise.
AnswerFails == Fault("lost") \/ Fault("unreadable")

-----------------------------------------------------------------------------
\* Tokens: signing in puts the account's roles, and the permissions they
\* imply, into a new token; a blocked account cannot sign in.  The roles claim
\* is there only if the Auth0 Action that writes it is installed.
Login(u) ==
    /\ u \in exists \ blocked
    /\ capable' = [capable EXCEPT ![u] = RankOf(roles[u]) >= 1]
    /\ claim' = [claim EXCEPT ![u] = IF rolesClaim THEN roles[u] ELSE {}]
    /\ UNCHANGED rolesClaim
    /\ tokens' # tokens
    /\ UNCHANGED <<tenant, cache, h, audit, faults, requests, history>>

\* requires_auth lets a capable token in; the handler checks its body.
Begin(t) ==
    /\ h[t].pc = "done"
    /\ requests < MaxRequests /\ requests' = requests + 1
    /\ overlapped' = (overlapped \/ \E other \in Threads : h[other].pc # "done")
    /\ \E op \in Operations, actor \in {u \in Users : capable[u]}, target \in Users,
          role \in RoleInputs, block \in BlockInputs :
          /\ op = "create" => target = actor /\ role # NoRole /\ block = "absent"
          /\ op = "update" => role # NoRole \/ block # "absent"
          /\ op \in {"read", "delete"} => role = NoRole /\ block = "absent"
          /\ Set(t, [NoRequest EXCEPT
                !.pc = IF op \in {"update", "delete"} THEN "target" ELSE "caller",
                !.op = op, !.actor = actor,
                !.target = IF op = "create" THEN NoUser ELSE target,
                !.role = role, !.block = block, !.claim = claim[actor]])
    /\ UNCHANGED <<tenant, tokens, cache, audit, faults, history>>

\* update_user and delete_user first read the target's roles.
ReadTarget(t) ==
    /\ h[t].pc = "target"
    /\ \/ /\ h[t].target \in exists /\ Works
          /\ Set(t, [h[t] EXCEPT !.pc = "caller", !.seen = roles[h[t].target]])
       \/ CallFails(h[t].target) /\ Set(t, End(h[t], "error"))
    /\ UNCHANGED <<tenant, tokens, cache, audit, requests, history>>

\* Mutated: peers may administer each other.
MayAdministerPeers(r, rank) == r.actor # r.target /\ RankOf(r.seen) <= rank

\* Mutated: the rank of the target is not looked at.
MayAdministerAnyone(r, rank) == r.actor # r.target

\* _assert_may_administer: never oneself, never a peer or a senior.
MayAdminister(r, rank) == r.actor # r.target /\ RankOf(r.seen) < rank

\* Mutated: one's own role may be granted.
MayGrantOwn(r, rank) == r.role \in Roles /\ RankOf({r.role}) <= rank

\* _assert_may_grant: a role of the ladder, junior to the caller.
MayGrant(r, rank) == r.role \in Roles /\ RankOf({r.role}) < rank

\* The checks of create_user, update_user and delete_user once the caller's
\* rank is known, and the call each makes next.
DecideCreate(r, rank) ==
    IF MayGrant(r, rank) THEN To([r EXCEPT !.rank = rank], "roleIds")
                         ELSE End([r EXCEPT !.rank = rank], "forbidden")
DecideUpdate(r, rank) ==
    IF MayAdminister(r, rank) THEN To([r EXCEPT !.rank = rank], "update")
                              ELSE End([r EXCEPT !.rank = rank], "forbidden")
DecideDelete(r, rank) ==
    IF MayAdminister(r, rank) THEN To([r EXCEPT !.rank = rank], "delete")
                              ELSE End([r EXCEPT !.rank = rank], "forbidden")

\* caller_rank, and what the handler does with it.
Decide(r, callerRoles) ==
    LET rank == RankOf(callerRoles)
    IN CASE r.op = "read" -> To([r EXCEPT !.rank = rank], "look")
         [] r.op = "create" -> DecideCreate(r, rank)
         [] r.op = "update" -> DecideUpdate(r, rank)
         [] r.op = "delete" -> DecideDelete(r, rank)

\* caller_roles: the claim of the token, else the worker's cache, else Auth0.
ResolveCaller(t) ==
    LET r == h[t]
        cached == cache[WorkerOf[t]][r.actor]
    IN /\ r.pc = "caller"
       /\ Set(t, IF r.claim # {} THEN Decide(r, r.claim)
                 ELSE IF cached # Unknown THEN Decide(r, cached)
                 ELSE To(r, "lookup"))
       /\ UNCHANGED <<tenant, tokens, cache, audit, faults, requests, history>>

\* caller_roles asks Auth0; an Auth0ManagementError counts as holding no role.
LookUpCaller(t) ==
    /\ h[t].pc = "lookup"
    /\ \/ /\ h[t].actor \in exists /\ Works
          /\ Set(t, [h[t] EXCEPT !.pc = "remember", !.view = roles[h[t].actor]])
       \/ Refused(h[t].actor) /\ Set(t, [h[t] EXCEPT !.pc = "remember", !.view = {}])
       \/ Fault("unreadable") /\ Set(t, End(h[t], "error"))
    /\ UNCHANGED <<tenant, tokens, cache, audit, requests, history>>

Entries(w) == {u \in Users : cache[w][u] # Unknown}

\* Mutated: the cache is never emptied.
RoomForAll(w) == cache[w]

\* _TTLCache.set: a cache with more than CacheBound entries is emptied first.
MakeRoom(w) == IF Cardinality(Entries(w)) > CacheBound THEN [u \in Users |-> Unknown] ELSE cache[w]

\* caller_roles stores what it found, a failure included.
RememberCaller(t) ==
    /\ h[t].pc = "remember"
    /\ cache' = [cache EXCEPT ![WorkerOf[t]] = [MakeRoom(WorkerOf[t]) EXCEPT ![h[t].actor] = h[t].view]]
    /\ Set(t, Decide(h[t], h[t].view))
    /\ UNCHANGED <<tenant, tokens, audit, faults, requests, history>>

\* An entry of _self_roles_cache outlives its TTL.
Expire(w, u) ==
    /\ cache[w][u] # Unknown
    /\ cache' = [cache EXCEPT ![w][u] = Unknown]
    /\ UNCHANGED <<tenant, tokens, h, audit, faults, requests, history>>

\* _self_roles_cache.clear() in the worker of thread t.
ClearCache(t) == cache' = [cache EXCEPT ![WorkerOf[t]] = [u \in Users |-> Unknown]]

-----------------------------------------------------------------------------
\* get_user, and each account of list_users: seniors and peers are hidden.
Look(t) ==
    /\ h[t].pc = "look"
    /\ \/ /\ h[t].target \in exists /\ Works
          /\ LET visible == RankOf(roles[h[t].target]) < h[t].rank \/ h[t].target = h[t].actor
             IN Set(t, End(h[t], IF visible THEN "ok" ELSE "error"))
       \/ CallFails(h[t].target) /\ Set(t, End(h[t], "error"))
    /\ UNCHANGED <<tenant, tokens, cache, audit, requests, history>>

-----------------------------------------------------------------------------
\* What update_user does after its first write or read: the grant check comes
\* only now.
AfterUpdate(r) ==
    IF r.role = NoRole THEN To(r, "final")
    ELSE IF MayGrant(r, r.rank) THEN To(r, "roleIds")
    ELSE End(r, "forbidden")

\* update_user: client.update_user for "blocked" (or "name"), else get_user.
UpdateAccount(t) ==
    LET r == h[t]
        written == [r EXCEPT !.changed = TRUE]
        Block == /\ blocked' = IF r.block = "true" THEN blocked \cup {r.target}
                                                   ELSE blocked \ {r.target}
                 /\ UNCHANGED <<exists, roles, history>>
    IN /\ r.pc = "update"
       /\ \/ /\ r.block = "malformed"
             /\ Set(t, End(r, "invalid")) /\ Works /\ UNCHANGED <<tenant, history>>
          \/ /\ r.block \in {"true", "false"} /\ r.target \in exists /\ Block
             /\ \/ Works /\ Set(t, AfterUpdate(written))
                \/ AnswerFails /\ Set(t, End(written, "error"))
          \/ /\ r.block = "absent" /\ r.target \in exists /\ Works
             /\ Set(t, AfterUpdate(r)) /\ UNCHANGED <<tenant, history>>
          \/ /\ r.block # "malformed" /\ WriteFails(r.target)
             /\ Set(t, End(r, "error"))
       /\ UNCHANGED <<tokens, cache, audit, requests>>

\* Mutated: the old role stays unless it outranks the new one.
StaleRolesSenior(r) == {x \in r.seen : RankOf({x}) > RankOf({r.role})}

\* The recognised roles update_user strips: all it saw but the new one.
StaleRoles(r) == r.seen \ {r.role}

\* Mutated: the test is the wrong way round.
AfterStripSwapped(r) == To(r, IF r.role \in r.seen THEN "assign" ELSE "clear")

\* The next call of update_user once the stale roles are gone.
AfterStrip(r) == To(r, IF r.role \notin r.seen THEN "assign" ELSE "clear")

\* _role_ids_by_name, then the first role call that is needed.  A tenant that
\* does not define the role ends the request like a refused call.
ListRoles(t) ==
    LET r == h[t]
    IN /\ r.pc = "roleIds"
       /\ \/ /\ Works
             /\ Set(t, IF r.op = "create" THEN To(r, "post")
                       ELSE IF StaleRoles(r) # {} THEN To(r, "strip")
                       ELSE AfterStrip(r))
          \/ (Fault("refused") \/ Fault("unreadable")) /\ Set(t, End(r, "error"))
       /\ UNCHANGED <<tenant, tokens, cache, audit, requests, history>>

\* update_user: client.remove_roles.
Strip(t) ==
    LET r == h[t]
        written == [r EXCEPT !.changed = TRUE]
    IN /\ r.pc = "strip"
       /\ \/ /\ r.target \in exists
             /\ roles' = [roles EXCEPT ![r.target] = @ \ StaleRoles(r)]
             /\ UNCHANGED <<exists, blocked, history>>
             /\ \/ Works /\ Set(t, AfterStrip(written))
                \/ AnswerFails /\ Set(t, End(written, "error"))
          \/ WriteFails(r.target) /\ Set(t, End(r, "error"))
       /\ UNCHANGED <<tokens, cache, audit, requests>>

\* Mutated: the half-created account is left behind.
AssignFailsNoRollback(r) == End(r, "error")

\* The except clause around create_user's assign_roles, for
\* Auth0ManagementError alone; update_user has none.
AssignFails(r) == IF r.op = "create" THEN To(r, "rollback") ELSE End(r, "error")

\* client.assign_roles for a new role, or for a new account.
Assign(t) ==
    LET r == h[t]
        written == [r EXCEPT !.changed = TRUE]
    IN /\ r.pc = "assign"
       /\ \/ /\ r.target \in exists
             /\ roles' = [roles EXCEPT ![r.target] = @ \cup {r.role}]
             /\ everHeld' = [everHeld EXCEPT ![r.target] = @ \cup {r.role}]
             /\ grants' = grants \cup {[by |-> r.actor, to |-> r.target, role |-> r.role]}
             /\ UNCHANGED <<exists, blocked, everExisted>>
             /\ \/ Works /\ Set(t, To(written, IF r.op = "create" THEN "ticket" ELSE "clear"))
                \/ Fault("lost") /\ Set(t, AssignFails(written))
                \/ Fault("unreadable") /\ Set(t, End(written, "error"))
          \/ /\ UNCHANGED <<tenant, history>>
             /\ \/ Refused(r.target) /\ Set(t, AssignFails(r))
                \/ Fault("unreadable") /\ Set(t, End(r, "error"))
       /\ UNCHANGED <<tokens, cache, audit, requests>>

\* audit_record: the log line is written unconditionally.
Record(r, action) ==
    audit' = audit \cup {[action |-> action, by |-> r.actor, on |-> r.target, role |-> r.role]}

\* update_user: _self_roles_cache.clear().
ClearAfterUpdate(t) ==
    /\ h[t].pc = "clear"
    /\ ClearCache(t)
    /\ Set(t, To(h[t], "final"))
    /\ UNCHANGED <<tenant, tokens, audit, faults, requests, history>>

\* update_user: the roles are read back, the change is recorded.
FinishUpdate(t) ==
    LET r == h[t]
    IN /\ r.pc = "final"
       /\ \/ /\ r.target \in exists /\ Works
             /\ Record(r, "updated")
             /\ Set(t, End([r EXCEPT !.audited = TRUE], "ok"))
          \/ CallFails(r.target) /\ Set(t, End(r, "error")) /\ UNCHANGED audit
       /\ UNCHANGED <<tenant, tokens, cache, requests, history>>

-----------------------------------------------------------------------------
\* create_user: Auth0 names a new account, which holds no role yet.
PostUser(t) ==
    LET r == h[t]
    IN /\ r.pc = "post"
       /\ \/ \E u \in Users \ everExisted :
                /\ exists' = exists \cup {u} /\ everExisted' = everExisted \cup {u}
                /\ UNCHANGED <<roles, blocked, grants, everHeld>>
                /\ \/ Works /\ Set(t, [r EXCEPT !.pc = "assign", !.target = u, !.changed = TRUE])
                   \/ AnswerFails /\ Set(t, [End(r, "error") EXCEPT !.changed = TRUE])
          \/ /\ Fault("refused") \/ Fault("unreadable")
             /\ Set(t, End(r, "error"))
             /\ UNCHANGED <<tenant, history>>
       /\ UNCHANGED <<tokens, cache, audit, requests>>

\* An account is gone, with its roles.
Remove(u) ==
    /\ exists' = exists \ {u}
    /\ roles' = [roles EXCEPT ![u] = {}]
    /\ blocked' = blocked \ {u}
    /\ UNCHANGED history

\* create_user: the rollback; a second failure is logged and swallowed.
Rollback(t) ==
    LET r == h[t]
    IN /\ r.pc = "rollback"
       /\ \/ Remove(r.target) /\ (Works \/ AnswerFails)
          \/ WriteFails(r.target)
       /\ Set(t, End(r, "error"))
       /\ UNCHANGED <<tokens, cache, audit, requests>>

\* create_user: the password ticket and the row.  That the call for the ticket
\* fails is tolerated, unless its answer cannot be read.
FinishCreate(t) ==
    /\ h[t].pc = "ticket"
    /\ \/ /\ Works
          /\ Record(h[t], "created")
          /\ Set(t, End([h[t] EXCEPT !.audited = TRUE], "ok"))
       \/ Fault("unreadable") /\ Set(t, End(h[t], "error")) /\ UNCHANGED audit
    /\ UNCHANGED <<tenant, tokens, cache, requests, history>>

-----------------------------------------------------------------------------
\* delete_user: the record is read for the audit row, its absence tolerated;
\* then the account is deleted.  Deleting a missing account may succeed.
DeleteAccount(t) ==
    LET r == h[t]
        written == [r EXCEPT !.changed = TRUE]
    IN /\ r.pc = "delete"
       /\ \/ Remove(r.target) /\ Works /\ Set(t, To(written, "wiped"))
          \/ Remove(r.target) /\ AnswerFails /\ Set(t, End(written, "error"))
          \/ WriteFails(r.target) /\ Set(t, End(r, "error"))
       /\ UNCHANGED <<tokens, cache, audit, requests>>

\* delete_user: the cache is cleared, the row written.
FinishDelete(t) ==
    /\ h[t].pc = "wiped"
    /\ ClearCache(t)
    /\ Record(h[t], "deleted")
    /\ Set(t, End([h[t] EXCEPT !.audited = TRUE], "ok"))
    /\ UNCHANGED <<tenant, tokens, faults, requests, history>>

-----------------------------------------------------------------------------
\* A worker process dies (its requests exceed gunicorn's timeout, it runs out
\* of memory, the container restarts) and a new one takes its place.
Crash(w) ==
    /\ Fault("crash")
    /\ h' = [t \in Threads |-> IF WorkerOf[t] = w /\ h[t].pc # "done"
                                 THEN End(h[t], "error") ELSE h[t]]
    /\ cache' = [cache EXCEPT ![w] = [u \in Users |-> Unknown]]
    /\ UNCHANGED <<tenant, tokens, audit, requests, history>>

Handle(t) ==
    \/ ReadTarget(t) \/ ResolveCaller(t) \/ LookUpCaller(t) \/ RememberCaller(t)
    \/ Look(t)
    \/ UpdateAccount(t) \/ ListRoles(t) \/ Strip(t) \/ Assign(t)
    \/ ClearAfterUpdate(t) \/ FinishUpdate(t)
    \/ PostUser(t) \/ Rollback(t) \/ FinishCreate(t)
    \/ DeleteAccount(t) \/ FinishDelete(t)

Next ==
    \/ \E t \in Threads : Begin(t)
    \/ /\ \/ \E u \in Users : Login(u)
          \/ \E t \in Threads : Handle(t)
          \/ \E w \in Workers : Crash(w) \/ \E u \in Users : Expire(w, u)
       /\ UNCHANGED overlapped

Spec == Init /\ [][Next]_vars

-----------------------------------------------------------------------------
\* Types of all variables.  The cache of a worker holds up to one entry more
\* than its bound, because _TTLCache.set tests before it stores: 513, where
\* docs/THREAT_MODEL.md:155 says 512.
TypeOK ==
    /\ exists \subseteq Users /\ roles \in [Users -> SUBSET Roles] /\ blocked \subseteq exists
    /\ rolesClaim \in BOOLEAN
    /\ claim \in [Users -> SUBSET Roles] /\ capable \in [Users -> BOOLEAN]
    /\ cache \in [Workers -> [Users -> (SUBSET Roles) \cup {Unknown}]]
    /\ \A w \in Workers : Cardinality(Entries(w)) <= CacheBound + 1
    /\ h \in [Threads -> Handlers]
    /\ audit \subseteq Rows
    /\ faults \in [Faults -> Nat] /\ requests \in 0..MaxRequests
    /\ grants \subseteq [by : Users, to : Users, role : Roles]
    /\ everHeld \in [Users -> SUBSET Roles]
    /\ exists \subseteq everExisted /\ everExisted \subseteq Users

\* Every role handed out through the API was granted by somebody else who had,
\* at some time, outranked it: no race, stale token, stale cache or failure
\* lets an account promote itself or a peer (users_api.py, _assert_may_grant).
ChainOfCommand ==
    \A g \in grants :
        /\ g.by # g.to
        /\ RankOf(everHeld[g.by]) > RankOf({g.role})

\* No request changes, blocks or deletes an administrator's account, and none
\* creates an administrator, although the rank check and the change it guards
\* are several Auth0 calls apart: the top of the ladder is out of reach of the
\* races that the rest of it has (users_api.py, _assert_may_administer).
AdministratorsUntouchable ==
    [][\A u \in Users :
          /\ u \in exists /\ "administrator" \in roles[u] =>
                /\ u \in exists' /\ roles'[u] = roles[u]
                /\ u \in blocked' <=> u \in blocked
          /\ "administrator" \in roles'[u] => "administrator" \in roles[u]]_vars

\* What the audit log says happened did happen: a deleted account is gone for
\* good, a created one was given the role named, and an updated one has held
\* it (users_api.py, every audit_record comes after the calls it reports).
AuditTellsTheTruth ==
    \A row \in audit :
        CASE row.action = "deleted" -> row.on \notin exists
          [] row.action = "created" ->
                [by |-> row.by, to |-> row.on, role |-> row.role] \in grants
          [] row.action = "updated" -> row.role \in everHeld[row.on] \cup {NoRole}

\* An account made by an invitation has been given a role, or its invitation is
\* still being processed, whatever other requests do to it, if at most one call
\* of Auth0 is refused, none is lost or unreadable, and no process dies
\* (users_api.py, the rollback of create_user).  The rollback answers only to
\* Auth0ManagementError (users_api.py:487): one unreadable answer is enough to
\* leave an account without a role, hence the hypothesis.
NoHalfCreatedAccount ==
    (\A f \in Faults : faults[f] <= IF f = "refused" THEN 1 ELSE 0) =>
        \A u \in exists \ Accounts :
            everHeld[u] = {} => \E t \in Threads :
                                h[t].target = u /\ h[t].pc \in {"assign", "rollback"}

\* docs/RBAC.md, "Strictly junior targets only": as long as no two requests
\* overlap, an account ranks below the caller when it is changed, although
\* the check may be several calls old.  (Overlapping requests break this.)
JuniorTargetsOnly ==
    [][\A t \in Threads :
          h'[t] # h[t] /\ tenant' # tenant /\ h[t].pc # "post" /\ ~overlapped =>
              RankOf(roles[h[t].target]) < h[t].rank]_vars

\* As long as no two requests overlap, what update_user reports is what it
\* did, whatever failed before: after a role change that is answered with
\* success the account holds that role alone.
RoleReplaced ==
    [][\A t \in Threads :
          h[t].pc = "final" /\ h'[t].answer = "ok" /\ h[t].role # NoRole /\ ~overlapped =>
              roles[h[t].target] = {h[t].role}]_vars

\* users_api.py, "a promotion never leaves the old role behind and silently
\* widens the account": no account that had at most one role ever holds two.
NeverTwoRoles == \A u \in Users : Cardinality(roles[u]) <= 1

\* docs/THREAT_MODEL.md, "Every state-changing and privileged request writes
\* an audit row": a request that changed an account has its row.
EveryChangeAudited ==
    \A t \in Threads : h[t].pc = "done" /\ h[t].changed => h[t].audited
=============================================================================
