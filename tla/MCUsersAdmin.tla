---------------------------- MODULE MCUsersAdmin ----------------------------
(***************************************************************************)
(* UsersAdmin with an administrator, a manager, a barista and one account  *)
(* that does not exist yet.                                                *)
(***************************************************************************)
EXTENDS UsersAdmin, TLC

CONSTANTS ann, max, bob, new, w1, w2, t1, t2

Staff == (ann :> {"administrator"}) @@ (max :> {"manager"}) @@ (bob :> {"barista"})

\* One process with one thread, one process with two, two with one each.
OneThread == t1 :> w1
SameWorker == (t1 :> w1) @@ (t2 :> w1)
TwoWorkers == (t1 :> w1) @@ (t2 :> w2)

\* With a thread each, the two processes are interchangeable.
SwapWorkers ==
    {f \in Permutations({t1, t2, w1, w2}) :
        \A t \in {t1, t2} : f[t] \in {t1, t2} /\ TwoWorkers[f[t]] = f[TwoWorkers[t]]}
=============================================================================
