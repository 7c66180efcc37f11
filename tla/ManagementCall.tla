--------------------------- MODULE ManagementCall ---------------------------
(***************************************************************************)
(* What one call of Auth0ManagementClient promises the user administration *)
(* handlers, whatever tokens, retries and connections do underneath:       *)
(*                                                                         *)
(*   - Auth0 carries the call out at most once;                            *)
(*   - a call that returns was carried out;                                *)
(*   - a call answered 404, 409 or 429 was not: these are Auth0's refusals;*)
(*   - 502, 503 and 500 leave open whether it was carried out.             *)
(*                                                                         *)
(* These are the ways a call turns out in UsersAdmin: it works, it is      *)
(* "refused" without an effect, or its answer is "lost" after one.         *)
(***************************************************************************)
EXTENDS Naturals

VARIABLES
    pending,    \* whether a call is in progress
    effects,    \* how often Auth0 has carried out the present, or latest, call
    answer      \* of the latest call: "none" while it is in progress

callVars == <<pending, effects, answer>>

Refusals == {"404", "409", "429"}
Unclear == {"500", "502", "503"}
Answers == {"ok"} \cup Refusals \cup Unclear

CallInit == pending = FALSE /\ effects = 0 /\ answer = "ok"

\* A handler calls a method of the client: list_users, get_user, create_user,
\* update_user, delete_user, get_user_roles, assign_roles and remove_roles are one
\* _request each.
Call ==
    /\ ~pending
    /\ pending' = TRUE /\ effects' = 0 /\ answer' = "none"

\* Auth0 carries the call out.
TakeEffect ==
    /\ pending /\ effects = 0
    /\ effects' = 1
    /\ UNCHANGED <<pending, answer>>

\* The method returns, or raises Auth0ManagementError.
Return ==
    /\ pending
    /\ \/ answer' = "ok" /\ effects = 1
       \/ answer' \in Refusals /\ effects = 0
       \/ answer' \in Unclear
    /\ pending' = FALSE
    /\ UNCHANGED effects

CallNext == Call \/ TakeEffect \/ Return

CallSpec == CallInit /\ [][CallNext]_callVars
=============================================================================
