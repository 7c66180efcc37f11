---------------------------- MODULE KeyService ----------------------------
(***************************************************************************)
(* What JWKSCache.get_key promises the request threads, with no cache, no  *)
(* lock and no fetch in sight:                                             *)
(*                                                                         *)
(*   - a key is handed out only if Auth0 published it as a usable signing  *)
(*     key within the last Window time units (a withdrawn key stops        *)
(*     verifying tokens);                                                  *)
(*   - 401 "unable to find the appropriate signing key" is answered only   *)
(*     if, within the last Window, the key was not a usable one (a new key *)
(*     is not refused forever);                                            *)
(*   - a 503 or a 500 may be answered at any time.                         *)
(***************************************************************************)
EXTENDS IdentityProvider

CONSTANTS Threads, Window

VARIABLES want, reply    \* the kid each thread asked for, and its answer

svcVars == <<idpVars, want, reply>>

Failures == {"503", "500"}
Replies == {"none", "key", "401"} \cup Failures

SvcInit ==
    /\ IdpInit
    /\ want \in [Threads -> Kids]
    /\ reply = [t \in Threads |-> "503"]

Ask(t, k) ==
    /\ reply[t] # "none"
    /\ want' = [want EXCEPT ![t] = k]
    /\ reply' = [reply EXCEPT ![t] = "none"]
    /\ UNCHANGED idpVars

AnswerKey(t) ==
    /\ reply[t] = "none"
    /\ now - lastUsable[want[t]] <= Window
    /\ reply' = [reply EXCEPT ![t] = "key"]
    /\ UNCHANGED <<idpVars, want>>

AnswerUnknown(t) ==
    /\ reply[t] = "none"
    /\ now - lastUnusable[want[t]] <= Window
    /\ reply' = [reply EXCEPT ![t] = "401"]
    /\ UNCHANGED <<idpVars, want>>

AnswerFailure(t) ==
    /\ reply[t] = "none"
    /\ \E f \in Failures : reply' = [reply EXCEPT ![t] = f]
    /\ UNCHANGED <<idpVars, want>>

SvcNext ==
    \/ (Tick \/ \E k \in Kids : Rotate(k)) /\ UNCHANGED <<want, reply>>
    \/ \E t \in Threads :
          \/ \E k \in Kids : Ask(t, k)
          \/ AnswerKey(t) \/ AnswerUnknown(t) \/ AnswerFailure(t)

SvcSpec == SvcInit /\ [][SvcNext]_svcVars
=============================================================================
