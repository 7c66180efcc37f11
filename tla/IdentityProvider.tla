------------------------- MODULE IdentityProvider -------------------------
(***************************************************************************)
(* The part of Auth0 the API sees when it verifies tokens: the key set at  *)
(* /.well-known/jwks.json and the clock.  It is external to the repository *)
(* and is modelled from how src/backend/src/auth/auth.py reads it.         *)
(*                                                                         *)
(* A key id is "usable" when its entry passes the filter of                *)
(* JWKSCache._refresh_locked, "unusable" when it is published but is an    *)
(* encryption key, not RSA or unparseable, and "absent" otherwise.         *)
(*                                                                         *)
(* lastUsable and lastUnusable are history variables: the latest instant   *)
(* at which a key id was, and was not, a usable signing key.               *)
(***************************************************************************)
EXTENDS Integers

CONSTANTS
    Kids,      \* key ids that tokens and key-set entries may carry
    Horizon    \* the clock stops here (a bound for model checking)

ASSUME HorizonAssumption == Horizon \in Nat

VARIABLES now, published, lastUsable, lastUnusable

idpVars == <<now, published, lastUsable, lastUnusable>>

JwkKinds == {"absent", "usable", "unusable"}

\* So long ago that no freshness window within the horizon reaches back to it.
Never == -(Horizon + 1)

IdpTypeOK ==
    /\ now \in 0..Horizon
    /\ published \in [Kids -> JwkKinds]
    /\ lastUsable \in [Kids -> Int]
    /\ lastUnusable \in [Kids -> Int]

IdpInit ==
    /\ now = 0
    /\ published \in [Kids -> JwkKinds]
    /\ lastUsable = [k \in Kids |->
                        IF published[k] = "usable" THEN 0 ELSE Never]
    /\ lastUnusable = [k \in Kids |->
                        IF published[k] = "usable" THEN Never ELSE 0]

\* Auth0 publishes, withdraws or re-purposes one key.
Rotate(k) ==
    /\ \E kind \in JwkKinds \ {published[k]} :
          /\ published' = [published EXCEPT ![k] = kind]
          /\ IF kind = "usable"
               THEN /\ lastUsable' = [lastUsable EXCEPT ![k] = now]
                    /\ UNCHANGED lastUnusable
               ELSE /\ lastUnusable' = [lastUnusable EXCEPT ![k] = now]
                    /\ UNCHANGED lastUsable
    /\ UNCHANGED now

\* time.monotonic() moves on.
Tick ==
    /\ now < Horizon
    /\ now' = now + 1
    /\ lastUsable' = [k \in Kids |->
                        IF published[k] = "usable" THEN now + 1 ELSE lastUsable[k]]
    /\ lastUnusable' = [k \in Kids |->
                        IF published[k] = "usable" THEN lastUnusable[k] ELSE now + 1]
    /\ UNCHANGED published
=============================================================================
