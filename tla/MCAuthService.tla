--------------------------- MODULE MCAuthService ---------------------------
(***************************************************************************)
(* Two interchangeable tabs.                                               *)
(***************************************************************************)
EXTENDS AuthService, TLC

Symmetry == Permutations(Tabs)
=============================================================================
