---------------------------- MODULE MCJwksCache ----------------------------
(***************************************************************************)
(* JwksCache on two threads and two key ids.  Threads are interchangeable, *)
(* and so are key ids.                                                     *)
(***************************************************************************)
EXTENDS JwksCache, TLC

Symmetry == Permutations(Threads) \cup Permutations(Kids)
=============================================================================
