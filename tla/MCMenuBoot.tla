---------------------------- MODULE MCMenuBoot ----------------------------
(***************************************************************************)
(* MenuBoot with two demo drinks, on an empty volume, on the volume of an  *)
(* earlier boot, or on one where a manager has removed or replaced drinks. *)
(***************************************************************************)
EXTENDS MenuBoot

Recipe(title) == [title |-> title, recipe |-> "demo"]
TwoDrinks == <<Recipe("water"), Recipe("latte")>>
Volumes == {<<>>, TwoDrinks, <<Recipe("water")>>, <<Recipe("latte")>>}
Additions == {[title |-> "latte", recipe |-> "own"], [title |-> "mocha", recipe |-> "own"]}
=============================================================================
