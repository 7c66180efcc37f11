---------------------------- MODULE MCDrinksApi ----------------------------
(***************************************************************************)
(* DrinksApi with one drink on the menu at the start, and pages of one and *)
(* of two drinks.                                                          *)
(***************************************************************************)
EXTENDS DrinksApi

Pages == {<<1, 1>>, <<2, 1>>, <<1, 2>>, <<0, 1>>}

OneDrink == <<[title |-> "mocha", recipe |-> "plain"]>>
=============================================================================
