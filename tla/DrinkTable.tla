---------------------------- MODULE DrinkTable ----------------------------
(***************************************************************************)
(* The table `drink` of src/backend/src/database/models.py in the default  *)
(* SQLite database, as single statements see it.  menu maps the ids in use *)
(* to their rows; every row also carries, as history, the number of the    *)
(* INSERT that made it, which tells a drink from a later one with its id.  *)
(***************************************************************************)
EXTENDS Integers, SequencesExt

CONSTANTS Titles, Recipes

VARIABLES menu, births

table == <<menu, births>>

Drinks == [title : Titles, recipe : Recipes, born : Nat]

\* The unique constraint on title.
TitleFree(title, id) == \A i \in DOMAIN menu \ {id} : menu[i].title # title

\* Mutated: ids count from zero.
NextIdFromZero == 1 + Max(DOMAIN menu \cup {-1})

\* An INTEGER PRIMARY KEY without AUTOINCREMENT: one above the largest in use.
NextId == 1 + Max(DOMAIN menu \cup {0})

\* INSERTs of some drinks, in one transaction, under the next ids.
InsertRows(drinks) ==
    /\ births' = births + Len(drinks)
    /\ menu' = [i \in DOMAIN menu \cup NextId..(NextId + Len(drinks) - 1) |->
                  IF i < NextId THEN menu[i]
                  ELSE LET n == i - NextId + 1
                       IN [title |-> drinks[n].title, recipe |-> drinks[n].recipe,
                           born |-> births + n]]

\* UPDATE of the columns of an existing row.
UpdateRow(id, title, recipe) ==
    /\ menu' = [menu EXCEPT ![id].title = title, ![id].recipe = recipe]
    /\ UNCHANGED births

\* DELETE, which a missing row does not make fail.
DeleteRow(id) ==
    /\ menu' = Restrict(menu, DOMAIN menu \ {id})
    /\ UNCHANGED births

\* A table of the given drinks, with ids from 1.
TableOf(drinks) ==
    /\ menu = [i \in DOMAIN drinks |-> [title |-> drinks[i].title, recipe |-> drinks[i].recipe,
                                        born |-> i]]
    /\ births = Len(drinks)

TableTypeOK ==
    /\ DOMAIN menu \subseteq 1..births
    /\ \A i \in DOMAIN menu : menu[i] \in Drinks /\ menu[i].born \in 1..births
    /\ births \in Nat
=============================================================================
