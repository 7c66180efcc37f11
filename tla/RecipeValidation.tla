-------------------------- MODULE RecipeValidation --------------------------
(***************************************************************************)
(* validate_title and validate_recipe of                                   *)
(* src/backend/src/database/models.py, as operators on what a client sent, *)
(* and the way of a stored recipe to the edit form and back.               *)
(*                                                                         *)
(* A text is its length and whether blanks surround it; a colour is the    *)
(* form of its text; a number is NaN, which Python's JSON reader accepts,  *)
(* or an integer.  The serialised length counts the names only: the rest   *)
(* of an ingredient has a bounded length.                                  *)
(***************************************************************************)
EXTENDS Integers, SequencesExt

CONSTANTS
    MaxTitleLength, MaxIngredients, MaxNameLength, MaxParts,
    MaxJsonLength

ASSUME LimitsAssumption ==
    {MaxTitleLength, MaxIngredients, MaxNameLength, MaxParts, MaxJsonLength} \subseteq Nat

NotText == [text |-> FALSE]
Text(length, padded) == [text |-> TRUE, length |-> length, padded |-> padded]
ColorText(form, padded) == [text |-> TRUE, form |-> form, padded |-> padded]

Strip(text) == [text EXCEPT !.padded = FALSE]

Refused == [ok |-> FALSE]
Accepted(value) == [ok |-> TRUE, value |-> value]

ShortText(text, max) == text.text /\ text.length \in 1..max

ValidateTitle(title) ==
    IF ShortText(title, MaxTitleLength) THEN Accepted(Strip(title)) ELSE Refused

\* What the three patterns match: hex digits, rgb() or rgba(), a word.
Drawable == {"hex", "rgb", "word"}

\* Mutated: a Boolean is a number, as isinstance has it.
ValidPartsBoolean(parts) ==
    /\ parts.type \in {"number", "NaN", "boolean"}
    /\ parts.type = "number" => parts.value \in 1..MaxParts

\* A Boolean is not a number here; NaN is, and compares false with both bounds.
ValidParts(parts) ==
    /\ parts.type \in {"number", "NaN"}
    /\ parts.type = "number" => parts.value \in 1..MaxParts

Keys == {"name", "color", "parts"}

ValidIngredient(i) ==
    /\ Keys \subseteq DOMAIN i      \* something else than an object has no keys
    /\ ShortText(i.name, MaxNameLength)
    /\ i.color.text /\ i.color.form \in Drawable
    /\ ValidParts(i.parts)

\* Only the three keys survive.
Normalised(i) == [name |-> Strip(i.name), color |-> Strip(i.color), parts |-> i.parts]

\* What JSON can bring as a text, a colour, an ingredient, a recipe.
Texts == {NotText} \cup [text : {TRUE}, length : Nat, padded : BOOLEAN]
ColorTexts == {NotText} \cup [text : {TRUE}, form : STRING, padded : BOOLEAN]
IsIngredient(i) == Keys \subseteq DOMAIN i =>
    i.name \in Texts /\ i.color \in ColorTexts
Lists == {"list", "textOfList", "object", "textOfObject"}
IsRecipe(recipe) ==
    /\ recipe.shape \in Lists \cup {"hugeText", "otherText", "other"}
    /\ recipe.shape \in Lists =>
          /\ recipe.items \in Seq(ToSet(recipe.items))
          /\ \A n \in DOMAIN recipe.items : IsIngredient(recipe.items[n])

\* A text with an integer of too many digits, or nested too deep, makes Python's
\* JSON reader raise something else than the JSONDecodeError that is caught.
Unreadable(recipe) == recipe.shape = "hugeText"

\* _decode_recipe: a text is read as JSON, a single object becomes a list.
Decoded(recipe) ==
    IF recipe.shape \in Lists THEN Accepted(recipe.items) ELSE Refused

JsonLength(ingredients) ==
    FoldSeq(LAMBDA i, sum : i.name.length + sum, 0, ingredients)

ValidateRecipe(recipe) ==
    LET items == Decoded(recipe).value
        normalised == [n \in DOMAIN items |-> Normalised(items[n])]
    IN IF /\ Decoded(recipe).ok
          /\ Len(items) \in 1..MaxIngredients
          /\ \A n \in DOMAIN items : ValidIngredient(items[n])
          /\ JsonLength(normalised) <= MaxJsonLength
         THEN Accepted(normalised)
         ELSE Refused

\* A response as a browser reads it.  json.dumps writes NaN as a word that JSON
\* does not have, which makes the whole response no JSON; everything else that
\* is stored comes back as it was.
Read(items) ==
    IF \E n \in DOMAIN items : items[n].parts.type = "NaN" THEN Refused ELSE Accepted(items)

\* Drink.long() and Drink.short(), of a stored recipe.
Long(recipe) == Read(recipe)
Short(recipe) ==
    Read([n \in DOMAIN recipe |-> [color |-> recipe[n].color, parts |-> recipe[n].parts]])

\* save of menu.page.ts, of a drink that has been opened in the form and left as
\* it is: names and colours are trimmed.
FromForm(items) ==
    [shape |-> "list",
     items |-> [n \in DOMAIN items |->
                  [name |-> Strip(items[n].name), color |-> Strip(items[n].color),
                   parts |-> items[n].parts]]]
=============================================================================
