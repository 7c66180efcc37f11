--------------------------- MODULE MCRequestPath ---------------------------
(***************************************************************************)
(* RequestPath on two processes of one thread each and one key id: a       *)
(* request of every kind that the code tells apart, and configurations     *)
(* that it accepts and refuses.  Each process has a counter store of its   *)
(* own; processes are interchangeable.                                     *)
(***************************************************************************)
EXTENDS RequestPath

CONSTANT k1

OwnStore == [t \in Threads |-> t]

Symmetry == Permutations(Threads)

Production ==
    [name |-> "production", domain |-> TRUE, audience |-> TRUE, algorithms |-> {"RS256"},
     management |-> FALSE, m2mCredentials |-> FALSE, secretKey |-> "long",
     dropAll |-> FALSE, anyOrigin |-> FALSE, limiting |-> TRUE]

Development ==
    [name |-> "development", domain |-> TRUE, audience |-> TRUE,
     algorithms |-> {"RS256", "ES256"}, management |-> TRUE, m2mCredentials |-> TRUE,
     secretKey |-> "short", dropAll |-> TRUE, anyOrigin |-> TRUE, limiting |-> FALSE]

Tried ==
    {Production, Development}
    \cup {[Production EXCEPT !.dropAll = TRUE], [Production EXCEPT !.secretKey = "short"],
          [Production EXCEPT !.management = TRUE], [Development EXCEPT !.audience = FALSE]}
    \cup {[Development EXCEPT !.algorithms = algs] : algs \in {{}, {"RS256", "HS256"}}}

Token ==
    [id |-> "manager", form |-> "jwt", alg |-> "RS256", kid |-> k1, genuine |-> TRUE,
     complete |-> TRUE, ours |-> TRUE, iat |-> 0, nbf |-> 0, exp |-> 1,
     permissions |-> {"post:drinks", "get:users"}, scope |-> NoClaim]

\* Tokens that are not good, or not good enough, for POST /drinks.
Tokens ==
    {[Token EXCEPT !.id = "barista", !.permissions = {}],
     [Token EXCEPT !.id = "scoped", !.permissions = NoClaim, !.scope = {"post:drinks"}],
     [Token EXCEPT !.id = "bare", !.permissions = NoClaim],
     [Token EXCEPT !.id = "forged", !.genuine = FALSE, !.exp = -1],
     [Token EXCEPT !.id = "foreign", !.ours = FALSE],
     [Token EXCEPT !.id = "partial", !.complete = FALSE],
     [Token EXCEPT !.id = "early", !.nbf = 2, !.exp = 9],
     [Token EXCEPT !.id = "cut", !.form = "malformed"],
     [Token EXCEPT !.id = "odd", !.form = "kidNotText"],
     [Token EXCEPT !.id = "shared", !.alg = "HS256"],
     [Token EXCEPT !.id = "curve", !.alg = "ES256"],
     [Token EXCEPT !.id = "keyless", !.kid = NoKid]}

Request == [view |-> "create", header |-> "token", from |-> "office", token |-> Token]

Counted ==
    {[Request EXCEPT !.header = h] : h \in {"token", "tabbed", "extra", "absent"}}
    \cup {[Request EXCEPT !.token = [Token EXCEPT !.id = "barista", !.permissions = {}]],
          [Request EXCEPT !.view = "users"]}

Uncounted ==
    Counted
    \cup {[Request EXCEPT !.token = tok] : tok \in Tokens}
    \cup {[Request EXCEPT !.header = h] : h \in {"blank", "otherScheme"}}
    \cup {[Request EXCEPT !.view = "menu", !.header = "absent"],
          [Request EXCEPT !.view = "me"],
          [Request EXCEPT !.view = "me", !.token = [Token EXCEPT !.id = "bare",
                                                                 !.permissions = NoClaim]]}

\* Every request, but fewer when each leaves a trace in the limiter.
Sent == [limited \in BOOLEAN |-> IF limited THEN Counted ELSE Uncounted]

Names == {NotText, Text(0, TRUE), Text(1, TRUE), Text(2, FALSE), Text(3, FALSE)}
Colors == {NotText, ColorText("hex", TRUE), ColorText("url", FALSE)}
Parts == {[type |-> "number", value |-> n] : n \in {0, 1, 2, 3}}
         \cup {[type |-> type] : type \in {"NaN", "boolean", "text"}}

Good == [extra |-> 0, name |-> Text(2, TRUE), color |-> ColorText("word", FALSE),
         parts |-> [type |-> "number", value |-> 2]]

Ingredients ==
    {[Good EXCEPT !.name = n] : n \in Names} \cup {[Good EXCEPT !.color = c] : c \in Colors}
    \cup {[Good EXCEPT !.parts = p] : p \in Parts}

Recipes ==
    {[shape |-> "object", items |-> <<i>>] : i \in Ingredients}
    \cup {[shape |-> "textOfList", items |-> <<Good, i>>] : i \in Ingredients}
    \cup {[shape |-> "list", items |-> items] :
             items \in {<<>>, <<Good, Good, Good>>, <<[other |-> 0]>>}}
    \cup {[shape |-> s] : s \in {"hugeText", "otherText", "other"}}

Posted ==
    {[form |-> f] : f \in {"notJson", "tooLarge", "broken", "notAnObject", "incomplete", "tooDeep"}}
    \cup {[form |-> "drink", title |-> title, recipe |-> raw] :
             title \in {Text(1, TRUE), Text(3, FALSE)}, raw \in Recipes}
=============================================================================
