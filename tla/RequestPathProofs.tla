------------------------- MODULE RequestPathProofs -------------------------
(***************************************************************************)
(* Proofs about RequestPath, for every set of configurations and requests, *)
(* any number of threads and key ids, and every order of rotations, ticks  *)
(* and steps of the threads.                                               *)
(***************************************************************************)
EXTENDS RequestPath, SequenceTheorems, FiniteSetTheorems, TLAPS

USE PathAssumption

\* A thread's request is one that may come.
Calls == {Idle} \cup
         [pc : {"arrived", "key", "view"}, request : Requests[config.limiting]]

Types ==
    /\ now \in Int /\ lastUsable \in [Kids -> Int] /\ lastUnusable \in [Kids -> Int]
    /\ want \in [Threads -> Kids] /\ reply \in [Threads -> Replies]
    /\ config \in Configs /\ config.limiting \in BOOLEAN
    /\ call \in [Threads -> Calls]

\* What Config.validate has checked stays so.
Validated == Validates(config)

\* A request that waits for its key is for a view that is there and protected,
\* and has passed the checks before the key.
ScreenedBefore(r) ==
    /\ r.view # "menu" /\ Carries(r)
    /\ r.token.form = "jwt" /\ r.token.alg \in config.algorithms /\ r.token.kid # NoKid
Screened(t) ==
    /\ call[t].pc \in {"key", "view"} => Routed(call[t].request.view)
    /\ call[t].pc = "key" => ScreenedBefore(call[t].request) /\ want[t] = call[t].request.token.kid

\* An answer of the key service is as fresh as it promises, until it is used.
AnswerIsFresh(t) == call[t].pc = "key" =>
    /\ reply[t] = "key" => now - lastUsable[want[t]] <= Window
    /\ reply[t] = "401" => now - lastUnusable[want[t]] <= Window

\* A stored recipe that can be read can be edited and drawn.
RoundTrips(recipe) ==
    /\ Long(recipe).ok => ValidateRecipe(FromForm(Long(recipe).value)) = Accepted(recipe)
    /\ Short(recipe).ok =>
          \A shown \in ToSet(Short(recipe).value) :
             /\ shown.color.form \in Drawable /\ ~shown.color.padded
             /\ shown.parts.type = "number" /\ shown.parts.value \in 1..MaxParts

\* An answer blames the request or another service, and stores what round-trips.
InOrder(answer) ==
    /\ answer.code \notin {"server_misconfigured", "management_unconfigured"}
    /\ answer.recipe # NoRecipe => RoundTrips(answer.recipe)

IndInv ==
    /\ Types /\ Validated /\ InOrder(given)
    /\ \A t \in Threads : Screened(t) /\ AnswerIsFresh(t)

-----------------------------------------------------------------------------
LEMMA Answers ==
  ASSUME NEW status, NEW code
  PROVE  /\ AuthError(status, code).status = status
         /\ AuthError(status, code).code = code
         /\ AuthError(status, code).recipe = NoRecipe
         /\ Status(status) = AuthError(status, "none")
         /\ Unhandled = AuthError("500", "none")
         /\ Passed = AuthError("passed", "none")
         /\ status # "passed" => AuthError(status, code) # Passed
BY DEF AuthError, Status, Unhandled, Passed

LEMMA StatusInOrder ==
  ASSUME NEW status
  PROVE  InOrder(Status(status))
BY DEF InOrder, Status, AuthError, NoRecipe

\* The checks of the header, of the token up to its key, of the key service's
\* answer, of the claims and of the permission: what each has established when it
\* passes, and how it answers when it does not.
LEMMA HeaderChecked ==
  ASSUME NEW limited \in BOOLEAN, NEW r \in Requests[limited]
  PROVE  \/ HeaderError(r) = Passed /\ Carries(r)
         \/ /\ HeaderError(r) # Passed /\ ~Carries(r)
            /\ HeaderError(r).status \in {"401", "500"} /\ HeaderError(r).code # "token_expired"
            /\ InOrder(HeaderError(r))
<1>1. r.header \in {"absent", "blank", "otherScheme", "alone", "extra", "token", "tabbed"}
  OBVIOUS
<1>2. CASE r.header = "absent"
  BY <1>2, Answers DEF HeaderError, Carries, InOrder
<1>3. CASE r.header \in {"otherScheme", "alone", "extra"}
  BY <1>3, Answers DEF HeaderError, Carries, InOrder
<1>4. CASE r.header \in {"token", "tabbed"}
  BY <1>4 DEF HeaderError, Carries
<1>5. CASE r.header = "blank"
  BY <1>5, Answers DEF HeaderError, Carries, InOrder
<1> QED BY <1>1, <1>2, <1>3, <1>4, <1>5

LEMMA TokenHeaderChecked ==
  ASSUME Validated, NEW tok, tok.form \in {"jwt", "malformed", "kidNotText"}
  PROVE  \/ /\ TokenHeaderError(tok) = Passed
            /\ tok.form = "jwt" /\ tok.alg \in config.algorithms /\ tok.kid # NoKid
         \/ /\ TokenHeaderError(tok) # Passed /\ ~Sound(tok)
            /\ TokenHeaderError(tok).status \in {"401", "500"}
            /\ TokenHeaderError(tok).code # "token_expired"
            /\ InOrder(TokenHeaderError(tok))
<1>1. config.domain /\ config.audience
  BY DEF Validated, Validates
<1>2. CASE tok.form = "malformed"
  BY <1>1, <1>2, Answers DEF TokenHeaderError, Sound, InOrder
<1>3. CASE tok.form = "kidNotText"
  BY <1>1, <1>3, Answers DEF TokenHeaderError, Sound, InOrder
<1>4. CASE tok.form = "jwt" /\ tok.alg \notin config.algorithms
  BY <1>1, <1>4, Answers DEF TokenHeaderError, Sound, InOrder
<1>5. CASE tok.form = "jwt" /\ tok.alg \in config.algorithms /\ tok.kid = NoKid
  BY <1>1, <1>5, Answers DEF TokenHeaderError, Sound, InOrder
<1>6. CASE tok.form = "jwt" /\ tok.alg \in config.algorithms /\ tok.kid # NoKid
  BY <1>1, <1>6 DEF TokenHeaderError
<1> QED BY <1>2, <1>3, <1>4, <1>5, <1>6

LEMMA KeyChecked ==
  ASSUME NEW t \in Threads, reply[t] \in Replies, reply[t] # "none"
  PROVE  \/ KeyError(t) = Passed /\ reply[t] = "key"
         \/ /\ KeyError(t) # Passed /\ KeyError(t).status \in {"401", "500", "503"}
            /\ KeyError(t).status = "401" => reply[t] = "401"
            /\ KeyError(t).code # "token_expired"
            /\ InOrder(KeyError(t))
<1>1. reply[t] \in {"key", "401", "503", "500"}
  BY DEF Replies, Failures
<1>2. CASE reply[t] = "401"
  BY <1>2, Answers DEF KeyError, InOrder
<1>3. CASE reply[t] = "503"
  BY <1>3, Answers DEF KeyError, InOrder
<1>4. CASE reply[t] = "500"
  BY <1>4, Answers DEF KeyError, InOrder
<1>5. CASE reply[t] = "key"
  BY <1>5 DEF KeyError
<1> QED BY <1>1, <1>2, <1>3, <1>4, <1>5

LEMMA ClaimsChecked ==
  ASSUME NEW tok, tok.form = "jwt", tok.alg \in config.algorithms, tok.kid # NoKid
  PROVE  \/ ClaimsError(tok) = Passed /\ Sound(tok)
         \/ /\ ClaimsError(tok) # Passed /\ ClaimsError(tok).status \in {"401", "500"}
            /\ ClaimsError(tok).status = "401" => ~Sound(tok)
            /\ ClaimsError(tok).code = "token_expired" => tok.genuine
            /\ InOrder(ClaimsError(tok))
<1>1. CASE tok.alg # "RS256"
  BY <1>1, Answers DEF ClaimsError, InOrder
<1>2. CASE tok.alg = "RS256" /\ ~tok.genuine
  BY <1>2, Answers DEF ClaimsError, Sound, InOrder
<1>3. CASE tok.alg = "RS256" /\ tok.genuine /\ ~tok.complete
  BY <1>3, Answers DEF ClaimsError, Sound, InOrder
<1>4. CASE tok.alg = "RS256" /\ tok.genuine /\ tok.complete /\ Immature(tok)
  BY <1>4, Answers DEF ClaimsError, Sound, InOrder
<1>5. CASE tok.alg = "RS256" /\ tok.genuine /\ tok.complete /\ ~Immature(tok) /\ Expired(tok)
  BY <1>5, Answers DEF ClaimsError, Sound, InOrder
<1>6. CASE /\ tok.alg = "RS256" /\ tok.genuine /\ tok.complete /\ ~Immature(tok)
           /\ ~Expired(tok) /\ ~tok.ours
  BY <1>6, Answers DEF ClaimsError, Sound, InOrder
<1>7. CASE /\ tok.alg = "RS256" /\ tok.genuine /\ tok.complete /\ ~Immature(tok)
           /\ ~Expired(tok) /\ tok.ours
  BY <1>7 DEF ClaimsError, Sound
<1> QED BY <1>1, <1>2, <1>3, <1>4, <1>5, <1>6, <1>7

LEMMA PermissionChecked ==
  ASSUME NEW tok, NEW view
  PROVE  LET error == PermissionError(tok, Needs(view)) IN
         \/ error = Passed /\ Allows(tok, view)
         \/ /\ error # Passed /\ ~Allows(tok, view)
            /\ error.status = "403" /\ error.code # "token_expired"
            /\ InOrder(error)
<1> DEFINE permission == Needs(view)
<1>1. CASE Granted(tok) = NoClaim
  BY <1>1, Answers DEF PermissionError, Allows, InOrder
<1>2. CASE Granted(tok) # NoClaim /\ permission = ""
  BY <1>2 DEF PermissionError, Allows
<1>3. CASE Granted(tok) # NoClaim /\ permission # "" /\ permission \notin Granted(tok)
  <2>1. PermissionError(tok, permission) = AuthError("403", "unauthorized")
    BY <1>3 DEF PermissionError
  <2>2. ~Allows(tok, view)
    BY <1>3 DEF Allows
  <2> QED BY <2>1, <2>2, Answers DEF InOrder
<1>4. CASE Granted(tok) # NoClaim /\ permission # "" /\ permission \in Granted(tok)
  BY <1>4 DEF PermissionError, Allows
<1> QED BY <1>1, <1>2, <1>3, <1>4

-----------------------------------------------------------------------------
\* What is left of an ingredient once it is stored passes the checks again, and
\* does not change any more.
LEMMA IngredientStays ==
  ASSUME NEW i, IsIngredient(i), ValidIngredient(i)
  PROVE  /\ ValidIngredient(Normalised(i)) /\ Normalised(Normalised(i)) = Normalised(i)
         /\ Normalised(i).color.form \in Drawable /\ ~Normalised(i).color.padded
         /\ Normalised(i).name = Strip(Normalised(i).name)
         /\ Normalised(i).color = Strip(Normalised(i).color)
         /\ DOMAIN Normalised(i) = Keys
         /\ ValidParts(Normalised(i).parts)
<1>1. /\ i.name \in [text : {TRUE}, length : Nat, padded : BOOLEAN]
      /\ i.color \in [text : {TRUE}, form : STRING, padded : BOOLEAN]
  <2>1. /\ i.name.text /\ i.color.text
        /\ i.name \in Texts /\ i.color \in ColorTexts
    BY DEF IsIngredient, ValidIngredient, ShortText
  <2>2. ~NotText.text
    BY DEF NotText
  <2>3. i.name # NotText /\ i.color # NotText
    BY <2>1, <2>2, Zenon
  <2> QED BY <2>1, <2>3 DEF Texts, ColorTexts
<1> DEFINE n == Strip(i.name)
           c == Strip(i.color)
<1>2. /\ n \in [text : {TRUE}, length : Nat, padded : BOOLEAN]
      /\ n.text /\ n.length = i.name.length /\ n.padded = FALSE
      /\ c \in [text : {TRUE}, form : STRING, padded : BOOLEAN]
      /\ c.text /\ c.form = i.color.form /\ c.padded = FALSE
  BY <1>1 DEF Strip
<1> HIDE DEF n, c
<1>3. Strip(n) = n /\ Strip(c) = c
  BY <1>2 DEF Strip
<1>4. /\ Normalised(i).name = n /\ Normalised(i).color = c
      /\ Normalised(i).parts = i.parts /\ DOMAIN Normalised(i) = Keys
  BY DEF Normalised, Keys, n, c
<1>5. Normalised(Normalised(i)) = Normalised(i)
  <2>1. Normalised(i) = [name |-> n, color |-> c, parts |-> i.parts]
    BY DEF Normalised, n, c
  <2>2. Normalised(Normalised(i)) = [name |-> n, color |-> c, parts |-> i.parts]
    BY <1>3, <1>4 DEF Normalised
  <2> QED BY <2>1, <2>2
<1>6. ValidIngredient(Normalised(i))
  BY <1>2, <1>4 DEF ValidIngredient, ShortText
<1>7. /\ Normalised(i).color.form \in Drawable /\ ~Normalised(i).color.padded
      /\ ValidParts(Normalised(i).parts)
  BY <1>2, <1>4 DEF ValidIngredient
<1> QED BY <1>3, <1>4, <1>5, <1>6, <1>7

\* validate_recipe accepts what it has returned, and returns it as it is.
LEMMA RecipeStays ==
  ASSUME NEW raw, IsRecipe(raw), ValidateRecipe(raw) # Refused
  PROVE  RoundTrips(ValidateRecipe(raw).value)
<1> DEFINE items == raw.items
           stored == [n \in DOMAIN items |-> Normalised(items[n])]
           again == [n \in DOMAIN stored |-> Normalised(stored[n])]
<1>1. raw.shape \in Lists
  BY DEF ValidateRecipe, Decoded, Refused
<1>2. Decoded(raw) = Accepted(items)
  BY <1>1 DEF Decoded
<1>3. Decoded(raw).ok /\ Decoded(raw).value = items
  BY <1>2 DEF Accepted
<1>4. /\ Len(items) \in 1..MaxIngredients
      /\ \A n \in DOMAIN items : ValidIngredient(items[n])
      /\ JsonLength(stored) <= MaxJsonLength
      /\ ValidateRecipe(raw) = Accepted(stored)
  BY <1>3 DEF ValidateRecipe
<1>5. ValidateRecipe(raw).value = stored
  BY <1>4 DEF Accepted
<1>6. \A n \in DOMAIN items : IsIngredient(items[n])
  BY <1>1 DEF IsRecipe
<1>7. DOMAIN items = 1..Len(items) /\ Len(items) \in Nat
  BY <1>1, LenProperties DEF IsRecipe
<1>8. /\ DOMAIN stored = DOMAIN items
      /\ \A n \in DOMAIN stored : stored[n] = Normalised(items[n])
  OBVIOUS
<1>9. Len(stored) = Len(items)
  BY <1>7, <1>8
<1> HIDE DEF stored
<1>10. \A n \in DOMAIN stored : ValidIngredient(stored[n]) /\ Normalised(stored[n]) = stored[n]
  BY <1>4, <1>6, <1>8, IngredientStays
<1>11. again = stored
  <2>1. stored = [n \in DOMAIN stored |-> stored[n]]
    BY DEF stored
  <2> QED BY <1>10, <2>1
<1>12. FromForm(stored).shape = "list" /\ FromForm(stored).items = stored
  <2>1. FromForm(stored).items = again
    BY DEF FromForm, Normalised
  <2> HIDE DEF again
  <2>2. FromForm(stored).shape = "list"
    BY DEF FromForm
  <2> QED BY <1>11, <2>1, <2>2
<1>13. Decoded(FromForm(stored)).ok /\ Decoded(FromForm(stored)).value = stored
  BY <1>12 DEF Decoded, Lists, Accepted
<1>14. ValidateRecipe(FromForm(stored)) = Accepted(stored)
  <2> HIDE DEF again
  <2>1. ValidateRecipe(FromForm(stored)) =
           IF Len(stored) \in 1..MaxIngredients /\ (\A n \in DOMAIN stored : ValidIngredient(stored[n]))
              /\ JsonLength(again) <= MaxJsonLength
             THEN Accepted(again) ELSE Refused
    BY <1>13 DEF ValidateRecipe, again
  <2> QED BY <1>4, <1>9, <1>10, <1>11, <2>1
<1>15. ASSUME Long(stored).ok
       PROVE  Long(stored).value = stored
  BY <1>15 DEF Long, Read, Accepted, Refused
<1>16. ASSUME Short(stored).ok, NEW shown \in ToSet(Short(stored).value)
       PROVE  /\ shown.color.form \in Drawable /\ ~shown.color.padded
              /\ shown.parts.type = "number" /\ shown.parts.value \in 1..MaxParts
  <2> DEFINE seen == [n \in DOMAIN stored |-> [color |-> stored[n].color, parts |-> stored[n].parts]]
  <2>1. Short(stored) = Read(seen)
    BY DEF Short
  <2> HIDE DEF seen
  <2>2. Short(stored).value = seen /\ \A n \in DOMAIN seen : seen[n].parts.type # "NaN"
    BY <1>16, <2>1 DEF Read, Accepted, Refused
  <2>3. PICK n \in DOMAIN stored : shown = seen[n] /\ n \in DOMAIN seen
    BY <2>2 DEF ToSet, seen
  <2>4. shown.color = stored[n].color /\ shown.parts = stored[n].parts
    BY <2>3 DEF seen
  <2>5. /\ stored[n].color.form \in Drawable /\ ~stored[n].color.padded
        /\ ValidParts(stored[n].parts)
    BY <1>4, <1>6, <1>8, IngredientStays
  <2> QED BY <2>2, <2>3, <2>4, <2>5 DEF ValidParts
<1> QED BY <1>5, <1>14, <1>15, <1>16 DEF RoundTrips

\* A body that create_drink accepts is stored as a recipe that round-trips.
LEMMA StoredRoundTrips ==
  ASSUME NEW body \in Bodies, BodyError(body) = Passed
  PROVE  InOrder([Status("200") EXCEPT !.recipe = ValidateRecipe(body.recipe).value])
<1>1. /\ body.form \in {"notJson", "tooLarge", "broken", "notAnObject", "incomplete", "tooDeep", "drink"}
      /\ body.form = "drink" => IsRecipe(body.recipe)
  OBVIOUS
<1>2. \A status : status # "passed" => Status(status) # Passed
  BY DEF Status, Passed, AuthError
<1>3. body.form = "drink" /\ ValidateRecipe(body.recipe).ok
  <2>1. Status("415") # Passed /\ Status("413") # Passed /\ Status("400") # Passed
        /\ Status("422") # Passed /\ Unhandled # Passed
    BY <1>2 DEF Unhandled
  <2> QED BY <1>1, <2>1 DEF BodyError
<1>4. ValidateRecipe(body.recipe) # Refused
  BY <1>3 DEF Refused
<1>5. RoundTrips(ValidateRecipe(body.recipe).value)
  BY <1>1, <1>3, <1>4, RecipeStays
<1>6. LET answer == [Status("200") EXCEPT !.recipe = ValidateRecipe(body.recipe).value]
      IN  answer.code = "none" /\ answer.recipe = ValidateRecipe(body.recipe).value
  BY DEF Status, AuthError
<1> QED BY <1>5, <1>6 DEF InOrder

-----------------------------------------------------------------------------
LEMMA InitHolds == Init => IndInv
<1> SUFFICES ASSUME Init PROVE IndInv
  OBVIOUS
<1>1. /\ now = 0 /\ lastUsable \in [Kids -> Int] /\ lastUnusable \in [Kids -> Int]
      /\ want \in [Threads -> Kids] /\ reply \in [Threads -> Replies]
  BY HorizonAssumption DEF Init, SvcInit, IdpInit, Never, Replies, Failures
<1>2. call \in [Threads -> Calls] /\ \A t \in Threads : call[t].pc = "idle"
  BY DEF Init, Calls, Idle
<1>3. config \in Configs /\ Validated
  BY DEF Init, Validated
<1>4. InOrder(given)
  BY Answers DEF Init, InOrder
<1> QED BY <1>1, <1>2, <1>3, <1>4, HorizonAssumption DEF IndInv, Types, Screened, AnswerIsFresh

\* A thread that goes on takes its request along; no other thread moves.
LEMMA GoesOn ==
  ASSUME Types, NEW t \in Threads, call[t].pc # "idle", config' = config,
         NEW pc \in {"arrived", "key", "view"}, Goes(t, pc)
  PROVE  /\ call' \in [Threads -> Calls'] /\ given' = Passed
         /\ call'[t].pc = pc /\ call'[t].request = call[t].request
         /\ \A u \in Threads : u # t => call'[u] = call[u]
<1>1. /\ call[t] \in [pc : {"arrived", "key", "view"}, request : Requests[config.limiting]]
      /\ call \in [Threads -> Calls]
  BY DEF Types, Calls, Idle
<1>2. call' = [call EXCEPT ![t].pc = pc] /\ given' = Passed
  BY DEF Goes
<1>3. Calls' = Calls
  BY DEF Calls, Idle
<1>4. call'[t] = [call[t] EXCEPT !.pc = pc] /\ \A u \in Threads : u # t => call'[u] = call[u]
  BY <1>1, <1>2
<1>5. /\ call'[t].pc = pc /\ call'[t].request = call[t].request
      /\ call'[t] \in [pc : {"arrived", "key", "view"}, request : Requests[config.limiting]]
  BY <1>1, <1>4
<1>6. call'[t] \in Calls
  BY <1>5 DEF Calls
<1>7. call' \in [Threads -> Calls]
  BY <1>1, <1>2, <1>4, <1>6
<1> QED BY <1>2, <1>3, <1>4, <1>5, <1>7

\* A thread that answers is idle again; no other thread moves.
LEMMA AnswersNow ==
  ASSUME Types, NEW t \in Threads, config' = config, NEW answer, Answer(t, answer)
  PROVE  /\ call' \in [Threads -> Calls'] /\ given' = answer /\ call'[t].pc = "idle"
         /\ \A u \in Threads : u # t => call'[u] = call[u]
<1>1. call \in [Threads -> Calls] /\ Idle \in Calls /\ Calls' = Calls /\ Idle.pc = "idle"
  BY DEF Types, Calls, Idle
<1>2. call' = [call EXCEPT ![t] = Idle] /\ given' = answer
  BY DEF Answer
<1> QED BY <1>1, <1>2

\* What the other threads rely on stays when a thread moves and the key service
\* does not, or is only asked by it.
LEMMA OthersKept ==
  ASSUME IndInv, NEW t \in Threads, config' = config,
         now' = now, lastUsable' = lastUsable, lastUnusable' = lastUnusable,
         \A u \in Threads : u # t => /\ call'[u] = call[u]
                                     /\ want'[u] = want[u] /\ reply'[u] = reply[u]
  PROVE  /\ Validated'
         /\ \A u \in Threads : u # t => Screened(u)' /\ AnswerIsFresh(u)'
<1>1. Validated'
  BY DEF IndInv, Validated, Validates
<1>2. ASSUME NEW u \in Threads, u # t
      PROVE  Screened(u)' /\ AnswerIsFresh(u)'
  <2>1. call'[u] = call[u] /\ want'[u] = want[u] /\ reply'[u] = reply[u]
    BY <1>2
  <2>2. Screened(u) /\ AnswerIsFresh(u)
    BY DEF IndInv
  <2> QED BY <2>1, <2>2 DEF Screened, AnswerIsFresh, Routed, ScreenedBefore, Carries
<1> QED BY <1>1, <1>2

-----------------------------------------------------------------------------
\* The clock waits for a thread that holds a key, and a rotation only makes what
\* the key service knows more recent.
LEMMA EnvironmentKeeps == IndInv /\ Environment => IndInv'
<1> SUFFICES ASSUME IndInv, Environment PROVE IndInv'
  OBVIOUS
<1>1. /\ given' = Passed /\ want' = want /\ reply' = reply /\ config' = config /\ call' = call
  BY DEF Environment
<1>2. /\ now \in Int /\ lastUsable \in [Kids -> Int] /\ lastUnusable \in [Kids -> Int]
      /\ want \in [Threads -> Kids]
  BY DEF IndInv, Types
<1>3. Types'
  <2>1. CASE Tick
    BY <1>1, <1>2, <2>1 DEF IndInv, Types, Tick, Calls
  <2>2. CASE \E k \in Kids : Rotate(k)
    BY <1>1, <1>2, <2>2 DEF IndInv, Types, Rotate, Calls
  <2> QED BY <2>1, <2>2 DEF Environment
<1>4. Validated' /\ InOrder(given)'
  BY <1>1, Answers DEF IndInv, Validated, Validates, InOrder
<1>5. ASSUME NEW t \in Threads PROVE Screened(t)' /\ AnswerIsFresh(t)'
  <2>1. Screened(t)'
    BY <1>1 DEF IndInv, Screened, Routed, ScreenedBefore, Carries
  <2>2. CASE Tick /\ \A u \in Threads : ~HoldsKey(u)
    <3>1. call[t].pc = "key" => reply[t] = "none"
      BY <2>2 DEF HoldsKey
    <3> QED BY <1>1, <2>1, <3>1 DEF AnswerIsFresh
  <2>3. CASE \E k \in Kids : Rotate(k)
    <3>1. AnswerIsFresh(t) /\ want[t] \in Kids /\ Window \in Nat
      BY <1>2 DEF IndInv
    <3>2. /\ now' = now
          /\ lastUsable'[want[t]] \in {lastUsable[want[t]], now}
          /\ lastUnusable'[want[t]] \in {lastUnusable[want[t]], now}
      BY <1>2, <2>3 DEF Rotate
    <3>3. now \in Int /\ lastUsable[want[t]] \in Int /\ lastUnusable[want[t]] \in Int
      BY <1>2, <3>1
    <3>4. /\ now - lastUsable[want[t]] <= Window => now' - lastUsable'[want[t]] <= Window
          /\ now - lastUnusable[want[t]] <= Window => now' - lastUnusable'[want[t]] <= Window
      BY <3>1, <3>2, <3>3
    <3> QED BY <1>1, <2>1, <3>1, <3>4 DEF AnswerIsFresh
  <2> QED BY <2>1, <2>2, <2>3 DEF Environment
<1> QED BY <1>3, <1>4, <1>5 DEF IndInv

LEMMA ServiceKeeps ==
  ASSUME IndInv, NEW t \in Threads, Service(t)
  PROVE  IndInv'
<1>1. /\ given' = Passed /\ want' = want /\ config' = config /\ call' = call
      /\ now' = now /\ lastUsable' = lastUsable /\ lastUnusable' = lastUnusable
  BY DEF Service, AnswerKey, AnswerUnknown, AnswerFailure, idpVars
<1>2. PICK r \in {"key", "401", "503", "500"} : reply' = [reply EXCEPT ![t] = r]
  BY DEF Service, AnswerKey, AnswerUnknown, AnswerFailure, Failures
<1>3. reply \in [Threads -> Replies] /\ r \in Replies
  BY DEF IndInv, Types, Replies, Failures
<1>4. Types'
  BY <1>1, <1>2, <1>3 DEF IndInv, Types, Calls
<1>5. \A u \in Threads : u # t => call'[u] = call[u] /\ want'[u] = want[u] /\ reply'[u] = reply[u]
  BY <1>1, <1>2, <1>3
<1>6. Screened(t)'
  BY <1>1 DEF IndInv, Screened, Routed, ScreenedBefore, Carries
<1>7. AnswerIsFresh(t)'
  <2>1. CASE r = "key"
    BY <1>1, <1>2, <1>3, <2>1 DEF AnswerIsFresh, Service, AnswerKey, AnswerUnknown, AnswerFailure, Failures
  <2>2. CASE r = "401"
    BY <1>1, <1>2, <1>3, <2>2 DEF AnswerIsFresh, Service, AnswerKey, AnswerUnknown, AnswerFailure, Failures
  <2>3. CASE r \in {"503", "500"}
    BY <1>1, <1>2, <1>3, <2>3 DEF AnswerIsFresh
  <2> QED BY <2>1, <2>2, <2>3
<1>8. InOrder(given)'
  BY <1>1, Answers DEF InOrder
<1> QED BY <1>1, <1>4, <1>5, <1>6, <1>7, <1>8, OthersKept DEF IndInv

\* A thread is alone in changing its request; when it answers or has passed all
\* checks, nothing is left to show but its answer and its route.
LEMMA MoveKeeps ==
  ASSUME IndInv, NEW t \in Threads, config' = config,
         now' = now, lastUsable' = lastUsable, lastUnusable' = lastUnusable,
         want' \in [Threads -> Kids], reply' \in [Threads -> Replies],
         call' \in [Threads -> Calls'],
         \A u \in Threads : u # t => call'[u] = call[u] /\ want'[u] = want[u] /\ reply'[u] = reply[u],
         InOrder(given'), Screened(t)', AnswerIsFresh(t)'
  PROVE  IndInv'
<1>1. Types'
  BY DEF IndInv, Types
<1>2. InOrder(given)'
  BY DEF InOrder
<1> QED BY <1>1, <1>2, OthersKept DEF IndInv

LEMMA ArriveKeeps ==
  ASSUME IndInv, NEW t \in Threads, Arrive(t)
  PROVE  IndInv'
<1>1. /\ given' = Passed /\ config' = config /\ want' = want /\ reply' = reply
      /\ now' = now /\ lastUsable' = lastUsable /\ lastUnusable' = lastUnusable
  BY DEF Arrive, svcVars, idpVars
<1>2. PICK r \in Requests[config.limiting] : call' = [call EXCEPT ![t] = [pc |-> "arrived", request |-> r]]
  BY DEF Arrive
<1>3. call \in [Threads -> Calls] /\ [pc |-> "arrived", request |-> r] \in Calls /\ Calls' = Calls
  BY <1>1 DEF IndInv, Types, Calls
<1>4. call' \in [Threads -> Calls'] /\ call'[t].pc = "arrived"
      /\ \A u \in Threads : u # t => call'[u] = call[u]
  BY <1>2, <1>3
<1>5. Screened(t)' /\ AnswerIsFresh(t)'
  BY <1>4 DEF Screened, AnswerIsFresh
<1>6. InOrder(given')
  BY <1>1, Answers DEF InOrder
<1>7. want' \in [Threads -> Kids] /\ reply' \in [Threads -> Replies]
  BY <1>1 DEF IndInv, Types
<1> QED BY <1>1, <1>4, <1>5, <1>6, <1>7, MoveKeeps

\* Routing, the limiter and the checks before the key let a request pass on the
\* terms of ScreenedBefore, and blame the API itself for nothing.
LEMMA ScreenKeeps ==
  ASSUME IndInv, NEW t \in Threads, Screen(t)
  PROVE  IndInv'
<1> DEFINE r == call[t].request
           error == IF r.view = "menu" THEN Passed
                    ELSE FirstError(HeaderError(r), TokenHeaderError(r.token))
<1>1. /\ call[t].pc = "arrived" /\ config' = config
      /\ now' = now /\ lastUsable' = lastUsable /\ lastUnusable' = lastUnusable
  BY DEF Screen, svcVars, idpVars, Ask
<1>2. /\ want \in [Threads -> Kids] /\ reply \in [Threads -> Replies]
      /\ Types /\ Validated /\ call \in [Threads -> Calls]
  BY DEF IndInv, Types
<1>3. config.limiting \in BOOLEAN /\ r \in Requests[config.limiting]
  BY <1>1, <1>2 DEF Types, Calls, Idle
<1>4. /\ error # Passed => InOrder(error)
      /\ error = Passed /\ r.view # "menu" => ScreenedBefore(r)
  <2>1. r.token.form \in {"jwt", "malformed", "kidNotText"}
    BY <1>3
  <2> QED BY <1>2, <1>3, <2>1, HeaderChecked, TokenHeaderChecked DEF FirstError, ScreenedBefore
<1>5. ASSUME NEW answer, Answer(t, answer), InOrder(answer), UNCHANGED svcVars
      PROVE  IndInv'
  <2>1. /\ call' \in [Threads -> Calls'] /\ given' = answer /\ call'[t].pc = "idle"
        /\ \A u \in Threads : u # t => call'[u] = call[u]
    BY <1>1, <1>2, <1>5, AnswersNow
  <2>2. want' = want /\ reply' = reply
    BY <1>5 DEF svcVars
  <2>3. Screened(t)' /\ AnswerIsFresh(t)'
    BY <2>1 DEF Screened, AnswerIsFresh
  <2> QED BY <1>1, <1>2, <1>5, <2>1, <2>2, <2>3, MoveKeeps
<1>6. CASE \E answer : Answer(t, answer) /\ InOrder(answer) /\ UNCHANGED svcVars
  BY <1>5, <1>6
<1>7. CASE Routed(r.view) /\ Goes(t, "view") /\ UNCHANGED svcVars
  <2>1. /\ call' \in [Threads -> Calls'] /\ given' = Passed
        /\ call'[t].pc = "view" /\ call'[t].request = r
        /\ \A u \in Threads : u # t => call'[u] = call[u]
    BY <1>1, <1>2, <1>7, GoesOn
  <2>2. want' = want /\ reply' = reply
    BY <1>7 DEF svcVars
  <2>3. Screened(t)' /\ AnswerIsFresh(t)'
    BY <1>1, <1>7, <2>1 DEF Screened, AnswerIsFresh, Routed
  <2>4. InOrder(given')
    BY <2>1, Answers DEF InOrder
  <2> QED BY <1>1, <1>2, <2>1, <2>2, <2>3, <2>4, MoveKeeps
<1>8. CASE Routed(r.view) /\ ScreenedBefore(r) /\ Ask(t, r.token.kid) /\ Goes(t, "key")
  <2>1. /\ call' \in [Threads -> Calls'] /\ given' = Passed
        /\ call'[t].pc = "key" /\ call'[t].request = r
        /\ \A u \in Threads : u # t => call'[u] = call[u]
    BY <1>1, <1>2, <1>8, GoesOn
  <2>2. r.token.kid \in Kids
    BY <1>3, <1>8 DEF ScreenedBefore
  <2>3. /\ want' = [want EXCEPT ![t] = r.token.kid] /\ reply' = [reply EXCEPT ![t] = "none"]
        /\ "none" \in Replies
    BY <1>8 DEF Ask, Replies
  <2>4. /\ want' \in [Threads -> Kids] /\ reply' \in [Threads -> Replies]
        /\ want'[t] = r.token.kid /\ reply'[t] = "none"
        /\ \A u \in Threads : u # t => want'[u] = want[u] /\ reply'[u] = reply[u]
    BY <1>2, <2>2, <2>3
  <2>5. Screened(t)'
    BY <1>1, <1>8, <2>1, <2>4 DEF Screened, Routed, ScreenedBefore, Carries
  <2>6. AnswerIsFresh(t)'
    BY <2>4 DEF AnswerIsFresh
  <2>7. InOrder(given')
    BY <2>1, Answers DEF InOrder
  <2> QED BY <1>1, <2>1, <2>4, <2>5, <2>6, <2>7, MoveKeeps
<1>9. InOrder(Status("404")) /\ InOrder(Status("429"))
  BY StatusInOrder
<1>10. \/ Answer(t, Status("404")) /\ UNCHANGED svcVars
       \/ Answer(t, Status("429")) /\ UNCHANGED svcVars
       \/ error # Passed /\ Answer(t, error) /\ UNCHANGED svcVars
       \/ Routed(r.view) /\ Goes(t, "view") /\ UNCHANGED svcVars
       \/ /\ Routed(r.view) /\ error = Passed /\ r.view # "menu"
          /\ Ask(t, r.token.kid) /\ Goes(t, "key")
  BY DEF Screen
<1> QED BY <1>4, <1>6, <1>7, <1>8, <1>9, <1>10

\* The checks after the key.
LEMMA VerifyKeeps ==
  ASSUME IndInv, NEW t \in Threads, Verify(t)
  PROVE  IndInv'
<1> DEFINE r == call[t].request
           error == FirstError(KeyError(t), FirstError(ClaimsError(r.token),
                                   PermissionError(r.token, Needs(r.view))))
<1>1. /\ call[t].pc = "key" /\ reply[t] # "none" /\ config' = config
      /\ want' = want /\ reply' = reply
      /\ now' = now /\ lastUsable' = lastUsable /\ lastUnusable' = lastUnusable
  BY DEF Verify, svcVars, idpVars
<1>2. /\ want \in [Threads -> Kids] /\ reply \in [Threads -> Replies] /\ Types
      /\ Routed(r.view) /\ ScreenedBefore(r)
  BY <1>1 DEF IndInv, Types, Screened
<1>3. error # Passed => InOrder(error)
  BY <1>1, <1>2, KeyChecked, ClaimsChecked, PermissionChecked DEF FirstError, ScreenedBefore
<1>4. CASE error = Passed /\ Goes(t, "view")
  <2>1. /\ call' \in [Threads -> Calls'] /\ given' = Passed
        /\ call'[t].pc = "view" /\ call'[t].request = r
        /\ \A u \in Threads : u # t => call'[u] = call[u]
    BY <1>1, <1>2, <1>4, GoesOn
  <2>2. Screened(t)' /\ AnswerIsFresh(t)'
    BY <1>1, <1>2, <2>1 DEF Screened, AnswerIsFresh, Routed
  <2>3. InOrder(given')
    BY <2>1, Answers DEF InOrder
  <2> QED BY <1>1, <1>2, <2>1, <2>2, <2>3, MoveKeeps
<1>5. CASE error # Passed /\ Answer(t, error)
  <2>1. /\ call' \in [Threads -> Calls'] /\ given' = error /\ call'[t].pc = "idle"
        /\ \A u \in Threads : u # t => call'[u] = call[u]
    BY <1>1, <1>2, <1>5, AnswersNow
  <2>2. Screened(t)' /\ AnswerIsFresh(t)'
    BY <2>1 DEF Screened, AnswerIsFresh
  <2> QED BY <1>1, <1>2, <1>3, <1>5, <2>1, <2>2, MoveKeeps
<1> QED BY <1>4, <1>5 DEF Verify

\* A view that needs the management client finds it set up.
LEMMA ViewKeeps ==
  ASSUME IndInv, NEW t \in Threads, View(t)
  PROVE  IndInv'
<1>1. /\ call[t].pc = "view" /\ config' = config /\ want' = want /\ reply' = reply
      /\ now' = now /\ lastUsable' = lastUsable /\ lastUnusable' = lastUnusable
  BY DEF View, svcVars, idpVars
<1>2. want \in [Threads -> Kids] /\ reply \in [Threads -> Replies] /\ Types
  BY DEF IndInv, Types
<1>3. PICK answer : Answer(t, answer) /\ InOrder(answer)
  <2>1. CASE call[t].request.view \in {"menu", "me"}
    <3>1. Answer(t, Status("200"))
      BY <2>1 DEF View
    <3> QED BY <3>1, StatusInOrder
  <2>2. CASE call[t].request.view = "users"
    <3>1. config.m2mCredentials
      BY <1>1, <2>2 DEF IndInv, Screened, Routed, Validated, Validates
    <3>2. Answer(t, Status("200"))
      BY <2>2, <3>1 DEF View
    <3> QED BY <3>2, StatusInOrder
  <2>3. CASE call[t].request.view = "create"
    <3>1. PICK body \in Bodies :
             Answer(t, IF BodyError(body) # Passed THEN BodyError(body)
                       ELSE [Status("200") EXCEPT !.recipe = ValidateRecipe(body.recipe).value])
      BY <2>3 DEF View
    <3>2. InOrder(BodyError(body))
      <4>1. InOrder(Passed)
        BY StatusInOrder DEF Passed
      <4>2. body.form \in {"notJson", "tooLarge", "broken", "notAnObject", "incomplete", "tooDeep", "drink"}
        OBVIOUS
      <4> QED BY <4>1, <4>2, StatusInOrder DEF BodyError, Unhandled
    <3>3. BodyError(body) = Passed =>
             InOrder([Status("200") EXCEPT !.recipe = ValidateRecipe(body.recipe).value])
      BY StoredRoundTrips
    <3> QED BY <3>1, <3>2, <3>3
  <2> QED BY <2>1, <2>2, <2>3 DEF View
<1>4. /\ call' \in [Threads -> Calls'] /\ given' = answer /\ call'[t].pc = "idle"
      /\ \A u \in Threads : u # t => call'[u] = call[u]
  BY <1>1, <1>2, <1>3, AnswersNow
<1>5. Screened(t)' /\ AnswerIsFresh(t)'
  BY <1>4 DEF Screened, AnswerIsFresh
<1> QED BY <1>1, <1>2, <1>3, <1>4, <1>5, MoveKeeps

THEOREM Invariance == Spec => []IndInv
<1>1. IndInv /\ [Next]_vars => IndInv'
  <2> SUFFICES ASSUME IndInv, [Next]_vars PROVE IndInv'
    OBVIOUS
  <2>1. CASE UNCHANGED vars
    BY <2>1 DEF vars, svcVars, idpVars, IndInv, Types, Calls, Validated, Validates, Screened,
                ScreenedBefore, Routed, Carries, AnswerIsFresh, InOrder
  <2>2. CASE Next
    BY <2>2, EnvironmentKeeps, ServiceKeeps, ArriveKeeps, ScreenKeeps, VerifyKeeps, ViewKeeps
       DEF Next
  <2> QED BY <2>1, <2>2
<1> QED BY InitHolds, <1>1, PTL DEF Spec

-----------------------------------------------------------------------------
\* A configuration that Config.validate accepts (config.py) never makes the API
\* blame itself, and no token with a shared secret or no signature gets as far as
\* its key (auth.py, verify_decode_jwt).
THEOREM BootSuffices == Spec => []BootMeansVerifiable
<1>1. IndInv => BootMeansVerifiable
  <2> SUFFICES ASSUME IndInv, NEW t \in Threads, call[t].pc = "key"
               PROVE  call[t].request.token.alg \in Asymmetric
    BY DEF IndInv, BootMeansVerifiable, InOrder
  <2>1. call[t].request.token.alg \in config.algorithms
    BY DEF IndInv, Screened, ScreenedBefore
  <2>2. /\ config.algorithms \subseteq Symmetric \cup Asymmetric \cup {"none"}
        /\ config.algorithms \cap Symmetric = {} /\ "none" \notin config.algorithms
    BY DEF IndInv, Types, Validated, Validates
  <2> QED BY <2>1, <2>2
<1> QED BY <1>1, Invariance, PTL

\* What create_drink stores, unless a part is NaN, which no browser reads, is accepted
\* and not changed when it comes back from the edit form, and can be drawn with a
\* number of parts within the limits (models.py, validate_recipe; menu.page.ts, save).
THEOREM RecipesStay == Spec => []RecipesRoundTrip
<1>1. IndInv => RecipesRoundTrip
  BY DEF IndInv, InOrder, RoundTrips, RecipesRoundTrip
<1> QED BY <1>1, Invariance, PTL

\* A request only leaves requires_auth by a step of its own thread.
LEMMA DecidesItself ==
  ASSUME IndInv, Next, NEW t \in Threads, Decides(t)
  PROVE  Screen(t) \/ Verify(t)
<1>1. call \in [Threads -> Calls] /\ Types /\ call'[t] # call[t]
  BY DEF IndInv, Types, Decides
<1>2. ~Environment
  BY <1>1 DEF Environment
<1>3. ASSUME NEW u \in Threads, Arrive(u) \/ Screen(u) \/ Service(u) \/ Verify(u) \/ View(u)
      PROVE  Screen(t) \/ Verify(t)
  <2>1. ~Service(u)
    BY <1>1 DEF Service
  <2>2. \E c : call' = [call EXCEPT ![u] = c]
    BY <1>3, <2>1 DEF Arrive, Screen, Verify, View, Answer, Goes
  <2>3. u = t
    BY <1>1, <2>2
  <2>4. ~Arrive(t) /\ ~View(t)
    BY DEF Arrive, View, Decides
  <2> QED BY <1>3, <2>1, <2>3, <2>4
<1> QED BY <1>2, <1>3 DEF Next

\* What the answer says of a request, once requires_auth has decided on it.
DecidedRightly(t) ==
    LET r == call[t].request
        known == Carries(r) /\ KeyKnown(r.token)
    IN IF call'[t].pc = "view"
         THEN known /\ Sound(r.token) /\ Allows(r.token, r.view)
         ELSE /\ given'.status = "403" =>
                     known /\ Sound(r.token) /\ ~Allows(r.token, r.view)
              /\ given'.code = "token_expired" => known /\ r.token.genuine
              /\ given'.status = "401" =>
                     ~Carries(r) \/ ~Sound(r.token) \/ KeyUnknown(r.token)

LEMMA ScreenDecidesRightly ==
  ASSUME IndInv, NEW t \in Threads, Decides(t), Screen(t)
  PROVE  DecidedRightly(t)
<1> DEFINE r == call[t].request
           error == FirstError(HeaderError(r), TokenHeaderError(r.token))
<1>1. r.view # "menu" /\ call[t].pc = "arrived" /\ config' = config
  BY DEF Decides, Screen
<1>2. Types /\ Validated
  BY DEF IndInv
<1>3. config.limiting \in BOOLEAN /\ r \in Requests[config.limiting]
  BY <1>1, <1>2 DEF Types, Calls, Idle
<1>4. PICK answer \in {Status("404"), Status("429"), error} :
         Answer(t, answer) /\ (answer = error => error # Passed)
  <2>1. ~Goes(t, "key")
    <3> SUFFICES ASSUME Goes(t, "key") PROVE FALSE
      OBVIOUS
    <3>1. call'[t].pc = "key"
      BY <1>1, <1>2, GoesOn
    <3> QED BY <3>1 DEF Decides
  <2>2. Status("404") # Passed /\ Status("429") # Passed
    BY DEF Status, Passed, AuthError
  <2> QED BY <1>1, <2>1, <2>2 DEF Screen
<1>5. given' = answer /\ call'[t].pc = "idle"
  BY <1>1, <1>2, <1>4, AnswersNow
<1>6. CASE answer \in {Status("404"), Status("429")}
  <2>1. answer.status \in {"404", "429"} /\ answer.code = "none"
    BY <1>6 DEF Status, AuthError
  <2> QED BY <1>5, <2>1 DEF DecidedRightly
<1>7. CASE answer = error
  <2>1. error # Passed /\ r.token.form \in {"jwt", "malformed", "kidNotText"}
    BY <1>3, <1>4, <1>7
  <2>2. /\ error.status \in {"401", "500"} /\ error.code # "token_expired"
        /\ ~Carries(r) \/ ~Sound(r.token)
    BY <1>2, <1>3, <2>1, HeaderChecked, TokenHeaderChecked DEF FirstError
  <2> QED BY <1>5, <1>7, <2>2 DEF DecidedRightly
<1> QED BY <1>4, <1>6, <1>7

LEMMA VerifyDecidesRightly ==
  ASSUME IndInv, NEW t \in Threads, Decides(t), Verify(t)
  PROVE  DecidedRightly(t)
<1> DEFINE r == call[t].request
           tok == r.token
           rest == FirstError(ClaimsError(tok), PermissionError(tok, Needs(r.view)))
           error == FirstError(KeyError(t), rest)
<1>1. call[t].pc = "key" /\ reply[t] # "none" /\ config' = config
  BY DEF Verify
<1>2. /\ Types /\ reply[t] \in Replies /\ ScreenedBefore(r) /\ want[t] = tok.kid
      /\ reply[t] = "key" => now - lastUsable[tok.kid] <= Window
      /\ reply[t] = "401" => now - lastUnusable[tok.kid] <= Window
  BY <1>1 DEF IndInv, Types, Screened, AnswerIsFresh
<1>3. Carries(r) /\ tok.form = "jwt" /\ tok.alg \in config.algorithms /\ tok.kid # NoKid
  BY <1>2 DEF ScreenedBefore
<1>4. CASE KeyError(t) # Passed
  <2>1. error = KeyError(t)
    BY <1>4 DEF FirstError
  <2>2. /\ error.status \in {"401", "500", "503"} /\ error.code # "token_expired"
        /\ error.status = "401" => KeyUnknown(tok)
    BY <1>1, <1>2, <1>3, <1>4, <2>1, KeyChecked DEF KeyUnknown
  <2>3. Answer(t, error)
    BY <1>4, <2>1 DEF Verify
  <2>4. given' = error /\ call'[t].pc = "idle"
    BY <1>1, <1>2, <2>3, AnswersNow
  <2> QED BY <2>2, <2>4 DEF DecidedRightly
<1>5. CASE KeyError(t) = Passed
  <2>1. KeyKnown(tok) /\ error = rest
    BY <1>1, <1>2, <1>5, KeyChecked DEF KeyKnown, FirstError
  <2>2. CASE ClaimsError(tok) # Passed
    <3>1. error = ClaimsError(tok) /\ error # Passed
      BY <2>1, <2>2 DEF FirstError
    <3>2. given' = error /\ call'[t].pc = "idle"
      BY <1>1, <1>2, <3>1, AnswersNow DEF Verify
    <3>3. /\ error.status \in {"401", "500"}
          /\ error.status = "401" => ~Sound(tok)
          /\ error.code = "token_expired" => tok.genuine
      BY <1>3, <2>2, <3>1, ClaimsChecked
    <3> QED BY <1>3, <2>1, <3>2, <3>3 DEF DecidedRightly
  <2>3. CASE ClaimsError(tok) = Passed /\ PermissionError(tok, Needs(r.view)) # Passed
    <3>1. error = PermissionError(tok, Needs(r.view)) /\ error # Passed
      BY <2>1, <2>3 DEF FirstError
    <3>2. given' = error /\ call'[t].pc = "idle"
      BY <1>1, <1>2, <3>1, AnswersNow DEF Verify
    <3>3. /\ error.status = "403" /\ error.code # "token_expired"
          /\ Sound(tok) /\ ~Allows(tok, r.view)
      BY <1>3, <2>3, <3>1, ClaimsChecked, PermissionChecked
    <3> QED BY <1>3, <2>1, <3>2, <3>3 DEF DecidedRightly
  <2>4. CASE ClaimsError(tok) = Passed /\ PermissionError(tok, Needs(r.view)) = Passed
    <3>1. error = Passed
      BY <2>1, <2>4 DEF FirstError
    <3>2. call'[t].pc = "view"
      BY <1>1, <1>2, <3>1, GoesOn DEF Verify
    <3>3. Sound(tok) /\ Allows(tok, r.view)
      BY <1>3, <2>4, ClaimsChecked, PermissionChecked
    <3> QED BY <1>3, <2>1, <3>2, <3>3 DEF DecidedRightly
  <2> QED BY <2>2, <2>3, <2>4
<1> QED BY <1>4, <1>5

\* "401 and 403 mean different things" (auth.py): a view runs only for a sound
\* token with a key recently published and the permission, a 403 says the same of
\* a token without it, and a 401 is never the answer to a sound token whose key
\* has been out all along.
THEOREM AnswersMatch == Spec => AnswersMatchCredentials
<1>1. IndInv /\ [Next]_vars => [\A t \in Threads : Decides(t) => DecidedRightly(t)]_vars
  BY DecidesItself, ScreenDecidesRightly, VerifyDecidesRightly
<1>2. Spec => [][\A t \in Threads : Decides(t) => DecidedRightly(t)]_vars
  BY <1>1, Invariance, PTL DEF Spec
<1> QED BY <1>2 DEF AnswersMatchCredentials, DecidedRightly

-----------------------------------------------------------------------------
HIDE PathAssumption

\* Who is charged for a hit: a caller, for one view and one store.  The hits of one,
\* those since an instant, and those let through in a span.
Hits == [store : Stores, view : Views, by : {Caller(r) : r \in UNION {Requests[b] : b \in BOOLEAN}},
         at : Int, admitted : BOOLEAN]
Counters == [count : Nat, ends : Int]
Payer(hit) == <<hit.store, hit.view, hit.by>>
PayerOf(t, r) == <<StoreOf[t], r.view, Caller(r)>>
HitsOf(h, who) == {n \in DOMAIN h : Payer(h[n]) = who}
Since(h, who, from) == {n \in HitsOf(h, who) : h[n].at >= from}
Within(h, who, from, to) ==
    {n \in HitsOf(h, who) : h[n].admitted /\ h[n].at >= from /\ h[n].at < to}

\* A counter knows its window: it has counted no more hits than came since the window
\* began, let through no more than it has counted nor than the limit, and the window
\* begins with a hit let through.  Of the span of a window's length that ends where
\* this window begins, the first instant left out, less than the limit came through.
Tells(c, h, who, limit) ==
    LET begins == c.ends - LimitWindow
    IN /\ \A n \in HitsOf(h, who) : h[n].at < c.ends
       /\ c.count <= Cardinality(Since(h, who, begins))
       /\ Cardinality(Within(h, who, begins, c.ends)) <= c.count
       /\ Cardinality(Within(h, who, begins, c.ends)) <= limit
       /\ \E n \in HitsOf(h, who) : h[n].at = begins /\ h[n].admitted
       /\ Cardinality(Within(h, who, begins - LimitWindow + 1, begins)) < limit

LimiterTypes ==
    /\ hits \in Seq(Hits)
    /\ \A key \in DOMAIN counters :
          counters[key] \in Counters /\ counters[key].ends <= now + LimitWindow

LimiterInv ==
    /\ LimiterTypes
    /\ \A t \in Threads : \A r \in Requests[config.limiting] :
          IF CounterKey(t, r) \in DOMAIN counters
            THEN Tells(counters[CounterKey(t, r)], hits, PayerOf(t, r), LimitOf(r.view))
            ELSE HitsOf(hits, PayerOf(t, r)) = {}

\* rate_limit_key tells callers apart as the requests themselves do.
LEMMA KeysArePayers ==
  ASSUME NEW limited \in BOOLEAN, NEW t \in Threads, NEW r \in Requests[limited],
         NEW u \in Threads, NEW q \in Requests[limited]
  PROVE  CounterKey(t, r) = CounterKey(u, q) <=> PayerOf(t, r) = PayerOf(u, q)
<1> DEFINE Headers == {"absent", "blank", "otherScheme", "alone", "extra", "token", "tabbed"}
<1>1. r.header \in Headers /\ q.header \in Headers
  BY PathAssumption
<1>2. ASSUME NEW x \in Requests[limited], x.header \in Headers
      PROVE  \/ x.header = "token" /\ RateLimitKey(x) = <<"tok", "token", x.token.id>>
                /\ Caller(x) = <<"token", x.token.id>>
             \/ x.header = "extra" /\ RateLimitKey(x) = <<"tok", "extra", x.token.id>>
                /\ Caller(x) = <<"text", x.token.id>>
             \/ RateLimitKey(x) = <<"ip", x.from>> /\ Caller(x) = <<"address", x.from>>
  BY <1>2 DEF RateLimitKey, Caller
<1>3. RateLimitKey(r) = RateLimitKey(q) <=> Caller(r) = Caller(q)
  BY <1>1, <1>2
<1> QED BY <1>3 DEF CounterKey, PayerOf

\* The sets of hits are finite.
LEMMA HitsAreFinite ==
  ASSUME NEW h \in Seq(Hits), NEW who
  PROVE  /\ IsFiniteSet(HitsOf(h, who))
         /\ \A from : IsFiniteSet(Since(h, who, from))
         /\ \A from, to : IsFiniteSet(Within(h, who, from, to))
<1>1. DOMAIN h = 1..Len(h) /\ Len(h) \in Nat
  BY LenProperties
<1>2. IsFiniteSet(DOMAIN h)
  BY <1>1, FS_Interval
<1>3. IsFiniteSet(HitsOf(h, who))
  BY <1>2, FS_Subset DEF HitsOf
<1> QED BY <1>3, FS_Subset DEF Since, Within

\* Every hit has its instant.
LEMMA HitTimes ==
  ASSUME NEW h \in Seq(Hits), NEW who
  PROVE  \A n \in HitsOf(h, who) : h[n].at \in Int
<1>1. DOMAIN h = 1..Len(h) /\ \A n \in DOMAIN h : h[n] \in Hits
  BY LenProperties, ElementOfSeq
<1> QED BY <1>1 DEF HitsOf, Hits

\* Fewer hits in a smaller set.
LEMMA FewerHits ==
  ASSUME NEW S, IsFiniteSet(S), NEW T, T \subseteq S
  PROVE  Cardinality(T) \in Nat /\ Cardinality(S) \in Nat /\ Cardinality(T) <= Cardinality(S)
BY FS_Subset, FS_CardinalityType

\* The history with one more hit.
Counted(h, hit) == Append(h, hit)
NewHit(h) == Len(h) + 1

\* One more hit joins the sets that it belongs to.
LEMMA HitsGrow ==
  ASSUME NEW h \in Seq(Hits), NEW hit \in Hits, NEW who
  PROVE  /\ Counted(h, hit) \in Seq(Hits) /\ Counted(h, hit)[NewHit(h)] = hit
         /\ NewHit(h) \notin DOMAIN h /\ NewHit(h) \notin HitsOf(h, who)
         /\ \A n \in HitsOf(h, who) : Counted(h, hit)[n] = h[n] /\ h[n].at \in Int
         /\ Payer(hit) = who => HitsOf(Counted(h, hit), who) = HitsOf(h, who) \cup {NewHit(h)}
         /\ Payer(hit) # who => HitsOf(Counted(h, hit), who) = HitsOf(h, who)
<1>a. PICK h2 : h2 = Counted(h, hit)
  OBVIOUS
<1>b. PICK new : new = NewHit(h)
  OBVIOUS
<1>1. /\ DOMAIN h = 1..Len(h) /\ Len(h) \in Nat /\ new \notin DOMAIN h
      /\ \A n \in DOMAIN h : h[n] \in Hits
  BY <1>b, LenProperties, ElementOfSeq DEF NewHit
<1>2. /\ h2 \in Seq(Hits) /\ Len(h2) = Len(h) + 1 /\ h2[new] = hit
      /\ \A n \in 1..Len(h) : h2[n] = h[n]
  BY <1>a, <1>b, AppendProperties DEF Counted, NewHit
<1>3. DOMAIN h2 = DOMAIN h \cup {new}
  <2>1. DOMAIN h2 = 1..Len(h2)
    BY <1>2, LenProperties
  <2> QED BY <1>b, <1>1, <1>2, <2>1 DEF NewHit
<1>4. \A n \in HitsOf(h, who) : n \in DOMAIN h /\ h2[n] = h[n] /\ h[n].at \in Int
  BY <1>1, <1>2 DEF HitsOf, Hits
<1>5. /\ Payer(hit) = who => HitsOf(h2, who) = HitsOf(h, who) \cup {new}
      /\ Payer(hit) # who => HitsOf(h2, who) = HitsOf(h, who)
  BY <1>1, <1>2, <1>3 DEF HitsOf
<1> QED BY <1>a, <1>b, <1>1, <1>2, <1>4, <1>5

LEMMA SinceGrows ==
  ASSUME NEW h \in Seq(Hits), NEW hit \in Hits, NEW who, NEW from \in Int
  PROVE  /\ Payer(hit) = who /\ hit.at >= from =>
               Since(Counted(h, hit), who, from) = Since(h, who, from) \cup {NewHit(h)}
         /\ Payer(hit) # who \/ ~(hit.at >= from) =>
               Since(Counted(h, hit), who, from) = Since(h, who, from)
<1> DEFINE h2 == Counted(h, hit)
           new == NewHit(h)
<1>1. /\ h2[new] = hit /\ new \notin HitsOf(h, who)
      /\ \A n \in HitsOf(h, who) : h2[n] = h[n]
      /\ Payer(hit) = who => HitsOf(h2, who) = HitsOf(h, who) \cup {new}
      /\ Payer(hit) # who => HitsOf(h2, who) = HitsOf(h, who)
  BY HitsGrow
<1> HIDE DEF h2, new
<1>2. /\ Payer(hit) = who /\ hit.at >= from => Since(h2, who, from) = Since(h, who, from) \cup {new}
      /\ Payer(hit) # who \/ ~(hit.at >= from) => Since(h2, who, from) = Since(h, who, from)
  BY <1>1 DEF Since
<1> QED BY <1>2 DEF h2, new

LEMMA WithinGrows ==
  ASSUME NEW h \in Seq(Hits), NEW hit \in Hits, NEW who, NEW from \in Int, NEW to \in Int
  PROVE  /\ Payer(hit) = who /\ hit.admitted /\ hit.at >= from /\ hit.at < to =>
               Within(Counted(h, hit), who, from, to) = Within(h, who, from, to) \cup {NewHit(h)}
         /\ Payer(hit) # who \/ ~hit.admitted \/ ~(hit.at >= from) \/ ~(hit.at < to) =>
               Within(Counted(h, hit), who, from, to) = Within(h, who, from, to)
<1> DEFINE h2 == Counted(h, hit)
           new == NewHit(h)
<1>1. /\ h2[new] = hit /\ new \notin HitsOf(h, who)
      /\ \A n \in HitsOf(h, who) : h2[n] = h[n]
      /\ Payer(hit) = who => HitsOf(h2, who) = HitsOf(h, who) \cup {new}
      /\ Payer(hit) # who => HitsOf(h2, who) = HitsOf(h, who)
  BY HitsGrow
<1> HIDE DEF h2, new
<1>2. /\ Payer(hit) = who /\ hit.admitted /\ hit.at >= from /\ hit.at < to =>
            Within(h2, who, from, to) = Within(h, who, from, to) \cup {new}
      /\ Payer(hit) # who \/ ~hit.admitted \/ ~(hit.at >= from) \/ ~(hit.at < to) =>
            Within(h2, who, from, to) = Within(h, who, from, to)
  BY <1>1 DEF Within
<1> QED BY <1>2 DEF h2, new

\* Nobody else pays for a hit.
LEMMA OthersDoNotPay ==
  ASSUME NEW h \in Seq(Hits), NEW hit \in Hits, NEW who, Payer(hit) # who
  PROVE  /\ HitsOf(Counted(h, hit), who) = HitsOf(h, who)
         /\ \A c \in Counters : \A limit :
               Tells(c, h, who, limit) => Tells(c, Counted(h, hit), who, limit)
<1> DEFINE h2 == Counted(h, hit)
<1>2. HitsOf(h2, who) = HitsOf(h, who) /\ \A n \in HitsOf(h, who) : h2[n] = h[n]
  BY HitsGrow
<1>3. \A from \in Int : Since(h2, who, from) = Since(h, who, from)
  BY SinceGrows
<1>4. \A from, to \in Int : Within(h2, who, from, to) = Within(h, who, from, to)
  BY WithinGrows
<1> HIDE DEF h2
<1>5. ASSUME NEW c \in Counters, NEW limit, Tells(c, h, who, limit)
      PROVE  Tells(c, h2, who, limit)
  <2>1. PICK begins \in Int : begins = c.ends - LimitWindow
    BY PathAssumption DEF Counters
  <2>2. PICK before \in Int : before = begins - LimitWindow + 1
    BY PathAssumption
  <2>3. c.ends \in Int
    BY DEF Counters
  <2>4. Since(h2, who, begins) = Since(h, who, begins)
    BY <1>3
  <2>5. /\ Within(h2, who, begins, c.ends) = Within(h, who, begins, c.ends)
        /\ Within(h2, who, before, begins) = Within(h, who, before, begins)
    BY <1>4, <2>3
  <2> QED BY <1>2, <1>5, <2>1, <2>2, <2>4, <2>5 DEF Tells
<1> QED BY <1>2, <1>5 DEF h2

\* A hit in a window that is under way.
LEMMA WindowGoesOn ==
  ASSUME NEW h \in Seq(Hits), NEW hit \in Hits, NEW who, Payer(hit) = who, NEW limit \in Nat,
         NEW c \in Counters, NEW d \in Counters, d.ends = c.ends, Tells(c, h, who, limit),
         hit.at < c.ends, c.ends - LimitWindow <= hit.at,
         c.count <= d.count, d.count <= c.count + 1,
         hit.admitted => c.count < limit /\ d.count = c.count + 1
  PROVE  Tells(d, Counted(h, hit), who, limit)
<1>1. PICK ends \in Int : ends = c.ends
  BY DEF Counters
<1>2. PICK begins \in Int : begins = ends - LimitWindow
  BY PathAssumption
<1>3. PICK before \in Int : before = begins - LimitWindow + 1
  BY PathAssumption
<1>a. PICK h2 : h2 = Counted(h, hit)
  OBVIOUS
<1>4. PICK new : new = NewHit(h)
  OBVIOUS
<1>5. PICK S : S = Since(h, who, begins)
  OBVIOUS
<1>6. PICK W : W = Within(h, who, begins, ends)
  OBVIOUS
<1>7. /\ hit.at \in Int /\ hit.admitted \in BOOLEAN /\ c.count \in Nat /\ d.count \in Nat
      /\ begins <= hit.at /\ hit.at < ends /\ d.ends = ends
  BY <1>1, <1>2 DEF Hits, Counters
<1>8. /\ \A n \in HitsOf(h, who) : h[n].at < ends
      /\ c.count <= Cardinality(S) /\ Cardinality(W) <= c.count /\ Cardinality(W) <= limit
      /\ \E n \in HitsOf(h, who) : h[n].at = begins /\ h[n].admitted
      /\ Cardinality(Within(h, who, before, begins)) < limit
  BY <1>1, <1>2, <1>3, <1>5, <1>6 DEF Tells
<1>9. /\ new \notin HitsOf(h, who) /\ h2[new] = hit
      /\ \A n \in HitsOf(h, who) : h2[n] = h[n]
      /\ HitsOf(h2, who) = HitsOf(h, who) \cup {new}
  <2>1. /\ NewHit(h) \notin HitsOf(h, who) /\ Counted(h, hit)[NewHit(h)] = hit
        /\ \A n \in HitsOf(h, who) : Counted(h, hit)[n] = h[n]
        /\ HitsOf(Counted(h, hit), who) = HitsOf(h, who) \cup {NewHit(h)}
    BY HitsGrow
  <2> QED BY <1>a, <1>4, <2>1
<1>10. Since(h2, who, begins) = S \cup {new}
  BY <1>a, <1>4, <1>5, <1>7, SinceGrows
<1>11. Within(h2, who, begins, ends) = IF hit.admitted THEN W \cup {new} ELSE W
  BY <1>a, <1>4, <1>6, <1>7, WithinGrows
<1>12. Within(h2, who, before, begins) = Within(h, who, before, begins)
  BY <1>a, <1>4, <1>7, WithinGrows
<1>13. new \notin S /\ new \notin W
  BY <1>5, <1>6, <1>9 DEF Since, Within
<1>14. IsFiniteSet(S) /\ IsFiniteSet(W)
  BY <1>5, <1>6, HitsAreFinite
<1>15. Cardinality(S \cup {new}) = Cardinality(S) + 1 /\ Cardinality(S) \in Nat
  BY <1>13, <1>14, FS_AddElement, FS_CardinalityType
<1>16. Cardinality(W \cup {new}) = Cardinality(W) + 1 /\ Cardinality(W) \in Nat
  BY <1>13, <1>14, FS_AddElement, FS_CardinalityType
<1>17. \A n \in HitsOf(h2, who) : h2[n].at < ends
  BY <1>7, <1>8, <1>9
<1>18. d.count <= Cardinality(Since(h2, who, begins))
  BY <1>7, <1>8, <1>10, <1>15
<1>19. PICK W2 : W2 = Within(h2, who, begins, ends)
  BY PathAssumption
<1>20. Cardinality(W2) <= d.count /\ Cardinality(W2) <= limit
  <2>1. CASE hit.admitted
    <3>1. W2 = W \cup {new}
      BY <1>11, <1>19, <2>1
    <3> QED BY <1>7, <1>8, <1>16, <2>1, <3>1
  <2>2. CASE ~hit.admitted
    <3>1. W2 = W
      BY <1>11, <1>19, <2>2
    <3> QED BY <1>7, <1>8, <1>16, <3>1
  <2> QED BY <2>1, <2>2
<1>21. \E n \in HitsOf(h2, who) : h2[n].at = begins /\ h2[n].admitted
  BY <1>8, <1>9
<1>22. Cardinality(Within(h2, who, before, begins)) < limit
  BY <1>8, <1>12
<1> QED
  BY <1>a, <1>2, <1>3, <1>7, <1>17, <1>18, <1>19, <1>20, <1>21, <1>22 DEF Tells

\* A hit that begins a window, because there was none or it had ended.
LEMMA WindowBegins ==
  ASSUME NEW h \in Seq(Hits), NEW hit \in Hits, NEW who, Payer(hit) = who,
         NEW limit \in Nat \ {0},
         \/ HitsOf(h, who) = {}
         \/ \E c \in Counters : c.ends <= hit.at /\ Tells(c, h, who, limit),
         NEW d \in Counters, d.count = 1, d.ends = hit.at + LimitWindow, hit.admitted
  PROVE  Tells(d, Counted(h, hit), who, limit)
<1>a. PICK h2 : h2 = Counted(h, hit)
  OBVIOUS
<1>1. PICK begins \in Int : begins = hit.at
  BY DEF Hits
<1>2. PICK ends \in Int : ends = begins + LimitWindow
  BY PathAssumption
<1>3. PICK before \in Int : before = begins - LimitWindow + 1
  BY PathAssumption
<1>4. PICK new : new = NewHit(h)
  OBVIOUS
<1>5. PICK E : E = Within(h, who, before, begins)
  OBVIOUS
<1>6. /\ begins < ends /\ d.ends = ends /\ begins = ends - LimitWindow
      /\ ends \in Int /\ hit.at >= begins /\ hit.at < ends /\ ~(hit.at < begins)
  BY <1>1, <1>2, PathAssumption
<1>7. /\ h2[new] = hit
      /\ \A n \in HitsOf(h, who) : h2[n] = h[n] /\ h[n].at \in Int
      /\ HitsOf(h2, who) = HitsOf(h, who) \cup {new}
  <2>1. /\ Counted(h, hit)[NewHit(h)] = hit
        /\ \A n \in HitsOf(h, who) : Counted(h, hit)[n] = h[n] /\ h[n].at \in Int
        /\ HitsOf(Counted(h, hit), who) = HitsOf(h, who) \cup {NewHit(h)}
    BY HitsGrow
  <2> QED BY <1>a, <1>4, <2>1
<1>8. Since(h2, who, begins) = Since(h, who, begins) \cup {new}
  BY <1>a, <1>4, <1>6, SinceGrows
<1>9. Within(h2, who, begins, ends) = Within(h, who, begins, ends) \cup {new}
  BY <1>a, <1>4, <1>6, WithinGrows
<1>10. Within(h2, who, before, begins) = E
  BY <1>a, <1>4, <1>5, <1>6, WithinGrows
\* The hits of before are over, and the first of them is out of reach.
<1>11. (\A n \in HitsOf(h, who) : h[n].at < begins) /\ Cardinality(E) < limit
  <2>1. CASE HitsOf(h, who) = {}
    <3>1. E = {}
      BY <1>5, <2>1 DEF Within
    <3>2. Cardinality(E) = 0
      BY <3>1, FS_EmptySet
    <3> QED BY <2>1, <3>2
  <2>2. ASSUME NEW c \in Counters, c.ends <= hit.at, Tells(c, h, who, limit)
        PROVE  (\A n \in HitsOf(h, who) : h[n].at < begins) /\ Cardinality(E) < limit
    <3>1. PICK over \in Int : over = c.ends
      BY DEF Counters
    <3>2. PICK start \in Int : start = over - LimitWindow
      BY PathAssumption
    <3>3. PICK Old : Old = Within(h, who, start, over)
      OBVIOUS
    <3>4. /\ \A n \in HitsOf(h, who) : h[n].at < over
          /\ Cardinality(Old) <= limit
          /\ over <= begins
      BY <1>1, <2>2, <3>1, <3>2, <3>3 DEF Tells
    <3>5. PICK first \in HitsOf(h, who) : h[first].at = start /\ h[first].admitted
      BY <2>2, <3>1, <3>2 DEF Tells
    <3>6. first \in Old
      BY <3>1, <3>2, <3>3, <3>4, <3>5 DEF Within
    <3>7. before > start
      BY <1>3, <3>2, <3>4, PathAssumption
    <3>8. E \subseteq Old \ {first}
      BY <1>5, <1>7, <3>3, <3>4, <3>5, <3>7 DEF Within
    <3>9. IsFiniteSet(Old)
      BY <3>3, HitsAreFinite
    <3>10. Cardinality(Old \ {first}) = Cardinality(Old) - 1 /\ IsFiniteSet(Old \ {first})
      BY <3>6, <3>9, FS_RemoveElement
    <3>11. Cardinality(E) <= Cardinality(Old) - 1 /\ Cardinality(E) \in Nat
      BY <3>8, <3>10, FewerHits
    <3>12. Cardinality(Old) \in Nat
      BY <3>9, FS_CardinalityType
    <3>13. Cardinality(E) < limit
      BY <3>4, <3>11, <3>12
    <3>14. \A n \in HitsOf(h, who) : h[n].at < begins
      BY <1>7, <3>4
    <3> QED BY <3>13, <3>14
  <2> QED BY <2>1, <2>2
<1>12. Since(h2, who, begins) = {new} /\ Within(h2, who, begins, ends) = {new}
  <2>1. Since(h, who, begins) = {} /\ Within(h, who, begins, ends) = {}
    BY <1>7, <1>11 DEF Since, Within
  <2> QED BY <1>8, <1>9, <2>1
<1>13. Cardinality({new}) = 1
  BY FS_Singleton
<1>14. /\ d.count <= Cardinality(Since(h2, who, begins))
       /\ Cardinality(Within(h2, who, begins, ends)) <= d.count
       /\ Cardinality(Within(h2, who, begins, ends)) <= limit
  BY <1>12, <1>13
<1>15. \A n \in HitsOf(h2, who) : h2[n].at < ends
  BY <1>6, <1>7, <1>11
<1>16. \E n \in HitsOf(h2, who) : h2[n].at = begins /\ h2[n].admitted
  BY <1>1, <1>7
<1> QED BY <1>a, <1>3, <1>6, <1>10, <1>11, <1>14, <1>15, <1>16 DEF Tells

\* A limit that is set lets something through.
LEMMA LimitsAreSet ==
  ASSUME NEW view
  PROVE  LimitOf(view) \in Nat \ {0}
BY PathAssumption DEF LimitOf

\* The windows stay as they are while no request is counted.
LEMMA NothingCounted ==
  ASSUME LimiterInv, now \in Int, now' \in Int, now' >= now, UNCHANGED <<config, counters, hits>>
  PROVE  LimiterInv'
<1>1. LimiterTypes'
  <2>1. ASSUME NEW key \in DOMAIN counters
        PROVE  counters[key] \in Counters /\ counters[key].ends <= now' + LimitWindow
    <3>1. counters[key] \in Counters /\ counters[key].ends <= now + LimitWindow
      BY DEF LimiterInv, LimiterTypes
    <3>2. counters[key].ends \in Int
      BY <3>1 DEF Counters
    <3> QED BY <3>1, <3>2, PathAssumption
  <2> QED BY <2>1 DEF LimiterInv, LimiterTypes
<1>2. ASSUME NEW t \in Threads, NEW r \in Requests[config.limiting]
      PROVE  CounterKey(t, r)' = CounterKey(t, r)
  BY DEF CounterKey, RateLimitKey
<1> QED BY <1>1, <1>2 DEF LimiterInv

\* The step that counts a request: it is charged to its caller alone.
LEMMA HitCounted ==
  ASSUME Types, LimiterInv, NEW t \in Threads, Screen(t)
  PROVE  LimiterInv'
<1> DEFINE r == call[t].request
           key == CounterKey(t, r)
           c == Counter(key)
           limit == LimitOf(r.view)
           hit == [store |-> StoreOf[t], view |-> r.view, by |-> Caller(r),
                   at |-> now, admitted |-> ~OverLimit(t, r)]
           d == [c EXCEPT !.count = IF @ > limit THEN @ ELSE @ + 1]
           mine == PayerOf(t, r)
<1>1. /\ call[t].pc = "arrived" /\ config' = config /\ now' = now /\ CountHit(t, r)
  BY DEF Screen, Ask, svcVars, idpVars
<1>2. config.limiting \in BOOLEAN /\ r \in Requests[config.limiting] /\ now \in Int
  BY <1>1 DEF Types, Calls, Idle
<1>3. CASE ~(config.limiting /\ Routed(r.view))
  <2>1. UNCHANGED <<counters, hits>>
    BY <1>1, <1>3 DEF CountHit
  <2> QED BY <1>1, <1>2, <2>1, NothingCounted
<1>4. CASE config.limiting /\ Routed(r.view)
  <2>1. /\ counters' = [k \in DOMAIN counters \cup {key} |-> IF k # key THEN counters[k] ELSE d]
        /\ hits' = Counted(hits, hit)
    BY <1>1, <1>4 DEF CountHit, Counted
  <2>2. /\ hits \in Seq(Hits)
        /\ \A k \in DOMAIN counters : counters[k] \in Counters /\ counters[k].ends <= now + LimitWindow
    BY DEF LimiterInv, LimiterTypes
  <2>3. /\ LimitWindow \in Nat \ {0} /\ limit \in Nat \ {0} /\ r.view \in Views
        /\ StoreOf[t] \in Stores
    BY <1>2, LimitsAreSet, PathAssumption DEF Stores
  <2>4. \/ key \in DOMAIN counters /\ counters[key].ends > now /\ c = counters[key]
        \/ /\ ~(key \in DOMAIN counters /\ counters[key].ends > now)
           /\ c = [count |-> 0, ends |-> now + LimitWindow]
    BY DEF Counter
  <2>5. c \in Counters /\ c.ends <= now + LimitWindow /\ c.ends > now
    BY <1>2, <2>2, <2>3, <2>4 DEF Counters
  <2>6. /\ d \in Counters /\ d.ends = c.ends /\ c.count <= d.count /\ d.count <= c.count + 1
        /\ c.count <= limit => d.count = c.count + 1
    BY <2>3, <2>5 DEF Counters
  <2>7. hit \in Hits /\ Payer(hit) = mine /\ hit.at = now /\ (hit.admitted <=> c.count < limit)
    <3>1. Caller(r) \in {Caller(q) : q \in UNION {Requests[b] : b \in BOOLEAN}}
      BY <1>2
    <3>2. OverLimit(t, r) <=> c.count >= limit
      BY <1>4 DEF OverLimit
    <3>3. c.count \in Nat
      BY <2>5 DEF Counters
    <3>4. (~OverLimit(t, r)) \in BOOLEAN
      BY DEF OverLimit
    <3>5. hit \in Hits
      BY <1>2, <2>3, <3>1, <3>4 DEF Hits
    <3>6. Payer(hit) = mine
      BY DEF Payer, PayerOf
    <3>7. hit.at = now /\ (hit.admitted <=> ~OverLimit(t, r))
      OBVIOUS
    <3>8. hit.admitted <=> c.count < limit
      <4> HIDE DEF hit, c, limit
      <4> QED BY <2>3, <3>2, <3>3, <3>7 DEF c, limit
    <3> QED BY <3>5, <3>6, <3>7, <3>8
  <2> HIDE DEF c, d, hit, limit, mine, key
  <2>8. Counted(hits, hit) \in Seq(Hits)
    BY <2>2, <2>7, HitsGrow
  <2>9. LimiterTypes'
    BY <1>1, <2>1, <2>2, <2>5, <2>6, <2>8 DEF LimiterTypes
  <2>10. Tells(d, Counted(hits, hit), mine, limit)
    <3>1. CASE key \in DOMAIN counters /\ counters[key].ends > now
      <4>1. c = counters[key] /\ Tells(c, hits, mine, limit)
        BY <1>2, <2>4, <3>1 DEF LimiterInv, key, mine, limit
      <4>2. c.ends - LimitWindow <= now /\ now < c.ends
        BY <1>2, <2>3, <2>5 DEF Counters
      <4>3. hit.admitted => c.count < limit /\ d.count = c.count + 1
        BY <2>3, <2>5, <2>6, <2>7 DEF Counters
      <4> QED BY <2>2, <2>3, <2>5, <2>6, <2>7, <4>1, <4>2, <4>3, WindowGoesOn
    <3>2. CASE ~(key \in DOMAIN counters /\ counters[key].ends > now)
      <4>1. c.count = 0 /\ c.ends = now + LimitWindow
        BY <2>4, <3>2
      <4>2. d.count = 1 /\ d.ends = hit.at + LimitWindow /\ hit.admitted
        BY <2>3, <2>6, <2>7, <4>1
      <4>3. \/ HitsOf(hits, mine) = {}
            \/ \E old \in Counters : old.ends <= hit.at /\ Tells(old, hits, mine, limit)
        <5>1. CASE key \in DOMAIN counters
          <6>1. counters[key] \in Counters /\ counters[key].ends <= hit.at
            BY <1>2, <2>2, <2>7, <3>2, <5>1 DEF Counters
          <6>2. Tells(counters[key], hits, mine, limit)
            BY <1>2, <5>1 DEF LimiterInv, key, mine, limit
          <6> QED BY <6>1, <6>2
        <5>2. CASE key \notin DOMAIN counters
          BY <1>2, <5>2 DEF LimiterInv, key, mine
        <5> QED BY <5>1, <5>2
      <4> QED BY <2>2, <2>3, <2>6, <2>7, <4>2, <4>3, WindowBegins
    <3> QED BY <3>1, <3>2
  <2>11. ASSUME NEW u \in Threads, NEW q \in Requests[config.limiting]
         PROVE  IF CounterKey(u, q) \in DOMAIN counters'
                  THEN Tells(counters'[CounterKey(u, q)], hits', PayerOf(u, q), LimitOf(q.view))
                  ELSE HitsOf(hits', PayerOf(u, q)) = {}
    <3>1. CounterKey(u, q) = key <=> PayerOf(u, q) = mine
      BY <1>2, KeysArePayers DEF key, mine
    <3>2. CASE CounterKey(u, q) = key
      <4>1. q.view = r.view
        BY <3>2 DEF CounterKey, key
      <4>2. LimitOf(q.view) = limit /\ PayerOf(u, q) = mine
        BY <3>1, <3>2, <4>1 DEF limit
      <4>3. key \in DOMAIN counters' /\ counters'[key] = d
        BY <2>1
      <4> QED BY <2>1, <2>10, <3>2, <4>2, <4>3
    <3>3. CASE CounterKey(u, q) # key
      <4>1. Payer(hit) # PayerOf(u, q)
        BY <2>7, <3>1, <3>3
      <4>2. /\ CounterKey(u, q) \in DOMAIN counters' <=> CounterKey(u, q) \in DOMAIN counters
            /\ CounterKey(u, q) \in DOMAIN counters =>
                  counters'[CounterKey(u, q)] = counters[CounterKey(u, q)]
        BY <2>1, <3>3
      <4>3. /\ HitsOf(hits', PayerOf(u, q)) = HitsOf(hits, PayerOf(u, q))
            /\ \A k \in Counters : \A l : Tells(k, hits, PayerOf(u, q), l) =>
                                             Tells(k, hits', PayerOf(u, q), l)
        BY <2>1, <2>2, <2>7, <4>1, OthersDoNotPay
      <4> QED BY <2>2, <4>2, <4>3 DEF LimiterInv
    <3> QED BY <3>2, <3>3
  <2>12. ASSUME NEW u \in Threads, NEW q \in Requests[config.limiting]
         PROVE  CounterKey(u, q)' = CounterKey(u, q)
    BY DEF CounterKey, RateLimitKey
  <2> QED BY <1>1, <2>9, <2>11, <2>12 DEF LimiterInv
<1> QED BY <1>3, <1>4

\* Only Screen counts requests.
LEMMA LimiterKept == IndInv /\ LimiterInv /\ [Next]_vars => LimiterInv'
<1> SUFFICES ASSUME IndInv, LimiterInv, [Next]_vars PROVE LimiterInv'
  OBVIOUS
<1>1. Types /\ now \in Int
  BY DEF IndInv, Types
<1>2. CASE \E t \in Threads : Screen(t)
  BY <1>1, <1>2, HitCounted
<1>3. CASE Environment
  <2>1. now' \in Int /\ now' >= now
    BY <1>1, <1>3 DEF Environment, Tick, Rotate
  <2>2. UNCHANGED <<config, counters, hits>>
    BY <1>3 DEF Environment
  <2> QED BY <1>1, <2>1, <2>2, NothingCounted
<1>4. CASE UNCHANGED vars \/ \E t \in Threads : Arrive(t) \/ Service(t) \/ Verify(t) \/ View(t)
  <2>1. now' = now /\ UNCHANGED <<config, counters, hits>>
    BY <1>4 DEF vars, svcVars, idpVars, Arrive, Service, AnswerKey, AnswerUnknown, AnswerFailure,
                Verify, View
  <2> QED BY <1>1, <2>1, NothingCounted
<1> QED BY <1>2, <1>3, <1>4 DEF Next

LEMMA LimiterBegins == Init => LimiterInv
<1> SUFFICES ASSUME Init PROVE LimiterInv
  OBVIOUS
<1>1. hits = <<>> /\ counters = <<>>
  BY DEF Init
<1>2. DOMAIN hits = {} /\ DOMAIN counters = {} /\ hits \in Seq(Hits)
  BY <1>1, EmptySeq
<1> QED BY <1>2 DEF LimiterInv, LimiterTypes, HitsOf

\* What a step that counts a request must not do.
Charged ==
    LET hit == Last(hits')
        own == {n \in DOMAIN hits : /\ hits[n].store = hit.store
                                    /\ hits[n].view = hit.view /\ hits[n].by = hit.by
                                    /\ hits[n].at > hit.at - LimitWindow}
        limit == LimitOf(hit.view)
    IN IF hit.admitted THEN Cardinality({n \in own : hits[n].admitted}) < 2 * limit - 1
                       ELSE Cardinality(own) >= limit

\* Of the hits of the last window's length, a counter that is still running has
\* counted no more than there are, and lets fewer than twice the limit be let through.
LEMMA RunningWindow ==
  ASSUME NEW h \in Seq(Hits), NEW who, NEW limit \in Nat \ {0}, NEW c \in Counters,
         Tells(c, h, who, limit), NEW at \in Int, c.ends > at, c.ends <= at + LimitWindow,
         NEW own, own = Since(h, who, at - LimitWindow + 1)
  PROVE  /\ Cardinality(own) >= c.count
         /\ c.count < limit => Cardinality({n \in own : h[n].admitted}) < 2 * limit - 1
<1>1. PICK ends \in Int : ends = c.ends
  BY DEF Counters
<1>2. PICK begins \in Int : begins = ends - LimitWindow
  BY PathAssumption
<1>3. PICK before \in Int : before = begins - LimitWindow + 1
  BY PathAssumption
<1>4. PICK from \in Int : from = at - LimitWindow + 1
  BY PathAssumption
<1>5. before <= from /\ from <= begins
  <2>1. LimitWindow \in Int
    BY PathAssumption
  <2>2. ends > at /\ ends <= at + LimitWindow
    BY <1>1
  <2> QED BY <1>2, <1>3, <1>4, <2>1, <2>2
<1>6. \A n \in HitsOf(h, who) : h[n].at \in Int
  BY HitTimes
<1>7. PICK W, E : W = Within(h, who, begins, ends) /\ E = Within(h, who, before, begins)
  OBVIOUS
<1>8. PICK S : S = Since(h, who, begins)
  OBVIOUS
<1>9. /\ \A n \in HitsOf(h, who) : h[n].at < ends
      /\ c.count <= Cardinality(S) /\ Cardinality(W) <= c.count /\ Cardinality(E) < limit
  BY <1>1, <1>2, <1>3, <1>7, <1>8 DEF Tells
<1>10. IsFiniteSet(W) /\ IsFiniteSet(E) /\ IsFiniteSet(own)
  BY <1>7, HitsAreFinite
<1>11. own = Since(h, who, from) /\ c.count \in Nat
  BY <1>4 DEF Counters
<1>12. S \subseteq own
  BY <1>5, <1>6, <1>8, <1>11 DEF Since
<1>13. Cardinality(S) \in Nat /\ Cardinality(own) \in Nat /\ Cardinality(S) <= Cardinality(own)
  BY <1>10, <1>12, FewerHits
<1>14. {n \in own : h[n].admitted} \subseteq E \cup W
  BY <1>5, <1>6, <1>7, <1>9, <1>11 DEF Since, Within
<1>15. /\ IsFiniteSet(E \cup W) /\ Cardinality(E) \in Nat /\ Cardinality(W) \in Nat
       /\ Cardinality(E \cup W) <= Cardinality(E) + Cardinality(W)
  <2>1. IsFiniteSet(E \cap W)
    BY <1>10, FS_Intersection
  <2>2. /\ IsFiniteSet(E \cup W)
        /\ Cardinality(E \cup W) = Cardinality(E) + Cardinality(W) - Cardinality(E \cap W)
    BY <1>10, FS_Union
  <2>3. Cardinality(E) \in Nat /\ Cardinality(W) \in Nat /\ Cardinality(E \cap W) \in Nat
    BY <1>10, <2>1, FS_CardinalityType
  <2> QED BY <2>2, <2>3
<1>16. PICK A : A = {n \in own : h[n].admitted}
  OBVIOUS
<1>17. /\ Cardinality(A) \in Nat /\ Cardinality(E \cup W) \in Nat
       /\ Cardinality(A) <= Cardinality(E \cup W)
  BY <1>14, <1>15, <1>16, FewerHits
<1>18. Cardinality(own) >= c.count
  BY <1>9, <1>11, <1>13
<1>19. c.count < limit => Cardinality(A) < 2 * limit - 1
  BY <1>9, <1>11, <1>15, <1>17
<1> QED BY <1>16, <1>18, <1>19

\* With no counter, or one that has run out, fewer than the limit were let through.
LEMMA NoRunningWindow ==
  ASSUME NEW h \in Seq(Hits), NEW who, NEW limit \in Nat \ {0}, NEW at \in Int,
         \/ HitsOf(h, who) = {}
         \/ \E c \in Counters : c.ends <= at /\ Tells(c, h, who, limit),
         NEW own, own = Since(h, who, at - LimitWindow + 1)
  PROVE  Cardinality({n \in own : h[n].admitted}) < limit
<1>1. PICK from \in Int : from = at - LimitWindow + 1
  BY PathAssumption
<1>2. PICK A : A = {n \in own : h[n].admitted}
  OBVIOUS
<1>3. CASE HitsOf(h, who) = {}
  <2>1. A = {}
    BY <1>2, <1>3 DEF Since
  <2>2. Cardinality(A) = 0
    BY <2>1, FS_EmptySet
  <2> QED BY <1>2, <2>2
<1>4. ASSUME NEW c \in Counters, c.ends <= at, Tells(c, h, who, limit)
      PROVE  Cardinality(A) < limit
  <2>1. PICK over \in Int : over = c.ends
    BY DEF Counters
  <2>2. PICK start \in Int : start = over - LimitWindow
    BY PathAssumption
  <2>3. PICK Old : Old = Within(h, who, start, over)
    OBVIOUS
  <2>4. \A n \in HitsOf(h, who) : h[n].at < over
    BY <1>4, <2>1 DEF Tells
  <2>5. Cardinality(Old) <= limit
    BY <1>4, <2>1, <2>2, <2>3 DEF Tells
  <2>6. PICK first \in HitsOf(h, who) : h[first].at = start /\ h[first].admitted
    BY <1>4, <2>1, <2>2 DEF Tells
  <2>7. start < over /\ start < from
    BY <1>1, <1>4, <2>1, <2>2, PathAssumption
  <2>8. first \in Old
    BY <2>3, <2>6, <2>7 DEF Within
  <2>9. \A n \in HitsOf(h, who) : h[n].at \in Int
    BY HitTimes
  <2>10. A \subseteq Old \ {first}
    BY <1>1, <1>2, <2>3, <2>4, <2>6, <2>7, <2>9 DEF Since, Within
  <2>11. IsFiniteSet(Old)
    BY <2>3, HitsAreFinite
  <2>12. Cardinality(Old \ {first}) = Cardinality(Old) - 1 /\ IsFiniteSet(Old \ {first})
    BY <2>8, <2>11, FS_RemoveElement
  <2>13. Cardinality(A) <= Cardinality(Old) - 1 /\ Cardinality(A) \in Nat
    BY <2>10, <2>12, FewerHits
  <2>14. Cardinality(Old) \in Nat
    BY <2>11, FS_CardinalityType
  <2> QED BY <2>5, <2>13, <2>14
<1> QED BY <1>2, <1>3, <1>4

LEMMA ScreenCharges ==
  ASSUME Types, LimiterInv, NEW t \in Threads, Screen(t), Len(hits') > Len(hits)
  PROVE  Charged
<1> DEFINE r == call[t].request
           key == CounterKey(t, r)
           c == Counter(key)
           limit == LimitOf(r.view)
           admitted == ~OverLimit(t, r)
           hit == [store |-> StoreOf[t], view |-> r.view, by |-> Caller(r),
                   at |-> now, admitted |-> admitted]
           mine == PayerOf(t, r)
           own == Since(hits, mine, now - LimitWindow + 1)
<1>1. /\ call[t].pc = "arrived" /\ config' = config /\ now' = now /\ CountHit(t, r)
  BY DEF Screen, Ask, svcVars, idpVars
<1>2. config.limiting \in BOOLEAN /\ r \in Requests[config.limiting] /\ now \in Int
  BY <1>1 DEF Types, Calls, Idle
<1>3. /\ hits \in Seq(Hits)
      /\ \A k \in DOMAIN counters : counters[k] \in Counters /\ counters[k].ends <= now + LimitWindow
  BY DEF LimiterInv, LimiterTypes
<1>4. config.limiting /\ hits' = Append(hits, hit)
  <2>1. Len(hits) \in Nat /\ (hits' = hits => Len(hits') = Len(hits))
    BY <1>3, LenProperties
  <2>2. hits' # hits
    BY <2>1
  <2> QED BY <1>1, <2>2 DEF CountHit
<1>5. limit \in Nat \ {0} /\ LimitWindow \in Nat \ {0}
  BY LimitsAreSet, PathAssumption
<1>6. admitted <=> ~(c.count >= limit)
  BY <1>4 DEF OverLimit
<1>7. Last(hits') = hit
  <2>1. Len(hits) \in Nat /\ Len(hits') = Len(hits) + 1 /\ hits'[Len(hits) + 1] = hit
    BY <1>3, <1>4
  <2> QED BY <2>1 DEF Last
<1>8. {n \in DOMAIN hits : /\ hits[n].store = hit.store /\ hits[n].view = hit.view
                           /\ hits[n].by = hit.by /\ hits[n].at > hit.at - LimitWindow} = own
  <2>1. \A n \in HitsOf(hits, mine) : hits[n].at \in Int
    BY <1>3, HitTimes
  <2>2. \A n \in DOMAIN hits : (/\ hits[n].store = hit.store /\ hits[n].view = hit.view
                                /\ hits[n].by = hit.by) <=> n \in HitsOf(hits, mine)
    BY DEF HitsOf, Payer, PayerOf
  <2>3. \A n \in HitsOf(hits, mine) : /\ n \in DOMAIN hits
                                      /\ hits[n].at > now - LimitWindow <=>
                                         hits[n].at >= now - LimitWindow + 1
    BY <1>2, <1>5, <2>1 DEF HitsOf
  <2>4. hit.at = now
    OBVIOUS
  <2> HIDE DEF hit, mine
  <2> QED BY <2>2, <2>3, <2>4 DEF Since
<1>9. IF admitted THEN Cardinality({n \in own : hits[n].admitted}) < 2 * limit - 1
                  ELSE Cardinality(own) >= limit
  <2> HIDE DEF admitted, c, limit, mine, own, key
  <2>1. CASE key \in DOMAIN counters /\ counters[key].ends > now
    <3>1. c = counters[key] /\ c \in Counters /\ c.ends <= now + LimitWindow
      BY <1>3, <2>1 DEF c, Counter, key
    <3>2. Tells(c, hits, mine, limit)
      BY <1>2, <2>1, <3>1 DEF LimiterInv, key, mine, limit
    <3>3. own = Since(hits, mine, now - LimitWindow + 1) /\ c.ends > now
      BY <2>1, <3>1 DEF own
    <3>4. /\ Cardinality(own) >= c.count
          /\ c.count < limit => Cardinality({n \in own : hits[n].admitted}) < 2 * limit - 1
      BY <1>2, <1>3, <1>5, <3>1, <3>2, <3>3, RunningWindow
    <3>5. c.count \in Nat
      BY <3>1 DEF Counters
    <3>6. IsFiniteSet(own)
      BY <1>3, HitsAreFinite DEF own
    <3>7. Cardinality(own) \in Nat
      BY <3>6, FS_CardinalityType
    <3> QED BY <1>5, <1>6, <3>4, <3>5, <3>7
  <2>2. CASE ~(key \in DOMAIN counters /\ counters[key].ends > now)
    <3>1. c.count = 0
      BY <2>2 DEF c, Counter, key
    <3>2. \/ HitsOf(hits, mine) = {}
          \/ \E old \in Counters : old.ends <= now /\ Tells(old, hits, mine, limit)
      <4>1. CASE key \in DOMAIN counters
        <5>1. counters[key] \in Counters /\ counters[key].ends <= now
          BY <1>2, <1>3, <2>2, <4>1 DEF Counters
        <5>2. Tells(counters[key], hits, mine, limit)
          BY <1>2, <4>1 DEF LimiterInv, key, mine, limit
        <5> QED BY <5>1, <5>2
      <4>2. CASE key \notin DOMAIN counters
        BY <1>2, <4>2 DEF LimiterInv, key, mine
      <4> QED BY <4>1, <4>2
    <3>3. PICK A : A = {n \in own : hits[n].admitted}
      OBVIOUS
    <3>4. Cardinality(A) < limit
      BY <1>2, <1>3, <1>5, <3>2, <3>3, NoRunningWindow DEF own
    <3>5. IsFiniteSet(A)
      BY <1>3, <3>3, HitsAreFinite, FS_Subset DEF own
    <3>6. Cardinality(A) \in Nat
      BY <3>5, FS_CardinalityType
    <3> QED BY <1>5, <1>6, <3>1, <3>3, <3>4, <3>6
  <2> QED BY <2>1, <2>2
<1>10. hit.view = r.view /\ hit.admitted = admitted
  OBVIOUS
<1> HIDE DEF hit, own, admitted
<1> QED BY <1>7, <1>8, <1>9, <1>10 DEF Charged

\* A request is refused only if its own caller has sent the limit within the last
\* window, and a window's length lets fewer than twice the limit through
\* (app_factory.py, rate_limit_key: "one noisy client cannot spend another's budget").
THEOREM CallersPayForThemselves == Spec => ChargedForOwnRequests
<1>1. IndInv /\ LimiterInv /\ [Next]_vars => [Len(hits') > Len(hits) => Charged]_vars
  <2> SUFFICES ASSUME IndInv, LimiterInv, [Next]_vars, Len(hits') > Len(hits) PROVE Charged
    OBVIOUS
  <2>1. hits' # hits
    <3>1. Len(hits) \in Nat
      BY LenProperties DEF LimiterInv, LimiterTypes
    <3> QED BY <3>1
  <2>2. PICK t \in Threads : Screen(t)
    BY <2>1 DEF Next, vars, Environment, Arrive, Service, Verify, View
  <2> QED BY <2>2, ScreenCharges DEF IndInv
<1>2. Spec => []LimiterInv
  BY LimiterBegins, LimiterKept, Invariance, PTL DEF Spec
<1>3. Spec => [][Len(hits') > Len(hits) => Charged]_vars
  BY <1>1, <1>2, Invariance, PTL DEF Spec
<1> QED BY <1>3, PTL DEF ChargedForOwnRequests, Charged

-----------------------------------------------------------------------------
\* A request that has arrived keeps its place among those that may be counted.
Arrived == {u \in Threads : call[u].pc = "arrived"}
Room == Len(hits) + Cardinality(Arrived) <= MaxRequests

LEMMA RoomKept == IndInv /\ LimiterInv /\ Room /\ [Next]_vars => Room'
<1> SUFFICES ASSUME IndInv, LimiterInv, Room, [Next]_vars PROVE Room'
  OBVIOUS
<1>1. /\ call \in [Threads -> Calls] /\ Types /\ hits \in Seq(Hits) /\ Len(hits) \in Nat
      /\ MaxRequests \in Nat
  BY LenProperties, PathAssumption DEF IndInv, Types, LimiterInv, LimiterTypes
<1>2. IsFiniteSet(Arrived) /\ Cardinality(Arrived) \in Nat
  BY FS_Subset, FS_CardinalityType, PathAssumption DEF Arrived
<1>3. CASE UNCHANGED vars \/ Environment \/ \E t \in Threads : Service(t)
  <2>1. call' = call /\ hits' = hits
    BY <1>3 DEF vars, Environment, Service
  <2> QED BY <2>1 DEF Room, Arrived
<1>4. ASSUME NEW t \in Threads, Arrive(t) PROVE Room'
  <2>1. PICK r \in Requests[config.limiting] :
           call' = [call EXCEPT ![t] = [pc |-> "arrived", request |-> r]]
    BY <1>4 DEF Arrive
  <2>2. t \notin Arrived /\ hits' = hits /\ Len(hits) + Cardinality(Arrived) < MaxRequests
    BY <1>4 DEF Arrive, Arrived
  <2>3. Arrived' = Arrived \cup {t}
    BY <1>1, <2>1 DEF Arrived
  <2>4. Cardinality(Arrived \cup {t}) = Cardinality(Arrived) + 1
    BY <1>2, <2>2, FS_AddElement
  <2> QED BY <1>1, <1>2, <2>2, <2>3, <2>4 DEF Room
<1>5. ASSUME NEW t \in Threads, Screen(t) PROVE Room'
  <2>1. t \in Arrived /\ config' = config
    BY <1>5 DEF Screen, Arrived
  <2>2. PICK next : call' = [call EXCEPT ![t] = next] /\ next.pc # "arrived"
    <3>1. CASE \E answer : Answer(t, answer)
      <4>1. call' = [call EXCEPT ![t] = Idle]
        BY <3>1 DEF Answer
      <4>2. Idle.pc # "arrived"
        BY DEF Idle
      <4> QED BY <4>1, <4>2
    <3>2. CASE \E pc \in {"view", "key"} : Goes(t, pc)
      <4>1. PICK pc \in {"view", "key"} : Goes(t, pc)
        BY <3>2
      <4>2. call[t].pc = "arrived" /\ call[t] \in Calls
        BY <1>1, <2>1 DEF Arrived
      <4>3. [call[t] EXCEPT !.pc = pc].pc = pc
        BY <4>2 DEF Calls, Idle
      <4> QED BY <4>1, <4>3 DEF Goes
    <3> QED BY <1>5, <3>1, <3>2 DEF Screen
  <2>3. Arrived' = Arrived \ {t}
    BY <1>1, <2>1, <2>2 DEF Arrived
  <2>4. Cardinality(Arrived \ {t}) = Cardinality(Arrived) - 1
    BY <1>2, <2>1, FS_RemoveElement
  <2>5. hits' = hits \/ \E hit : hits' = Append(hits, hit)
    BY <1>5 DEF Screen, CountHit
  <2>6. Len(hits') \in Nat /\ Len(hits') <= Len(hits) + 1
    <3>1. hits' \in Seq(Hits)
      BY <1>5, HitCounted, <1>1 DEF LimiterInv, LimiterTypes
    <3>2. ASSUME NEW hit, hits' = Append(hits, hit) PROVE Len(hits') = Len(hits) + 1
      BY <1>1, <3>2
    <3> QED BY <1>1, <2>5, <3>1, <3>2, LenProperties
  <2> QED BY <1>1, <1>2, <2>3, <2>4, <2>6 DEF Room
<1>6. ASSUME NEW t \in Threads, Verify(t) \/ View(t) PROVE Room'
  <2>1. call[t].pc # "arrived" /\ hits' = hits
    BY <1>6 DEF Verify, View
  <2>2. PICK next : call' = [call EXCEPT ![t] = next] /\ next.pc # "arrived"
    <3>1. CASE \E answer : Answer(t, answer)
      <4>1. call' = [call EXCEPT ![t] = Idle]
        BY <3>1 DEF Answer
      <4>2. Idle.pc # "arrived"
        BY DEF Idle
      <4> QED BY <4>1, <4>2
    <3>2. CASE Verify(t) /\ Goes(t, "view")
      <4>1. call[t].pc = "key" /\ call[t] \in Calls
        BY <1>1, <3>2 DEF Verify
      <4>2. [call[t] EXCEPT !.pc = "view"].pc = "view"
        BY <4>1 DEF Calls, Idle
      <4> QED BY <3>2, <4>2 DEF Goes
    <3> QED BY <1>6, <3>1, <3>2 DEF Verify, View
  <2>3. Arrived' = Arrived
    BY <1>1, <2>1, <2>2 DEF Arrived
  <2> QED BY <2>1, <2>3 DEF Room
<1> QED BY <1>3, <1>4, <1>5, <1>6 DEF Next

LEMMA RoomBegins == Init => Room
<1> SUFFICES ASSUME Init PROVE Room
  OBVIOUS
<1>1. hits = <<>> /\ Arrived = {}
  BY DEF Init, Arrived, Idle
<1>2. Len(hits) = 0 /\ Cardinality(Arrived) = 0
  BY <1>1, FS_EmptySet, EmptySeq
<1> QED BY <1>2, PathAssumption DEF Room

\* Auth0's clock stays within the bound of the model.
LEMMA ProviderKept == IdpTypeOK /\ [Next]_vars => IdpTypeOK'
<1> SUFFICES ASSUME IdpTypeOK, [Next]_vars PROVE IdpTypeOK'
  OBVIOUS
<1>1. CASE UNCHANGED idpVars
  BY <1>1 DEF idpVars, IdpTypeOK
<1>2. CASE Tick
  BY <1>2, HorizonAssumption DEF Tick, IdpTypeOK
<1>3. CASE \E k \in Kids : Rotate(k)
  BY <1>3, HorizonAssumption DEF Rotate, IdpTypeOK
<1>4. UNCHANGED idpVars \/ Tick \/ \E k \in Kids : Rotate(k)
  BY DEF Next, Environment, Arrive, Screen, Service, Verify, View, Ask, AnswerKey, AnswerUnknown,
         AnswerFailure, vars, svcVars, idpVars
<1> QED BY <1>1, <1>2, <1>3, <1>4

LEMMA ProviderBegins == Init => IdpTypeOK
BY HorizonAssumption DEF Init, SvcInit, IdpInit, IdpTypeOK, Never, JwkKinds

\* The variables keep their types, a counter's window ends within a window's length,
\* and the limiter counts no more requests than have arrived (app_factory.py).
THEOREM TypeCorrect == Spec => []TypeOK
<1>1. IndInv /\ LimiterInv /\ Room /\ IdpTypeOK => TypeOK
  <2> SUFFICES ASSUME IndInv, LimiterInv, Room, IdpTypeOK PROVE TypeOK
    OBVIOUS
  <2>1. /\ want \in [Threads -> Kids] /\ reply \in [Threads -> Replies] /\ config \in Configs
        /\ call \in [Threads -> Calls]
    BY DEF IndInv, Types
  <2>2. \A t \in Threads :
           \/ call[t] = Idle
           \/ call[t].pc \in {"arrived", "key", "view"} /\ call[t].request \in Requests[config.limiting]
    BY <2>1 DEF Calls
  <2>3. Len(hits) \in Nat /\ Cardinality(Arrived) \in Nat /\ MaxRequests \in Nat
    BY LenProperties, FS_Subset, FS_CardinalityType, PathAssumption
       DEF LimiterInv, LimiterTypes, Arrived
  <2> QED BY <2>1, <2>2, <2>3 DEF TypeOK, LimiterInv, LimiterTypes, Room
<1>2. Init => LimiterInv /\ Room /\ IdpTypeOK
  BY LimiterBegins, RoomBegins, ProviderBegins
<1>3. /\ IndInv /\ LimiterInv /\ Room /\ IdpTypeOK /\ [Next]_vars
         => LimiterInv' /\ Room' /\ IdpTypeOK'
  BY LimiterKept, RoomKept, ProviderKept
<1> QED BY <1>1, <1>2, <1>3, Invariance, PTL DEF Spec

-----------------------------------------------------------------------------
\* A request asks for a key, and waits for it, as the key service allows: what is
\* proved here of any key service holds of the one that JwksCache implements
\* (auth.py, JWKSCache.get_key).
LEMMA ScreenAsksRightly ==
  ASSUME IndInv, NEW t \in Threads, Screen(t)
  PROVE  [SvcNext]_svcVars
<1>1. CASE UNCHANGED svcVars
  BY <1>1
<1>2. CASE /\ FirstError(HeaderError(call[t].request), TokenHeaderError(call[t].request.token)) = Passed
           /\ Ask(t, call[t].request.token.kid)
  <2>1. config.limiting \in BOOLEAN /\ call[t].request \in Requests[config.limiting] /\ Validated
    BY DEF IndInv, Types, Calls, Idle, Screen
  <2>2. call[t].request.token.form \in {"jwt", "malformed", "kidNotText"}
    BY <2>1, PathAssumption
  <2>3. TokenHeaderError(call[t].request.token) = Passed
    BY <1>2 DEF FirstError
  <2>4. call[t].request.token.kid # NoKid
    BY <2>1, <2>2, <2>3, TokenHeaderChecked
  <2>5. call[t].request.token.kid \in Kids
    BY <2>1, <2>4, PathAssumption
  <2> QED BY <1>2, <2>5 DEF SvcNext
<1> QED BY <1>1, <1>2 DEF Screen, FirstError

THEOREM UsesKeyService == Spec => SvcSpec
<1>1. Init => SvcInit
  BY DEF Init
<1>2. IndInv /\ [Next]_vars => [SvcNext]_svcVars
  <2> SUFFICES ASSUME IndInv, [Next]_vars PROVE [SvcNext]_svcVars
    OBVIOUS
  <2>1. CASE \E t \in Threads : Screen(t)
    BY <2>1, ScreenAsksRightly
  <2>2. CASE Environment
    BY <2>2 DEF Environment, SvcNext
  <2>3. CASE \E t \in Threads : Service(t)
    BY <2>3 DEF Service, SvcNext
  <2>4. CASE UNCHANGED vars \/ \E t \in Threads : Arrive(t) \/ Verify(t) \/ View(t)
    <3>1. UNCHANGED svcVars
      BY <2>4 DEF vars, svcVars, Arrive, Verify, View
    <3> QED BY <3>1
  <2> QED BY <2>1, <2>2, <2>3, <2>4 DEF Next
<1> QED BY <1>1, <1>2, Invariance, PTL DEF Spec, SvcSpec
=============================================================================
