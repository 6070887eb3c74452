---------------------------- MODULE CoordsProofs ----------------------------
(***************************************************************************)
(* Proofs about Coords, for any number of callers and buildings and any    *)
(* interleaving of their checks, requests and answers.                     *)
(***************************************************************************)
EXTENDS Coords, FiniteSetTheorems, TLAPS

\* Every variable has its type; who waits for the engine named a building.
TypeOK ==
  /\ where \in [Buildings -> Points] /\ cache \in [Buildings -> Points \cup {None}]
  /\ calls \in [Callers -> Call]
  /\ asked \in [Buildings -> Nat] /\ failed \in [Buildings -> Nat]
  /\ \A c \in Callers : calls[c].stage = "asking" => calls[c].building \in Buildings

\* The cache holds nothing but the engine's points.
CacheIsTrue == \A b \in Buildings : cache[b] \in {None, where[b]}

Asking(b) == {c \in Callers : calls[c].stage = "asking" /\ calls[c].building = b}

\* Until a point is cached, the requests that have not failed are those still
\* waited for; after, at least one more than those.
Accounted(b) ==
  /\ IF cache[b] = None THEN asked[b] = failed[b] + Cardinality(Asking(b))
     ELSE asked[b] >= failed[b] + Cardinality(Asking(b)) + 1
  /\ asked[b] - failed[b] <= Cardinality(Callers)

\* The inductive invariant.
Agree ==
  \A c \in Callers :
    calls[c].stage = "answered" /\ calls[c].building # None =>
      calls[c].answer \in {where[calls[c].building], "engine error", KeyErrorAnswer(calls[c].user)}
IInv ==
  /\ TypeOK /\ CacheIsTrue /\ Agree
  /\ \A b \in Buildings : Accounted(b)

\* The askers of a building are counted by a number no larger than the callers'.
LEMMA AskingFinite ==
  ASSUME NEW b \in Buildings
  PROVE  /\ IsFiniteSet(Asking(b)) /\ IsFiniteSet(Callers)
         /\ Cardinality(Asking(b)) \in Nat /\ Cardinality(Callers) \in Nat
         /\ Cardinality(Asking(b)) <= Cardinality(Callers)
<1>1. Asking(b) \subseteq Callers
  BY DEF Asking
<1>2. QED
  BY <1>1, BoundAssumption, FS_Subset, FS_CardinalityType

\* A caller that is not asking before or after a step leaves every count alone.
LEMMA SameAsking ==
  ASSUME TypeOK, NEW c \in Callers, NEW call \in Call,
         calls' = [calls EXCEPT ![c] = call],
         calls[c].stage # "asking", call.stage # "asking",
         UNCHANGED <<cache, asked, failed>>,
         \A b \in Buildings : Accounted(b)
  PROVE  \A b \in Buildings : Accounted(b)'
<1> SUFFICES ASSUME NEW b \in Buildings PROVE Accounted(b)'
  OBVIOUS
<1>1. Asking(b)' = Asking(b)
  BY DEF Asking, TypeOK
<1>2. QED
  BY <1>1 DEF Accounted

\* What one caller is told agrees when its new call does.
LEMMA AgreeStep ==
  ASSUME TypeOK, Agree, NEW c \in Callers, NEW call \in Call, where' = where,
         calls' = [calls EXCEPT ![c] = call],
         call.stage = "answered" /\ call.building # None =>
           call.answer \in {where[call.building], "engine error", KeyErrorAnswer(call.user)}
  PROVE  Agree'
  BY DEF Agree, TypeOK, KeyErrorAnswer

LEMMA InitIInv == Init => IInv
<1> SUFFICES ASSUME Init PROVE IInv
  OBVIOUS
<1>1. TypeOK
  BY DEF Init, TypeOK, Idle, Call
<1>2. CacheIsTrue /\ Agree
  BY DEF Init, CacheIsTrue, Agree, Idle
<1>3. ASSUME NEW b \in Buildings PROVE Accounted(b)
  <2>1. Asking(b) = {}
    BY DEF Asking, Init, Idle
  <2>2. QED
    BY <2>1, FS_EmptySet, AskingFinite DEF Accounted, Init
<1>4. QED
  BY <1>1, <1>2, <1>3 DEF IInv

\* A hit, or a call that needs no building: nothing but the caller's call
\* changes, and what it is told is in the cache, or it named no building.
LEMMA AnsweredAtOnce ==
  ASSUME IInv, NEW c \in Callers, NEW user \in {"tool", "location"},
         NEW b \in Buildings \cup {None}, NEW a \in Points \cup Labels,
         b \in Buildings => a = where[b],
         Begin(c, user, b, "answered", a), UNCHANGED <<where, cache, asked, failed>>
  PROVE  IInv'
<1> DEFINE call == [user |-> user, building |-> b, stage |-> "answered", answer |-> a]
<1>1. call \in Call
  BY DEF Call
<1>2. calls' = [calls EXCEPT ![c] = call] /\ calls[c].stage # "asking"
  BY DEF Begin
<1>3. TypeOK'
  BY <1>1, <1>2 DEF TypeOK, IInv
<1>4. CacheIsTrue'
  BY DEF CacheIsTrue, IInv
<1>5. Agree'
  BY <1>1, <1>2, AgreeStep DEF IInv
<1>6. \A x \in Buildings : Accounted(x)'
  BY <1>1, <1>2, SameAsking DEF IInv
<1>7. QED
  BY <1>3, <1>4, <1>5, <1>6 DEF IInv

LEMMA CoordsOfIInv ==
  ASSUME IInv, NEW c \in Callers, NEW user \in {"tool", "location"}, NEW b \in Buildings,
         CoordsOf(c, user, b)
  PROVE  IInv'
<1>1. CASE cache[b] # None
  <2>1. Begin(c, user, b, "answered", cache[b]) /\ UNCHANGED <<where, cache, asked, failed>>
    BY <1>1 DEF CoordsOf
  <2>2. cache[b] = where[b] /\ where[b] \in Points
    BY <1>1 DEF IInv, CacheIsTrue, TypeOK
  <2>3. QED
    BY <2>1, <2>2, AnsweredAtOnce
<1>2. CASE cache[b] = None
  <2> DEFINE call == [user |-> user, building |-> b, stage |-> "asking", answer |-> None]
  <2>1. /\ calls' = [calls EXCEPT ![c] = call] /\ calls[c].stage # "asking"
        /\ asked' = [asked EXCEPT ![b] = @ + 1]
        /\ UNCHANGED <<where, cache, failed>>
    BY <1>2 DEF CoordsOf, Begin
  <2>2. call \in Call
    BY DEF Call
  <2>3. TypeOK'
    BY <2>1, <2>2 DEF TypeOK, IInv
  <2>4. CacheIsTrue'
    BY <2>1 DEF CacheIsTrue, IInv
  <2>5. Agree'
    BY <2>1, <2>2, AgreeStep DEF IInv
  <2>6. ASSUME NEW x \in Buildings PROVE Accounted(x)'
    <3>1. CASE x # b
      <4>1. Asking(x)' = Asking(x)
        BY <2>1, <3>1 DEF Asking, TypeOK, IInv
      <4>2. asked'[x] = asked[x] /\ failed'[x] = failed[x] /\ cache'[x] = cache[x]
        BY <2>1, <3>1 DEF TypeOK, IInv
      <4>3. QED
        BY <4>1, <4>2 DEF Accounted, IInv
    <3>2. CASE x = b
      <4>1. Asking(b)' = Asking(b) \cup {c} /\ c \notin Asking(b)
        BY <2>1 DEF Asking, TypeOK, IInv
      <4>2. Cardinality(Asking(b)') = Cardinality(Asking(b)) + 1
        BY <4>1, AskingFinite, FS_AddElement
      <4>3. Cardinality(Asking(b)') <= Cardinality(Callers)
        <5>1. Asking(b)' \subseteq Callers
          BY DEF Asking
        <5>2. QED
          BY <5>1, AskingFinite, FS_Subset
      <4>4. asked'[b] = asked[b] + 1 /\ failed'[b] = failed[b] /\ cache'[b] = None
            /\ asked[b] \in Nat /\ failed[b] \in Nat
        BY <1>2, <2>1 DEF TypeOK, IInv
      <4>5. asked[b] = failed[b] + Cardinality(Asking(b))
        BY <1>2 DEF IInv, Accounted
      <4>6. Cardinality(Asking(b)) \in Nat /\ Cardinality(Callers) \in Nat
        BY AskingFinite
      <4>7. QED
        BY <3>2, <4>2, <4>3, <4>4, <4>5, <4>6 DEF Accounted
    <3>3. QED
      BY <3>1, <3>2
  <2>7. QED
    BY <2>3, <2>4, <2>5, <2>6 DEF IInv
<1>3. QED
  BY <1>1, <1>2

\* The end of a request: its caller asks no more, nobody else's call changes.
LEMMA AskerLeaves ==
  ASSUME TypeOK, NEW c \in Callers, NEW b \in Buildings, NEW a,
         calls[c].stage = "asking", calls[c].building = b, Answer(c, a)
  PROVE  /\ Cardinality(Asking(b)) = Cardinality(Asking(b)') + 1
         /\ Cardinality(Asking(b)') \in Nat
         /\ \A x \in Buildings \ {b} : Asking(x)' = Asking(x)
<1>1. calls' = [calls EXCEPT ![c] = [calls[c] EXCEPT !.stage = "answered", !.answer = a]]
  BY DEF Answer, TypeOK, Call
<1>2. /\ \A d \in Callers \ {c} : calls'[d] = calls[d]
      /\ calls'[c].stage = "answered"
  BY <1>1 DEF TypeOK, Call
<1>3. Asking(b)' = Asking(b) \ {c} /\ c \in Asking(b)
  BY <1>2 DEF Asking
<1>4. Cardinality(Asking(b)') = Cardinality(Asking(b)) - 1 /\ Cardinality(Asking(b)) \in Nat
      /\ Cardinality(Asking(b)') \in Nat
  BY <1>3, AskingFinite, FS_RemoveElement, FS_CardinalityType
<1>5. \A x \in Buildings \ {b} : Asking(x)' = Asking(x)
  BY <1>2 DEF Asking
<1>6. QED
  BY <1>4, <1>5

LEMMA EngineAnswersIInv ==
  ASSUME IInv, NEW c \in Callers, EngineAnswers(c)
  PROVE  IInv'
<1>0. PICK b \in Buildings : b = calls[c].building
  BY DEF EngineAnswers, IInv, TypeOK
<1> DEFINE call == [calls[c] EXCEPT !.stage = "answered", !.answer = where[b]]
<1>1. /\ calls[c].stage = "asking" /\ Answer(c, where[b])
      /\ cache' = [cache EXCEPT ![b] = where[b]] /\ UNCHANGED <<where, asked, failed>>
  BY <1>0 DEF EngineAnswers
<1>2. where[b] \in Points /\ where[b] # None
  BY NamesAssumption DEF IInv, TypeOK
<1>3. calls' = [calls EXCEPT ![c] = call]
  BY <1>1 DEF Answer, IInv, TypeOK, Call
<1>4. call \in Call /\ call.stage = "answered" /\ call.building = b /\ call.answer = where[b]
  BY <1>0, <1>2 DEF IInv, TypeOK, Call
<1> HIDE DEF call
<1>5. TypeOK'
  BY <1>1, <1>2, <1>3, <1>4 DEF IInv, TypeOK
<1>6. CacheIsTrue'
  BY <1>1, <1>2 DEF IInv, CacheIsTrue, TypeOK
<1>7. Agree'
  BY <1>1, <1>3, <1>4, AgreeStep DEF IInv
<1>8. ASSUME NEW x \in Buildings PROVE Accounted(x)'
  <2>1. /\ Cardinality(Asking(b)) = Cardinality(Asking(b)') + 1
        /\ Cardinality(Asking(b)') \in Nat
        /\ \A y \in Buildings \ {b} : Asking(y)' = Asking(y)
    BY <1>0, <1>1, AskerLeaves DEF IInv
  <2>2. asked' = asked /\ failed' = failed /\ asked[x] \in Nat /\ failed[x] \in Nat
    BY <1>1 DEF IInv, TypeOK
  <2>3. Accounted(x)
    BY DEF IInv
  <2>4. CASE x = b
    <3>1. cache'[x] # None
      BY <1>1, <1>2, <2>4 DEF IInv, TypeOK
    <3>2. asked[x] >= failed[x] + Cardinality(Asking(x))
      BY <2>1, <2>2, <2>3, <2>4 DEF Accounted
    <3>3. asked[x] - failed[x] <= Cardinality(Callers)
      BY <2>3 DEF Accounted
    <3>4. Cardinality(Asking(x)) = Cardinality(Asking(x)') + 1 /\ Cardinality(Asking(x)') \in Nat
      BY <2>1, <2>4
    <3>5. asked'[x] >= failed'[x] + Cardinality(Asking(x)') + 1
      BY <2>2, <3>2, <3>4
    <3>6. QED
      BY <2>2, <3>1, <3>3, <3>5 DEF Accounted
  <2>5. CASE x # b
    <3>1. cache'[x] = cache[x] /\ Asking(x)' = Asking(x)
      BY <1>1, <2>1, <2>5 DEF IInv, TypeOK
    <3>2. QED
      BY <2>2, <2>3, <3>1 DEF Accounted
  <2>6. QED
    BY <2>4, <2>5
<1>9. QED
  BY <1>5, <1>6, <1>7, <1>8 DEF IInv

LEMMA EngineFailsIInv ==
  ASSUME IInv, NEW c \in Callers, EngineFails(c)
  PROVE  IInv'
<1>1. PICK a \in Labels : Answer(c, a) /\ a \in {"engine error", KeyErrorAnswer(calls[c].user)}
  BY DEF EngineFails, Labels, KeyErrorAnswer
<1>0. PICK b \in Buildings : b = calls[c].building
  BY DEF EngineFails, IInv, TypeOK
<1> DEFINE call == [calls[c] EXCEPT !.stage = "answered", !.answer = a]
<1>2. /\ calls[c].stage = "asking" /\ failed' = [failed EXCEPT ![b] = @ + 1]
      /\ UNCHANGED <<where, cache, asked>>
  BY <1>0 DEF EngineFails
<1>4. calls' = [calls EXCEPT ![c] = call]
  BY <1>1 DEF Answer, IInv, TypeOK, Call
<1>5. /\ call \in Call /\ call.stage = "answered" /\ call.building = b
      /\ call.user = calls[c].user /\ call.answer = a
  BY <1>0 DEF IInv, TypeOK, Call
<1> HIDE DEF call
<1>6. TypeOK'
  <2>1. calls' \in [Callers -> Call]
    BY <1>4, <1>5 DEF IInv, TypeOK
  <2>2. failed' \in [Buildings -> Nat]
    BY <1>2 DEF IInv, TypeOK
  <2>3. \A d \in Callers : calls'[d].stage = "asking" => calls'[d].building \in Buildings
    BY <1>4, <1>5 DEF IInv, TypeOK
  <2>4. QED
    BY <1>2, <2>1, <2>2, <2>3 DEF IInv, TypeOK
<1>7. CacheIsTrue'
  BY <1>2 DEF IInv, CacheIsTrue
<1>8. Agree'
  BY <1>1, <1>2, <1>4, <1>5, AgreeStep DEF IInv
<1>9. ASSUME NEW x \in Buildings PROVE Accounted(x)'
  <2>1. /\ Cardinality(Asking(b)) = Cardinality(Asking(b)') + 1
        /\ Cardinality(Asking(b)') \in Nat
        /\ \A y \in Buildings \ {b} : Asking(y)' = Asking(y)
    BY <1>0, <1>1, <1>2, AskerLeaves DEF IInv
  <2>2. cache' = cache /\ asked' = asked /\ asked[x] \in Nat /\ failed[x] \in Nat
    BY <1>2 DEF IInv, TypeOK
  <2>3. Accounted(x)
    BY DEF IInv
  <2>4. CASE x = b
    <3>1. failed'[x] = failed[x] + 1 /\ asked'[x] = asked[x] /\ cache'[x] = cache[x]
          /\ failed[x] \in Nat /\ asked[x] \in Nat
      BY <1>2, <2>4 DEF IInv, TypeOK
    <3>2. Cardinality(Asking(x)) = Cardinality(Asking(x)') + 1 /\ Cardinality(Asking(x)') \in Nat
      BY <2>1, <2>4
    <3>3. Cardinality(Callers) \in Nat
      BY AskingFinite
    <3>4. IF cache'[x] = None THEN asked'[x] = failed'[x] + Cardinality(Asking(x)')
          ELSE asked'[x] >= failed'[x] + Cardinality(Asking(x)') + 1
      BY <2>3, <3>1, <3>2 DEF Accounted
    <3>5. asked'[x] - failed'[x] <= Cardinality(Callers)
      BY <2>3, <3>1, <3>3 DEF Accounted
    <3>6. QED
      BY <3>4, <3>5 DEF Accounted
  <2>5. CASE x # b
    <3>1. failed'[x] = failed[x] /\ Asking(x)' = Asking(x)
      BY <1>2, <2>1, <2>5 DEF IInv, TypeOK
    <3>2. QED
      BY <2>2, <2>3, <3>1 DEF Accounted
  <2>6. QED
    BY <2>4, <2>5
<1>10. QED
  BY <1>6, <1>7, <1>8, <1>9 DEF IInv

LEMMA NextIInv == IInv /\ [Next]_vars => IInv'
<1> SUFFICES ASSUME IInv, [Next]_vars PROVE IInv'
  OBVIOUS
<1>1. ASSUME NEW c \in Callers, NEW user \in {"tool", "location"}, NEW b \in Buildings,
             CoordsOf(c, user, b)
      PROVE  IInv'
  BY <1>1, CoordsOfIInv
<1>2. ASSUME NEW c \in Callers, NEW user \in {"tool", "location"}, NoBuilding(c, user)
      PROVE  IInv'
  <2>1. KeyErrorAnswer(user) \in Points \cup Labels
    BY DEF KeyErrorAnswer, Labels
  <2>2. QED
    BY <1>2, <2>1, AnsweredAtOnce, NamesAssumption DEF NoBuilding
<1>3. ASSUME NEW c \in Callers, Coordinates(c) PROVE IInv'
  <2>1. PICK p \in Points \cup {"nowhere"} : Begin(c, "location", None, "answered", p)
    BY <1>3 DEF Coordinates
  <2>2. p \in Points \cup Labels /\ UNCHANGED <<where, cache, asked, failed>>
    BY <1>3 DEF Coordinates, Labels
  <2>3. QED
    BY <2>1, <2>2, AnsweredAtOnce, NamesAssumption
<1>4. ASSUME NEW c \in Callers, EngineAnswers(c) PROVE IInv'
  BY <1>4, EngineAnswersIInv
<1>5. ASSUME NEW c \in Callers, EngineFails(c) PROVE IInv'
  BY <1>5, EngineFailsIInv
<1>6. CASE UNCHANGED vars
  BY <1>6 DEF vars, IInv, TypeOK, CacheIsTrue, Agree, Accounted, Asking
<1>7. QED
  BY <1>1, <1>2, <1>3, <1>4, <1>5, <1>6 DEF Next

THEOREM CacheIsSound == Spec => []IInv
  BY InitIInv, NextIInv, PTL DEF Spec

\* Whoever asks, a building has one point: the engine's, or an error; and only
\* an answer, never a failure, fills the cache (coords_of).
THEOREM AnswersAlwaysAgree == Spec => []AnswersAgree
<1>1. IInv => AnswersAgree
  <2> SUFFICES ASSUME IInv PROVE AnswersAgree
    OBVIOUS
  <2>1. ASSUME NEW b \in Buildings, asked[b] = failed[b] PROVE cache[b] = None
    <3>1. Accounted(b) /\ asked[b] \in Nat /\ failed[b] \in Nat
      BY DEF IInv, TypeOK
    <3>2. Cardinality(Asking(b)) \in Nat
      BY AskingFinite
    <3>3. QED
      BY <2>1, <3>1, <3>2 DEF Accounted
  <2>2. QED
    BY <2>1 DEF AnswersAgree, IInv, Agree
<1>2. QED
  BY <1>1, CacheIsSound, PTL

\* Overlapping callers cost at most one answered request each, whatever the
\* interleaving of check, await and write in coords_of.
THEOREM NobodyAsksNeedlessly == Spec => []NoNeedlessAsk
<1>1. IInv => NoNeedlessAsk
  BY DEF IInv, Accounted, NoNeedlessAsk
<1>2. QED
  BY <1>1, CacheIsSound, PTL
=============================================================================
