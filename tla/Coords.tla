------------------------------- MODULE Coords -------------------------------
(***************************************************************************)
(* Episode.coords_of() of runner.py, a cache in front of the engine, under *)
(* its two users: location_coords() for intake and reconcile, and the      *)
(* dispatch model's building_to_coords tool, through _run_tool().          *)
(*                                                                         *)
(* Callers overlap: coords_of() checks the cache, awaits the engine, and   *)
(* only then writes.  External: the engine, and its map.                   *)
(***************************************************************************)
EXTENDS Naturals, FiniteSets

CONSTANTS
  None,
  Callers,    \* coroutines that may be in coords_of() at once
  Buildings,
  Points,
  MaxAsks     \* bound: requests sent per building

ASSUME BoundAssumption == IsFiniteSet(Callers) /\ MaxAsks \in Nat
ASSUME NamesAssumption == None \notin Buildings \cup Points

VARIABLES
  where,      \* the engine's map: the public point of each building
  cache,      \* _coords_cache: building -> point, or None when it is not there
  calls,      \* the callers' calls
  asked,      \* history: requests sent for each building
  failed      \* history: those that brought no point

vars == <<where, cache, calls, asked, failed>>

\* A call: its user, the building it names (None: left out), and how far it
\* got.  `answer` is the point, or what the user makes of the exception.
Labels == {"engine error", "missing argument", "KeyError", "nowhere"}
Call == [user: {"tool", "location"}, building: Buildings \cup {None},
         stage: {"idle", "asking", "answered"}, answer: Points \cup Labels \cup {None}]
Idle == [user |-> "tool", building |-> None, stage |-> "idle", answer |-> None]

Answer(c, a) == calls' = [calls EXCEPT ![c].stage = "answered", ![c].answer = a]
Begin(c, user, b, stage, a) ==
  /\ calls[c].stage # "asking"
  /\ calls' = [calls EXCEPT ![c] = [user |-> user, building |-> b, stage |-> stage, answer |-> a]]

Init ==
  /\ where \in [Buildings -> Points] /\ cache = [b \in Buildings |-> None]
  /\ calls = [c \in Callers |-> Idle]
  /\ asked = [b \in Buildings |-> 0] /\ failed = [b \in Buildings |-> 0]

----------------------------------------------------------------------------
\* _run_tool's KeyError label, and what a location_coords() caller gets.
KeyErrorAnswer(user) == IF user = "tool" THEN "missing argument" ELSE "KeyError"

\* coords_of() up to its await.
CoordsOfClaims(c, user, b) ==
  \/ /\ cache[b] = None /\ asked[b] < MaxAsks
     /\ Begin(c, user, b, "asking", None)
     /\ asked' = [asked EXCEPT ![b] = @ + 1]
     /\ cache' = [cache EXCEPT ![b] = "nowhere"]
     /\ UNCHANGED <<where, failed>>
  \/ /\ cache[b] # None
     /\ Begin(c, user, b, "answered", cache[b])
     /\ UNCHANGED <<where, cache, asked, failed>>
CoordsOf(c, user, b) ==
  \/ /\ cache[b] = None /\ asked[b] < MaxAsks
     /\ Begin(c, user, b, "asking", None)
     /\ asked' = [asked EXCEPT ![b] = @ + 1]
     /\ UNCHANGED <<where, cache, failed>>
  \/ /\ cache[b] # None
     /\ Begin(c, user, b, "answered", cache[b])
     /\ UNCHANGED <<where, cache, asked, failed>>

\* The argument or key is not there.
NoBuilding(c, user) ==
  /\ Begin(c, user, None, "answered", KeyErrorAnswer(user))
  /\ UNCHANGED <<where, cache, asked, failed>>

\* location_coords() of coordinates, and of a location of no kind it knows.
Coordinates(c) ==
  /\ \E p \in Points \cup {"nowhere"} : Begin(c, "location", None, "answered", p)
  /\ UNCHANGED <<where, cache, asked, failed>>

\* The engine's answer, and the rest of coords_of(): remember it, return it.
EngineAnswersForgotten(c) ==
  LET b == calls[c].building
  IN /\ calls[c].stage = "asking" /\ Answer(c, where[b])
     /\ UNCHANGED <<where, cache, asked, failed>>
EngineAnswers(c) ==
  LET b == calls[c].building
  IN /\ calls[c].stage = "asking" /\ Answer(c, where[b])
     /\ cache' = [cache EXCEPT ![b] = where[b]]
     /\ UNCHANGED <<where, asked, failed>>

\* The engine refuses, or no answer comes: _call() raises.  Its empty answer
\* is an empty dict, which has no "point".
EngineFails(c) ==
  /\ calls[c].stage = "asking"
  /\ Answer(c, "engine error") \/ Answer(c, KeyErrorAnswer(calls[c].user))
  /\ failed' = [failed EXCEPT ![calls[c].building] = @ + 1]
  /\ UNCHANGED <<where, cache, asked>>

Next ==
  \E c \in Callers :
    \/ \E user \in {"tool", "location"} :
         (\E b \in Buildings : CoordsOf(c, user, b)) \/ NoBuilding(c, user)
    \/ Coordinates(c) \/ EngineAnswers(c) \/ EngineFails(c)

Spec == Init /\ [][Next]_vars

----------------------------------------------------------------------------
\* Whoever asks, and however the calls overlap, a building has one point: an
\* answer is the engine's or an error, never a half-filled cache entry; and a
\* failed request leaves nothing that a later call would take for a point.
AnswersAgree ==
  /\ \A c \in Callers :
       calls[c].stage = "answered" /\ calls[c].building # None =>
         calls[c].answer \in {where[calls[c].building], "engine error", KeyErrorAnswer(calls[c].user)}
  /\ \A b \in Buildings : asked[b] = failed[b] => cache[b] = None

\* What overlap can cost: a building brings at most one answer per caller, for
\* nobody asks again once one has come; only failures may be repeated.
NoNeedlessAsk == \A b \in Buildings : asked[b] - failed[b] <= Cardinality(Callers)
=============================================================================
