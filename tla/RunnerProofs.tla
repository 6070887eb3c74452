---------------------------- MODULE RunnerProofs ----------------------------
(***************************************************************************)
(* Proofs about Runner, for any horizon, any deliveries, any number of     *)
(* slots, trucks, rounds and incidents.  What Dispatch's own steps do is   *)
(* taken from DispatchProofs; here is what holds across the ticks.         *)
(***************************************************************************)
EXTENDS Runner, DispatchProofs, FiniteSetTheorems, WellFoundedInduction

Lives     == {Running, "terminal", "none"}
InEpisode == {"loop", "inner", "next", "ticking", "ticked"}
AllPcs    == {"connect", "start"} \cup InEpisode \cup Ended

Observation == [tick: Ticks, lifecycle: Lives, contacts: Deliveries \cup {<<>>}]
Response    == [tick: Ticks, lifecycle: {Running, "terminal"}, contacts: Deliveries,
                outcome: {None, "outcome"}]

EpisodeTyped ==
  /\ Typed /\ EpisodeTypeOK
  /\ obs \in Observation
  /\ pc = "ticked" => reply \in Response

\* Outside its tick a run_dispatch is idle, outside its tool turn nothing is in
\* flight; it runs at the tick that Episode.tick says, and only with a model.
LoopQuiet ==
  /\ pc \notin {"inner", "aborted"} => loop = "idle"
  /\ loop # "tools" => \A c \in Slots : calls[c].state \in {"idle", "answered"}
  /\ loop # "idle" => tick = ep_tick /\ use_llm

\* The three copies of the tick, and the engine's clock.
Clocks ==
  /\ eHolder # "rival" => obs.tick <= eTick /\ (eLife = Running => eTick < Horizon)
  /\ pc \in InEpisode \ {"ticked"} /\ eHolder = "runner" => obs.tick = eTick /\ obs.lifecycle = eLife
  /\ pc \in InEpisode => eHolder # "nobody"
  /\ pc \in InEpisode \ {"loop"} => ep_tick = obs.tick /\ obs.lifecycle = Running
  /\ pc = "loop" => obs.lifecycle \in {Running, "terminal"}
  /\ ep_tick <= obs.tick
  /\ pc \in {"connect", "start"} => obs = NoObs /\ outcome = None
  /\ pc = "connect" => eHolder = "nobody"
  /\ pc = "ticking" => asked # <<>> /\ asked[Len(asked)] = obs.tick
  /\ pc = "ticked" =>
       /\ reply.tick = obs.tick + 1
       /\ reply.outcome # None <=> reply.lifecycle = "terminal"
       /\ eHolder = "runner" => reply.tick = eTick /\ reply.lifecycle = eLife

\* Whatever the engine has, or may still get, was asked of it in an episode, at
\* the tick it was decided on, and not in the future.
OnTime ==
  /\ \A o \in Requested : o.tick = o.expected /\ o.tick <= obs.tick
  /\ pc \in {"connect", "start"} => Requested = {}

----------------------------------------------------------------------------
(* The steps of an episode, by what they do to the dispatch run. *)

\* Those that are steps of Dispatch, at the run's own tick.
RunStep == AgentLoop \/ ToolRuns \/ CallReturns \/ EngineHandlesDispatch

\* Those that leave it alone.
OuterStep ==
  /\ UNCHANGED vars
  /\ \/ Connect \/ NoKey \/ EngineCallFails
     \/ \E d \in Deliveries : StartEpisode(d)
     \/ DispatchShipped \/ SkipDispatch \/ DispatchFails \/ HoleFails
     \/ SendNextTick \/ HearNextTick \/ NextTickFails \/ Return \/ CloseFails
     \/ \E d \in Deliveries, terminal \in BOOLEAN : EngineTicks(d, terminal)
     \/ RivalTakesOver \/ RivalPlays \/ IntakeReturns \/ IntakeRaises
     \/ UNCHANGED episode

LEMMA EpisodeStepCases ==
  ASSUME [EpisodeNext]_episode
  PROVE  RunStep \/ FillHoles \/ BeginTick \/ BeginDispatch \/ EndDispatch \/ OuterStep
BY DEF EpisodeNext, Task, Environment, RunStep, OuterStep, Connect, NoKey, EngineCallFails,
       StartEpisode, DispatchShipped, SkipDispatch, DispatchFails, HoleFails, SendNextTick,
       HearNextTick, NextTickFails, Return, CloseFails, EngineTicks, RivalTakesOver, RivalPlays,
       IntakeReturns, IntakeRaises, Abort, episode

\* Intake's calls write its own counts and nothing else.
LEMMA IntakeEffect ==
  ASSUME IntakeReturns \/ IntakeRaises
  PROVE  /\ pc = "inner"
         /\ UNCHANGED <<vars, pc, built, use_llm, obs, seen, dispatch_tokens, outcome, cause,
                        human, sensor, asked, engine>>
BY DEF IntakeReturns, IntakeRaises, IntakeCallable

\* A step of Dispatch within an episode: it writes the store only from the tool
\* turn, and counts what it bills.
LEMMA RunStepEffect ==
  ASSUME RunStep
  PROVE  /\ Next
         /\ UNCHANGED <<pc, epVars, engine, ep_tick, tick>>
         /\ loop' = "idle" <=> loop = "idle"
         /\ loop # "tools" => UNCHANGED storeVars
         /\ \/ UNCHANGED <<usage, billed>> /\ (loop' = "raised" <=> loop = "raised")
            \/ /\ loop \notin {"idle", "raised"} /\ loop' # "raised"
               /\ usage' = usage + 1 /\ billed' = billed + 1
            \/ /\ loop \notin {"idle", "raised"} /\ loop' = "raised"
               /\ UNCHANGED usage /\ billed' \in {billed, billed + 1}
<1>1. CASE AgentLoop
  BY <1>1 DEF AgentLoop, Loop, Next, ModelCalls, ModelYields, CapReached, ProviderFails,
              TurnAnswered, engVars
<1>2. CASE ToolRuns
  BY <1>2 DEF ToolRuns, RunTool, Next, FileIncidentUpdate, DispatchTruck, OtherTool, Issued,
              loopVars, engVars
<1>3. CASE CallReturns
  BY <1>3 DEF CallReturns, Answered, Next, HearAnswer, CallFails, loopVars, engVars
<1>4. CASE EngineHandlesDispatch
  BY <1>4 DEF EngineHandlesDispatch, Next, EngineAccepts, EngineRefuses, EngineAcceptsLate,
              EngineDropsLate, loopVars, engVars
<1>5. QED
  BY <1>1, <1>2, <1>3, <1>4 DEF RunStep

LEMMA OuterStepKeeps ==
  ASSUME OuterStep
  PROVE  /\ UNCHANGED <<vars, built, use_llm, seen, dispatch_tokens, human, sensor>>
         /\ pc \notin {"inner", "aborted"} \/ pc' \in {"inner", "aborted"} \/ ~use_llm
BY DEF OuterStep, SkipDispatch, Connect, NoKey, EngineCallFails, StartEpisode, DispatchShipped,
       DispatchFails, HoleFails, SendNextTick, HearNextTick, NextTickFails, Return, CloseFails,
       EngineTicks, RivalTakesOver, RivalPlays, IntakeReturns, IntakeRaises, IntakeCallable,
       Abort, epVars, episode

LEMMA TypesOfTyped ==
  ASSUME Typed
  PROVE  /\ Store!TypeOK /\ CallsOK
         /\ tick \in Ticks /\ ep_tick \in Ticks
         /\ loop \in {"idle", "model", "tools", "returned", "raised"}
         /\ rounds \in Nat /\ usage \in Nat /\ billed \in Nat
  BY RoundsAssumption DEF Typed, TypeOK

LEMMA IntegerTicks == Ticks = 0..Horizon /\ Horizon \in Nat /\ 0 < Horizon
  BY HorizonAssumption

LEMMA DispatchStaysTyped ==
  ASSUME EpisodeTyped, [EpisodeNext]_episode
  PROVE  Typed'
<1>1. Typed /\ obs.tick \in Ticks
  BY DEF EpisodeTyped, Observation
<1>2. CASE RunStep
  BY <1>1, <1>2, RunStepEffect, TypedStep
<1>3. CASE OuterStep
  BY <1>1, <1>3, TypedStep DEF OuterStep
<1>4. CASE FillHoles
  <2>1. /\ loop = "idle" /\ loop' = "idle" /\ Reconcile(obs.tick)
        /\ UNCHANGED <<ep_tick, tick, rounds, usage, billed, calls, dispatches, orders, late, unheard>>
    BY <1>4 DEF FillHoles, Reconcile, loopVars, engVars
  <2>2. Store!TypeOK'
    BY <1>1, <2>1, ReconcileIsStoreStep, StoreStepIsGood DEF GoodStoreStep, Typed, TypeOK
  <2>3. QED
    BY <1>1, <2>1, <2>2 DEF Typed, TypeOK, CountsRounds, CallsOK
<1>5. CASE BeginTick
  <2>1. /\ ep_tick' = obs.tick
        /\ UNCHANGED <<incidents, seq, raised, tick, loop, rounds, usage, billed, calls,
                       dispatches, orders, late, unheard>>
    BY <1>5 DEF BeginTick, storeVars, loopVars, engVars
  <2>2. Store!TypeOK'
    BY <1>1, <2>1 DEF Typed, TypeOK, Store!TypeOK
  <2>3. QED
    BY <1>1, <2>1, <2>2 DEF Typed, TypeOK, CountsRounds, CallsOK
<1>6. CASE BeginDispatch
  <2>1. /\ loop' = "model" /\ tick' = obs.tick /\ rounds' = 0 /\ usage' = 0
        /\ calls' = [c \in Slots |-> Idle] /\ dispatches' = {}
        /\ UNCHANGED <<incidents, seq, raised, ep_tick, billed, orders, late, unheard>>
    BY <1>6 DEF BeginDispatch, RunDispatch, storeVars, engVars
  <2>2. Store!TypeOK'
    BY <1>1, <2>1 DEF Typed, TypeOK, Store!TypeOK
  <2>3. CallsOK' /\ 0 \in 0..MaxRounds
    BY <2>1, RoundsAssumption DEF CallsOK, Call, Idle
  <2>4. QED
    BY <1>1, <2>1, <2>2, <2>3 DEF Typed, TypeOK, CountsRounds
<1>7. CASE EndDispatch
  <2>1. /\ loop' = "idle"
        /\ UNCHANGED <<incidents, seq, raised, ep_tick, tick, rounds, usage, billed, calls,
                       dispatches, orders, late, unheard>>
    BY <1>7 DEF EndDispatch, storeVars, engVars
  <2>2. Store!TypeOK'
    BY <1>1, <2>1 DEF Typed, TypeOK, Store!TypeOK
  <2>3. QED
    BY <1>1, <2>1, <2>2 DEF Typed, TypeOK, CountsRounds, CallsOK
<1>8. QED
  BY <1>2, <1>3, <1>4, <1>5, <1>6, <1>7, EpisodeStepCases

----------------------------------------------------------------------------
(* Routing.  Of the turns of one observation in which a contact not seen    *)
(* before comes up, the first is the one that hands it on.                  *)

\* Every set of numbers that is not empty has a least element: < is well
\* founded on them.
Before == {p \in Nat \X Nat : p[1] < p[2]}

LEMMA LeastElement ==
  ASSUME NEW T \in SUBSET Nat, T # {}
  PROVE  \E x \in T : \A y \in T : x <= y
<1>1. IsWellFoundedOn(Before, Nat)
  <2>1. Before = OpToRel(<, Nat)
    BY DEF Before, OpToRel
  <2>2. QED
    BY <2>1, NatLessThanWellFounded
<1>2. PICK x \in T : \A y \in T : ~ (<<y, x>> \in Before)
  BY <1>1, WFMin
<1>3. ASSUME NEW y \in T, ~ (x <= y) PROVE FALSE
  <2>1. x \in Nat /\ y \in Nat
    OBVIOUS
  <2>2. y < x
    BY <1>3, <2>1
  <2>3. <<y, x>> \in Nat \X Nat /\ <<y, x>>[1] = y /\ <<y, x>>[2] = x
    BY <2>1
  <2>4. <<y, x>> \in Before
    BY <2>2, <2>3 DEF Before
  <2>5. QED
    BY <1>2, <2>4
<1>4. QED
  BY <1>3

LEMMA OneTurn ==
  ASSUME obs.contacts \in Seq(Contacts), NEW c \in Contacts
  PROVE  Cardinality(Turns(c)) = IF c \in ToSet(obs.contacts) \ seen THEN 1 ELSE 0
<1>1. DOMAIN obs.contacts = 1..Len(obs.contacts) /\ Len(obs.contacts) \in Nat
  OBVIOUS
<1> DEFINE D == DOMAIN obs.contacts
           T == {k \in D : obs.contacts[k] = c}
<1>2. CASE c \in ToSet(obs.contacts) \ seen
  <2>1. T # {} /\ T \in SUBSET Nat
    BY <1>1, <1>2 DEF ToSet
  <2>2. PICK x \in T : \A y \in T : x <= y
    BY <2>1, LeastElement
  <2>3. x \in Turns(c)
    <3>1. \A j \in 1..(x - 1) : j \in D /\ ~(x <= j)
      BY <1>1
    <3>2. \A j \in 1..(x - 1) : obs.contacts[j] # c
      BY <2>2, <3>1
    <3>3. QED
      BY <1>2, <3>2 DEF Turns, Met
  <2>4. ASSUME NEW y \in Turns(c) PROVE y = x
    <3>1. y \in T /\ ~Met(c, y)
      BY DEF Turns
    <3>2. x \notin 1..(y - 1)
      BY <2>2, <3>1 DEF Met
    <3>3. x \in Nat /\ y \in Nat /\ 1 <= x /\ x <= y
      BY <1>1, <2>2, <3>1
    <3>4. QED
      BY <3>2, <3>3
  <2>5. Turns(c) = {x}
    BY <2>3, <2>4
  <2>6. QED
    BY <1>2, <2>5, FS_Singleton
<1>3. CASE c \notin ToSet(obs.contacts) \ seen
  <2>1. Turns(c) = {}
    BY <1>3 DEF Turns, Met, ToSet
  <2>2. QED
    BY <1>3, <2>1, FS_EmptySet
<1>4. QED
  BY <1>2, <1>3

LEMMA ContactsAreTyped ==
  ASSUME EpisodeTyped
  PROVE  /\ obs.contacts \in Seq(Contacts)
         /\ ToSet(obs.contacts) \subseteq Contacts
<1>1. obs.contacts \in Seq(Contacts)
  <2>1. obs.contacts \in Deliveries \cup {<<>>}
    BY DEF EpisodeTyped, Observation
  <2>2. <<>> \in Seq(Contacts)
    OBVIOUS
  <2>3. QED
    BY <2>1, <2>2, DeliveriesAssumption
<1>2. ToSet(obs.contacts) \subseteq Contacts
  BY <1>1 DEF ToSet
<1>3. QED
  BY <1>1, <1>2

\* What the loop over an observation's contacts does to the three records.
LEMMA RouteEffect ==
  ASSUME EpisodeTyped, Route
  PROVE  /\ seen' \subseteq Contacts /\ ToSet(obs.contacts) \subseteq seen'
         /\ human' \in [Contacts -> Nat] /\ sensor' \in [Contacts -> Nat]
         /\ \A c \in Contacts :
              /\ c \in seen' \ seen \/ UNCHANGED <<human[c], sensor[c]>>
              /\ c \in seen' \ seen =>
                   IF c \in Sensors THEN UNCHANGED human[c] /\ sensor'[c] = sensor[c] + 1
                                    ELSE human'[c] = human[c] + 1 /\ UNCHANGED sensor[c]
<1>1. /\ obs.contacts \in Seq(Contacts) /\ ToSet(obs.contacts) \subseteq Contacts
      /\ seen \subseteq Contacts
      /\ human \in [Contacts -> Nat] /\ sensor \in [Contacts -> Nat]
  BY ContactsAreTyped DEF EpisodeTyped, EpisodeTypeOK
<1>2. seen' = seen \cup ToSet(obs.contacts)
  BY DEF Route
<1> DEFINE n(c) == Cardinality(Turns(c))
<1>3. \A c \in Contacts : n(c) = IF c \in seen' \ seen THEN 1 ELSE 0
  BY <1>1, <1>2, OneTurn
<1>4. /\ human' = [c \in Contacts |-> IF c \in Sensors THEN human[c] ELSE human[c] + n(c)]
      /\ sensor' = [c \in Contacts |-> IF c \in Sensors THEN sensor[c] + n(c) ELSE sensor[c]]
  BY DEF Route
<1> HIDE DEF n
<1>5. \A c \in Contacts : human[c] \in Nat /\ sensor[c] \in Nat /\ n(c) \in Nat
  BY <1>1, <1>3
<1>6. human' \in [Contacts -> Nat] /\ sensor' \in [Contacts -> Nat]
  BY <1>4, <1>5
<1>7. \A c \in Contacts :
        /\ human'[c] = IF c \in Sensors THEN human[c] ELSE human[c] + n(c)
        /\ sensor'[c] = IF c \in Sensors THEN sensor[c] + n(c) ELSE sensor[c]
  BY <1>4
<1>8. QED
  BY <1>1, <1>2, <1>3, <1>5, <1>6, <1>7

----------------------------------------------------------------------------
(* Type correctness of an episode. *)

LEMMA EpisodeStaysTyped ==
  ASSUME EpisodeTyped, Clocks, [EpisodeNext]_episode
  PROVE  EpisodeTyped'
<1> DEFINE Rest ==
      /\ pc' \in AllPcs
      /\ obs' \in Observation /\ (pc' = "ticked" => reply' \in Response)
      /\ built' \in Builds /\ use_llm' \in UseLLM /\ seen' \subseteq Contacts
      /\ intake_tokens' \in Nat /\ intake_billed' \in Nat /\ intake_raised' \in Nat
      /\ dispatch_tokens' \in Nat /\ outcome' \in {None, "outcome"}
      /\ cause' = None <=> pc' # "aborted"
      /\ eTick' \in Ticks /\ eLife' \in Lives
      /\ eHolder' \in {"nobody", "runner", "rival"} /\ eTokens' \in {None} \cup (Nat \X Nat)
      /\ human' \in [Contacts -> Nat] /\ sensor' \in [Contacts -> Nat]
      /\ asked' \in Seq(Ticks)
<1>1. SUFFICES Rest
  <2>1. Typed'
    BY DispatchStaysTyped
  <2>2. QED
    BY <2>1 DEF EpisodeTyped, EpisodeTypeOK, Typed, Observation, Lives, AllPcs, InEpisode
<1>2. /\ pc \in AllPcs
      /\ obs \in Observation /\ (pc = "ticked" => reply \in Response)
      /\ built \in Builds /\ use_llm \in UseLLM /\ seen \subseteq Contacts
      /\ intake_tokens \in Nat /\ intake_billed \in Nat /\ intake_raised \in Nat
      /\ dispatch_tokens \in Nat /\ outcome \in {None, "outcome"}
      /\ cause = None <=> pc # "aborted"
      /\ eTick \in Ticks /\ eLife \in Lives
      /\ eHolder \in {"nobody", "runner", "rival"} /\ eTokens \in {None} \cup (Nat \X Nat)
      /\ human \in [Contacts -> Nat] /\ sensor \in [Contacts -> Nat]
      /\ asked \in Seq(Ticks)
  BY DEF EpisodeTyped, EpisodeTypeOK, Lives, AllPcs, InEpisode
<1>3. usage \in Nat
  BY TypesOfTyped DEF EpisodeTyped
<1>4. CASE UNCHANGED <<pc, epVars, engine>>
  BY <1>2, <1>4 DEF epVars, intakeVars, engine
<1>5. ASSUME NEW why \in {"EngineError", "RuntimeError", "hole", "NotImplementedError", "provider", "close"},
             Abort(why)
      PROVE  Rest
  BY <1>2, <1>5, NoneIsNoCause DEF Abort, intakeVars, engine, AllPcs, Ended
<1>6. CASE Connect \/ SkipDispatch \/ Return \/ RivalTakesOver
  BY <1>2, <1>6 DEF Connect, SkipDispatch, Return, RivalTakesOver, epVars, intakeVars, engine, AllPcs, InEpisode, Ended
<1>7. ASSUME NEW d \in Deliveries, StartEpisode(d) PROVE Rest
  <2>1. 0 \in Ticks
    BY IntegerTicks
  <2>2. obs' \in Observation
    BY <1>7, <2>1 DEF StartEpisode, Observation, Lives
  <2>3. QED
    BY <1>2, <1>7, <2>1, <2>2 DEF StartEpisode, intakeVars, AllPcs, InEpisode, Lives
<1>8. CASE BeginTick
  <2>1. Route
    BY <1>8 DEF BeginTick
  <2>2. /\ seen' \subseteq Contacts
        /\ human' \in [Contacts -> Nat] /\ sensor' \in [Contacts -> Nat]
    BY <2>1, RouteEffect
  <2>3. QED
    BY <1>2, <1>8, <2>2 DEF BeginTick, intakeVars, engine, AllPcs, InEpisode
<1>9. CASE EndDispatch
  <2>1. dispatch_tokens' \in Nat
    BY <1>2, <1>3, <1>9 DEF EndDispatch
  <2>2. QED
    BY <1>2, <1>9, <2>1 DEF EndDispatch, intakeVars, engine, AllPcs, InEpisode
<1>10. CASE SendNextTick
  <2>1. asked' \in Seq(Ticks)
    BY <1>2, <1>10 DEF SendNextTick, Observation
  <2>2. QED
    BY <1>2, <1>10, <2>1 DEF SendNextTick, intakeVars, engine, AllPcs, InEpisode
<1>11. CASE HearNextTick
  <2>1. reply \in Response
    BY <1>2, <1>11 DEF HearNextTick
  <2>2. obs' \in Observation /\ outcome' \in {None, "outcome"}
    BY <1>11, <2>1 DEF HearNextTick, Response, Observation, Lives
  <2>3. QED
    BY <1>2, <1>11, <2>2 DEF HearNextTick, intakeVars, engine, AllPcs, InEpisode
<1>12. ASSUME NEW d \in Deliveries, NEW terminal \in BOOLEAN, EngineTicks(d, terminal)
       PROVE  Rest
  <2>1. eHolder = "runner" /\ eLife = Running /\ eTick < Horizon
    BY <1>12 DEF EngineTicks, InControl, Clocks
  <2>2. eTick + 1 \in Ticks
    BY <1>2, <2>1, IntegerTicks
  <2>3. reply' \in Response
    BY <1>12, <2>2 DEF EngineTicks, Response
  <2>4. QED
    BY <1>2, <1>12, <2>2, <2>3 DEF EngineTicks, epVars, intakeVars, AllPcs, InEpisode, Lives
<1>13. CASE RivalPlays
  <2>1. eTick' \in Ticks
    BY <1>2, <1>13, IntegerTicks DEF RivalPlays
  <2>2. QED
    BY <1>2, <1>13, <2>1 DEF RivalPlays, epVars, intakeVars, Lives
<1>14. CASE IntakeReturns \/ IntakeRaises
  <2>1. intake_tokens' \in Nat /\ intake_billed' \in Nat /\ intake_raised' \in Nat
    BY <1>2, <1>14 DEF IntakeReturns, IntakeRaises
  <2>2. QED
    BY <1>2, <1>14, <2>1, IntakeEffect DEF engine
<1>15. QED
  BY <1>4, <1>5, <1>6, <1>7, <1>8, <1>9, <1>10, <1>11, <1>12, <1>13, <1>14, EpisodeStepCases,
     RunStepEffect
     DEF OuterStep, NoKey, EngineCallFails, DispatchShipped, DispatchFails, HoleFails,
         NextTickFails, CloseFails, FillHoles, BeginDispatch, episode

----------------------------------------------------------------------------
(* The inductive invariant, part by part. *)

LEMMA QuietBetweenRuns ==
  ASSUME EpisodeTyped, LoopQuiet, Clocks, [EpisodeNext]_episode
  PROVE  LoopQuiet'
<1> USE DEF LoopQuiet
<1>1. CallsOK /\ obs.tick \in Ticks
  BY TypesOfTyped DEF EpisodeTyped, Observation
<1>2. CASE RunStep
  <2>1. /\ UNCHANGED <<pc, ep_tick, tick, use_llm>> /\ (loop' = "idle" <=> loop = "idle")
    BY <1>2, RunStepEffect DEF epVars
  <2>2. loop' # "tools" => \A c \in Slots : calls'[c].state \in {"idle", "answered"}
    <3>1. CASE AgentLoop
      BY <3>1 DEF AgentLoop, Loop, ModelCalls, ModelYields, CapReached, ProviderFails,
                  TurnAnswered
    <3>2. CASE loop = "tools" /\ UNCHANGED loop
      BY <3>2
    <3>3. CASE ToolRuns \/ CallReturns
      BY <3>2, <3>3 DEF ToolRuns, RunTool, CallReturns, Answered, FileIncidentUpdate, DispatchTruck,
                        OtherTool, HearAnswer, CallFails, Issued, loopVars
    <3>4. ASSUME NEW c \in Slots, EngineAccepts(c) \/ EngineRefuses(c)
          PROVE  loop = "tools" /\ UNCHANGED loop
      BY <3>4 DEF EngineAccepts, EngineRefuses, loopVars
    <3>5. ASSUME NEW o \in late, EngineAcceptsLate(o) \/ EngineDropsLate(o)
          PROVE  UNCHANGED <<loop, calls>>
      BY <3>5 DEF EngineAcceptsLate, EngineDropsLate, loopVars
    <3>6. CASE UNCHANGED <<loop, calls>>
      BY <3>6
    <3>7. QED
      BY <1>2, <3>1, <3>2, <3>3, <3>4, <3>5, <3>6 DEF RunStep, EngineHandlesDispatch
  <2>3. QED
    BY <2>1, <2>2
<1>3. CASE FillHoles
  BY <1>3 DEF FillHoles, Reconcile, loopVars
<1>4. CASE BeginTick
  <2>1. pc = "loop" /\ UNCHANGED <<loop, calls, use_llm>>
    BY <1>4 DEF BeginTick, loopVars
  <2>2. QED
    BY <2>1
<1>5. CASE BeginDispatch
  <2>1. /\ pc = "inner" /\ use_llm /\ UNCHANGED <<pc, ep_tick, use_llm>>
        /\ loop' = "model" /\ tick' = obs.tick /\ calls' = [c \in Slots |-> Idle]
    BY <1>5 DEF BeginDispatch, RunDispatch, epVars
  <2>2. ep_tick = obs.tick
    BY <2>1 DEF Clocks, InEpisode
  <2>3. QED
    BY <2>1, <2>2 DEF Idle
<1>6. CASE EndDispatch
  BY <1>6 DEF EndDispatch
<1>7. CASE OuterStep
  BY <1>7, OuterStepKeeps DEF vars, loopVars
<1>8. QED
  BY <1>2, <1>3, <1>4, <1>5, <1>6, <1>7, EpisodeStepCases

LEMMA ClocksAgree ==
  ASSUME EpisodeTyped, Clocks, [EpisodeNext]_episode
  PROVE  Clocks'
<1> USE DEF Clocks, InEpisode
<1>1. /\ obs \in Observation /\ obs.tick \in Nat /\ eTick \in Nat /\ ep_tick \in Nat
      /\ asked \in Seq(Ticks) /\ (pc = "ticked" => reply \in Response)
      /\ pc \in AllPcs /\ eHolder \in {"nobody", "runner", "rival"} /\ eLife \in Lives
  BY TypesOfTyped, IntegerTicks
     DEF EpisodeTyped, EpisodeTypeOK, Observation, Lives, AllPcs
<1>2. CASE UNCHANGED <<pc, ep_tick, epVars, engine>>
  BY <1>2 DEF epVars, engine
<1>3. ASSUME NEW why, Abort(why) PROVE Clocks'
  BY <1>1, <1>3 DEF Abort, vars, engine
<1>4. CASE Connect
  BY <1>1, <1>4 DEF Connect, vars, epVars
<1>5. ASSUME NEW d \in Deliveries, StartEpisode(d) PROVE Clocks'
  <2>1. /\ pc' = "loop" /\ eTick' = 0 /\ eLife' = Running /\ eHolder' = "runner"
        /\ obs' = [tick |-> 0, lifecycle |-> Running, contacts |-> d]
        /\ UNCHANGED ep_tick /\ ep_tick <= 0 /\ 0 < Horizon
    BY <1>1, <1>5, IntegerTicks DEF StartEpisode, vars, NoObs
  <2>2. obs'.tick = 0 /\ obs'.lifecycle = Running
    BY <2>1
  <2>3. QED
    BY <2>1, <2>2
<1>6. CASE BeginTick
  BY <1>1, <1>6 DEF BeginTick, engine
<1>7. CASE EndDispatch
  BY <1>1, <1>7 DEF EndDispatch, engine
<1>8. CASE SkipDispatch
  BY <1>1, <1>8 DEF SkipDispatch, vars, epVars, engine
<1>9. CASE SendNextTick
  <2>1. obs.tick \in Ticks
    BY <1>1 DEF Observation
  <2>2. asked' # <<>> /\ asked'[Len(asked')] = obs.tick
    BY <1>1, <1>9, <2>1 DEF SendNextTick
  <2>3. QED
    BY <1>1, <1>9, <2>2 DEF SendNextTick, vars, engine
<1>10. CASE HearNextTick
  <2>1. /\ pc = "ticked" /\ pc' = "loop" /\ UNCHANGED <<ep_tick, eTick, eLife, eHolder>>
        /\ obs' = [tick |-> reply.tick, lifecycle |-> reply.lifecycle, contacts |-> reply.contacts]
    BY <1>10 DEF HearNextTick, vars, engine
  <2>2. obs'.tick = obs.tick + 1 /\ obs'.lifecycle = reply.lifecycle
        /\ reply.lifecycle \in {Running, "terminal"}
    BY <1>1, <2>1 DEF Response
  <2>3. QED
    BY <1>1, <2>1, <2>2
<1>11. ASSUME NEW d \in Deliveries, NEW terminal \in BOOLEAN, EngineTicks(d, terminal)
       PROVE  Clocks'
  <2>1. /\ pc = "ticking" /\ pc' = "ticked" /\ eHolder = "runner" /\ eLife = Running
        /\ UNCHANGED <<ep_tick, obs, eHolder, outcome>>
        /\ eTick' = eTick + 1 /\ eLife' = IF terminal THEN "terminal" ELSE Running
        /\ terminal \/ eTick + 1 < Horizon
    BY <1>11 DEF EngineTicks, InControl, vars, epVars
  <2>2. /\ reply'.tick = eTick + 1 /\ reply'.lifecycle = eLife'
        /\ reply'.outcome = IF terminal THEN "outcome" ELSE None
    BY <1>11 DEF EngineTicks
  <2>3. obs.tick = eTick
    BY <2>1
  <2>4. None # "outcome" /\ Running # "terminal"
    BY NoneIsNoCause DEF Running
  <2>5. QED
    BY <1>1, <2>1, <2>2, <2>3, <2>4
<1>12. CASE Return
  BY <1>1, <1>12 DEF Return, vars, epVars, engine, Ended
<1>13. CASE RivalTakesOver \/ RivalPlays
  BY <1>1, <1>13 DEF RivalTakesOver, RivalPlays, vars, epVars
<1>14. CASE RunStep
  BY <1>2, <1>14, RunStepEffect
<1>15. CASE FillHoles \/ BeginDispatch
  BY <1>2, <1>15 DEF FillHoles, BeginDispatch, Reconcile, RunDispatch
<1>16. CASE UNCHANGED episode
  BY <1>2, <1>16 DEF episode, vars
<1>17. CASE IntakeReturns \/ IntakeRaises
  BY <1>17, IntakeEffect DEF vars, engine
<1>18. QED
  BY <1>3, <1>4, <1>5, <1>6, <1>7, <1>8, <1>9, <1>10, <1>11, <1>12, <1>13, <1>14, <1>15, <1>16, <1>17,
     EpisodeStepCases
     DEF OuterStep, NoKey, EngineCallFails, DispatchShipped, DispatchFails, HoleFails,
         NextTickFails, CloseFails

\* The observation's tick only grows, and leaving "connect" or "start" for the
\* episode is all that can end the time before any request.
LEMMA TicksGrow ==
  ASSUME EpisodeTyped, Clocks, [EpisodeNext]_episode
  PROVE  /\ obs.tick \in Nat /\ obs'.tick \in Nat /\ obs.tick <= obs'.tick
         /\ pc' \in {"connect", "start"} => pc \in {"connect", "start"}
<1>1. obs.tick \in Nat /\ obs'.tick \in Nat
  BY EpisodeStaysTyped, IntegerTicks DEF EpisodeTyped, Observation
<1>2. obs.tick <= obs'.tick
  <2>1. CASE UNCHANGED obs
    BY <1>1, <2>1
  <2>2. ASSUME NEW d \in Deliveries, StartEpisode(d) PROVE obs.tick = 0
    BY <2>2 DEF StartEpisode, Clocks, NoObs
  <2>3. CASE HearNextTick
    BY <1>1, <2>3 DEF HearNextTick, Clocks
  <2>4. QED
    BY <1>1, <2>1, <2>2, <2>3, EpisodeStepCases, RunStepEffect, IntakeEffect
       DEF OuterStep, Connect, NoKey, EngineCallFails, DispatchShipped, SkipDispatch,
           DispatchFails, HoleFails, SendNextTick, NextTickFails, Return, CloseFails, EngineTicks,
           RivalTakesOver, RivalPlays, Abort, BeginTick, EndDispatch, FillHoles, BeginDispatch,
           epVars, episode
<1>3. pc' \in {"connect", "start"} => pc \in {"connect", "start"}
  BY EpisodeStepCases, RunStepEffect, IntakeEffect
     DEF OuterStep, Connect, NoKey, EngineCallFails, StartEpisode, DispatchShipped, SkipDispatch,
         DispatchFails, HoleFails, SendNextTick, HearNextTick, NextTickFails, Return, CloseFails,
         EngineTicks, RivalTakesOver, RivalPlays, Abort, BeginTick, EndDispatch, FillHoles,
         BeginDispatch, epVars, episode
<1>4. QED
  BY <1>1, <1>2, <1>3

\* A request is born of the tool turn of the run under way, at its tick.
LEMMA RequestsOfAnEpisode ==
  ASSUME EpisodeTyped, LoopQuiet, Clocks, [EpisodeNext]_episode, NEW o \in Requested'
  PROVE  \/ o \in Requested
         \/ /\ pc \notin {"connect", "start"}
            /\ o.tick = ep_tick /\ o.expected = ep_tick /\ ep_tick <= obs.tick
<1>1. CallsOK
  BY TypesOfTyped DEF EpisodeTyped
<1>2. CASE UNCHANGED <<calls, orders, late>>
  BY <1>2 DEF Requested, OutOrders
<1>3. CASE RunStep
  <2>1. o \in Requested \/ NewRequest(o)
    BY <1>1, <1>3, RequestedGrows, RunStepEffect
  <2>2. ASSUME NewRequest(o)
        PROVE  /\ pc \notin {"connect", "start"}
               /\ o.tick = ep_tick /\ o.expected = ep_tick /\ ep_tick <= obs.tick
    BY <2>2 DEF NewRequest, Command, LoopQuiet, Clocks
  <2>3. QED
    BY <2>1, <2>2
<1>4. CASE BeginDispatch
  BY <1>4 DEF BeginDispatch, RunDispatch, Requested, OutOrders, Idle, InFlight, engVars
<1>5. QED
  BY <1>2, <1>3, <1>4, EpisodeStepCases, OuterStepKeeps
     DEF FillHoles, Reconcile, BeginTick, EndDispatch, engVars, vars

LEMMA OrdersAreOnTime ==
  ASSUME EpisodeTyped, LoopQuiet, Clocks, OnTime, [EpisodeNext]_episode
  PROVE  OnTime'
<1>1. ASSUME NEW o \in Requested' PROVE o.tick = o.expected /\ o.tick <= obs'.tick
  <2>1. CASE o \in Requested
    <3>1. o.tick \in Nat
      <4>1. o \in Order
        BY <2>1, TypesOfTyped, InFlightCallsHaveOrders
           DEF Requested, OutOrders, EpisodeTyped, Typed, TypeOK
      <4>2. QED
        BY <4>1, IntegerTicks DEF Order
    <3>2. QED
      BY <2>1, <3>1, TicksGrow DEF OnTime
  <2>2. CASE o.tick = ep_tick /\ o.expected = ep_tick /\ ep_tick <= obs.tick
    <3>1. ep_tick \in Nat
      BY TypesOfTyped, IntegerTicks DEF EpisodeTyped
    <3>2. QED
      BY <2>2, <3>1, TicksGrow
  <2>3. QED
    BY <2>1, <2>2, RequestsOfAnEpisode
<1>2. pc' \in {"connect", "start"} => Requested' = {}
  BY TicksGrow, RequestsOfAnEpisode DEF OnTime
<1>3. QED
  BY <1>1, <1>2 DEF OnTime

\* What the engine takes from this client, it takes in the tick it was decided on.
LEMMA TakenOnTime ==
  ASSUME EpisodeTyped, Clocks, OnTime, [EpisodeNext]_episode, NEW o \in orders', o \notin orders
  PROVE  /\ EngineHandlesDispatch /\ orders' = orders \cup {o}
         /\ eHolder = "runner" /\ o.tick = eTick /\ o.tick = obs.tick
         /\ pc \notin {"connect", "start"}
<1>1. EngineHandlesDispatch
  BY EpisodeStepCases, OuterStepKeeps
     DEF RunStep, AgentLoop, Loop, ModelCalls, ModelYields, CapReached, ProviderFails, TurnAnswered,
         ToolRuns, RunTool, CallReturns, Answered, FileIncidentUpdate, DispatchTruck, OtherTool,
         HearAnswer, CallFails, FillHoles, Reconcile, BeginTick, BeginDispatch, RunDispatch,
         EndDispatch, engVars, vars
<1>2. InControl(o.expected) /\ o \in Requested /\ orders' = orders \cup {o}
  <2>1. ASSUME NEW c \in Slots, calls[c].state = "sent", InControl(calls[c].order.expected),
               EngineAccepts(c)
        PROVE  InControl(o.expected) /\ o \in Requested /\ orders' = orders \cup {o}
    BY <2>1 DEF EngineAccepts, Requested, OutOrders, InFlight
  <2>2. ASSUME NEW p \in late, InControl(p.expected), EngineAcceptsLate(p)
        PROVE  InControl(o.expected) /\ o \in Requested /\ orders' = orders \cup {o}
    BY <2>2 DEF EngineAcceptsLate, Requested
  <2>3. QED
    BY <1>1, <2>1, <2>2
       DEF EngineHandlesDispatch, EngineRefuses, EngineDropsLate, engVars
<1>3. eHolder = "runner" /\ o.tick = eTick /\ o.tick <= obs.tick /\ obs.tick <= eTick
  BY <1>2 DEF InControl, OnTime, Clocks
<1>4. eTick \in Nat /\ obs.tick \in Nat
  BY IntegerTicks DEF EpisodeTyped, EpisodeTypeOK, Observation
<1>5. QED
  BY <1>1, <1>2, <1>3, <1>4 DEF OnTime

LEMMA TokensStayBalanced ==
  ASSUME EpisodeTyped, LoopQuiet, TokensBalance, [EpisodeNext]_episode
  PROVE  TokensBalance'
<1> USE DEF TokensBalance
<1>1. /\ dispatch_tokens \in Nat /\ usage \in Nat /\ billed \in Nat
      /\ intake_tokens \in Nat /\ intake_billed \in Nat /\ intake_raised \in Nat
      /\ (pc \notin {"inner", "aborted"} => loop = "idle")
  BY TypesOfTyped DEF EpisodeTyped, EpisodeTypeOK, LoopQuiet
<1>2. CASE RunStep
  <2>1. /\ UNCHANGED <<dispatch_tokens, pc, eTokens>> /\ (loop' = "idle" <=> loop = "idle")
        /\ UNCHANGED <<intake_tokens, intake_billed, intake_raised>>
        /\ \/ UNCHANGED <<usage, billed>> /\ (loop' = "raised" <=> loop = "raised")
           \/ /\ loop \notin {"idle", "raised"} /\ loop' # "raised"
              /\ usage' = usage + 1 /\ billed' = billed + 1
           \/ /\ loop \notin {"idle", "raised"} /\ loop' = "raised"
              /\ UNCHANGED usage /\ billed' \in {billed, billed + 1}
    BY <1>2, RunStepEffect DEF epVars, intakeVars, engine
  <2>2. pc = "ticked" => UNCHANGED billed
    BY <1>1, <2>1
  <2>3. QED
    BY <1>1, <2>1, <2>2
<1>3. CASE FillHoles
  BY <1>1, <1>3 DEF FillHoles, Reconcile, loopVars, epVars, intakeVars, engine
<1>4. CASE BeginTick
  <2>1. /\ UNCHANGED <<intakeVars, dispatch_tokens, loop, usage, billed>> /\ pc' = "inner"
    BY <1>4 DEF BeginTick, loopVars
  <2>2. QED
    BY <1>1, <2>1 DEF intakeVars
<1>5. CASE BeginDispatch
  <2>1. /\ loop = "idle" /\ loop' = "model" /\ usage' = 0 /\ UNCHANGED <<intakeVars, dispatch_tokens, billed>>
        /\ pc' = "inner"
    BY <1>5 DEF BeginDispatch, RunDispatch, epVars
  <2>2. QED
    BY <1>1, <2>1 DEF intakeVars
<1>6. CASE EndDispatch
  <2>1. /\ loop = "returned" /\ loop' = "idle" /\ dispatch_tokens' = dispatch_tokens + usage
        /\ pc' = "next" /\ UNCHANGED <<intakeVars, billed, usage>>
    BY <1>6 DEF EndDispatch
  <2>2. QED
    BY <1>1, <2>1 DEF intakeVars
<1>7. CASE IntakeReturns \/ IntakeRaises
  <2>1. UNCHANGED <<pc, dispatch_tokens, loop, usage, billed>> /\ pc = "inner"
    BY <1>7, IntakeEffect DEF vars, loopVars
  <2>2. /\ intake_raised' = intake_raised \/ intake_raised' = intake_raised + 1
        /\ intake_tokens' = intake_tokens \/ intake_tokens' = intake_tokens + 1
        /\ intake_billed' - intake_raised' <= intake_tokens' /\ intake_tokens' <= intake_billed'
    BY <1>1, <1>7 DEF IntakeReturns, IntakeRaises
  <2>3. QED
    BY <1>1, <2>1, <2>2
<1>8. CASE OuterStep /\ ~(IntakeReturns \/ IntakeRaises)
  <2>1. UNCHANGED <<dispatch_tokens, loop, usage, billed>>
    BY <1>8, OuterStepKeeps DEF vars, loopVars
  <2>2. /\ UNCHANGED intakeVars
        /\ pc' = "ticked" => \/ pc = "ticked" /\ UNCHANGED eTokens
                             \/ pc = "ticking" /\ eTokens' = <<intake_tokens, dispatch_tokens>>
    BY <1>8 DEF OuterStep, SkipDispatch, Connect, NoKey, EngineCallFails, StartEpisode,
       DispatchShipped, DispatchFails, HoleFails, SendNextTick, HearNextTick, NextTickFails, Return,
       CloseFails, EngineTicks, RivalTakesOver, RivalPlays, Abort, epVars, engine, episode
  <2>3. QED
    BY <1>1, <2>1, <2>2 DEF intakeVars
<1>9. QED
  BY <1>2, <1>3, <1>4, <1>5, <1>6, <1>7, <1>8, EpisodeStepCases

\* The store is written by the holes at the observation's tick, and by the run's
\* tools at the run's; both are Episode.tick.
LEMMA BeliefsStayDated ==
  ASSUME EpisodeTyped, LoopQuiet, Clocks, BeliefsAreDated, [EpisodeNext]_episode
  PROVE  BeliefsAreDated'
<1> USE DEF BeliefsAreDated
<1>1. /\ Store!TypeOK /\ obs.tick \in Ticks /\ ep_tick \in Nat /\ obs.tick \in Nat
      /\ ep_tick <= obs.tick
  BY TypesOfTyped, IntegerTicks DEF EpisodeTyped, Observation, Clocks
<1>2. CASE UNCHANGED storeVars /\ UNCHANGED ep_tick
  BY <1>2 DEF storeVars
<1>3. ASSUME GoodStoreStep(ep_tick), UNCHANGED ep_tick PROVE BeliefsAreDated'
  BY <1>3 DEF GoodStoreStep, DatedBy
<1>4. CASE RunStep
  <2>1. CASE loop = "tools"
    <3>1. tick = ep_tick
      BY <2>1 DEF LoopQuiet
    <3>2. GoodStoreStep(tick)
      BY <1>4, RunStepEffect, StepWritesStore DEF EpisodeTyped, Typed
    <3>3. QED
      BY <1>3, <1>4, <3>1, <3>2, RunStepEffect
  <2>2. CASE loop # "tools"
    BY <1>2, <1>4, <2>2, RunStepEffect
  <2>3. QED
    BY <2>1, <2>2
<1>5. CASE FillHoles
  <2>1. obs.tick = ep_tick /\ UNCHANGED ep_tick /\ Reconcile(obs.tick)
    BY <1>5 DEF FillHoles, Reconcile, Clocks, InEpisode
  <2>2. GoodStoreStep(obs.tick)
    BY <1>1, <2>1, ReconcileIsStoreStep, StoreStepIsGood
  <2>3. QED
    BY <1>3, <2>1, <2>2
<1>6. CASE BeginTick
  <2>1. incidents' = incidents /\ ep_tick' = obs.tick
    BY <1>6 DEF BeginTick, storeVars
  <2>2. \A i \in DOMAIN incidents : incidents[i].updated_tick \in Nat
    BY <1>1, StoreAssumption DEF Store!TypeOK, Store!Incident
  <2>3. QED
    BY <1>1, <2>1, <2>2
<1>7. QED
  BY <1>2, <1>4, <1>5, <1>6, EpisodeStepCases, OuterStepKeeps
     DEF BeginDispatch, RunDispatch, EndDispatch, vars

LEMMA ContactsStayRoutedOnce ==
  ASSUME EpisodeTyped, EachContactRoutedOnce, [EpisodeNext]_episode
  PROVE  EachContactRoutedOnce'
<1>1. CASE BeginTick
  <2>1. Route
    BY <1>1 DEF BeginTick
  <2>2. human \in [Contacts -> Nat] /\ sensor \in [Contacts -> Nat]
    BY DEF EpisodeTyped, EpisodeTypeOK
  <2>3. seen \subseteq seen' /\ UNCHANGED obs
    BY <1>1, <2>1 DEF Route, BeginTick
  <2>4. ASSUME NEW c \in Contacts
        PROVE  /\ human'[c] + sensor'[c] = IF c \in seen' THEN 1 ELSE 0
               /\ sensor'[c] > 0 => c \in Sensors
    <3>1. /\ human[c] \in Nat /\ sensor[c] \in Nat
          /\ human[c] + sensor[c] = IF c \in seen THEN 1 ELSE 0
          /\ sensor[c] > 0 => c \in Sensors
      BY <2>2 DEF EachContactRoutedOnce
    <3>2. CASE c \in seen' \ seen
      BY <2>1, <3>1, <3>2, RouteEffect
    <3>3. CASE c \notin seen' \ seen
      BY <2>1, <2>3, <3>1, <3>3, RouteEffect
    <3>4. QED
      BY <3>2, <3>3
  <2>5. ToSet(obs'.contacts) \subseteq seen'
    BY <2>1, <2>3, RouteEffect
  <2>6. QED
    BY <2>4, <2>5 DEF EachContactRoutedOnce
<1>2. ASSUME UNCHANGED <<seen, human, sensor>>,
             pc' \in {"inner", "next", "ticking", "ticked"} =>
               UNCHANGED obs /\ pc \in {"inner", "next", "ticking", "ticked"}
      PROVE  EachContactRoutedOnce'
  BY <1>2 DEF EachContactRoutedOnce
<1>3. CASE OuterStep
  <2>1. pc' \in {"inner", "next", "ticking", "ticked"} =>
          UNCHANGED obs /\ pc \in {"inner", "next", "ticking", "ticked"}
    BY <1>3 DEF OuterStep, SkipDispatch, Connect, NoKey, EngineCallFails, StartEpisode,
       DispatchShipped, DispatchFails, HoleFails, SendNextTick, HearNextTick, NextTickFails, Return,
       CloseFails, EngineTicks, RivalTakesOver, RivalPlays, IntakeReturns, IntakeRaises, Abort,
       epVars, episode
  <2>2. QED
    BY <1>2, <1>3, <2>1, OuterStepKeeps
<1>4. QED
  BY <1>1, <1>2, <1>3, EpisodeStepCases, RunStepEffect
     DEF FillHoles, BeginDispatch, EndDispatch, epVars

----------------------------------------------------------------------------
EpisodeInv ==
  /\ EpisodeTyped /\ LoopQuiet /\ Clocks /\ OnTime
  /\ TokensBalance /\ BeliefsAreDated /\ EachContactRoutedOnce

LEMMA EpisodeStart == EpisodeInit => EpisodeInv
<1> SUFFICES ASSUME EpisodeInit PROVE EpisodeInv
  OBVIOUS
<1>1. 0 \in Ticks /\ 0 <= 0
  BY IntegerTicks
<1>2. DOMAIN incidents = {} /\ seq = 0 /\ raised = None
  BY EmptySeq DEF EpisodeInit, Store!Init
<1>3. Store!TypeOK
  <2>1. 0 \in 0..MaxSeq
    <3>1. MaxSeq \in Nat
      BY StoreAssumption
    <3>2. QED
      BY <3>1
  <2>2. QED
    BY <1>2, <2>1 DEF Store!TypeOK
<1>4. CallsOK /\ \A c \in Slots : calls[c].state = "idle"
  BY DEF EpisodeInit, CallsOK, Call, Idle
<1>5. Requested = {}
  BY <1>4 DEF EpisodeInit, Requested, OutOrders, InFlight
<1>6. Typed
  BY <1>1, <1>3, <1>4, RoundsAssumption DEF EpisodeInit, Typed, TypeOK, CountsRounds
<1>7. obs = NoObs /\ obs \in Observation /\ obs.tick = 0
  BY <1>1 DEF EpisodeInit, NoObs, Observation, Lives
<1>8. <<>> \in Seq(Ticks)
  OBVIOUS
<1>9. EpisodeTyped
  BY <1>1, <1>6, <1>7, <1>8 DEF EpisodeInit, EpisodeTyped, EpisodeTypeOK, Typed, NoObs
<1>10. LoopQuiet /\ Clocks /\ OnTime
  BY <1>1, <1>4, <1>5, <1>7 DEF EpisodeInit, LoopQuiet, Clocks, OnTime, InEpisode, Running
<1>11. TokensBalance /\ BeliefsAreDated /\ EachContactRoutedOnce
  BY <1>2 DEF EpisodeInit, TokensBalance, BeliefsAreDated, EachContactRoutedOnce
<1>12. QED
  BY <1>9, <1>10, <1>11 DEF EpisodeInv

LEMMA EpisodeStep == EpisodeInv /\ [EpisodeNext]_episode => EpisodeInv'
BY EpisodeStaysTyped, QuietBetweenRuns, ClocksAgree, OrdersAreOnTime, TokensStayBalanced,
   BeliefsStayDated, ContactsStayRoutedOnce DEF EpisodeInv

LEMMA EpisodeAlways == EpisodeSpec => []EpisodeInv
BY EpisodeStart, EpisodeStep, PTL DEF EpisodeSpec

----------------------------------------------------------------------------
(* The theorems.  FairSpec adds fairness to EpisodeSpec; they hold of it too. *)

\* Every variable of an episode keeps its type.
THEOREM EpisodeTypeCorrect == EpisodeSpec => []EpisodeTypeOK
<1>1. EpisodeInv => EpisodeTypeOK
  BY DEF EpisodeInv, EpisodeTyped
<1>2. QED
  BY <1>1, EpisodeAlways, PTL

\* While the runner controls the engine, the tick its tools act in, the tick of
\* its observation and the engine's clock are one, through all awaits of a tick.
THEOREM TheThreeTicksAgree == EpisodeSpec => []ActsOnTheCurrentTick
<1>1. EpisodeInv => ActsOnTheCurrentTick
  BY DEF EpisodeInv, Clocks, InEpisode, ActsOnTheCurrentTick
<1>2. QED
  BY <1>1, EpisodeAlways, PTL

\* No tool call waits for its answer when next_tick is called, nor at the end.
THEOREM NothingIsInFlightAcrossTicks == EpisodeSpec => []NothingInFlightAcrossTicks
<1>1. EpisodeInv => NothingInFlightAcrossTicks
  BY DEF EpisodeInv, LoopQuiet, NothingInFlightAcrossTicks
<1>2. QED
  BY <1>1, EpisodeAlways, PTL

\* However the engine repeats contacts, each is handed on once, to one path.
THEOREM ContactsAreRoutedOnce == EpisodeSpec => []EachContactRoutedOnce
<1>1. EpisodeInv => EachContactRoutedOnce
  BY DEF EpisodeInv
<1>2. QED
  BY <1>1, EpisodeAlways, PTL

\* Usage is counted once and lost only by raising: what intake's total lacks of
\* its bill is at most the calls that raised, and dispatch's total with the run
\* under way is its bill, unless that run raised and ends the episode.
THEOREM TokensAreBalanced == EpisodeSpec => []TokensBalance
<1>1. EpisodeInv => TokensBalance
  BY DEF EpisodeInv
<1>2. QED
  BY <1>1, EpisodeAlways, PTL

\* No belief carries a tick from the future, or one older than its creation.
THEOREM BeliefsAreAlwaysDated == EpisodeSpec => []BeliefsAreDated
<1>1. EpisodeInv => BeliefsAreDated
  BY DEF EpisodeInv
<1>2. QED
  BY <1>1, EpisodeAlways, PTL

\* An order is accepted in the tick it was decided on and under the runner's
\* control, or never.
THEOREM OrdersAlwaysLandInTheirTick == EpisodeSpec => OrdersLandInTheirTick
<1>1. EpisodeInv /\ [EpisodeNext]_episode =>
        [\A o \in orders' \ orders : o.tick = eTick /\ eHolder = "runner"]_episode
  BY TakenOnTime DEF EpisodeInv
<1>2. QED
  BY <1>1, EpisodeAlways, PTL DEF EpisodeSpec, OrdersLandInTheirTick

----------------------------------------------------------------------------
(***************************************************************************)
(* What DispatchProofs shows of one run holds of every run of an episode,  *)
(* with the orders and the late requests of all its earlier ticks about:   *)
(* before a run starts, everything asked of the engine is of an older tick.*)
(***************************************************************************)
FreshTick ==
  pc \in {"connect", "start", "loop"} \/ (pc = "inner" /\ loop = "idle") =>
    \A o \in Requested : o.tick < obs.tick

RequestsInv ==
  /\ FreshTick /\ RequestsAreFiled /\ ClosedHaveReason
  /\ RecordIsTrue /\ NothingForgotten /\ CallsAreOnce

LEMMA FreshTickStep ==
  ASSUME EpisodeInv, FreshTick, [EpisodeNext]_episode
  PROVE  FreshTick'
<1> USE DEF FreshTick
<1>1. EpisodeTyped /\ LoopQuiet /\ Clocks /\ OnTime
  BY DEF EpisodeInv
<1>2. ASSUME Requested' \subseteq Requested, UNCHANGED obs,
             pc' \in {"connect", "start", "loop"} \/ (pc' = "inner" /\ loop' = "idle") =>
               pc \in {"connect", "start", "loop"} \/ (pc = "inner" /\ loop = "idle")
      PROVE  FreshTick'
  BY <1>2
<1>3. CASE RunStep
  <2>1. UNCHANGED <<pc, obs>> /\ (loop' = "idle" <=> loop = "idle") /\ Next
    BY <1>3, RunStepEffect DEF epVars
  <2>2. loop = "idle" => Requested' \subseteq Requested
    BY <1>1, <2>1, TypesOfTyped, RequestedGrows DEF NewRequest, EpisodeTyped
  <2>3. loop # "idle" => pc \in {"inner", "aborted"}
    BY <1>1 DEF LoopQuiet
  <2>4. QED
    BY <1>2, <2>1, <2>2, <2>3
<1>4. CASE FillHoles \/ BeginTick \/ EndDispatch
  BY <1>1, <1>2, <1>4
     DEF FillHoles, Reconcile, BeginTick, EndDispatch, Requested, OutOrders, epVars, engVars,
         loopVars, LoopQuiet
<1>5. CASE BeginDispatch
  BY <1>5 DEF BeginDispatch, RunDispatch
<1>6. CASE UNCHANGED vars
  <2>1. Requested' = Requested /\ UNCHANGED loop
    BY <1>6 DEF vars, loopVars, engVars, Requested, OutOrders
  <2>2. ASSUME NEW d \in Deliveries, StartEpisode(d) PROVE FreshTick'
    BY <1>1, <2>1, <2>2 DEF StartEpisode, OnTime
  <2>3. CASE HearNextTick
    <3>1. obs'.tick = obs.tick + 1 /\ obs.tick \in Nat
      BY <1>1, <2>3, IntegerTicks DEF HearNextTick, Clocks, EpisodeTyped, Observation
    <3>2. \A o \in Requested : o.tick \in Nat /\ o.tick <= obs.tick
      <4>1. \A o \in Requested : o \in Order
        BY <1>1, TypesOfTyped, InFlightCallsHaveOrders
           DEF Requested, OutOrders, EpisodeTyped, Typed, TypeOK
      <4>2. QED
        BY <1>1, <4>1, IntegerTicks DEF Order, OnTime
    <3>3. \A o \in Requested : o.tick < obs'.tick
      BY <3>1, <3>2
    <3>4. QED
      BY <2>1, <3>3
  <2>4. CASE UNCHANGED obs /\ (pc' = pc \/ pc' \notin {"loop", "inner"})
             /\ (pc' \in {"connect", "start"} => pc \in {"connect", "start"})
    BY <1>2, <2>1, <2>4
  <2>5. CASE OuterStep
    BY <2>2, <2>3, <2>4, <2>5
       DEF OuterStep, SkipDispatch, Connect, NoKey, EngineCallFails, DispatchShipped, DispatchFails,
           HoleFails, SendNextTick, NextTickFails, Return, CloseFails, EngineTicks, RivalTakesOver,
           RivalPlays, IntakeReturns, IntakeRaises, Abort, epVars, episode
  <2>6. QED
    BY <1>3, <1>4, <1>5, <2>5, EpisodeStepCases
<1>7. QED
  BY <1>3, <1>4, <1>5, <1>6, EpisodeStepCases DEF OuterStep

LEMMA RequestsStep == EpisodeInv /\ RequestsInv /\ [EpisodeNext]_episode => RequestsInv'
<1> SUFFICES ASSUME EpisodeInv, RequestsInv, [EpisodeNext]_episode PROVE RequestsInv'
  OBVIOUS
<1>1. /\ EpisodeTyped /\ LoopQuiet /\ Typed /\ CallsOK /\ Store!TypeOK
      /\ obs.tick \in Ticks /\ tick \in Ticks /\ NothingWaits
  BY TypesOfTyped
     DEF EpisodeInv, EpisodeTyped, Observation, LoopQuiet, NothingWaits, InFlight
<1>2. FreshTick'
  BY FreshTickStep DEF RequestsInv
<1>3. CASE RunStep
  <2>1. Next /\ ~Starts
    BY <1>3, RunStepEffect DEF Starts
  <2>2. RecordIsTrue' /\ NothingForgotten' /\ CallsAreOnce'
    BY <1>1, <2>1, RecordStep, OnceStep DEF RequestsInv
  <2>3. GoodStoreStep(tick)
    BY <1>1, <2>1, StepWritesStore DEF Typed
  <2>4. \A o \in Requested' : o \in Requested \/ o.incident \in Filed
    BY <1>1, <2>1, RequestedGrows DEF NewRequest, Command
  <2>5. RequestsAreFiled' /\ ClosedHaveReason'
    BY <2>3, <2>4 DEF RequestsInv, RequestsAreFiled, GoodStoreStep
  <2>6. QED
    BY <1>2, <2>2, <2>5 DEF RequestsInv
<1>4. CASE BeginDispatch
  <2>1. RunDispatch(obs.tick) /\ UNCHANGED incidents /\ \A o \in orders \cup late : o.tick # obs.tick
    <3>1. \A o \in Requested : o.tick < obs.tick /\ obs.tick \in Nat
      BY <1>1, <1>4, IntegerTicks DEF BeginDispatch, RunDispatch, RequestsInv, FreshTick
    <3>2. \A o \in Requested : o.tick # obs.tick
      BY <3>1
    <3>3. QED
      BY <1>4, <3>2 DEF BeginDispatch, RunDispatch, storeVars, Requested
  <2>2. RecordIsTrue' /\ NothingForgotten' /\ CallsAreOnce'
    BY <2>1, FreshRun DEF RequestsInv
  <2>3. Requested' \subseteq Requested
    BY <2>1 DEF RunDispatch, Requested, OutOrders, Idle, InFlight, engVars
  <2>4. RequestsAreFiled' /\ ClosedHaveReason'
    BY <2>1, <2>3 DEF RequestsInv, RequestsAreFiled, ClosedHaveReason, Filed
  <2>5. QED
    BY <1>2, <2>2, <2>4 DEF RequestsInv
<1>5. ASSUME UNCHANGED <<tick, rounds, calls, dispatches, orders, late, unheard>>,
             Filed \subseteq Filed', ClosedHaveReason => ClosedHaveReason'
      PROVE  RequestsInv'
  BY <1>2, <1>5
     DEF RequestsInv, RequestsAreFiled, Requested, OutOrders, RecordIsTrue, NothingForgotten,
         AcceptedInFlight, CallsAreOnce, OfSlot
<1>6. CASE FillHoles
  <2>1. GoodStoreStep(obs.tick)
    BY <1>1, <1>6, ReconcileIsStoreStep, StoreStepIsGood DEF FillHoles
  <2>2. QED
    BY <1>5, <1>6, <2>1 DEF FillHoles, Reconcile, loopVars, engVars, GoodStoreStep
<1>7. CASE UNCHANGED <<incidents, tick, rounds, calls, dispatches, orders, late, unheard>>
  BY <1>5, <1>7 DEF Filed, ClosedHaveReason
<1>8. QED
  BY <1>3, <1>4, <1>6, <1>7, EpisodeStepCases
     DEF OuterStep, BeginTick, EndDispatch, storeVars, loopVars, engVars, vars

LEMMA RequestsAlways == EpisodeSpec => []RequestsInv
<1>1. EpisodeInit => RequestsInv
  <2> SUFFICES ASSUME EpisodeInit PROVE RequestsInv
    OBVIOUS
  <2>1. \A c \in Slots : calls[c].state = "idle"
    BY DEF EpisodeInit, Idle
  <2>2. DOMAIN incidents = {}
    BY EmptySeq DEF EpisodeInit, Store!Init
  <2>3. QED
    BY <2>1, <2>2
       DEF EpisodeInit, RequestsInv, FreshTick, RequestsAreFiled, Requested, OutOrders,
           RecordIsTrue, NothingForgotten, CallsAreOnce, ClosedHaveReason, InFlight
<1>2. QED
  BY <1>1, RequestsStep, EpisodeAlways, PTL DEF EpisodeSpec

\* Over a whole episode: only filed incidents are served, however many ticks late
\* the request of an earlier run reaches the engine ...
THEOREM EpisodesServeFiledIncidents == EpisodeSpec => []OrdersNameFiledIncidents
<1>1. RequestsInv => OrdersNameFiledIncidents
  BY DEF RequestsInv, RequestsAreFiled, Requested, OrdersNameFiledIncidents
<1>2. QED
  BY <1>1, RequestsAlways, PTL

\* ... every run's record is truthful, and complete up to lost answers ...
THEOREM EpisodesRecordTheirOrders == EpisodeSpec => [](RecordedWereAccepted /\ AcceptedAreAccountedFor)
<1>1. RequestsInv => RecordedWereAccepted /\ AcceptedAreAccountedFor
  BY DEF RequestsInv, RecordIsTrue, NothingForgotten, RecordedWereAccepted, AcceptedAreAccountedFor
<1>2. QED
  BY <1>1, RequestsAlways, PTL

\* ... no tool call of any of its runs is sent twice ...
THEOREM EpisodesSendOnce == EpisodeSpec => []OneOrderPerCall
<1>1. RequestsInv => OneOrderPerCall
  BY SentOnce DEF RequestsInv
<1>2. QED
  BY <1>1, RequestsAlways, PTL

\* ... and every incident ever closed says why.
THEOREM EpisodesExplainClosing == EpisodeSpec => []ClosedHaveReason
<1>1. RequestsInv => ClosedHaveReason
  BY DEF RequestsInv
<1>2. QED
  BY <1>1, RequestsAlways, PTL

----------------------------------------------------------------------------
(* The refinement of TickProtocol, step by step. *)

LEMMA StageOf ==
  /\ pc \in {"connect", "start"} => Stage = "idle"
  /\ pc \in {"loop", "inner", "next"} => Stage = "acting"
  /\ pc \in {"ticking", "ticked"} => Stage = "advancing"
  /\ pc = "done" => Stage = "done"
  /\ pc = "aborted" => Stage = "failed"
BY DEF Stage

LEMMA StageAfter ==
  /\ pc' \in {"connect", "start"} => Stage' = "idle"
  /\ pc' \in {"loop", "inner", "next"} => Stage' = "acting"
  /\ pc' \in {"ticking", "ticked"} => Stage' = "advancing"
  /\ pc' = "done" => Stage' = "done"
  /\ pc' = "aborted" => Stage' = "failed"
BY DEF Stage

\* Every step of an episode is a step of the protocol, or none of its business.
LEMMA EpisodeStepIsProtocolStep ==
  ASSUME EpisodeInv, [EpisodeNext]_episode
  PROVE  [Protocol!Next]_(Protocol!vars)
<1> USE DEF Protocol!Next, Protocol!vars
<1>1. EpisodeTyped /\ Clocks /\ OnTime
  BY DEF EpisodeInv
<1>2. pc \in AllPcs /\ outcome \in {None, "outcome"} /\ obs.tick \in Nat
  BY <1>1, IntegerTicks DEF EpisodeTyped, EpisodeTypeOK, AllPcs, InEpisode, Observation
<1>3. ASSUME UNCHANGED <<Stage, obs, outcome, asked, orders>>
      PROVE  UNCHANGED Protocol!vars
  BY <1>3
<1>4. ASSUME NEW why, Abort(why), pc \notin Ended PROVE Protocol!Fail
  <2>1. /\ pc' = "aborted" /\ UNCHANGED <<obs, outcome, asked, orders>>
    BY <1>4 DEF Abort, vars, engVars
  <2>2. Stage \in {"idle", "acting", "advancing"} /\ Stage' = "failed"
    BY <1>2, <1>4, <2>1, StageOf, StageAfter DEF AllPcs, InEpisode
  <2>3. QED
    BY <2>1, <2>2 DEF Protocol!Fail
<1>5. ASSUME NEW d \in Deliveries, StartEpisode(d) PROVE Protocol!Begin
  <2>1. /\ pc = "start" /\ pc' = "loop" /\ UNCHANGED <<asked, orders>> /\ outcome' = None
        /\ obs = NoObs /\ outcome = None
        /\ obs' = [tick |-> 0, lifecycle |-> Running, contacts |-> d]
    BY <1>1, <1>5 DEF StartEpisode, Clocks, vars, engVars
  <2>2. obs'.tick = obs.tick /\ (obs'.lifecycle = "terminal") = (obs.lifecycle = "terminal")
    BY <2>1 DEF NoObs, Running
  <2>3. QED
    BY <2>1, <2>2, StageOf, StageAfter DEF Protocol!Begin
<1>6. CASE SendNextTick
  <2>1. /\ pc = "next" /\ pc' = "ticking" /\ asked' = Append(asked, obs.tick)
        /\ UNCHANGED <<obs, outcome, orders>> /\ obs.lifecycle = Running
    BY <1>1, <1>6 DEF SendNextTick, Clocks, InEpisode, vars, engVars
  <2>2. QED
    BY <2>1, StageOf, StageAfter DEF Protocol!Ask, Running
<1>7. CASE HearNextTick
  <2>1. /\ pc = "ticked" /\ pc' = "loop" /\ UNCHANGED <<asked, orders>> /\ outcome' = reply.outcome
        /\ obs'.tick = obs.tick + 1 /\ obs'.lifecycle = reply.lifecycle
        /\ reply.outcome # None <=> reply.lifecycle = "terminal"
    BY <1>1, <1>7 DEF HearNextTick, Clocks, vars, engVars
  <2>2. QED
    BY <2>1, StageOf, StageAfter DEF Protocol!Advance
<1>8. CASE Return
  <2>1. /\ pc = "loop" /\ pc' = "done" /\ UNCHANGED <<obs, outcome, asked, orders>>
        /\ obs.lifecycle = "terminal"
    BY <1>1, <1>8 DEF Return, Clocks, vars, epVars, engVars
  <2>2. QED
    BY <2>1, StageOf, StageAfter DEF Protocol!Finish
<1>9. ASSUME NEW o \in orders', o \notin orders PROVE Protocol!Serve
  <2>1. /\ orders' = orders \cup {o} /\ o.tick = obs.tick
        /\ pc \notin {"connect", "start"} /\ UNCHANGED <<pc, obs, outcome, asked>>
    BY <1>1, <1>9, TakenOnTime DEF EngineHandlesDispatch, epVars
  <2>2. {p.tick : p \in orders}' = {p.tick : p \in orders} \cup {obs.tick}
    BY <2>1
  <2>3. Stage # "idle" /\ Stage' = Stage
    BY <1>2, <2>1, StageOf DEF AllPcs, InEpisode, Ended, Stage
  <2>4. QED
    BY <2>1, <2>2, <2>3 DEF Protocol!Serve
<1>10. CASE UNCHANGED <<pc, obs, outcome, asked, orders>>
  BY <1>3, <1>10 DEF Stage
<1>11. CASE RunStep /\ orders' \subseteq orders
  <2>1. UNCHANGED <<pc, obs, outcome, asked>> /\ orders \subseteq orders'
    BY <1>11, RunStepEffect
       DEF epVars, RunStep, AgentLoop, Loop, ModelCalls, ModelYields, CapReached, ProviderFails,
           TurnAnswered, ToolRuns, RunTool, CallReturns, Answered, FileIncidentUpdate,
           DispatchTruck, OtherTool, HearAnswer, CallFails, EngineHandlesDispatch, EngineAccepts,
           EngineRefuses, EngineAcceptsLate, EngineDropsLate, engVars
  <2>2. QED
    BY <1>10, <1>11, <2>1
<1>12. CASE BeginTick \/ EndDispatch \/ SkipDispatch
  <2>1. /\ pc \in {"loop", "inner"} /\ pc' \in {"inner", "next"}
        /\ UNCHANGED <<obs, outcome, asked, orders>>
    BY <1>12 DEF BeginTick, EndDispatch, SkipDispatch, vars, epVars, engVars
  <2>2. QED
    BY <1>3, <2>1, StageOf, StageAfter
<1>13. ASSUME NEW d \in Deliveries, NEW terminal \in BOOLEAN, EngineTicks(d, terminal)
       PROVE  UNCHANGED Protocol!vars
  <2>1. /\ pc = "ticking" /\ pc' = "ticked" /\ UNCHANGED <<obs, outcome, asked, orders>>
    BY <1>13 DEF EngineTicks, vars, epVars, engVars
  <2>2. QED
    BY <1>3, <2>1, StageOf, StageAfter
<1>14. CASE Connect
  <2>1. pc = "connect" /\ pc' = "start" /\ UNCHANGED <<obs, outcome, asked, orders>>
    BY <1>14 DEF Connect, vars, epVars, engVars
  <2>2. QED
    BY <1>3, <2>1, StageOf, StageAfter
<1>15. CASE FillHoles \/ BeginDispatch \/ RivalTakesOver \/ RivalPlays \/ UNCHANGED episode
  BY <1>10, <1>15
     DEF FillHoles, Reconcile, BeginDispatch, RunDispatch, RivalTakesOver, RivalPlays, engVars,
         vars, epVars, episode
<1>16. CASE IntakeReturns \/ IntakeRaises
  BY <1>10, <1>16, IntakeEffect DEF vars, engVars
<1>17. QED
  BY <1>4, <1>5, <1>6, <1>7, <1>8, <1>9, <1>11, <1>12, <1>13, <1>14, <1>15, <1>16, EpisodeStepCases
     DEF OuterStep, NoKey, EngineCallFails, DispatchShipped, DispatchFails, HoleFails,
         NextTickFails, CloseFails, Ended

\* Whatever the model, the engine and its other clients do, an episode is the
\* simple protocol: one request to leave each tick, and the verdict of the end.
THEOREM EpisodeImplementsTickProtocol == EpisodeSpec => ImplementsTickProtocol
<1>1. EpisodeInit => Protocol!Init
  BY StageOf DEF EpisodeInit, Protocol!Init, NoObs
<1>2. EpisodeInv /\ [EpisodeNext]_episode => [Protocol!Next]_(Protocol!vars)
  BY EpisodeStepIsProtocolStep
<1>3. QED
  BY <1>1, <1>2, EpisodeAlways, PTL DEF EpisodeSpec, ImplementsTickProtocol, Protocol!Spec
=============================================================================
