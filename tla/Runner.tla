------------------------------- MODULE Runner -------------------------------
(***************************************************************************)
(* runner.py: run_episode, its tick loop and _process_tick, over Dispatch  *)
(* (run_dispatch and its tools) and the engine's clock.                    *)
(*                                                                         *)
(* The runner is one asyncio task; it stops at each await until that call  *)
(* returns or raises, for ever if it does neither, and nothing in          *)
(* run_episode catches what is raised.                                     *)
(*                                                                         *)
(* External: the engine (how runner.py and engine_client.py use it), the   *)
(* rival clients that take its control (mcp-play/README.md:33), and what   *)
(* fills the holes of _process_tick: with built = {} the repository as it  *)
(* ships, otherwise what Dispatch's Reconcile and its agent loop allow,    *)
(* and at most one intake call for each human contact (runner.py:129).     *)
(***************************************************************************)
EXTENDS Dispatch, SequencesExt

CONSTANTS
  Horizon,        \* the engine ends every episode by this tick
  Deliveries,     \* the lists of contacts an observation may carry
  Sensors,        \* the contacts that are typed truck observations
  UseLLM,         \* the values of run_episode's use_llm (--no-llm is FALSE)
  Builds          \* the sets of holes that may have been filled

Holes    == {"intake", "reconcile", "state_message", "agent_loop"}
Contacts == UNION {ToSet(d) : d \in Deliveries}

ASSUME HorizonAssumption == Horizon \in Nat \ {0} /\ Ticks = 0..Horizon
ASSUME BuildsAssumption  == Builds \subseteq SUBSET Holes /\ UseLLM \subseteq BOOLEAN
ASSUME DeliveriesAssumption == \A d \in Deliveries : d \in Seq(Contacts)
ASSUME NoneIsNoCause ==
  None \notin {"EngineError", "RuntimeError", "hole", "NotImplementedError", "provider", "close", "outcome"}

VARIABLES
  pc,               \* "connect", "start", "loop", "inner", "next", "ticking",
                    \* "ticked", "done" or "aborted"
  built,            \* the holes filled in this program; never written
  use_llm,          \* Episode.use_llm
  obs,              \* the observation in hand: tick, lifecycle, contacts
  seen,             \* Episode.seen
  intake_tokens, dispatch_tokens,  \* Episode's totals, in provider calls
  outcome,          \* run_episode's outcome
  cause,            \* the exception that ended the episode, if one did
  eTick, eLife, eHolder,  \* the engine: its clock, lifecycle, controlling client
  eTokens,          \* the totals on the engine's wall display, <<intake, dispatch>>
  reply,            \* its response to the next_tick under way
  human, sensor,    \* history: how often each contact went to intake or passthrough
  asked,            \* history: expected_tick of every next_tick sent, in order
  intake_billed,    \* history: provider calls billed to intake
  intake_raised     \* history: intake's provider calls that raised

intakeVars == <<intake_tokens, intake_billed, intake_raised>>
epVars   == <<built, use_llm, obs, seen, intakeVars, dispatch_tokens, outcome, cause, human, sensor, asked>>
engine   == <<eTick, eLife, eHolder, eTokens, reply>>
episode  == <<vars, pc, epVars, engine>>

Running == "running"
NoObs   == [tick |-> 0, lifecycle |-> "none", contacts |-> <<>>]

----------------------------------------------------------------------------
(* Leaving run_episode by an exception. *)
Abort(why) ==
  /\ pc' = "aborted" /\ cause' = why
  /\ UNCHANGED <<vars, built, use_llm, obs, seen, intakeVars, dispatch_tokens, outcome, human, sensor, asked, engine>>

\* Any failure of a call of the engine while the runner waits for it: refused,
\* or no answer.  What the engine did with the request is a step of its own.
EngineCallFails ==
  /\ pc \in {"connect", "start"}
  /\ Abort("EngineError")

\* Entering `async with`: the newest session takes control of the engine.
Connect ==
  /\ pc = "connect" /\ pc' = "start" /\ eHolder' = "runner"
  /\ UNCHANGED <<vars, epVars, eTick, eLife, eTokens, reply>>

\* Episode.__post_init__: llm_client raises when no API key is set.
NoKey ==
  /\ pc = "start" /\ use_llm
  /\ Abort("RuntimeError")

StartEpisode(contacts) ==
  /\ pc = "start" /\ eHolder = "runner"
  /\ pc' = "loop" /\ eTick' = 0 /\ eLife' = Running /\ eTokens' = None
  /\ obs' = [tick |-> 0, lifecycle |-> Running, contacts |-> contacts]
  /\ outcome' = None
  /\ UNCHANGED <<vars, built, use_llm, seen, intakeVars, dispatch_tokens, cause, human, sensor, asked, eHolder, reply>>

----------------------------------------------------------------------------
(* _process_tick *)

\* The loop over obs["contacts"], turn by turn: a contact id met in an earlier
\* observation, or in an earlier turn, was marked then, and is skipped.
Met(c, k) == c \in seen \/ \E j \in 1..(k - 1) : obs.contacts[j] = c
TurnsUnmarked(c) ==
  {k \in DOMAIN obs.contacts : obs.contacts[k] = c /\ (c \in Sensors \/ ~Met(c, k))}
Turns(c) == {k \in DOMAIN obs.contacts : obs.contacts[k] = c /\ ~Met(c, k)}

\* Any other is marked and goes to intake or, a typed sensor reading, past it.
Route ==
  /\ seen' = seen \cup ToSet(obs.contacts)
  /\ human'  = [c \in Contacts |-> IF c \in Sensors THEN human[c]
                                   ELSE human[c] + Cardinality(Turns(c))]
  /\ sensor' = [c \in Contacts |-> IF c \in Sensors THEN sensor[c] + Cardinality(Turns(c))
                                   ELSE sensor[c]]

\* The body up to its first await; with the holes empty, all of it but dispatch.
BeginTickStale ==
  /\ pc = "loop" /\ obs.lifecycle = Running
  /\ pc' = "inner" /\ Route
  /\ UNCHANGED <<vars, built, use_llm, obs, intakeVars, dispatch_tokens, outcome, cause, asked, engine>>
BeginTick ==
  /\ pc = "loop" /\ obs.lifecycle = Running
  /\ pc' = "inner" /\ ep_tick' = obs.tick /\ Route
  /\ UNCHANGED <<storeVars, loopVars, calls, dispatches, engVars>>
  /\ UNCHANGED <<built, use_llm, obs, intakeVars, dispatch_tokens, outcome, cause, asked, engine>>

\* The intake hole, filled: a provider call for each human contact at most, whose
\* usage is added when extract_report() returns it.  When that raises, the call
\* may have been billed (see Intake), and the hole may yet go on.
IntakeCallable ==
  /\ pc = "inner" /\ loop = "idle" /\ "intake" \in built
  /\ intake_tokens + intake_raised < Cardinality(seen \ Sensors)
IntakeReturns ==
  /\ IntakeCallable
  /\ intake_tokens' = intake_tokens + 1 /\ intake_billed' = intake_billed + 1
  /\ UNCHANGED <<vars, pc, built, use_llm, obs, seen, intake_raised, dispatch_tokens, outcome, cause>>
  /\ UNCHANGED <<human, sensor, asked, engine>>
IntakeRaises ==
  /\ IntakeCallable
  /\ intake_raised' = intake_raised + 1 /\ intake_billed' \in {intake_billed, intake_billed + 1}
  /\ UNCHANGED <<vars, pc, built, use_llm, obs, seen, intake_tokens, dispatch_tokens, outcome, cause>>
  /\ UNCHANGED <<human, sensor, asked, engine>>

\* The reconcile hole, filled: calls of the store's mutators at this tick.  Either
\* hole may raise.
HolesRun == built \cap {"intake", "reconcile"} # {}
FillHoles ==
  /\ pc = "inner" /\ "reconcile" \in built
  /\ Reconcile(obs.tick)
  /\ UNCHANGED <<pc, epVars, engine>>
HoleFails ==
  /\ pc = "inner" /\ loop = "idle" /\ HolesRun
  /\ Abort("hole")

\* run_dispatch builds its state message before it enters the agent loop; as
\* shipped each of the two raises.
DispatchShipped ==
  /\ pc = "inner" /\ use_llm /\ loop = "idle"
  /\ ~({"state_message", "agent_loop"} \subseteq built)
  /\ Abort("NotImplementedError")
BeginDispatch ==
  /\ pc = "inner" /\ use_llm
  /\ {"state_message", "agent_loop"} \subseteq built
  /\ RunDispatch(obs.tick)
  /\ UNCHANGED <<pc, epVars, engine>>
SkipDispatch ==
  /\ pc = "inner" /\ ~use_llm
  /\ pc' = "next"
  /\ UNCHANGED <<vars, epVars, engine>>

\* What runs while _process_tick awaits run_dispatch.
AgentLoop   == pc = "inner" /\ Loop /\ UNCHANGED <<pc, epVars, engine>>
ToolRuns    == pc = "inner" /\ (\E c \in Slots : RunTool(c)) /\ UNCHANGED <<pc, epVars, engine>>
CallReturns == pc = "inner" /\ Answered /\ UNCHANGED <<pc, epVars, engine>>

\* run_dispatch returns: its usage joins the episode's totals.
EndDispatchUnawaited ==
  /\ pc = "inner" /\ loop \in {"model", "tools", "returned"}
  /\ pc' = "next" /\ loop' = "idle" /\ dispatch_tokens' = dispatch_tokens + usage
  /\ UNCHANGED <<storeVars, ep_tick, tick, rounds, usage, billed, calls, dispatches, engVars>>
  /\ UNCHANGED <<built, use_llm, obs, seen, intakeVars, outcome, cause, human, sensor, asked, engine>>
EndDispatchUncounted ==
  /\ pc = "inner" /\ loop = "returned"
  /\ pc' = "next" /\ loop' = "idle" /\ dispatch_tokens' = usage
  /\ UNCHANGED <<storeVars, ep_tick, tick, rounds, usage, billed, calls, dispatches, engVars>>
  /\ UNCHANGED <<built, use_llm, obs, seen, intakeVars, outcome, cause, human, sensor, asked, engine>>
EndDispatch ==
  /\ pc = "inner" /\ loop = "returned"
  /\ pc' = "next" /\ loop' = "idle" /\ dispatch_tokens' = dispatch_tokens + usage
  /\ UNCHANGED <<storeVars, ep_tick, tick, rounds, usage, billed, calls, dispatches, engVars>>
  /\ UNCHANGED <<built, use_llm, obs, seen, intakeVars, outcome, cause, human, sensor, asked, engine>>

DispatchFailsRetried ==
  /\ pc = "inner" /\ loop = "raised"
  /\ IF billed > dispatch_tokens THEN Abort("provider")
     ELSE /\ loop' = "idle"
          /\ UNCHANGED <<storeVars, ep_tick, tick, rounds, usage, billed, calls, dispatches, engVars>>
          /\ UNCHANGED <<pc, epVars, engine>>
\* run_dispatch raises, and with it the episode: the run's usage is lost.
\* (DispatchFailsRetried: tries a run again that has cost nothing.)
DispatchFails ==
  /\ pc = "inner" /\ loop = "raised"
  /\ Abort("provider")

----------------------------------------------------------------------------
(* run_episode's loop around it. *)

SendNextTick ==
  /\ pc = "next"
  /\ pc' = "ticking" /\ asked' = Append(asked, obs.tick)
  /\ UNCHANGED <<vars, built, use_llm, obs, seen, intakeVars, dispatch_tokens, outcome, cause, human, sensor, engine>>

HearNextTickKeeping ==
  /\ pc = "ticked"
  /\ pc' = "loop"
  /\ obs' = [tick |-> reply.tick, lifecycle |-> reply.lifecycle, contacts |-> reply.contacts]
  /\ UNCHANGED <<vars, built, use_llm, seen, intakeVars, dispatch_tokens, outcome, cause, human, sensor, asked, engine>>
HearNextTick ==
  /\ pc = "ticked"
  /\ pc' = "loop"
  /\ obs' = [tick |-> reply.tick, lifecycle |-> reply.lifecycle, contacts |-> reply.contacts]
  /\ outcome' = reply.outcome
  /\ UNCHANGED <<vars, built, use_llm, seen, intakeVars, dispatch_tokens, cause, human, sensor, asked, engine>>

NextTickFails ==
  /\ pc \in {"ticking", "ticked"}
  /\ Abort("EngineError")

\* Terminal: out of the loop, the session closed, the summary returned; unless
\* closing it raises (see EngineSession), which loses the summary.
Return ==
  /\ pc = "loop" /\ obs.lifecycle # Running
  /\ pc' = "done"
  /\ UNCHANGED <<vars, epVars, engine>>
CloseFails ==
  /\ pc = "loop" /\ obs.lifecycle # Running
  /\ Abort("close")

----------------------------------------------------------------------------
(* The engine. *)

\* A command counts only from the client in control and for the current tick.
InControl(expected) == eHolder = "runner" /\ eLife = Running /\ expected = eTick

EngineTicks(contacts, terminal) ==
  /\ pc = "ticking" /\ InControl(asked[Len(asked)])
  /\ terminal \/ eTick + 1 < Horizon
  /\ pc' = "ticked"
  /\ eTick' = eTick + 1 /\ eTokens' = <<intake_tokens, dispatch_tokens>>
  /\ eLife' = IF terminal THEN "terminal" ELSE Running
  /\ reply' = [tick |-> eTick', lifecycle |-> eLife', contacts |-> contacts,
               outcome |-> IF terminal THEN "outcome" ELSE None]
  /\ UNCHANGED <<vars, epVars, eHolder>>

EngineHandlesDispatch ==
  /\ \/ \E c \in Slots : /\ calls[c].state = "sent"
                         /\ \/ InControl(calls[c].order.expected) /\ EngineAccepts(c)
                            \/ EngineRefuses(c)
     \/ \E o \in late : \/ InControl(o.expected) /\ EngineAcceptsLate(o)
                        \/ EngineDropsLate(o)
  /\ UNCHANGED <<pc, epVars, engine>>

\* Another client connects, and plays.
RivalTakesOver ==
  /\ eHolder = "runner" /\ eHolder' = "rival"
  /\ UNCHANGED <<vars, pc, epVars, eTick, eLife, eTokens, reply>>
RivalPlays ==
  /\ eHolder = "rival"
  /\ \/ eTick' = 0 /\ eLife' = Running
     \/ eLife = Running /\ eTick < Horizon /\ eTick' = eTick + 1 /\ eLife' \in {Running, "terminal"}
  /\ UNCHANGED <<vars, pc, epVars, eHolder, eTokens, reply>>

----------------------------------------------------------------------------
EpisodeInit ==
  /\ Store!Init
  /\ ep_tick = 0 /\ tick = 0 /\ loop = "idle" /\ rounds = 0 /\ usage = 0 /\ billed = 0
  /\ calls = [c \in Slots |-> Idle] /\ dispatches = {}
  /\ orders = {} /\ late = {} /\ unheard = {}
  /\ pc = "connect" /\ built \in Builds /\ use_llm \in UseLLM /\ obs = NoObs /\ seen = {}
  /\ intake_tokens = 0 /\ intake_billed = 0 /\ intake_raised = 0 /\ dispatch_tokens = 0
  /\ outcome = None /\ cause = None
  /\ eTick = 0 /\ eLife = "none" /\ eHolder = "nobody" /\ eTokens = None /\ reply = None
  /\ human = [c \in Contacts |-> 0] /\ sensor = [c \in Contacts |-> 0] /\ asked = <<>>

\* The steps of the runner's own task, with the answers it waits for.
Task ==
  \/ Connect \/ NoKey \/ EngineCallFails
  \/ \E d \in Deliveries : StartEpisode(d)
  \/ BeginTick
  \/ DispatchShipped \/ BeginDispatch \/ SkipDispatch
  \/ AgentLoop \/ ToolRuns \/ CallReturns
  \/ EndDispatch \/ DispatchFails
  \/ SendNextTick \/ HearNextTick \/ NextTickFails
  \/ Return \/ CloseFails

Environment ==
  \/ IntakeReturns \/ IntakeRaises \/ FillHoles \/ HoleFails
  \/ \E d \in Deliveries, terminal \in BOOLEAN : EngineTicks(d, terminal)
  \/ EngineHandlesDispatch
  \/ RivalTakesOver \/ RivalPlays

EpisodeNext == Task \/ Environment

EpisodeSpec == EpisodeInit /\ [][EpisodeNext]_episode

\* Where the runner waits for others: for the engine to answer (each call of the
\* session, its opening and its closing, and tool calls), for a model provider, or
\* for the holes to be done, which may call either.  No call has to end:
\* engine_client.py:35 and 47 set no read timeout.
Awaiting ==
  \/ pc \in {"connect", "start", "ticking", "ticked"}
  \/ pc = "loop" /\ obs.lifecycle # Running
  \/ pc = "inner" /\ loop = "idle" /\ HolesRun
  \/ pc = "inner" /\ loop = "model" /\ rounds < MaxRounds
  \/ pc = "inner" /\ loop = "tools" /\ \E c \in Slots : calls[c].state \notin {"idle", "answered"}

\* The event loop runs a task that waits for nobody.
FairSpec == EpisodeSpec /\ WF_episode(Task /\ ~Awaiting)

----------------------------------------------------------------------------
Ended == {"done", "aborted"}

\* Every variable has its type.
EpisodeTypeOK ==
  /\ TypeOK
  /\ pc \in {"connect", "start", "loop", "inner", "next", "ticking", "ticked"} \cup Ended
  /\ obs.tick \in Ticks /\ obs.lifecycle \in {Running, "terminal", "none"}
  /\ built \in Builds /\ use_llm \in UseLLM /\ seen \subseteq Contacts
  /\ intake_tokens \in Nat /\ intake_billed \in Nat /\ intake_raised \in Nat /\ dispatch_tokens \in Nat
  /\ outcome \in {None, "outcome"}
  /\ cause = None <=> pc # "aborted"
  /\ eTick \in Ticks /\ eLife \in {Running, "terminal", "none"}
  /\ eHolder \in {"nobody", "runner", "rival"} /\ eTokens \in {None} \cup (Nat \X Nat)
  /\ human \in [Contacts -> Nat] /\ sensor \in [Contacts -> Nat]
  /\ asked \in Seq(Ticks)

\* The episode as it looks from outside.
Stage ==
  CASE pc \in {"connect", "start"}       -> "idle"
    [] pc \in {"loop", "inner", "next"}  -> "acting"
    [] pc \in {"ticking", "ticked"}      -> "advancing"
    [] pc = "done"                       -> "done"
    [] pc = "aborted"                    -> "failed"
Protocol == INSTANCE TickProtocol WITH
  stage <- Stage, clock <- obs.tick, over <- (obs.lifecycle = "terminal"),
  verdict <- (outcome # None), asks <- asked, served <- {o.tick : o \in orders}

\* Whatever the model, the engine and its other clients do, and whatever fails,
\* an episode is the simple protocol (run_episode, "exactly one next_tick per
\* tick"): it acts on each tick, then asks once to leave it, never again when the
\* answer was lost, and returns a summary only of an episode the engine
\* has ended, with the outcome of that response.
ImplementsTickProtocol == Protocol!Spec

\* The agent acts on the present: while the runner controls the engine, what
\* it decides on (its observation), what it tells the engine to expect and the
\* engine's clock agree, all through the tick's awaits.
ActsOnTheCurrentTick ==
  pc \in {"inner", "next", "ticking"} /\ eHolder = "runner" =>
    ep_tick = obs.tick /\ obs.tick = eTick /\ eLife = Running

\* No order lands in a later tick than the one it was decided on, nor under
\* another client's episode, however late its request reaches the engine.
OrdersLandInTheirTick ==
  [][\A o \in orders' \ orders : o.tick = eTick /\ eHolder = "runner"]_episode

\* The clock never moves under an unfinished run_dispatch: no tool call is
\* waiting for its answer when next_tick is called (dispatch.py:8-10).
NothingInFlightAcrossTicks ==
  pc \in {"loop", "next", "ticking", "ticked", "done"} =>
    loop = "idle" /\ \A c \in Slots : calls[c].state \in {"idle", "answered"}

\* Every contact of every observation processed was handed on exactly once, to
\* one of the two paths, whatever the engine redelivers.
EachContactRoutedOnce ==
  /\ \A c \in Contacts : human[c] + sensor[c] = IF c \in seen THEN 1 ELSE 0
  /\ \A c \in Contacts : sensor[c] > 0 => c \in Sensors
  /\ pc \in {"inner", "next", "ticking", "ticked"} => ToSet(obs.contacts) \subseteq seen

\* Usage is counted once, and lost only with a call or a run that raised.  Of
\* intake's bill at most the calls that raised are missing from its total.  The
\* dispatch total and the run under way are the dispatch bill; so what the display
\* shows for dispatch at each tick, and what a completed episode prints, is the
\* whole of it.  Only a run that raised, and with it the episode, has its
\* usage in no total, and perhaps one call more (runner.py:131, 142-145, 169).
TokensBalance ==
  /\ intake_billed - intake_raised <= intake_tokens /\ intake_tokens <= intake_billed
  /\ IF loop = "raised"
     THEN dispatch_tokens + usage \in {billed - 1, billed}
     ELSE dispatch_tokens + (IF loop = "idle" THEN 0 ELSE usage) = billed
  /\ pc = "ticked" => eTokens = <<intake_tokens, billed>>

\* Beliefs carry no tick from the future, and none older than its creation.
BeliefsAreDated ==
  \A i \in DOMAIN incidents :
    /\ incidents[i].created_tick <= incidents[i].updated_tick
    /\ incidents[i].updated_tick <= ep_tick

\* The runner never spins: its place in the code and its calls come to rest, and
\* the episode has ended, or the runner waits at one await for an answer that
\* never comes.  A model that never yields, refused commands, failures and rival
\* clients cannot keep it going: rounds and ticks are bounded, and nothing that
\* failed is tried again (dispatch.py:131, runner.py:165-171).
Terminates ==
  /\ <>[][FALSE]_<<pc, loopVars, calls>>
  /\ <>(pc \in Ended) \/ <>[]Awaiting

\* README.md:58 "Out of the box the inner loop is empty, so the shell ticks
\* cleanly to terminal": no episode ends for want of the unfilled holes.
TicksCleanlyToTerminal == cause # "NotImplementedError"
=============================================================================
