------------------------------ MODULE Dispatch ------------------------------
(***************************************************************************)
(* dispatch.py: one run_dispatch, with runner.Episode as its tool backend. *)
(*                                                                         *)
(* run_dispatch hands a tool executor, _run_tool, to an agent loop that    *)
(* lives outside this code base (agent.agent_loop is a hole to be filled;  *)
(* the features also run against a reference package that is not here).    *)
(* So the loop is the most general one run_dispatch can be given: up to    *)
(* MaxRounds calls of the model provider, each of which may fail; any set  *)
(* of tool calls per round, with any arguments, run in any order or at     *)
(* once; every call answered before the next round (LOOP-2, LOOP-5).       *)
(*                                                                         *)
(* The engine is external too.  Each command is a request the engine may   *)
(* accept or refuse, and whose response may be lost; a request the client  *)
(* has given up on may still reach the engine later.                       *)
(***************************************************************************)
EXTENDS Naturals, FiniteSets, Sequences

CONSTANTS
  None, Texts, ReportIds, Ticks, Statuses, MaxSeq,  \* see IncidentStore
  Slots,      \* positions of the tool calls within one assistant turn
  Trucks,     \* vehicle ids
  MaxRounds   \* run_dispatch's max_rounds

ASSUME RoundsAssumption == MaxRounds \in Nat
ASSUME ReasonAssumption == "closed by dispatch" \in Texts
ASSUME StoreAssumption ==   \* what IncidentStore asks of its constants
  /\ None \notin Texts /\ None \notin Statuses /\ None \notin Ticks
  /\ None \notin {"UnknownIncidentError", "ValueError", "TypeError"}
  /\ Ticks \subseteq Nat /\ {"open", "closed"} \subseteq Statuses /\ "" \in Texts
  /\ MaxSeq \in Nat

VARIABLES
  incidents, seq, raised,  \* the IncidentStore
  ep_tick,     \* Episode.tick: what every engine command carries as expected_tick
  tick,        \* run_dispatch's own argument `tick`
  loop,        \* where the run is: "idle", "model", "tools", "returned", "raised"
  rounds,      \* LoopResult.rounds
  calls,       \* the tool calls of the current round, one per slot
  dispatches,  \* DispatchResult.dispatches, as a set: entries differ by slot or round
  usage,       \* DispatchResult.usage, in provider calls
  orders,      \* the engine's side: every order it accepted from this client
  late,        \* requests given up by the client that the engine may still receive
  unheard,     \* history: accepted orders whose acceptance never reached the client
  billed       \* history: provider calls billed to dispatch in the whole episode

\* _run_tool's update() passes only the fields the model gave of these two.
Store == INSTANCE IncidentStore WITH CallerNames <- {"status", "notes"}

storeVars == <<incidents, seq, raised>>
loopVars  == <<tick, loop, rounds, usage, billed>>
engVars   == <<orders, late, unheard>>
vars == <<storeVars, ep_tick, loopVars, calls, dispatches, engVars>>

Filed == DOMAIN incidents        \* the ids IncidentStore.get answers for
Order == [round: 1..MaxRounds, slot: Slots, tick: Ticks, expected: Ticks,
          vehicle: Trucks, incident: 1..MaxSeq]

(***************************************************************************)
(* A tool call is idle (none in this slot), issued by the model, sent to   *)
(* the engine, accepted or refused there with the response on its way, or  *)
(* answered to the model.                                                  *)
(***************************************************************************)
InFlight  == {"sent", "accepted", "refused"}
Idle      == [state |-> "idle", order |-> None]
Call      == [state: {"idle", "issued", "answered"}, order: {None}]
             \cup [state: InFlight, order: Order]

Move(c, state) == calls' = [calls EXCEPT ![c].state = state]
Answer(c) == calls' = [calls EXCEPT ![c] = [state |-> "answered", order |-> None]]

----------------------------------------------------------------------------
(* run_dispatch and the agent loop it is given. *)

\* A fresh DispatchResult; the loop starts from the state message.
RunDispatch(t) ==
  /\ loop = "idle"
  /\ loop' = "model" /\ tick' = t /\ rounds' = 0 /\ usage' = 0
  /\ calls' = [c \in Slots |-> Idle] /\ dispatches' = {}
  /\ UNCHANGED <<storeVars, ep_tick, engVars, billed>>

\* One provider call that answers with a turn of tool calls, S not empty, ...
ModelCalls(S) ==
  /\ loop = "model" /\ rounds < MaxRounds /\ S # {}
  /\ loop' = "tools"
  /\ rounds' = rounds + 1 /\ usage' = usage + 1 /\ billed' = billed + 1
  /\ calls' = [c \in Slots |-> IF c \in S THEN [Idle EXCEPT !.state = "issued"] ELSE Idle]
  /\ UNCHANGED <<storeVars, ep_tick, tick, dispatches, engVars>>

\* ... or yields, which ends the run; so does reaching the round cap.
ModelYields ==
  /\ loop = "model" /\ rounds < MaxRounds
  /\ loop' = "returned"
  /\ rounds' = rounds + 1 /\ usage' = usage + 1 /\ billed' = billed + 1
  /\ UNCHANGED <<storeVars, ep_tick, tick, calls, dispatches, engVars>>

CapReached ==
  /\ loop = "model" /\ rounds = MaxRounds
  /\ loop' = "returned"
  /\ UNCHANGED <<storeVars, ep_tick, tick, rounds, usage, billed, calls, dispatches, engVars>>

\* The provider call raises, or what the loop does with its answer does; it may
\* have been billed, and nothing in run_dispatch catches it.
ProviderFails ==
  /\ loop = "model" /\ rounds < MaxRounds
  /\ loop' = "raised" /\ billed' \in {billed, billed + 1}
  /\ UNCHANGED <<storeVars, ep_tick, tick, rounds, usage, calls, dispatches, engVars>>

\* Every call of the turn has its answer: on to the next round.
TurnAnswered ==
  /\ loop = "tools"
  /\ \A c \in Slots : calls[c].state \in {"idle", "answered"}
  /\ loop' = "model"
  /\ UNCHANGED <<storeVars, ep_tick, tick, rounds, usage, billed, calls, dispatches, engVars>>

----------------------------------------------------------------------------
(* _run_tool, one action per branch.  Branches without an await are one    *)
(* step of the event loop; the dispatch branch is cut at its await.        *)

Issued(c) == loop = "tools" /\ calls[c].state = "issued"

\* The reason recorded by a close: the notes, or a default for absent or "".
CloseReasonBare(notes) == IF notes = None THEN "" ELSE notes
CloseReason(notes) == IF notes \in {None, ""} THEN "closed by dispatch" ELSE notes

\* file_incident_update: None stands for an argument left out or null.
FileByUpdate(i, status, notes) ==
  Store!Update(i, tick, {"status"}, [status |-> status, notes |-> notes])
FileUpdate(i, status, notes) ==
  IF status = "closed" THEN Store!Close(i, CloseReason(notes), tick)
  ELSE Store!Update(i, tick,
         (IF status # None THEN {"status"} ELSE {}) \cup (IF notes # None THEN {"notes"} ELSE {}),
         [status |-> status, notes |-> notes])

FileIncidentUpdate(c, i, status, notes) ==
  /\ Issued(c)
  /\ IF i \in Filed THEN FileUpdate(i, status, notes) ELSE UNCHANGED storeVars
  /\ Answer(c)
  /\ UNCHANGED <<ep_tick, loopVars, dispatches, engVars>>

\* The command Episode.dispatch builds: run_dispatch's tick decided it, the
\* Episode's tick is what the engine is told to expect.
CommandNextTick(c, v, i) ==
  [round |-> rounds, slot |-> c, tick |-> tick, expected |-> ep_tick + 1,
   vehicle |-> v, incident |-> i]
Command(c, v, i) ==
  [round |-> rounds, slot |-> c, tick |-> tick, expected |-> ep_tick,
   vehicle |-> v, incident |-> i]

\* dispatch: only a filed incident may be served; then the request leaves.
DispatchUnchecked(c, v, i) ==
  /\ Issued(c)
  /\ calls' = [calls EXCEPT ![c] = [state |-> "sent", order |-> Command(c, v, i)]]
  /\ UNCHANGED <<storeVars, ep_tick, loopVars, dispatches, engVars>>
DispatchTruck(c, v, i) ==
  /\ Issued(c)
  /\ IF i \in Filed
     THEN calls' = [calls EXCEPT ![c] = [state |-> "sent", order |-> Command(c, v, i)]]
     ELSE Answer(c)
  /\ UNCHANGED <<storeVars, ep_tick, loopVars, dispatches, engVars>>

\* building_to_coords, travel_time, an unknown tool, arguments missing or of
\* the wrong shape: the model gets a result or an error, no state changes.
OtherTool(c) ==
  /\ Issued(c) /\ Answer(c)
  /\ UNCHANGED <<storeVars, ep_tick, loopVars, dispatches, engVars>>

HearNothing(c) ==
  /\ loop = "tools" /\ calls[c].state \in {"accepted", "refused"}
  /\ Answer(c)
  /\ UNCHANGED <<storeVars, ep_tick, loopVars, dispatches, engVars>>
\* The engine's answer arrives: an acceptance is recorded, all is answered.
HearAnything(c) ==
  /\ loop = "tools" /\ calls[c].state \in {"accepted", "refused"}
  /\ dispatches' = dispatches \cup {calls[c].order}
  /\ Answer(c)
  /\ UNCHANGED <<storeVars, ep_tick, loopVars, engVars>>
HearAnswer(c) ==
  /\ loop = "tools" /\ calls[c].state \in {"accepted", "refused"}
  /\ dispatches' = IF calls[c].state = "accepted"
                   THEN dispatches \cup {calls[c].order} ELSE dispatches
  /\ Answer(c)
  /\ UNCHANGED <<storeVars, ep_tick, loopVars, engVars>>

\* (CallFailsRetried: what a retry inside the call would do.)
CallFailsRetried(c) ==
  /\ loop = "tools" /\ calls[c].state \in InFlight
  /\ late' = IF calls[c].state = "sent" THEN late \cup {calls[c].order} ELSE late
  /\ Move(c, "sent")
  /\ UNCHANGED <<storeVars, ep_tick, loopVars, dispatches, orders, unheard>>

\* The call raises instead: _run_tool turns it into an error for the model,
\* whatever the engine has made, or will make, of the request.
CallFails(c) ==
  /\ loop = "tools" /\ calls[c].state \in InFlight
  /\ late' = IF calls[c].state = "sent" THEN late \cup {calls[c].order} ELSE late
  /\ unheard' = IF calls[c].state = "accepted"
                THEN unheard \cup {calls[c].order} ELSE unheard
  /\ Answer(c)
  /\ UNCHANGED <<storeVars, ep_tick, loopVars, dispatches, orders>>

----------------------------------------------------------------------------
(* The engine's end of a dispatch command. *)

EngineAccepts(c) ==
  /\ calls[c].state = "sent"
  /\ orders' = orders \cup {calls[c].order} /\ Move(c, "accepted")
  /\ UNCHANGED <<storeVars, ep_tick, loopVars, dispatches, late, unheard>>

EngineRefuses(c) ==
  /\ calls[c].state = "sent"
  /\ Move(c, "refused")
  /\ UNCHANGED <<storeVars, ep_tick, loopVars, dispatches, engVars>>

EngineAcceptsLate(o) ==
  /\ o \in late
  /\ orders' = orders \cup {o} /\ unheard' = unheard \cup {o} /\ late' = late \ {o}
  /\ UNCHANGED <<storeVars, ep_tick, loopVars, calls, dispatches>>

EngineDropsLate(o) ==
  /\ o \in late
  /\ late' = late \ {o}
  /\ UNCHANGED <<storeVars, ep_tick, loopVars, calls, dispatches, orders, unheard>>

----------------------------------------------------------------------------
(***************************************************************************)
(* The step before run_dispatch: reconciliation (a hole) writing beliefs   *)
(* of the tick through the store's methods.  It writes notes (which stand  *)
(* for every free-form field), links reports, and retires incidents with   *)
(* close() and a reason; it leaves status and bookkeeping fields alone.    *)
(***************************************************************************)
Reconcile(t) ==
  /\ loop = "idle"
  /\ \/ \E n \in Texts : Store!Open(t, {"notes"}, [notes |-> n])
     \/ \E i \in Filed, r \in ReportIds : Store!Link(i, r, t)
     \/ \E i \in Filed, n \in Texts : Store!Update(i, t, {"notes"}, [notes |-> n])
     \/ \E i \in Filed, n \in Texts \ {""} : Store!Close(i, n, t)
  /\ UNCHANGED <<ep_tick, loopVars, calls, dispatches, engVars>>

Ids == 0..MaxSeq   \* ids a model may name; 0 and unopened ids are not filed

RunTool(c) ==
  \/ \E i \in Ids, s \in Statuses \cup {None}, n \in Texts \cup {None} :
       FileIncidentUpdate(c, i, s, n)
  \/ \E v \in Trucks, i \in Ids : DispatchTruck(c, v, i)
  \/ OtherTool(c)

Loop ==
  \/ \E S \in SUBSET Slots : ModelCalls(S)
  \/ ModelYields
  \/ CapReached
  \/ ProviderFails
  \/ TurnAnswered

Answered == \E c \in Slots : HearAnswer(c) \/ CallFails(c)

----------------------------------------------------------------------------
(* One tick on its own, as features/dispatch.feature drives it. *)

Init ==
  /\ Store!Init
  /\ \E t \in Ticks : tick = t /\ ep_tick = t
  /\ loop = "idle" /\ rounds = 0 /\ usage = 0 /\ billed = 0
  /\ calls = [c \in Slots |-> Idle] /\ dispatches = {}
  /\ orders = {} /\ late = {} /\ unheard = {}

Next ==
  \/ Reconcile(tick)
  \/ RunDispatch(tick)
  \/ Loop
  \/ \E c \in Slots : RunTool(c)
  \/ Answered
  \/ \E c \in Slots : EngineAccepts(c) \/ EngineRefuses(c)
  \/ \E o \in late : EngineAcceptsLate(o) \/ EngineDropsLate(o)

Spec == Init /\ [][Next]_vars

----------------------------------------------------------------------------
CallsOK == calls \in [Slots -> Call]

\* Every variable has its type; an order only exists for a call of a past or
\* present round.
TypeOK ==
  /\ Store!TypeOK
  /\ ep_tick \in Ticks /\ tick \in Ticks
  /\ loop \in {"idle", "model", "tools", "returned", "raised"}
  /\ rounds \in 0..MaxRounds /\ usage \in Nat /\ billed \in Nat
  /\ CallsOK
  /\ dispatches \subseteq Order
  /\ orders \subseteq Order /\ late \subseteq Order /\ unheard \subseteq Order

\* Only filed incidents are served: whatever ids the model makes up, and
\* however late a command arrives, every order the engine ever accepted names
\* an incident the store still holds.  The engine itself checks nothing
\* (dispatch.py:146-147, dispatch.feature).
OrdersNameFiledIncidents == \A o \in orders : o.incident \in Filed

\* The record is truthful: a dispatch the agent believes in was accepted.
RecordedWereAccepted == dispatches \subseteq orders

AcceptedInFlight ==
  {calls[c].order : c \in {d \in Slots : calls[d].state = "accepted"}}

\* The record is complete up to lost responses: an order of this run that the
\* engine accepted is recorded, or its acceptance is on its way, or was lost.
AcceptedAreAccountedFor ==
  loop \in {"model", "tools", "returned"} =>
    \A o \in orders : o.tick = tick =>
      o \in dispatches \cup AcceptedInFlight \cup unheard

\* A retired incident always says why (dispatch.py:158-161, DISP-3): not
\* closed with no reason, nor with an empty one.
ClosedHaveReason ==
  \A i \in DOMAIN incidents :
    incidents[i].status = "closed" => incidents[i].close_reason \notin {None, ""}

\* No call is sent twice: a tool call of the run has at most one request in
\* the world, waiting, given up or accepted, even when its answer was lost.
\* (A model told of the error may make the call again; that is another call,
\* and a request of the first may still be accepted after the second's.)
Sent == {calls[c].order : c \in {d \in Slots : calls[d].state = "sent"}}
OneOrderPerCall ==
  /\ Sent \cap late = {} /\ Sent \cap orders = {} /\ late \cap orders = {}
  /\ \A o, p \in Sent \cup late \cup orders :
       o.tick = p.tick /\ o.round = p.round /\ o.slot = p.slot => o = p
=============================================================================
