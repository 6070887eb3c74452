--------------------------- MODULE DispatchProofs ---------------------------
(***************************************************************************)
(* Proofs about Dispatch, for any number of slots, trucks, rounds and      *)
(* incidents.  First what one step does to the store and to the calls,     *)
(* then the invariants.                                                    *)
(***************************************************************************)
EXTENDS Dispatch, SequenceTheorems, TLAPS

\* Every way a step of this composition writes the store, at tick t.
StoreStep(t) ==
  \/ UNCHANGED storeVars
  \/ \E n \in Texts : Store!Open(t, {"notes"}, [notes |-> n])
  \/ \E i \in Filed, r \in ReportIds : Store!Link(i, r, t)
  \/ \E i \in Filed, n \in Texts : Store!Update(i, t, {"notes"}, [notes |-> n])
  \/ \E i \in Filed, n \in Texts \ {""} : Store!Close(i, n, t)
  \/ \E i \in Filed, names \in SUBSET {"status", "notes"},
        s \in (Statuses \ {"closed"}) \cup {None}, n \in Texts \cup {None} :
       /\ "status" \in names => s # None
       /\ "notes" \in names => n # None
       /\ Store!Update(i, t, names, [status |-> s, notes |-> n])

LEMMA FileUpdateIsStoreStep ==
  ASSUME NEW i \in Filed, NEW s \in Statuses \cup {None},
         NEW n \in Texts \cup {None}, FileUpdate(i, s, n)
  PROVE  StoreStep(tick)
<1>1. CASE s = "closed"
  <2>1. CloseReason(n) \in Texts \ {""}
    BY ReasonAssumption DEF CloseReason
  <2>2. Store!Close(i, CloseReason(n), tick)
    BY <1>1 DEF FileUpdate
  <2>3. QED
    BY <2>1, <2>2 DEF StoreStep
<1>2. CASE s # "closed"
  <2> DEFINE names == (IF s # None THEN {"status"} ELSE {}) \cup (IF n # None THEN {"notes"} ELSE {})
  <2>1. Store!Update(i, tick, names, [status |-> s, notes |-> n])
    BY <1>2 DEF FileUpdate
  <2>2. /\ names \in SUBSET {"status", "notes"}
        /\ "status" \in names => s # None
        /\ "notes" \in names => n # None
    OBVIOUS
  <2>3. s \in (Statuses \ {"closed"}) \cup {None}
    BY <1>2
  <2> HIDE DEF names
  <2>4. QED
    BY <2>1, <2>2, <2>3 DEF StoreStep
<1>3. QED
  BY <1>1, <1>2

LEMMA ReconcileIsStoreStep ==
  ASSUME NEW t, Reconcile(t)
  PROVE  StoreStep(t)
BY DEF Reconcile, StoreStep

Explained(inc)  == inc.status = "closed" => inc.close_reason \notin {None, ""}
DatedBy(inc, t) == inc.created_tick <= inc.updated_tick /\ inc.updated_tick <= t

\* What one incident keeps when it is written at tick t.
Keeps(old, new, t) ==
  /\ Explained(old) => Explained(new)
  /\ DatedBy(old, t) => DatedBy(new, t)

\* What each write of the store at tick t does for the invariants.
GoodStoreStep(t) ==
  /\ Filed \subseteq Filed'
  /\ Store!TypeOK'
  /\ ClosedHaveReason => ClosedHaveReason'
  /\ (\A i \in DOMAIN incidents : DatedBy(incidents[i], t))
       => \A i \in DOMAIN incidents' : DatedBy(incidents'[i], t)

LEMMA SameStoreIsGood ==
  ASSUME Store!TypeOK, UNCHANGED <<incidents, seq>>, raised' \in Store!Errors \cup {None}, NEW t
  PROVE  GoodStoreStep(t)
  BY DEF GoodStoreStep, Filed, Store!TypeOK, ClosedHaveReason

LEMMA GoodWrite ==
  ASSUME Store!TypeOK, NEW i \in Filed, NEW new \in Store!Incident, NEW t,
         Keeps(incidents[i], new, t), Store!Store(i, new)
  PROVE  GoodStoreStep(t)
<1>1. incidents' = [incidents EXCEPT ![i] = new] /\ raised' = None /\ seq' = seq
  BY DEF Store!Store
<1>2. DOMAIN incidents' = DOMAIN incidents
      /\ \A j \in DOMAIN incidents' : incidents'[j] = IF j = i THEN new ELSE incidents[j]
  BY <1>1
<1>3. Store!TypeOK'
  BY <1>1, <1>2 DEF Store!TypeOK, Filed
<1>4. ClosedHaveReason => ClosedHaveReason'
  BY <1>2 DEF ClosedHaveReason, Keeps, Explained, Filed
<1>5. QED
  BY <1>2, <1>3, <1>4 DEF GoodStoreStep, Keeps, Filed

\* The tick is written last, and nothing else with it.
LEMMA TouchKeeps ==
  ASSUME NEW old \in Store!Incident, NEW inc \in Store!Incident, NEW t \in Ticks,
         inc.created_tick = old.created_tick, Explained(old) => Explained(inc)
  PROVE  /\ Store!Touch(inc, t) \in Store!Incident
         /\ Keeps(old, Store!Touch(inc, t), t)
<1>1. t # None /\ t \in Nat /\ old.created_tick \in Nat /\ old.updated_tick \in Nat
  BY StoreAssumption DEF Store!Incident
<1>2. /\ Store!Touch(inc, t) \in Store!Incident
      /\ Explained(inc) => Explained(Store!Touch(inc, t))
  BY DEF Store!Touch, Store!Incident, Explained
<1>3. Store!Touch(inc, t).created_tick = old.created_tick /\ Store!Touch(inc, t).updated_tick = t
  BY <1>1 DEF Store!Touch, Store!Incident
<1>4. DatedBy(old, t) => DatedBy(Store!Touch(inc, t), t)
  BY <1>1, <1>3 DEF DatedBy
<1>5. QED
  BY <1>2, <1>4 DEF Keeps

LEMMA OpenIsGood ==
  ASSUME Store!TypeOK, NEW t \in Ticks, NEW n \in Texts, Store!Open(t, {"notes"}, [notes |-> n])
  PROVE  GoodStoreStep(t)
<1> DEFINE new == Store!NewIncident(t, {"notes"}, [notes |-> n])
<1>1. /\ seq < MaxSeq /\ seq' = seq + 1 /\ raised' = None
      /\ incidents' = Store!With(seq + 1, new)
  BY DEF Store!Open
<1>2. <<>> \in Store!Evidence
  BY DEF Store!Evidence
<1>3. /\ new = [status |-> "open", report_ids |-> <<>>, notes |-> n,
                created_tick |-> t, updated_tick |-> t, close_reason |-> None]
  BY DEF Store!NewIncident, Store!STATUS_OPEN
<1>4. new \in Store!Incident /\ new.status = "open" /\ DatedBy(new, t)
  <2>1. t <= t
    <3>1. t \in Nat
      BY StoreAssumption
    <3>2. QED
      BY <3>1
  <2>2. QED
    BY <1>2, <1>3, <2>1 DEF Store!Incident, Store!LegalStatuses, Store!STATUS_OPEN, DatedBy
<1> HIDE DEF new
<1>5. /\ DOMAIN incidents' = DOMAIN incidents \cup {seq + 1}
      /\ \A i \in DOMAIN incidents' :
           incidents'[i] = IF i = seq + 1 THEN new ELSE incidents[i]
  BY <1>1 DEF Store!With
<1>6. Store!TypeOK'
  <2>1. seq' \in 0..MaxSeq /\ DOMAIN incidents' \subseteq 1..seq'
    <3>1. /\ MaxSeq \in Nat /\ seq \in 0..MaxSeq /\ DOMAIN incidents \subseteq 1..seq
          /\ seq < MaxSeq /\ seq' = seq + 1
      BY <1>1, StoreAssumption DEF Store!TypeOK
    <3>2. DOMAIN incidents' = DOMAIN incidents \cup {seq + 1}
      BY <1>5
    <3>3. QED
      BY <3>1, <3>2
  <2>2. \A i \in DOMAIN incidents' : incidents'[i] \in Store!Incident
    BY <1>4, <1>5 DEF Store!TypeOK
  <2>3. QED
    BY <1>1, <2>1, <2>2 DEF Store!TypeOK
<1>7. ClosedHaveReason => ClosedHaveReason'
  BY <1>4, <1>5 DEF ClosedHaveReason
<1>8. QED
  BY <1>4, <1>5, <1>6, <1>7 DEF GoodStoreStep, Filed

LEMMA LinkIsGood ==
  ASSUME Store!TypeOK, NEW i \in Filed, NEW r \in ReportIds, NEW t \in Ticks, Store!Link(i, r, t)
  PROVE  GoodStoreStep(t)
<1> DEFINE inc == Store!Attach(incidents[i], r)
<1>1. Store!Store(i, Store!Touch(inc, t))
  BY DEF Store!Link, Store!Holds, Filed
<1>2. incidents[i] \in Store!Incident
  BY DEF Store!TypeOK, Filed
<1>3. \A s \in Store!Evidence : Append(s, r) \in Store!Evidence
  BY DEF Store!Evidence
<1>4. /\ inc \in Store!Incident /\ (Explained(incidents[i]) => Explained(inc))
      /\ inc.created_tick = incidents[i].created_tick
  BY <1>2, <1>3 DEF Store!Attach, Store!Incident, Explained
<1> HIDE DEF inc
<1>5. QED
  BY <1>1, <1>2, <1>4, TouchKeeps, GoodWrite

LEMMA CloseIsGood ==
  ASSUME Store!TypeOK, NEW i \in Filed, NEW n \in Texts \ {""}, NEW t \in Ticks,
         Store!Close(i, n, t)
  PROVE  GoodStoreStep(t)
<1> DEFINE inc == [incidents[i] EXCEPT !.status = "closed", !.close_reason = n]
<1>1. Store!Store(i, Store!Touch(inc, t))
  BY DEF Store!Close, Store!Holds, Filed, Store!STATUS_CLOSED
<1>2. incidents[i] \in Store!Incident
  BY DEF Store!TypeOK, Filed
<1>3. inc \in Store!Incident /\ Explained(inc) /\ inc.created_tick = incidents[i].created_tick
  BY <1>2, StoreAssumption
     DEF Store!Incident, Explained, Store!LegalStatuses, Store!STATUS_CLOSED
<1> HIDE DEF inc
<1>4. QED
  BY <1>1, <1>2, <1>3, TouchKeeps, GoodWrite

LEMMA UpdateIsGood ==
  ASSUME Store!TypeOK, NEW i \in Filed, NEW t \in Ticks,
         NEW names \in SUBSET {"status", "notes"}, NEW arg,
         "status" \in names => arg.status # "closed",
         "notes" \in names => arg.notes \in Texts,
         Store!Update(i, t, names, arg)
  PROVE  GoodStoreStep(t)
<1>1. CASE Store!UpdateError(names, arg) # None
  BY <1>1, SameStoreIsGood
     DEF Store!Update, Store!Raise, Store!UpdateError, Store!Errors
<1>2. CASE Store!UpdateError(names, arg) = None
  <2> DEFINE old    == incidents[i]
             status == IF "status" \in names THEN arg.status ELSE old.status
             text   == IF "notes" \in names THEN arg.notes ELSE old.notes
             inc    == [old EXCEPT !.status = status, !.notes = text]
  <2>1. old \in Store!Incident
    BY DEF Store!TypeOK, Filed
  <2>2. /\ status \in Store!LegalStatuses /\ text \in Texts
        /\ status = "closed" => status = old.status
    BY <1>2, <2>1, StoreAssumption
       DEF Store!UpdateError, Store!Incident, Store!LegalStatuses, Store!STATUS_OPEN,
           Store!STATUS_CLOSED
  <2>3. Store!SetFields(old, t, names, arg) = Store!Touch(inc, t)
    <3>1. [old EXCEPT !.status = status, !.report_ids = old.report_ids, !.notes = text,
                      !.created_tick = old.created_tick, !.updated_tick = old.updated_tick,
                      !.close_reason = old.close_reason] = inc
      BY <2>1 DEF Store!Incident
    <3>2. QED
      BY <3>1 DEF Store!SetFields
  <2>4. Store!Store(i, Store!SetFields(old, t, names, arg))
    BY <1>2 DEF Store!Update, Store!Holds, Filed
  <2> HIDE DEF status, text
  <2>5. inc \in Store!Incident /\ (Explained(old) => Explained(inc))
        /\ inc.created_tick = old.created_tick
    BY <2>1, <2>2 DEF Store!Incident, Explained
  <2> HIDE DEF inc
  <2>6. QED
    BY <2>1, <2>3, <2>4, <2>5, TouchKeeps, GoodWrite
<1>3. QED
  BY <1>1, <1>2

LEMMA StoreStepIsGood ==
  ASSUME Store!TypeOK, NEW t \in Ticks, StoreStep(t)
  PROVE  GoodStoreStep(t)
<1>1. CASE UNCHANGED storeVars
  BY <1>1, SameStoreIsGood DEF storeVars, Store!TypeOK
<1>2. ASSUME NEW i \in Filed, NEW n \in Texts, Store!Update(i, t, {"notes"}, [notes |-> n])
      PROVE  GoodStoreStep(t)
  BY <1>2, UpdateIsGood
<1>3. ASSUME NEW i \in Filed, NEW names \in SUBSET {"status", "notes"},
             NEW s \in (Statuses \ {"closed"}) \cup {None}, NEW n \in Texts \cup {None},
             "status" \in names => s # None, "notes" \in names => n # None,
             Store!Update(i, t, names, [status |-> s, notes |-> n])
      PROVE  GoodStoreStep(t)
  <2>1. "status" \in names => [status |-> s, notes |-> n].status # "closed"
    BY <1>3
  <2>2. "notes" \in names => [status |-> s, notes |-> n].notes \in Texts
    BY <1>3
  <2>3. QED
    BY <1>3, <2>1, <2>2, UpdateIsGood
<1>4. QED
  BY <1>1, <1>2, <1>3, OpenIsGood, LinkIsGood, CloseIsGood DEF StoreStep
----------------------------------------------------------------------------
(* The steps of Next, one by one. *)

LEMMA StepCases ==
  ASSUME [Next]_vars
  PROVE  \/ Reconcile(tick)
         \/ RunDispatch(tick)
         \/ \E S \in SUBSET Slots : ModelCalls(S)
         \/ ModelYields
         \/ CapReached
         \/ ProviderFails
         \/ TurnAnswered
         \/ \E c \in Slots, i \in Ids, s \in Statuses \cup {None}, n \in Texts \cup {None} :
              FileIncidentUpdate(c, i, s, n)
         \/ \E c \in Slots, v \in Trucks, i \in Ids : DispatchTruck(c, v, i)
         \/ \E c \in Slots : OtherTool(c)
         \/ \E c \in Slots : HearAnswer(c)
         \/ \E c \in Slots : CallFails(c)
         \/ \E c \in Slots : EngineAccepts(c)
         \/ \E c \in Slots : EngineRefuses(c)
         \/ \E o \in late : EngineAcceptsLate(o)
         \/ \E o \in late : EngineDropsLate(o)
         \/ UNCHANGED vars
  BY DEF Next, Loop, RunTool, Answered

\* Only reconciliation and file_incident_update write the store.
LEMMA StepWritesStore ==
  ASSUME TypeOK, [Next]_vars
  PROVE  GoodStoreStep(tick)
<1>1. tick \in Ticks /\ Store!TypeOK
  BY DEF TypeOK
<1>2. CASE UNCHANGED storeVars
  BY <1>1, <1>2, StoreStepIsGood DEF StoreStep
<1>3. CASE Reconcile(tick)
  BY <1>1, <1>3, ReconcileIsStoreStep, StoreStepIsGood
<1>4. ASSUME NEW c \in Slots, NEW i \in Ids, NEW s \in Statuses \cup {None},
             NEW n \in Texts \cup {None}, FileIncidentUpdate(c, i, s, n)
      PROVE  StoreStep(tick)
  <2>1. CASE i \in Filed
    BY <1>1, <1>4, <2>1, FileUpdateIsStoreStep DEF FileIncidentUpdate
  <2>2. CASE i \notin Filed
    BY <1>4, <2>2 DEF FileIncidentUpdate, StoreStep
  <2>3. QED
    BY <2>1, <2>2
<1>5. CASE UNCHANGED vars
  BY <1>2, <1>5 DEF vars
<1>6. QED
  BY <1>1, <1>2, <1>3, <1>4, <1>5, StepCases, StoreStepIsGood
     DEF RunDispatch, ModelCalls, ModelYields, CapReached, ProviderFails, TurnAnswered,
         DispatchTruck, OtherTool, HearAnswer, CallFails, EngineAccepts, EngineRefuses,
         EngineAcceptsLate, EngineDropsLate
----------------------------------------------------------------------------
(* Type correctness.  A round is counted before its calls are run, so the   *)
(* round an order carries is never 0.                                      *)

CountsRounds == loop = "tools" => rounds # 0
Typed == TypeOK /\ CountsRounds

\* What one call's state change does to the calls as a whole.
LEMMA CallsUpdated ==
  ASSUME CallsOK, NEW c \in Slots, NEW new \in Call, calls' = [calls EXCEPT ![c] = new]
  PROVE  CallsOK'
  BY DEF CallsOK

LEMMA InFlightCallsHaveOrders ==
  ASSUME CallsOK, NEW c \in Slots, calls[c].state \in InFlight
  PROVE  calls[c].order \in Order
  BY DEF CallsOK, Call, InFlight

LEMMA CommandTyped ==
  ASSUME Typed, loop = "tools", NEW c \in Slots, NEW v \in Trucks, NEW i \in Filed
  PROVE  Command(c, v, i) \in Order
<1>1. rounds \in 1..MaxRounds
  BY RoundsAssumption DEF Typed, CountsRounds, TypeOK
<1>2. i \in 1..MaxSeq
  <2>1. i \in 1..seq /\ seq \in 0..MaxSeq /\ MaxSeq \in Nat
    BY StoreAssumption DEF Typed, TypeOK, Store!TypeOK, Filed
  <2>2. QED
    BY <2>1
<1>3. QED
  BY <1>1, <1>2 DEF Command, Order, Typed, TypeOK

LEMMA TypedStep ==
  ASSUME Typed, [Next]_vars
  PROVE  Typed'
<1>1. Store!TypeOK'
  BY StepWritesStore DEF Typed, GoodStoreStep
<1> DEFINE Rest == /\ ep_tick' \in Ticks /\ tick' \in Ticks
                   /\ loop' \in {"idle", "model", "tools", "returned", "raised"}
                   /\ rounds' \in 0..MaxRounds /\ usage' \in Nat /\ billed' \in Nat
                   /\ CallsOK'
                   /\ dispatches' \subseteq Order
                   /\ orders' \subseteq Order /\ late' \subseteq Order /\ unheard' \subseteq Order
                   /\ CountsRounds'
<1> SUFFICES Rest
  BY <1>1 DEF Typed, TypeOK
<1> USE DEF Typed, TypeOK
<1>2. [Idle EXCEPT !.state = "issued"] \in Call /\ Idle \in Call
      /\ [state |-> "answered", order |-> None] \in Call
  BY DEF Idle, Call
<1>3. CASE Reconcile(tick)
  BY <1>3 DEF Reconcile, loopVars, engVars, CallsOK, CountsRounds
<1>4. CASE RunDispatch(tick)
  BY <1>2, <1>4, RoundsAssumption DEF RunDispatch, engVars, CallsOK, CountsRounds
<1>5. ASSUME NEW S \in SUBSET Slots, ModelCalls(S) PROVE Rest
  BY <1>2, <1>5, RoundsAssumption DEF ModelCalls, engVars, CallsOK, CountsRounds
<1>6. CASE ModelYields
  BY <1>6, RoundsAssumption DEF ModelYields, engVars, CallsOK, CountsRounds
<1>7. CASE CapReached \/ ProviderFails \/ TurnAnswered
  BY <1>7 DEF CapReached, ProviderFails, TurnAnswered, engVars, CallsOK, CountsRounds
<1>8. ASSUME NEW c \in Slots, Answer(c) PROVE CallsOK'
  BY <1>2, <1>8, CallsUpdated DEF Answer
<1>9. ASSUME NEW c \in Slots, NEW i \in Ids, NEW s \in Statuses \cup {None},
             NEW n \in Texts \cup {None}, FileIncidentUpdate(c, i, s, n)
      PROVE  Rest
  BY <1>8, <1>9 DEF FileIncidentUpdate, loopVars, engVars, CountsRounds
<1>10. ASSUME NEW c \in Slots, NEW v \in Trucks, NEW i \in Ids, DispatchTruck(c, v, i)
       PROVE  Rest
  <2>1. CASE i \in Filed
    <3>1. [state |-> "sent", order |-> Command(c, v, i)] \in Call
      BY <1>10, <2>1, CommandTyped DEF DispatchTruck, Issued, Call, InFlight
    <3>2. CallsOK'
      BY <1>10, <2>1, <3>1, CallsUpdated DEF DispatchTruck
    <3>3. QED
      BY <1>10, <3>2 DEF DispatchTruck, loopVars, engVars, CountsRounds
  <2>2. CASE i \notin Filed
    BY <1>8, <1>10, <2>2 DEF DispatchTruck, loopVars, engVars, CountsRounds
  <2>3. QED
    BY <2>1, <2>2
<1>11. ASSUME NEW c \in Slots, OtherTool(c) PROVE Rest
  BY <1>8, <1>11 DEF OtherTool, loopVars, engVars, CountsRounds
<1>12. ASSUME NEW c \in Slots, HearAnswer(c) PROVE Rest
  BY <1>8, <1>12, InFlightCallsHaveOrders
     DEF HearAnswer, loopVars, engVars, CountsRounds, InFlight
<1>13. ASSUME NEW c \in Slots, CallFails(c) PROVE Rest
  BY <1>8, <1>13, InFlightCallsHaveOrders DEF CallFails, loopVars, CountsRounds
<1>14. ASSUME NEW c \in Slots, NEW state \in InFlight, calls[c].state = "sent", Move(c, state)
       PROVE  CallsOK'
  <2>1. calls[c] \in [state: InFlight, order: Order]
    BY <1>14 DEF CallsOK, Call, InFlight
  <2>2. [calls[c] EXCEPT !.state = state] \in Call
    BY <2>1 DEF Call
  <2>3. QED
    BY <1>14, <2>2, CallsUpdated DEF Move
<1>15. ASSUME NEW c \in Slots, EngineAccepts(c) PROVE Rest
  BY <1>14, <1>15, InFlightCallsHaveOrders DEF EngineAccepts, loopVars, CountsRounds, InFlight
<1>16. ASSUME NEW c \in Slots, EngineRefuses(c) PROVE Rest
  BY <1>14, <1>16 DEF EngineRefuses, loopVars, engVars, CountsRounds, InFlight
<1>17. ASSUME NEW o \in late, EngineAcceptsLate(o) \/ EngineDropsLate(o) PROVE Rest
  BY <1>17 DEF EngineAcceptsLate, EngineDropsLate, loopVars, CountsRounds, CallsOK
<1>18. CASE UNCHANGED vars
  BY <1>18 DEF vars, loopVars, engVars, CallsOK, CountsRounds
<1>19. QED
  BY <1>3, <1>4, <1>5, <1>6, <1>7, <1>9, <1>10, <1>11, <1>12, <1>13, <1>15, <1>16, <1>17,
     <1>18, StepCases

LEMMA InitTyped == Init => Typed
<1> SUFFICES ASSUME Init PROVE Typed
  OBVIOUS
<1>1. Store!TypeOK
  <2>1. incidents = <<>> /\ seq = 0 /\ raised = None
    BY DEF Init, Store!Init
  <2>2. DOMAIN incidents = {}
    BY <2>1, EmptySeq
  <2>3. seq \in 0..MaxSeq
    <3>1. MaxSeq \in Nat
      BY StoreAssumption
    <3>2. QED
      BY <2>1, <3>1
  <2>4. QED
    BY <2>1, <2>2, <2>3 DEF Store!TypeOK
<1>2. CallsOK
  BY DEF Init, CallsOK, Call, Idle
<1>3. QED
  BY <1>1, <1>2, RoundsAssumption DEF Init, Typed, TypeOK, CountsRounds

\* Every variable of a dispatch run keeps its type.
THEOREM TypeCorrect == Spec => []TypeOK
<1>1. Init => Typed
  BY InitTyped
<1>2. Typed /\ [Next]_vars => Typed'
  BY TypedStep
<1>3. Typed => TypeOK
  BY DEF Typed
<1>4. QED
  BY <1>1, <1>2, <1>3, PTL DEF Spec
----------------------------------------------------------------------------
(***************************************************************************)
(* The inductive invariant.  An order matters from the moment its request  *)
(* leaves: everything the engine accepts, now or late, was Requested.      *)
(***************************************************************************)
OutOrders == {calls[c].order : c \in {d \in Slots : calls[d].state \in InFlight}}
Requested == orders \cup late \cup OutOrders

\* Outside the agent loop's tool turn nothing is in flight; before the run
\* nothing has been ordered.
NothingWaits == loop # "tools" => \A c \in Slots : calls[c].state \notin InFlight
Quiet ==
  /\ NothingWaits
  /\ loop = "idle" => orders = {} /\ late = {}

RequestsAreFiled == \A o \in Requested : o.incident \in Filed

RecordIsTrue ==
  /\ dispatches \subseteq orders
  /\ \A c \in Slots : calls[c].state = "accepted" => calls[c].order \in orders

NothingForgotten ==
  \A o \in orders : o.tick = tick => o \in dispatches \cup AcceptedInFlight \cup unheard

\* A command carries its run's tick and its call's round and slot, and no
\* request the engine has or may still get carries those of a call that is yet
\* to be made or answered.
SameCall(o, p) == o.tick = p.tick /\ o.round = p.round /\ o.slot = p.slot
OfSlot(o, c)   == o.tick = tick /\ o.round = rounds /\ o.slot = c
CallsAreOnce ==
  /\ \A o \in orders \cup late : o.tick = tick => o.round <= rounds
  /\ \A c \in Slots : calls[c].state \in InFlight => OfSlot(calls[c].order, c)
  /\ \A c \in Slots : calls[c].state \in {"issued", "sent"} =>
       \A o \in orders \cup late : ~OfSlot(o, c)
  /\ \A o, p \in orders \cup late : SameCall(o, p) => o = p
  /\ orders \cap late = {}

IInv == Quiet /\ RequestsAreFiled /\ RecordIsTrue /\ NothingForgotten /\ CallsAreOnce /\ ClosedHaveReason

\* A request leaves only as the command of a call of the turn under way, for a
\* filed incident; every other step moves or drops requests that exist.
NewRequest(o) ==
  /\ loop = "tools"
  /\ \E c \in Slots, v \in Trucks, i \in Filed : o = Command(c, v, i)

LEMMA RequestedGrows ==
  ASSUME CallsOK, [Next]_vars, NEW o \in Requested'
  PROVE  o \in Requested \/ NewRequest(o)
<1> USE DEF Requested, OutOrders
<1>1. CASE UNCHANGED <<calls, orders, late>>
  BY <1>1
<1>2. ASSUME NEW c \in Slots, Answer(c), orders' = orders PROVE OutOrders' \subseteq OutOrders
  BY <1>2 DEF Answer, CallsOK, InFlight
<1>3. CASE RunDispatch(tick) \/ \E S \in SUBSET Slots : ModelCalls(S)
  BY <1>3 DEF RunDispatch, ModelCalls, engVars, Idle, InFlight
<1>4. ASSUME NEW c \in Slots, NEW v \in Trucks, NEW i \in Ids, DispatchTruck(c, v, i)
      PROVE  o \in Requested \/ NewRequest(o)
  <2>1. CASE i \in Filed
    <3>1. /\ loop = "tools" /\ UNCHANGED <<orders, late>>
          /\ calls' = [calls EXCEPT ![c] = [state |-> "sent", order |-> Command(c, v, i)]]
      BY <1>4, <2>1 DEF DispatchTruck, Issued, engVars
    <3>2. \A d \in Slots : calls'[d].order = Command(c, v, i) \/ calls'[d] = calls[d]
      BY <3>1 DEF CallsOK
    <3>3. QED
      BY <2>1, <3>1, <3>2 DEF NewRequest
  <2>2. CASE i \notin Filed
    BY <1>2, <1>4, <2>2 DEF DispatchTruck, engVars
  <2>3. QED
    BY <2>1, <2>2
<1>5. ASSUME NEW c \in Slots, NEW i \in Ids, NEW s \in Statuses \cup {None},
             NEW n \in Texts \cup {None}, FileIncidentUpdate(c, i, s, n)
      PROVE  o \in Requested
  BY <1>2, <1>5 DEF FileIncidentUpdate, engVars
<1>6. ASSUME NEW c \in Slots, OtherTool(c) \/ HearAnswer(c) PROVE o \in Requested
  BY <1>2, <1>6 DEF OtherTool, HearAnswer, engVars
<1>7. ASSUME NEW c \in Slots, CallFails(c) PROVE o \in Requested
  BY <1>2, <1>7 DEF CallFails, InFlight
<1>8. ASSUME NEW c \in Slots, EngineAccepts(c) \/ EngineRefuses(c) PROVE o \in Requested
  BY <1>8 DEF EngineAccepts, EngineRefuses, Move, CallsOK, Call, InFlight, engVars
<1>9. ASSUME NEW p \in late, EngineAcceptsLate(p) \/ EngineDropsLate(p) PROVE o \in Requested
  BY <1>9 DEF EngineAcceptsLate, EngineDropsLate
<1>10. QED
  BY <1>1, <1>3, <1>4, <1>5, <1>6, <1>7, <1>8, <1>9, StepCases
     DEF Reconcile, ModelYields, CapReached, ProviderFails, TurnAnswered, engVars, vars

LEMMA QuietStep ==
  ASSUME Typed, Quiet, [Next]_vars
  PROVE  Quiet'
<1> USE DEF Quiet, NothingWaits
<1>1. CallsOK
  BY DEF Typed, TypeOK
<1>2. CASE UNCHANGED <<loop, calls, orders, late>>
  BY <1>2
<1>3. CASE RunDispatch(tick) \/ \E S \in SUBSET Slots : ModelCalls(S)
  BY <1>3 DEF RunDispatch, ModelCalls, Idle, InFlight
<1>4. CASE ModelYields \/ CapReached \/ ProviderFails \/ TurnAnswered
  BY <1>4 DEF ModelYields, CapReached, ProviderFails, TurnAnswered, InFlight
<1>5. CASE loop = "tools" /\ UNCHANGED loop
  BY <1>5
<1>6. ASSUME NEW c \in Slots, EngineAccepts(c) \/ EngineRefuses(c) PROVE loop = "tools" /\ UNCHANGED loop
  BY <1>6 DEF EngineAccepts, EngineRefuses, InFlight, loopVars
<1>7. ASSUME NEW o \in late, EngineAcceptsLate(o) \/ EngineDropsLate(o) PROVE Quiet'
  BY <1>7 DEF EngineAcceptsLate, EngineDropsLate, loopVars
<1>8. QED
  BY <1>2, <1>3, <1>4, <1>5, <1>6, <1>7, StepCases
     DEF Reconcile, FileIncidentUpdate, DispatchTruck, OtherTool, HearAnswer, CallFails,
         Issued, loopVars, engVars, vars

\* A run starts with a clean record, when nothing was ordered at its tick before.
LEMMA FreshRun ==
  ASSUME NEW t, RunDispatch(t), \A o \in orders \cup late : o.tick # t, CallsAreOnce
  PROVE  RecordIsTrue' /\ NothingForgotten' /\ CallsAreOnce'
<1>1. /\ tick' = t /\ UNCHANGED <<orders, late>> /\ dispatches' = {}
      /\ \A c \in Slots : calls'[c].state = "idle"
  BY DEF RunDispatch, Idle, engVars
<1>2. QED
  BY <1>1 DEF RecordIsTrue, NothingForgotten, CallsAreOnce, OfSlot, SameCall, InFlight

Starts == loop = "idle" /\ loop' = "model"

\* What the agent recorded, the engine had accepted; and what it accepted is
\* recorded, on its way, or was lost.
LEMMA RecordStep ==
  ASSUME CallsOK, NothingWaits, RecordIsTrue, NothingForgotten, [Next]_vars, ~Starts
  PROVE  RecordIsTrue' /\ NothingForgotten'
<1> USE DEF RecordIsTrue, NothingForgotten, AcceptedInFlight
<1>1. ~RunDispatch(tick)
  BY DEF RunDispatch, Starts
<1>2. CASE UNCHANGED <<calls, orders, unheard, dispatches, tick>>
  BY <1>2
<1>3. ASSUME NEW S \in SUBSET Slots, ModelCalls(S) PROVE RecordIsTrue' /\ NothingForgotten'
  <2>1. AcceptedInFlight = {}
    BY <1>3 DEF ModelCalls, NothingWaits, InFlight
  <2>2. QED
    BY <1>3, <2>1 DEF ModelCalls, Idle, engVars
<1>4. ASSUME NEW c \in Slots, calls[c].state # "accepted", Answer(c),
             UNCHANGED <<orders, unheard, dispatches, tick>>
      PROVE  RecordIsTrue' /\ NothingForgotten'
  BY <1>4 DEF Answer, CallsOK
<1>5. ASSUME NEW c \in Slots, NEW v \in Trucks, NEW i \in Ids, DispatchTruck(c, v, i)
      PROVE  RecordIsTrue' /\ NothingForgotten'
  <2>1. CASE i \in Filed
    BY <1>5, <2>1 DEF DispatchTruck, CallsOK, loopVars, engVars, Issued
  <2>2. CASE i \notin Filed
    BY <1>4, <1>5, <2>2 DEF DispatchTruck, loopVars, engVars, Issued
  <2>3. QED
    BY <2>1, <2>2
<1>6. ASSUME NEW c \in Slots, HearAnswer(c) PROVE RecordIsTrue' /\ NothingForgotten'
  BY <1>6 DEF HearAnswer, Answer, CallsOK, loopVars, engVars
<1>7. ASSUME NEW c \in Slots, CallFails(c) PROVE RecordIsTrue' /\ NothingForgotten'
  BY <1>7 DEF CallFails, Answer, CallsOK, loopVars
<1>8. ASSUME NEW c \in Slots, EngineAccepts(c) PROVE RecordIsTrue' /\ NothingForgotten'
  BY <1>8 DEF EngineAccepts, Move, CallsOK, Call, InFlight, loopVars
<1>9. ASSUME NEW c \in Slots, EngineRefuses(c) PROVE RecordIsTrue' /\ NothingForgotten'
  BY <1>9 DEF EngineRefuses, Move, CallsOK, Call, InFlight, loopVars, engVars
<1>10. ASSUME NEW o \in late, EngineAcceptsLate(o) \/ EngineDropsLate(o)
       PROVE  RecordIsTrue' /\ NothingForgotten'
  BY <1>10 DEF EngineAcceptsLate, EngineDropsLate, loopVars
<1>11. QED
  BY <1>1, <1>2, <1>3, <1>4, <1>5, <1>6, <1>7, <1>8, <1>9, <1>10, StepCases
     DEF Reconcile, ModelYields, CapReached, ProviderFails, TurnAnswered, FileIncidentUpdate,
         OtherTool, Issued, loopVars, engVars, vars

\* No tool call is ever sent twice.
LEMMA OnceStep ==
  ASSUME Typed, NothingWaits, CallsAreOnce, [Next]_vars, ~Starts
  PROVE  CallsAreOnce'
<1> USE DEF CallsAreOnce, OfSlot
<1>1. CallsOK /\ rounds \in Nat /\ \A o \in orders \cup late : o.round \in Nat
  BY RoundsAssumption DEF Typed, TypeOK, Order
<1>2. CASE UNCHANGED <<calls, orders, late, rounds, tick>>
  BY <1>2
<1>3. ~RunDispatch(tick)
  BY DEF RunDispatch, Starts
<1>4. ASSUME rounds' = rounds + 1, UNCHANGED <<orders, late, tick>>,
             \A c \in Slots : calls'[c].state \notin InFlight
      PROVE  CallsAreOnce'
  <2>1. \A o \in orders \cup late : o.tick = tick => o.round <= rounds' /\ o.round # rounds'
    BY <1>1, <1>4
  <2>2. QED
    BY <1>4, <2>1 DEF InFlight
<1>5. ASSUME NEW S \in SUBSET Slots, ModelCalls(S) PROVE CallsAreOnce'
  BY <1>4, <1>5 DEF ModelCalls, Idle, InFlight, engVars
<1>6. CASE ModelYields
  BY <1>4, <1>6 DEF ModelYields, NothingWaits, engVars
<1>7. ASSUME NEW c \in Slots, Answer(c), UNCHANGED <<orders, late, rounds, tick>>
      PROVE  CallsAreOnce'
  BY <1>1, <1>7 DEF Answer, CallsOK, InFlight
<1>8. ASSUME NEW c \in Slots, NEW v \in Trucks, NEW i \in Ids, DispatchTruck(c, v, i)
      PROVE  CallsAreOnce'
  <2>1. CASE i \in Filed
    <3>1. /\ calls' = [calls EXCEPT ![c] = [state |-> "sent", order |-> Command(c, v, i)]]
          /\ UNCHANGED <<orders, late, rounds, tick>> /\ calls[c].state = "issued"
      BY <1>8, <2>1 DEF DispatchTruck, Issued, loopVars, engVars
    <3>2. OfSlot(Command(c, v, i), c)
      BY DEF Command
    <3>3. QED
      BY <1>1, <3>1, <3>2 DEF CallsOK
  <2>2. CASE i \notin Filed
    BY <1>7, <1>8, <2>2 DEF DispatchTruck, loopVars, engVars
  <2>3. QED
    BY <2>1, <2>2
<1>9. ASSUME NEW c \in Slots, CallFails(c) PROVE CallsAreOnce'
  <2>1. CASE calls[c].state = "sent"
    <3> DEFINE o == calls[c].order
    <3>1. late' = late \cup {o} /\ UNCHANGED <<orders, rounds, tick>>
          /\ calls' = [calls EXCEPT ![c] = [state |-> "answered", order |-> None]]
      BY <1>9, <2>1 DEF CallFails, Answer, loopVars
    <3>2. OfSlot(o, c) /\ \A p \in orders \cup late : ~OfSlot(p, c)
      BY <2>1 DEF InFlight
    <3> HIDE DEF o
    <3>3. \A d \in Slots : calls'[d].state \in InFlight \cup {"issued"} =>
            d # c /\ calls'[d] = calls[d]
      BY <1>1, <3>1 DEF CallsOK, InFlight
    <3>4. rounds <= rounds
      BY <1>1
    <3>5. QED
      BY <3>1, <3>2, <3>3, <3>4 DEF InFlight, SameCall
  <2>2. CASE calls[c].state # "sent"
    BY <1>7, <1>9, <2>2 DEF CallFails, loopVars
  <2>3. QED
    BY <2>1, <2>2
<1>10. ASSUME NEW c \in Slots, EngineAccepts(c) PROVE CallsAreOnce'
  <2> DEFINE o == calls[c].order
  <2>1. orders' = orders \cup {o} /\ UNCHANGED <<late, rounds, tick>> /\ calls[c].state = "sent"
        /\ calls' = [calls EXCEPT ![c].state = "accepted"]
    BY <1>10 DEF EngineAccepts, Move, loopVars
  <2>2. OfSlot(o, c) /\ \A p \in orders \cup late : ~OfSlot(p, c)
    BY <2>1 DEF InFlight
  <2>3. calls'[c].state = "accepted" /\ calls'[c].order = o
        /\ \A d \in Slots : d # c => calls'[d] = calls[d]
    BY <1>1, <2>1 DEF CallsOK, Call
  <2> HIDE DEF o
  <2>4. rounds <= rounds
    BY <1>1
  <2>5. QED
    BY <2>1, <2>2, <2>3, <2>4 DEF InFlight, SameCall
<1>11. ASSUME NEW c \in Slots, EngineRefuses(c) PROVE CallsAreOnce'
  <2>1. calls'[c].state = "refused" /\ calls'[c].order = calls[c].order
        /\ calls[c].state = "sent" /\ \A d \in Slots : d # c => calls'[d] = calls[d]
    BY <1>1, <1>11 DEF EngineRefuses, Move, CallsOK, Call
  <2>2. UNCHANGED <<orders, late, rounds, tick>>
    BY <1>11 DEF EngineRefuses, loopVars, engVars
  <2>3. QED
    BY <2>1, <2>2 DEF InFlight
<1>12. ASSUME NEW o \in late, EngineAcceptsLate(o) \/ EngineDropsLate(o) PROVE CallsAreOnce'
  <2>1. /\ UNCHANGED <<calls, rounds, tick>>
        /\ late' = late \ {o}
        /\ orders' = orders \cup {o} \/ orders' = orders
    BY <1>12 DEF EngineAcceptsLate, EngineDropsLate, loopVars
  <2>2. orders' \cup late' \subseteq orders \cup late
    BY <2>1
  <2>3. orders' \cap late' = {}
    BY <2>1
  <2>4. QED
    BY <2>1, <2>2, <2>3
<1>13. QED
  BY <1>2, <1>3, <1>5, <1>6, <1>7, <1>8, <1>9, <1>10, <1>11, <1>12, StepCases
     DEF Reconcile, CapReached, ProviderFails, TurnAnswered, FileIncidentUpdate,
         OtherTool, HearAnswer, loopVars, engVars, vars

----------------------------------------------------------------------------
LEMMA InitIInv == Init => IInv
<1> SUFFICES ASSUME Init PROVE IInv
  OBVIOUS
<1>1. \A c \in Slots : calls[c].state = "idle"
  BY DEF Init, Idle
<1>2. DOMAIN incidents = {}
  BY EmptySeq DEF Init, Store!Init
<1>3. QED
  BY <1>1, <1>2
     DEF Init, IInv, Quiet, NothingWaits, RequestsAreFiled, Requested, OutOrders, RecordIsTrue,
         NothingForgotten, CallsAreOnce, ClosedHaveReason, InFlight

LEMMA IInvStep ==
  ASSUME Typed, IInv, [Next]_vars
  PROVE  IInv'
<1>1. GoodStoreStep(tick)
  BY StepWritesStore DEF Typed
<1>2. RequestsAreFiled'
  <2>1. \A o \in Requested' : o \in Requested \/ o.incident \in Filed
    BY RequestedGrows DEF NewRequest, Command, Typed, TypeOK
  <2>2. QED
    BY <1>1, <2>1 DEF RequestsAreFiled, IInv, GoodStoreStep
<1>3. ClosedHaveReason'
  BY <1>1 DEF IInv, GoodStoreStep
<1>4. RecordIsTrue' /\ NothingForgotten' /\ CallsAreOnce'
  <2>1. CASE Starts
    <3>1. RunDispatch(tick)
      BY <2>1, StepCases
         DEF Starts, Reconcile, ModelCalls, ModelYields, CapReached, ProviderFails, TurnAnswered,
             FileIncidentUpdate, DispatchTruck, OtherTool, HearAnswer, CallFails, EngineAccepts,
             EngineRefuses, EngineAcceptsLate, EngineDropsLate, loopVars, vars
    <3>2. QED
      BY <2>1, <3>1, FreshRun DEF Starts, IInv, Quiet
  <2>2. CASE ~Starts
    BY <2>2, RecordStep, OnceStep DEF IInv, Quiet, Typed, TypeOK
  <2>3. QED
    BY <2>1, <2>2
<1>5. QED
  BY <1>2, <1>3, <1>4, QuietStep DEF IInv

LEMMA IInvAlways == Spec => [](Typed /\ IInv)
<1>1. Init => Typed /\ IInv
  BY InitTyped, InitIInv
<1>2. Typed /\ IInv /\ [Next]_vars => (Typed /\ IInv)'
  BY TypedStep, IInvStep
<1>3. QED
  BY <1>1, <1>2, PTL DEF Spec

\* No truck is ever sent to an incident nobody filed, however late the request
\* reaches the engine.
THEOREM OnlyFiledIncidentsAreServed == Spec => []OrdersNameFiledIncidents
<1>1. IInv => OrdersNameFiledIncidents
  BY DEF IInv, RequestsAreFiled, Requested, OrdersNameFiledIncidents
<1>2. QED
  BY <1>1, IInvAlways, PTL

\* The agent's record of its dispatches is truthful ...
THEOREM RecordsAreTruthful == Spec => []RecordedWereAccepted
<1>1. IInv => RecordedWereAccepted
  BY DEF IInv, RecordIsTrue, RecordedWereAccepted
<1>2. QED
  BY <1>1, IInvAlways, PTL

\* ... and complete but for the answers it never heard.
THEOREM RecordsAreComplete == Spec => []AcceptedAreAccountedFor
<1>1. IInv => AcceptedAreAccountedFor
  BY DEF IInv, NothingForgotten, AcceptedAreAccountedFor
<1>2. QED
  BY <1>1, IInvAlways, PTL

\* A closed incident says why.
THEOREM ClosingIsExplained == Spec => []ClosedHaveReason
<1>1. IInv => ClosedHaveReason
  BY DEF IInv
<1>2. QED
  BY <1>1, IInvAlways, PTL

LEMMA SentOnce == CallsAreOnce => OneOrderPerCall
<1> SUFFICES ASSUME CallsAreOnce PROVE OneOrderPerCall
  OBVIOUS
<1>1. \A o \in Sent : \E c \in Slots :
        /\ calls[c].state = "sent" /\ o = calls[c].order
        /\ OfSlot(o, c) /\ \A p \in orders \cup late : ~OfSlot(p, c)
  BY DEF CallsAreOnce, Sent, InFlight
<1>2. Sent \cap late = {} /\ Sent \cap orders = {} /\ late \cap orders = {}
  BY <1>1 DEF CallsAreOnce
<1>3. QED
  BY <1>1, <1>2 DEF CallsAreOnce, OneOrderPerCall, OfSlot, SameCall

\* A tool call puts at most one request in the world.
THEOREM NoCallIsSentTwice == Spec => []OneOrderPerCall
<1>1. IInv => OneOrderPerCall
  BY SentOnce DEF IInv
<1>2. QED
  BY <1>1, IInvAlways, PTL
============================================================================
