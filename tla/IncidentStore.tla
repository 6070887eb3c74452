--------------------------- MODULE IncidentStore ---------------------------
(***************************************************************************)
(* stores/incidents.py: the agent's mutable beliefs about suspected fires, *)
(* as a store built without a debug-log path (what runner.Episode builds). *)
(*                                                                         *)
(* One action per method.  Any caller may make any sequence of calls, so   *)
(* what is shown here holds of the store whoever drives it.                *)
(*                                                                         *)
(* Abstractions: the id "inc-<n>" is the number n; `notes` stands for all  *)
(* free-form belief fields (incident_type, coords, building_id, severity,  *)
(* notes), which the mutators write alike and never read.  The dict        *)
(* preserves insertion order; ids are drawn from a counter, so that order  *)
(* is the order of the ids and a function of the ids carries it.           *)
(***************************************************************************)
EXTENDS Naturals, FiniteSets, Sequences

CONSTANTS
  None,       \* Python's None
  Texts,      \* values of a free-form field and of a close reason
  ReportIds,  \* contact ids of the reports that may be linked
  Ticks,      \* simulation ticks
  Statuses,   \* every status a caller may try to write, legal or not
  CallerNames,\* keyword names callers use in **fields of open() and update()
  MaxSeq      \* bound on the id counter: at most MaxSeq calls of open()

STATUS_OPEN   == "open"
STATUS_CLOSED == "closed"
LegalStatuses == {STATUS_OPEN, STATUS_CLOSED}

Errors == {"UnknownIncidentError", "ValueError", "TypeError"}

ASSUME NoneAssumption   == /\ None \notin Texts /\ None \notin Statuses
                           /\ None \notin Ticks /\ None \notin Errors
ASSUME TicksAssumption  == Ticks \subseteq Nat
ASSUME StatusAssumption == LegalStatuses \subseteq Statuses
ASSUME TextsAssumption  == "" \in Texts
ASSUME MaxSeqAssumption == MaxSeq \in Nat

(***************************************************************************)
(* update() may write any field of the dataclass, its bookkeeping included;*)
(* open() any but the ticks.  "bogus" is a name Incident does not have.    *)
(***************************************************************************)
FieldNames == {"status", "report_ids", "notes", "created_tick", "updated_tick", "close_reason"}
ArgNames   == FieldNames \cup {"bogus"}
ASSUME CallerNamesAssumption == CallerNames \subseteq ArgNames

VARIABLES
  incidents,  \* _by_id: id -> Incident
  seq,        \* _seq: the last id drawn
  raised      \* how the last call ended: None, or the exception it raised

vars == <<incidents, seq, raised>>

Evidence == Seq(ReportIds)
Incident ==
  [status: LegalStatuses, report_ids: Evidence, notes: Texts,
   created_tick: Ticks, updated_tick: Ticks, close_reason: Texts \cup {None}]

(***************************************************************************)
(* A call's keywords are `names`, with their values in `arg`; a field of   *)
(* `arg` that `names` does not list was not passed.                        *)
(***************************************************************************)
Lists    == UNION {[1..n -> ReportIds] : n \in 0..2}
Argument == [status: Statuses, report_ids: Lists, notes: Texts,
             created_tick: Ticks, updated_tick: Ticks, close_reason: Texts \cup {None}]

Holds(i) == i \in DOMAIN incidents

\* The optional `tick` argument of update(), link() and close().
Touch(inc, tick) ==
  [inc EXCEPT !.updated_tick = IF tick = None THEN @ ELSE tick]

Raise(error) == raised' = error /\ UNCHANGED <<incidents, seq>>

Store(i, inc) ==
  /\ incidents' = [incidents EXCEPT ![i] = inc]
  /\ raised' = None
  /\ UNCHANGED seq

----------------------------------------------------------------------------
Init == incidents = <<>> /\ seq = 0 /\ raised = None

NewIncident(tick, names, arg) ==
  [status       |-> STATUS_OPEN,
   report_ids   |-> IF "report_ids" \in names THEN arg.report_ids ELSE <<>>,
   notes        |-> IF "notes" \in names THEN arg.notes ELSE "",
   created_tick |-> tick,
   updated_tick |-> tick,
   close_reason |-> IF "close_reason" \in names THEN arg.close_reason ELSE None]

With(i, inc) == [j \in DOMAIN incidents \cup {i} |-> IF j = i THEN inc ELSE incidents[j]]

\* find(status=...), without the type and spatial filters; None matches any.
Find(status) ==
  {i \in DOMAIN incidents : status = None \/ incidents[i].status = status}

\* open(): a status is refused before the id is drawn; a keyword Incident
\* does not know, or open() sets itself, fails in the constructor, after it.
OpenReusesId(tick, names, arg) ==
  /\ seq < MaxSeq
  /\ "status" \notin names /\ names \cap {"created_tick", "updated_tick", "bogus"} = {}
  /\ seq' = Cardinality(Find(STATUS_OPEN)) + 1
  /\ incidents' = With(seq', NewIncident(tick, names, arg)) /\ raised' = None
Open(tick, names, arg) ==
  /\ seq < MaxSeq
  /\ IF "status" \in names THEN Raise("ValueError")
     ELSE /\ seq' = seq + 1
          /\ IF names \cap {"created_tick", "updated_tick", "bogus"} # {}
             THEN raised' = "TypeError" /\ UNCHANGED incidents
             ELSE raised' = None /\ incidents' = With(seq', NewIncident(tick, names, arg))

\* The setattr loop of update(), then the tick.
SetFields(inc, tick, names, arg) ==
  Touch([inc EXCEPT !.status       = IF "status" \in names THEN arg.status ELSE @,
                    !.report_ids   = IF "report_ids" \in names THEN arg.report_ids ELSE @,
                    !.notes        = IF "notes" \in names THEN arg.notes ELSE @,
                    !.created_tick = IF "created_tick" \in names THEN arg.created_tick ELSE @,
                    !.updated_tick = IF "updated_tick" \in names THEN arg.updated_tick ELSE @,
                    !.close_reason = IF "close_reason" \in names THEN arg.close_reason ELSE @],
        tick)

\* The checks update() makes before its first write.
UpdateErrorUnchecked(names, arg) ==
  IF ~(names \subseteq FieldNames) THEN "ValueError" ELSE None
UpdateError(names, arg) ==
  IF ~(names \subseteq FieldNames) \/ ("status" \in names /\ arg.status \notin LegalStatuses)
  THEN "ValueError" ELSE None

\* update(): every check precedes the first write.
UpdateTorn(i, tick, names, arg) ==
  IF ~Holds(i) THEN Raise("UnknownIncidentError")
  ELSE /\ incidents' = [incidents EXCEPT ![i] =
              SetFields(@, tick, IF UpdateError(names \ {"bogus"}, arg) = None
                                 THEN names ELSE names \ {"status"}, arg)]
       /\ raised' = UpdateError(names, arg)
       /\ UNCHANGED seq
Update(i, tick, names, arg) ==
  IF ~Holds(i) THEN Raise("UnknownIncidentError")
  ELSE IF UpdateError(names, arg) # None THEN Raise(UpdateError(names, arg))
  ELSE Store(i, SetFields(incidents[i], tick, names, arg))

\* link(): idempotent attachment of a supporting report.
AttachAlways(inc, r) == [inc EXCEPT !.report_ids = Append(@, r)]
Attach(inc, r) ==
  [inc EXCEPT !.report_ids =
     IF \E k \in DOMAIN inc.report_ids : inc.report_ids[k] = r THEN @ ELSE Append(@, r)]

Link(i, r, tick) ==
  IF ~Holds(i) THEN Raise("UnknownIncidentError")
  ELSE Store(i, Touch(Attach(incidents[i], r), tick))

\* close(): retire with a reason; a second close overwrites the first reason.
Close(i, reason, tick) ==
  IF ~Holds(i) THEN Raise("UnknownIncidentError")
  ELSE Store(i, Touch([incidents[i] EXCEPT !.status = STATUS_CLOSED,
                                           !.close_reason = reason], tick))

----------------------------------------------------------------------------
Ids == 0..MaxSeq   \* 0 is an id the store never draws

\* The arguments a call with these keywords can have: one of each field that is
\* not passed, every value of each that is.
Values(name, names, S) == IF name \in names THEN S ELSE {CHOOSE x \in S : TRUE}
Arguments(names) ==
  [status:       Values("status", names, Statuses),
   report_ids:   Values("report_ids", names, Lists),
   notes:        Values("notes", names, Texts),
   created_tick: Values("created_tick", names, Ticks),
   updated_tick: Values("updated_tick", names, Ticks),
   close_reason: Values("close_reason", names, Texts \cup {None})]

Next ==
  \/ \E names \in SUBSET CallerNames, t \in Ticks :
       \E arg \in Arguments(names) : Open(t, names, arg)
  \/ \E i \in Ids, t \in Ticks \cup {None}, names \in SUBSET CallerNames :
       \E arg \in Arguments(names) : Update(i, t, names, arg)
  \/ \E i \in Ids, r \in ReportIds, t \in Ticks \cup {None} : Link(i, r, t)
  \/ \E i \in Ids, n \in Texts, t \in Ticks \cup {None} : Close(i, n, t)

Spec == Init /\ [][Next]_vars

----------------------------------------------------------------------------
\* The store holds well-formed incidents under ids it has drawn.
TypeOK ==
  /\ seq \in 0..MaxSeq
  /\ DOMAIN incidents \subseteq 1..seq
  /\ \A i \in DOMAIN incidents : incidents[i] \in Incident
  /\ raised \in Errors \cup {None}

\* No incident is ever stranded: whatever statuses callers try to write,
\* each incident is selected by exactly one of find(status="open") and
\* find(status="closed") (incidents.py:26-31).
NeverStranded ==
  /\ Find(STATUS_OPEN) \cup Find(STATUS_CLOSED) = Find(None)
  /\ Find(STATUS_OPEN) \cap Find(STATUS_CLOSED) = {}

(***************************************************************************)
(* The next two hold for callers that attach evidence with link() and leave*)
(* the bookkeeping to the store: update(report_ids=...) would let a caller *)
(* write anything there.  dispatch.py:163, the only call of update() that  *)
(* ships, passes status and notes.                                         *)
(***************************************************************************)
CallersLink == CallerNames \cap {"report_ids", "created_tick"} = {}

\* Evidence is attached once: no interleaving of open, link, update and
\* close leaves the same report twice under one incident (link's contract).
EvidenceLinkedOnce ==
  \A i \in DOMAIN incidents :
    \A j, k \in DOMAIN incidents[i].report_ids :
      incidents[i].report_ids[j] = incidents[i].report_ids[k] => j = k

\* An id names one belief for ever: an incident is never dropped, replaced by
\* a later open(), or stripped of evidence already linked to it.
SameBelief(old, new) ==
  /\ new.created_tick = old.created_tick
  /\ Len(old.report_ids) <= Len(new.report_ids)
  /\ \A k \in DOMAIN old.report_ids : new.report_ids[k] = old.report_ids[k]
IdentityKept ==
  [][\A i \in DOMAIN incidents :
       i \in DOMAIN incidents' /\ SameBelief(incidents[i], incidents'[i])]_vars

\* All-or-nothing: a call that raises has written no belief, however many of
\* its fields were acceptable (update's docstring).
RejectedCallWritesNothing ==
  [][raised' # None => UNCHANGED incidents]_vars
=============================================================================
