------------------------ MODULE IncidentStoreProofs ------------------------
(***************************************************************************)
(* Proofs about the incident store, for every set of texts, reports, ticks *)
(* and statuses, any callers and any number of incidents: first about      *)
(* IncidentStore, then about LoggedIncidents, for any failures of the file *)
(* system.                                                                 *)
(***************************************************************************)
EXTENDS LoggedIncidents, SequenceTheorems, TLAPS

\* The lists a caller may pass for report_ids are sequences of report ids.
LEMMA ListsAreEvidence == Lists \subseteq Evidence
<1> SUFFICES ASSUME NEW s \in Lists PROVE s \in Evidence
  OBVIOUS
<1>1. PICK n \in 0..2 : s \in [1..n -> ReportIds]
  BY DEF Lists
<1>2. n \in Nat
  OBVIOUS
<1>3. QED
  BY <1>1, <1>2, SeqDef DEF Evidence

\* An argument that was passed is a value of its field.
LEMMA PassedArgumentsTyped ==
  ASSUME NEW names, NEW arg \in Arguments(names)
  PROVE  /\ "status" \in names => arg.status \in Statuses
         /\ "report_ids" \in names => arg.report_ids \in Evidence
         /\ "notes" \in names => arg.notes \in Texts
         /\ "created_tick" \in names => arg.created_tick \in Ticks
         /\ "updated_tick" \in names => arg.updated_tick \in Ticks
         /\ "close_reason" \in names => arg.close_reason \in Texts \cup {None}
  BY ListsAreEvidence DEF Arguments, Values

LEMMA TouchTyped ==
  ASSUME NEW inc \in Incident, NEW t \in Ticks \cup {None}
  PROVE  Touch(inc, t) \in Incident
  BY DEF Touch, Incident

\* What the setattr loop leaves of an incident once update() has accepted it.
LEMMA SetFieldsTyped ==
  ASSUME NEW inc \in Incident, NEW t \in Ticks \cup {None}, NEW names,
         NEW arg \in Arguments(names), UpdateError(names, arg) = None
  PROVE  SetFields(inc, t, names, arg) \in Incident
<1> DEFINE status  == IF "status" \in names THEN arg.status ELSE inc.status
           reports == IF "report_ids" \in names THEN arg.report_ids ELSE inc.report_ids
           text    == IF "notes" \in names THEN arg.notes ELSE inc.notes
           created == IF "created_tick" \in names THEN arg.created_tick ELSE inc.created_tick
           updated == IF "updated_tick" \in names THEN arg.updated_tick ELSE inc.updated_tick
           reason  == IF "close_reason" \in names THEN arg.close_reason ELSE inc.close_reason
           written == [inc EXCEPT !.status = status, !.report_ids = reports, !.notes = text,
                                  !.created_tick = created, !.updated_tick = updated,
                                  !.close_reason = reason]
<1>1. status \in LegalStatuses
  BY NoneAssumption DEF UpdateError, Errors, Incident
<1>2. reports \in Evidence /\ text \in Texts /\ created \in Ticks /\ updated \in Ticks
      /\ reason \in Texts \cup {None}
  BY PassedArgumentsTyped DEF Incident
<1>3. SetFields(inc, t, names, arg) = Touch(written, t)
  BY DEF SetFields
<1> HIDE DEF status, reports, text, created, updated, reason
<1>4. written \in Incident
  BY <1>1, <1>2 DEF Incident
<1>5. QED
  BY <1>3, <1>4, TouchTyped

LEMMA NewIncidentTyped ==
  ASSUME NEW t \in Ticks, NEW names, NEW arg \in Arguments(names)
  PROVE  NewIncident(t, names, arg) \in Incident
<1>1. <<>> \in Evidence
  BY DEF Evidence
<1>2. STATUS_OPEN \in LegalStatuses
  BY DEF LegalStatuses
<1>3. QED
  BY <1>1, <1>2, PassedArgumentsTyped, TextsAssumption DEF NewIncident, Incident

\* Attaching a report appends it or changes nothing.
LEMMA AttachTyped ==
  ASSUME NEW inc \in Incident, NEW r \in ReportIds
  PROVE  Attach(inc, r) \in Incident
<1>1. \A s \in Evidence : Append(s, r) \in Evidence
  BY DEF Evidence
<1>2. QED
  BY <1>1 DEF Attach, Incident

LEMMA ClosedTyped ==
  ASSUME NEW inc \in Incident, NEW n \in Texts
  PROVE  [inc EXCEPT !.status = STATUS_CLOSED, !.close_reason = n] \in Incident
  BY DEF Incident, LegalStatuses

----------------------------------------------------------------------------
\* The four mutators, for the proofs that split on Next.
LEMMA StepCases ==
  ASSUME [Next]_vars
  PROVE  \/ \E names \in SUBSET CallerNames, t \in Ticks :
              \E arg \in Arguments(names) : Open(t, names, arg)
         \/ \E i \in Ids, t \in Ticks \cup {None}, names \in SUBSET CallerNames :
              \E arg \in Arguments(names) : Update(i, t, names, arg)
         \/ \E i \in Ids, r \in ReportIds, t \in Ticks \cup {None} : Link(i, r, t)
         \/ \E i \in Ids, n \in Texts, t \in Ticks \cup {None} : Close(i, n, t)
         \/ UNCHANGED vars
  BY DEF Next

\* Every method leaves a well-formed store, whatever the caller writes.
THEOREM TypeCorrect == Spec => []TypeOK
<1>1. Init => TypeOK
  BY MaxSeqAssumption DEF Init, TypeOK
<1>2. TypeOK /\ [Next]_vars => TypeOK'
  <2> SUFFICES ASSUME TypeOK, [Next]_vars PROVE TypeOK'
    OBVIOUS
  <2> USE DEF TypeOK
  <2>1. ASSUME NEW names \in SUBSET CallerNames, NEW t \in Ticks,
               NEW arg \in Arguments(names), Open(t, names, arg)
        PROVE  TypeOK'
    <3>1. CASE "status" \in names
      BY <2>1, <3>1 DEF Open, Raise, Errors
    <3>2. CASE "status" \notin names /\ names \cap {"created_tick", "updated_tick", "bogus"} # {}
      BY <2>1, <3>2, MaxSeqAssumption DEF Open, Errors
    <3>3. CASE "status" \notin names /\ names \cap {"created_tick", "updated_tick", "bogus"} = {}
      <4>1. seq' = seq + 1 /\ raised' = None /\ seq < MaxSeq
            /\ incidents' = With(seq', NewIncident(t, names, arg))
        BY <2>1, <3>3 DEF Open
      <4>2. NewIncident(t, names, arg) \in Incident
        BY NewIncidentTyped
      <4>3. DOMAIN incidents' \subseteq 1..seq'
        BY <4>1 DEF With
      <4>4. \A i \in DOMAIN incidents' : incidents'[i] \in Incident
        BY <4>1, <4>2 DEF With
      <4>5. QED
        BY <4>1, <4>3, <4>4, MaxSeqAssumption
    <3>4. QED
      BY <3>1, <3>2, <3>3
  <2>2. ASSUME NEW i \in Ids, NEW t \in Ticks \cup {None}, NEW names \in SUBSET CallerNames,
               NEW arg \in Arguments(names), Update(i, t, names, arg)
        PROVE  TypeOK'
    <3>1. CASE Holds(i) /\ UpdateError(names, arg) = None
      BY <2>2, <3>1, SetFieldsTyped DEF Update, Store, Holds
    <3>2. CASE ~(Holds(i) /\ UpdateError(names, arg) = None)
      BY <2>2, <3>2 DEF Update, Raise, Errors, UpdateError
    <3>3. QED
      BY <3>1, <3>2
  <2>3. ASSUME NEW i \in Ids, NEW r \in ReportIds, NEW t \in Ticks \cup {None}, Link(i, r, t)
        PROVE  TypeOK'
    <3>1. CASE Holds(i)
      <4>1. Touch(Attach(incidents[i], r), t) \in Incident
        BY <3>1, AttachTyped, TouchTyped DEF Holds
      <4>2. QED
        BY <2>3, <3>1, <4>1 DEF Link, Store, Holds
    <3>2. CASE ~Holds(i)
      BY <2>3, <3>2 DEF Link, Raise, Errors
    <3>3. QED
      BY <3>1, <3>2
  <2>4. ASSUME NEW i \in Ids, NEW n \in Texts, NEW t \in Ticks \cup {None}, Close(i, n, t)
        PROVE  TypeOK'
    <3>1. CASE Holds(i)
      <4>1. Touch([incidents[i] EXCEPT !.status = STATUS_CLOSED, !.close_reason = n], t) \in Incident
        BY <3>1, ClosedTyped, TouchTyped DEF Holds
      <4>2. QED
        BY <2>4, <3>1, <4>1 DEF Close, Store, Holds
    <3>2. CASE ~Holds(i)
      BY <2>4, <3>2 DEF Close, Raise, Errors
    <3>3. QED
      BY <3>1, <3>2
  <2>5. CASE UNCHANGED vars
    BY <2>5 DEF vars
  <2>6. QED
    BY <2>1, <2>2, <2>3, <2>4, <2>5, StepCases
<1>3. QED
  BY <1>1, <1>2, PTL DEF Spec

\* No status a caller tries to write can hide an incident from both queries.
THEOREM NeverStrandedAlways == Spec => []NeverStranded
<1>1. TypeOK => NeverStranded
  BY StatusAssumption, NoneAssumption DEF TypeOK, NeverStranded, Find, Incident, LegalStatuses, STATUS_OPEN, STATUS_CLOSED
<1>2. QED
  BY <1>1, TypeCorrect, PTL

\* No call writes before its last check.
LEMMA RejectedStep ==
  ASSUME [Next]_vars, raised' # None
  PROVE  UNCHANGED incidents
<1>1. ASSUME NEW names \in SUBSET CallerNames, NEW t \in Ticks,
             NEW arg \in Arguments(names), Open(t, names, arg)
      PROVE  UNCHANGED incidents
  BY <1>1 DEF Open, Raise
<1>2. ASSUME NEW i \in Ids, NEW t \in Ticks \cup {None}, NEW names \in SUBSET CallerNames,
             NEW arg \in Arguments(names), Update(i, t, names, arg)
      PROVE  UNCHANGED incidents
  BY <1>2 DEF Update, Raise, Store
<1>3. ASSUME NEW i \in Ids, NEW r \in ReportIds, NEW t \in Ticks \cup {None}, Link(i, r, t)
      PROVE  UNCHANGED incidents
  BY <1>3 DEF Link, Raise, Store
<1>4. ASSUME NEW i \in Ids, NEW n \in Texts, NEW t \in Ticks \cup {None}, Close(i, n, t)
      PROVE  UNCHANGED incidents
  BY <1>4 DEF Close, Raise, Store
<1>5. CASE UNCHANGED vars
  BY <1>5 DEF vars
<1>6. QED
  BY <1>1, <1>2, <1>3, <1>4, <1>5, StepCases

\* update() and open() are all-or-nothing.
THEOREM RejectedCallsWriteNothing == Spec => RejectedCallWritesNothing
<1>1. [Next]_vars => [raised' # None => UNCHANGED incidents]_vars
  BY RejectedStep
<1>2. QED
  BY <1>1, PTL DEF Spec, RejectedCallWritesNothing

----------------------------------------------------------------------------
(* The two properties that depend on callers leaving report_ids and         *)
(* created_tick to the store.                                              *)

NoRepeats(s) == \A j, k \in DOMAIN s : s[j] = s[k] => j = k
IsPrefixOf(s, t) == Len(s) <= Len(t) /\ \A k \in DOMAIN s : t[k] = s[k]

\* link() keeps what was linked, in order, and adds nothing already there.
LEMMA AttachKeepsEvidence ==
  ASSUME NEW inc \in Incident, NEW r \in ReportIds
  PROVE  /\ IsPrefixOf(inc.report_ids, Attach(inc, r).report_ids)
         /\ NoRepeats(inc.report_ids) => NoRepeats(Attach(inc, r).report_ids)
<1> DEFINE s == inc.report_ids
<1>1. s \in Seq(ReportIds)
  BY DEF Incident, Evidence
<1>2. CASE \E k \in DOMAIN s : s[k] = r
  <2>1. Attach(inc, r).report_ids = s
    BY <1>2 DEF Attach, Incident
  <2>2. QED
    BY <1>1, <2>1 DEF IsPrefixOf
<1>3. CASE ~\E k \in DOMAIN s : s[k] = r
  <2>1. Attach(inc, r).report_ids = Append(s, r)
    BY <1>3 DEF Attach, Incident
  <2> HIDE DEF s
  <2>2. /\ Len(Append(s, r)) = Len(s) + 1 /\ DOMAIN Append(s, r) = 1..(Len(s) + 1)
        /\ DOMAIN s = 1..Len(s) /\ Len(s) \in Nat
        /\ \A k \in 1..Len(s) : Append(s, r)[k] = s[k]
        /\ Append(s, r)[Len(s) + 1] = r
    BY <1>1
  <2>3. IsPrefixOf(s, Append(s, r))
    BY <2>2 DEF IsPrefixOf
  <2>4. NoRepeats(s) => NoRepeats(Append(s, r))
    BY <1>3, <2>2 DEF NoRepeats
  <2>5. QED
    BY <2>1, <2>3, <2>4 DEF s
<1>4. QED
  BY <1>2, <1>3

\* What every step does to the evidence of an incident already held.
LEMMA StepKeepsIncidents ==
  ASSUME CallersLink, TypeOK, [Next]_vars, NEW i \in DOMAIN incidents
  PROVE  /\ i \in DOMAIN incidents'
         /\ incidents'[i].created_tick = incidents[i].created_tick
         /\ IsPrefixOf(incidents[i].report_ids, incidents'[i].report_ids)
         /\ NoRepeats(incidents[i].report_ids) => NoRepeats(incidents'[i].report_ids)
<1> DEFINE old == incidents[i]
           Kept(new) == /\ new.created_tick = old.created_tick
                        /\ IsPrefixOf(old.report_ids, new.report_ids)
                        /\ NoRepeats(old.report_ids) => NoRepeats(new.report_ids)
<1>1. old \in Incident
  BY DEF TypeOK
<1>2. ASSUME NEW new, new.report_ids = old.report_ids, new.created_tick = old.created_tick
      PROVE  Kept(new)
  <2>1. old.report_ids \in Seq(ReportIds)
    BY <1>1 DEF Incident, Evidence
  <2>2. QED
    BY <1>2, <2>1 DEF IsPrefixOf
<1> SUFFICES i \in DOMAIN incidents' /\ Kept(incidents'[i])
  OBVIOUS
<1> HIDE DEF Kept
<1>3. ASSUME UNCHANGED incidents PROVE i \in DOMAIN incidents' /\ Kept(incidents'[i])
  BY <1>2, <1>3
<1>4. ASSUME NEW j, NEW new, Store(j, new), j = i => Kept(new)
      PROVE  i \in DOMAIN incidents' /\ Kept(incidents'[i])
  <2>1. incidents' = [incidents EXCEPT ![j] = new]
    BY <1>4 DEF Store
  <2>2. CASE j = i
    BY <1>4, <2>1, <2>2
  <2>3. CASE j # i
    BY <1>2, <2>1, <2>3
  <2>4. QED
    BY <2>2, <2>3
<1>5. ASSUME NEW names \in SUBSET CallerNames, NEW t \in Ticks,
             NEW arg \in Arguments(names), Open(t, names, arg)
      PROVE  i \in DOMAIN incidents' /\ Kept(incidents'[i])
  <2>1. CASE UNCHANGED incidents
    BY <1>3, <2>1
  <2>2. CASE seq' = seq + 1 /\ incidents' = With(seq', NewIncident(t, names, arg))
    <3>1. i # seq' /\ i \in DOMAIN incidents' /\ incidents'[i] = incidents[i]
      BY <2>2 DEF With, TypeOK
    <3>2. QED
      BY <1>2, <3>1
  <2>3. QED
    BY <1>5, <2>1, <2>2 DEF Open, Raise
<1>6. ASSUME NEW j \in Ids, NEW t \in Ticks \cup {None}, NEW names \in SUBSET CallerNames,
             NEW arg \in Arguments(names), Update(j, t, names, arg)
      PROVE  i \in DOMAIN incidents' /\ Kept(incidents'[i])
  <2>1. "report_ids" \notin names /\ "created_tick" \notin names
    BY DEF CallersLink
  <2>2. CASE UNCHANGED incidents
    BY <1>3, <2>2
  <2>3. CASE Store(j, SetFields(incidents[j], t, names, arg))
    <3>1. ASSUME j = i PROVE Kept(SetFields(incidents[j], t, names, arg))
      BY <1>1, <1>2, <2>1, <3>1 DEF SetFields, Touch, Incident
    <3>2. QED
      BY <1>4, <2>3, <3>1
  <2>4. QED
    BY <1>6, <2>2, <2>3 DEF Update, Raise
<1>7. ASSUME NEW j \in Ids, NEW r \in ReportIds, NEW t \in Ticks \cup {None}, Link(j, r, t)
      PROVE  i \in DOMAIN incidents' /\ Kept(incidents'[i])
  <2>1. CASE UNCHANGED incidents
    BY <1>3, <2>1
  <2>2. CASE Store(j, Touch(Attach(incidents[j], r), t))
    <3>1. ASSUME j = i PROVE Kept(Touch(Attach(incidents[j], r), t))
      <4>1. Attach(old, r) \in Incident /\ Attach(old, r).created_tick = old.created_tick
        BY <1>1, AttachTyped DEF Attach, Incident
      <4>2. /\ Touch(Attach(old, r), t).report_ids = Attach(old, r).report_ids
            /\ Touch(Attach(old, r), t).created_tick = old.created_tick
        BY <4>1 DEF Touch, Incident
      <4>3. QED
        BY <1>1, <3>1, <4>2, AttachKeepsEvidence DEF Kept
    <3>2. QED
      BY <1>4, <2>2, <3>1
  <2>3. QED
    BY <1>7, <2>1, <2>2 DEF Link, Raise
<1>8. ASSUME NEW j \in Ids, NEW n \in Texts, NEW t \in Ticks \cup {None}, Close(j, n, t)
      PROVE  i \in DOMAIN incidents' /\ Kept(incidents'[i])
  <2> DEFINE closed == Touch([incidents[j] EXCEPT !.status = STATUS_CLOSED,
                                                  !.close_reason = n], t)
  <2>1. CASE UNCHANGED incidents
    BY <1>3, <2>1
  <2>2. CASE Store(j, closed)
    <3>1. ASSUME j = i PROVE Kept(closed)
      BY <1>1, <1>2, <3>1 DEF Touch, Incident
    <3>2. QED
      BY <1>4, <2>2, <3>1
  <2>3. QED
    BY <1>8, <2>1, <2>2 DEF Close, Raise
<1>9. CASE UNCHANGED vars
  BY <1>3, <1>9 DEF vars
<1>10. QED
  BY <1>5, <1>6, <1>7, <1>8, <1>9, StepCases

\* Only open() adds an incident, and a new one carries no evidence.
LEMMA StepOpensEmpty ==
  ASSUME CallersLink, [Next]_vars, NEW i \in DOMAIN incidents' \ DOMAIN incidents
  PROVE  incidents'[i].report_ids = <<>>
<1>1. ASSUME NEW names \in SUBSET CallerNames, NEW t \in Ticks,
             NEW arg \in Arguments(names), Open(t, names, arg)
      PROVE  incidents'[i].report_ids = <<>>
  <2>1. incidents' = With(seq', NewIncident(t, names, arg)) /\ i = seq'
    BY <1>1 DEF Open, Raise, With
  <2>2. "report_ids" \notin names
    BY DEF CallersLink
  <2>3. incidents'[i] = NewIncident(t, names, arg)
    BY <2>1 DEF With
  <2>4. NewIncident(t, names, arg).report_ids = <<>>
    BY <2>2 DEF NewIncident
  <2>5. QED
    BY <2>3, <2>4
<1>2. ASSUME NEW j, NEW new, Store(j, new) PROVE FALSE
  BY <1>2 DEF Store
<1>3. ASSUME UNCHANGED incidents PROVE FALSE
  BY <1>3
<1>4. QED
  BY <1>1, <1>2, <1>3, StepCases DEF Update, Link, Close, Raise, vars

\* No report is ever twice under one incident (link() is idempotent).
THEOREM EvidenceLinkedOnceAlways ==
  ASSUME CallersLink PROVE Spec => []EvidenceLinkedOnce
<1>1. Init => EvidenceLinkedOnce
  BY DEF Init, EvidenceLinkedOnce
<1>2. TypeOK /\ EvidenceLinkedOnce /\ [Next]_vars => EvidenceLinkedOnce'
  <2> SUFFICES ASSUME TypeOK, EvidenceLinkedOnce, [Next]_vars, NEW i \in DOMAIN incidents'
               PROVE  NoRepeats(incidents'[i].report_ids)
    BY DEF EvidenceLinkedOnce, NoRepeats
  <2>1. CASE i \in DOMAIN incidents
    <3>1. NoRepeats(incidents[i].report_ids)
      BY <2>1 DEF EvidenceLinkedOnce, NoRepeats
    <3>2. QED
      BY <2>1, <3>1, StepKeepsIncidents
  <2>2. CASE i \notin DOMAIN incidents
    BY <2>2, StepOpensEmpty DEF NoRepeats
  <2>3. QED
    BY <2>1, <2>2
<1>3. QED
  BY <1>1, <1>2, TypeCorrect, PTL DEF Spec

\* An id names one belief for ever.
THEOREM IdentityIsKept ==
  ASSUME CallersLink PROVE Spec => IdentityKept
<1>1. TypeOK /\ [Next]_vars =>
        [\A i \in DOMAIN incidents :
           i \in DOMAIN incidents' /\ SameBelief(incidents[i], incidents'[i])]_vars
  <2> SUFFICES ASSUME TypeOK, [Next]_vars, NEW i \in DOMAIN incidents
               PROVE  i \in DOMAIN incidents' /\ SameBelief(incidents[i], incidents'[i])
    OBVIOUS
  <2>1. QED
    BY StepKeepsIncidents DEF SameBelief, IsPrefixOf
<1>2. QED
  BY <1>1, TypeCorrect, PTL DEF Spec, IdentityKept

----------------------------------------------------------------------------
(* The store with a log: it tells its reader the truth, and cannot be told  *)
(* from the store without one.                                             *)

\* A step of the store with a log is a step of the store.
LEMMA LoggedSpecIsSpec == LoggedSpec => Spec
<1>1. LoggedInit => Init
  BY DEF LoggedInit
<1>2. [LoggedNext]_logged => [Next]_vars
  BY DEF LoggedNext, logged, vars
<1>3. QED
  BY <1>1, <1>2, PTL DEF LoggedSpec, Spec

\* The beliefs are a function of the ids drawn, and the log is what they are
\* once a write of it succeeds; what an earlier session left is gone by then.
IsStore == incidents = [i \in DOMAIN incidents |-> incidents[i]]
LogInv  ==
  path => /\ file # Old
          /\ LogError(incidents) = None =>
               file = incidents \/ warned \/ (incidents = <<>> /\ file = None)

LEMMA StoresStayFunctions ==
  ASSUME IsStore, [Next]_vars
  PROVE  IsStore'
<1>1. ASSUME NEW i, NEW inc, Store(i, inc) PROVE IsStore'
  BY <1>1 DEF IsStore, Store
<1>2. ASSUME UNCHANGED incidents PROVE IsStore'
  BY <1>2 DEF IsStore
<1>3. ASSUME NEW names \in SUBSET CallerNames, NEW t \in Ticks,
             NEW arg \in Arguments(names), Open(t, names, arg)
      PROVE  IsStore'
  <2>1. CASE incidents' = With(seq', NewIncident(t, names, arg))
    BY <2>1 DEF With, IsStore
  <2>2. QED
    BY <1>2, <1>3, <2>1 DEF Open, Raise
<1>4. ASSUME NEW i \in Ids, NEW t \in Ticks \cup {None}, NEW names \in SUBSET CallerNames,
             NEW arg \in Arguments(names), Update(i, t, names, arg)
      PROVE  IsStore'
  BY <1>1, <1>2, <1>4 DEF Update, Raise
<1>5. ASSUME NEW i \in Ids, NEW r \in ReportIds, NEW t \in Ticks \cup {None}, Link(i, r, t)
      PROVE  IsStore'
  BY <1>1, <1>2, <1>5 DEF Link, Raise
<1>6. ASSUME NEW i \in Ids, NEW n \in Texts, NEW t \in Ticks \cup {None}, Close(i, n, t)
      PROVE  IsStore'
  BY <1>1, <1>2, <1>6 DEF Close, Raise
<1>7. QED
  BY <1>2, <1>3, <1>4, <1>5, <1>6, StepCases DEF vars

LEMMA LogStart == LoggedInit => IsStore /\ LogInv
<1> SUFFICES ASSUME LoggedInit PROVE IsStore /\ LogInv
  OBVIOUS
<1>1. incidents = <<>> /\ (path => file = None)
  BY DEF LoggedInit, Init, Debug!Construct
<1>2. IsStore
  BY <1>1 DEF IsStore
<1>3. LogInv
  BY <1>1, FileAssumption DEF LogInv
<1>4. QED
  BY <1>2, <1>3

\* One rewrite of the log, whatever comes of it.
LEMMA LogStep ==
  ASSUME TypeOK', IsStore', LogInv, [LoggedNext]_logged
  PROVE  LogInv'
<1>1. CASE UNCHANGED logged
  BY <1>1 DEF logged, vars, LogInv, LogError, Nested
<1>2. CASE LoggedNext /\ raised' # None
  <2>1. UNCHANGED <<incidents, path, file, warned>>
    BY <1>2, RejectedStep DEF LoggedNext, LogLast
  <2>2. QED
    BY <2>1 DEF LogInv, LogError, Nested
<1>3. CASE LoggedNext /\ raised' = None
  <2>1. Debug!Log(incidents', LogError(incidents'))
    BY <1>3 DEF LoggedNext, LogLast
  <2> SUFFICES ASSUME path'
               PROVE  /\ file' # Old
                      /\ LogError(incidents') = None =>
                           file' = incidents' \/ warned' \/ (incidents' = <<>> /\ file' = None)
    BY DEF LogInv, LogError, Nested
  <2>2. path /\ file # Old
    BY <2>1 DEF Debug!Log, Debug!logVars, LogInv
  <2>3. CASE LogError(incidents') = "RecursionError"
    BY <2>1, <2>2, <2>3, EscapeAssumption DEF Debug!Log, Debug!logVars, Debug!Caught
  <2>4. CASE LogError(incidents') = None
    <3>1. file' = incidents' \/ (warned' /\ file' \in {file, Torn})
      BY <2>1, <2>2, <2>4, NoneAssumption, EscapeAssumption DEF Errors, Debug!Log, Debug!logVars, Debug!Caught
    <3>2. incidents' # Old
      <4>1. DOMAIN incidents' \in SUBSET (1..MaxSeq)
        BY MaxSeqAssumption DEF TypeOK
      <4>2. incidents' \in [DOMAIN incidents' -> Incident]
        BY DEF TypeOK, IsStore
      <4>3. QED
        BY <4>1, <4>2, FileAssumption
    <3>3. QED
      BY <2>2, <3>1, <3>2, FileAssumption
  <2>5. QED
    BY <2>3, <2>4 DEF LogError
<1>4. QED
  BY <1>1, <1>2, <1>3

\* Whoever reads the log of the incidents finds the beliefs as they are or was
\* warned, whatever the file system does (incidents.py:10-12).
THEOREM LogOfBeliefsIsCurrentOrWarned == LoggedSpec => []LogIsCurrentOrWarned
<1>1. LoggedSpec => []TypeOK
  BY LoggedSpecIsSpec, TypeCorrect, PTL
<1>2. [LoggedNext]_logged => [Next]_vars
  BY DEF LoggedNext, logged, vars
<1>3. IsStore /\ [Next]_vars => IsStore'
  BY StoresStayFunctions
<1>4. LogInv => LogIsCurrentOrWarned
  BY DEF LogInv, LogIsCurrentOrWarned, Debug!LogIsCurrentOrWarned
<1>5. TypeOK' /\ IsStore' /\ LogInv /\ [LoggedNext]_logged => LogInv'
  BY LogStep
<1>6. QED
  BY <1>1, <1>2, <1>3, <1>4, <1>5, LogStart, PTL DEF LoggedSpec

----------------------------------------------------------------------------
(* The refinement: when asdict can follow whatever callers write, the store *)
(* with a log is the store without one.                                     *)

\* Nothing then escapes from _log().
LEMMA NothingEscapes ==
  ASSUME Deep \cap (Texts \cup {None}) = {}, TypeOK', LoggedNext
  PROVE  result' = raised'
<1>1. CASE raised' # None
  BY <1>1 DEF LoggedNext, LogLast
<1>2. CASE raised' = None
  <2>1. \A i \in DOMAIN incidents' : incidents'[i].notes \notin Deep /\ incidents'[i].close_reason \notin Deep
    BY DEF TypeOK, Incident
  <2>2. LogError(incidents') = None
    BY <2>1 DEF LogError, Nested
  <2>3. result' = Debug!Escapes(LogError(incidents'))
    BY <1>2 DEF LoggedNext, LogLast
  <2>4. QED
    BY <1>2, <2>2, <2>3 DEF Debug!Escapes
<1>3. QED
  BY <1>1, <1>2

\* Each mutator maps to itself when its caller sees how its body ended.
LEMMA SameArguments ==
  ASSUME NEW names
  PROVE  /\ Plain!Arguments(names) = Arguments(names)
         /\ Plain!Ids = Ids
  BY DEF Plain!Arguments, Arguments, Plain!Values, Values, Plain!Lists, Lists, Plain!Ids, Ids

LEMMA OpenIsPlain ==
  ASSUME result' = raised', NEW t, NEW names, NEW arg, Open(t, names, arg)
  PROVE  Plain!Open(t, names, arg)
  BY DEF Open, Plain!Open, Raise, Plain!Raise, With, Plain!With, NewIncident, Plain!NewIncident,
         STATUS_OPEN, Plain!STATUS_OPEN

LEMMA UpdateIsPlain ==
  ASSUME result' = raised', NEW i, NEW t, NEW names, NEW arg, Update(i, t, names, arg)
  PROVE  Plain!Update(i, t, names, arg)
<1>1. Plain!UpdateError(names, arg) = UpdateError(names, arg)
  BY DEF UpdateError, Plain!UpdateError, FieldNames, Plain!FieldNames, LegalStatuses,
         Plain!LegalStatuses, STATUS_OPEN, STATUS_CLOSED, Plain!STATUS_OPEN, Plain!STATUS_CLOSED
<1>2. \A inc : Plain!SetFields(inc, t, names, arg) = SetFields(inc, t, names, arg)
  BY DEF SetFields, Plain!SetFields, Touch, Plain!Touch
<1>3. QED
  BY <1>1, <1>2 DEF Update, Plain!Update, Raise, Plain!Raise, Store, Plain!Store, Holds, Plain!Holds

LEMMA LinkIsPlain ==
  ASSUME result' = raised', NEW i, NEW r, NEW t, Link(i, r, t)
  PROVE  Plain!Link(i, r, t)
  BY DEF Link, Plain!Link, Raise, Plain!Raise, Store, Plain!Store, Holds, Plain!Holds,
         Touch, Plain!Touch, Attach, Plain!Attach

LEMMA CloseIsPlain ==
  ASSUME result' = raised', NEW i, NEW n, NEW t, Close(i, n, t)
  PROVE  Plain!Close(i, n, t)
  BY DEF Close, Plain!Close, Raise, Plain!Raise, Store, Plain!Store, Holds, Plain!Holds,
         Touch, Plain!Touch, STATUS_CLOSED, Plain!STATUS_CLOSED

LEMMA StepIsPlain ==
  ASSUME Next, result' = raised'
  PROVE  Plain!Next
<1>1. ASSUME NEW names \in SUBSET CallerNames, NEW t \in Ticks,
             NEW arg \in Arguments(names), Open(t, names, arg)
      PROVE  Plain!Next
  BY <1>1, SameArguments, OpenIsPlain DEF Plain!Next
<1>2. ASSUME NEW i \in Ids, NEW t \in Ticks \cup {None}, NEW names \in SUBSET CallerNames,
             NEW arg \in Arguments(names), Update(i, t, names, arg)
      PROVE  Plain!Next
  BY <1>2, SameArguments, UpdateIsPlain DEF Plain!Next
<1>3. ASSUME NEW i \in Ids, NEW r \in ReportIds, NEW t \in Ticks \cup {None}, Link(i, r, t)
      PROVE  Plain!Next
  BY <1>3, SameArguments, LinkIsPlain DEF Plain!Next
<1>4. ASSUME NEW i \in Ids, NEW n \in Texts, NEW t \in Ticks \cup {None}, Close(i, n, t)
      PROVE  Plain!Next
  BY <1>4, SameArguments, CloseIsPlain DEF Plain!Next
<1>5. QED
  BY <1>1, <1>2, <1>3, <1>4 DEF Next

\* The log cannot be seen from the callers of the store: with a path and any
\* failures of the file system every call does and ends as it would without
\* one (incidents.py:12), unless a belief can be nested too deep for asdict.
THEOREM LoggedStoreIsTheStore ==
  ASSUME Deep \cap (Texts \cup {None}) = {}
  PROVE  LoggedSpec => LogIsInvisible
<1>1. LoggedSpec => []TypeOK
  BY LoggedSpecIsSpec, TypeCorrect, PTL
<1>2. LoggedInit => Plain!Init
  BY DEF LoggedInit, Init, Plain!Init
<1>3. TypeOK' /\ [LoggedNext]_logged => [Plain!Next]_Plain!vars
  <2>1. CASE UNCHANGED logged
    BY <2>1 DEF logged, vars, Plain!vars
  <2>2. ASSUME TypeOK', LoggedNext PROVE Plain!Next
    BY <2>2, NothingEscapes, StepIsPlain DEF LoggedNext
  <2>3. QED
    BY <2>1, <2>2
<1>4. QED
  BY <1>1, <1>2, <1>3, PTL DEF LoggedSpec, LogIsInvisible, Plain!Spec
=============================================================================
