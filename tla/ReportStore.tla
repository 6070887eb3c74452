---------------------------- MODULE ReportStore ----------------------------
(***************************************************************************)
(* stores/reports.py: the append-only store of extracted evidence, its     *)
(* query and its debug log.                                                *)
(*                                                                         *)
(* Abstractions: incident_type, reported_location and notes are one        *)
(* `claim`; points are those of Queries.  `rows` is _by_id: a dict keeps   *)
(* its insertion order.                                                    *)
(***************************************************************************)
EXTENDS Queries, SequencesExt, FiniteSets

CONSTANTS
  Old, Torn,         \* see DebugLog
  ContactIds, Claims,
  Ticks,
  Deep, Odd,         \* claims _log() cannot serialise: RecursionError, TypeError
  MaxOffers          \* bound: calls of add()

ASSUME NoneAssumption == None \notin Claims /\ None \notin {"TypeError", "RecursionError"}
ASSUME BoundsAssumption == Ticks \subseteq Int /\ MaxOffers \in Nat
ASSUME ClaimsAssumption == Deep \cup Odd \subseteq Claims

VARIABLES
  rows,       \* _by_id
  returned,   \* what the last add() returned
  raised,     \* the exception that left the last add(), or None
  path, file, warned,  \* DebugLog
  offered     \* history: the argument of every add(), in order

Debug == INSTANCE DebugLog

vars == <<rows, returned, raised, path, file, warned, offered>>

Report == [contact_id: ContactIds, claim: Claims,
           coords: Places \cup {None, NaN}, tick: Ticks \cup {None}]

\* None is no report, and what an earlier session left is none of this one's.
ASSUME FileAssumption ==
  /\ None \notin Report
  /\ Old \notin {None, Torn} /\ Old \notin Seq(Report)

\* get(): the stored report of a contact, or None.
Get(id) ==
  IF \E k \in DOMAIN rows : rows[k].contact_id = id
  THEN rows[CHOOSE k \in DOMAIN rows : rows[k].contact_id = id]
  ELSE None

\* What serialising the rows raises.
LogError(rs) ==
  IF \E k \in DOMAIN rs : rs[k].claim \in Deep THEN "RecursionError"
  ELSE IF \E k \in DOMAIN rs : rs[k].claim \in Odd THEN "TypeError" ELSE None

----------------------------------------------------------------------------
Init ==
  /\ rows = <<>> /\ returned = None /\ raised = None /\ offered = <<>>
  /\ \E before \in {None, Old, Torn} : Debug!Construct(before)

AddOverwrites(report) ==
  /\ Len(offered) < MaxOffers
  /\ offered' = Append(offered, report)
  /\ IF Get(report.contact_id) # None
     THEN rows' = [k \in DOMAIN rows |->
                     IF rows[k].contact_id = report.contact_id THEN report ELSE rows[k]]
     ELSE rows' = Append(rows, report)
  /\ Debug!Log(rows', LogError(rows'))
  /\ returned' = report /\ raised' = Debug!Escapes(LogError(rows'))
\* add(): idempotent by contact_id; the first report of a contact stays.
Add(report) ==
  /\ Len(offered) < MaxOffers
  /\ offered' = Append(offered, report)
  /\ IF Get(report.contact_id) # None
     THEN /\ returned' = Get(report.contact_id) /\ raised' = None
          /\ UNCHANGED <<rows, path, file, warned>>
     ELSE /\ rows' = Append(rows, report)
          /\ Debug!Log(rows', LogError(rows'))
          /\ raised' = Debug!Escapes(LogError(rows'))
          /\ returned' = IF raised' = None THEN report ELSE None

Next == \E report \in Report : Add(report)

Spec == Init /\ [][Next]_vars

----------------------------------------------------------------------------
(* find_reports() *)

NotNearNaN(report, near, radius) ==
  /\ near # None /\ radius # None
  /\ report.coords = None \/ Less(radius, Dist(report.coords, near))
\* The spatial filter, and the time filter, that leave a report out.
NotNear(report, near, radius) ==
  /\ near # None /\ radius # None
  /\ report.coords = None \/ ~LessEq(Dist(report.coords, near), radius)

OutOfTimeHalfOpen(report, start, end) ==
  /\ start # None \/ end # None
  /\ \/ report.tick = None
     \/ start # None /\ report.tick < start
     \/ end # None /\ report.tick >= end
OutOfTime(report, start, end) ==
  /\ start # None \/ end # None
  /\ \/ report.tick = None
     \/ start # None /\ report.tick < start
     \/ end # None /\ report.tick > end

FindReports(near, radius, start, end) ==
  Kept(rows, {n \in DOMAIN rows : ~NotNear(rows[n], near, radius) /\ ~OutOfTime(rows[n], start, end)})

----------------------------------------------------------------------------
\* The store is the evidence as it first arrived: of all reports ever offered
\* it holds, for each contact, the first, and holds them in order of arrival;
\* no later report of the contact, and no failure of the log, changes that.
\* add() answers with that first report, whichever its caller came with.
FirstOffers ==
  {k \in DOMAIN offered : \A j \in 1..(k - 1) : offered[j].contact_id # offered[k].contact_id}
FirstWriteWins ==
  /\ \A k \in FirstOffers : \E n \in DOMAIN rows : rows[n] = offered[k]
  /\ \A n \in DOMAIN rows : \E k \in FirstOffers : rows[n] = offered[k]
  /\ \A m, n \in DOMAIN rows, j, k \in FirstOffers :
       m < n /\ rows[m] = offered[j] /\ rows[n] = offered[k] => j < k
  /\ offered # <<>> /\ raised = None =>
       \E k \in FirstOffers : /\ returned = offered[k]
                             /\ returned.contact_id = Last(offered).contact_id

\* The log is current, or the last attempt to write it warned (reports.py:8-10),
\* as long as no claim is nested too deep for _log(): see LoggedIncidents.
LogIsCurrentOrWarned ==
  LogError(rows) # "RecursionError" => Debug!LogIsCurrentOrWarned(rows, <<>>)

\* Time windows tile: cut at any tick, every dated report falls on exactly one
\* side, an undated one on neither, and no bound at all selects everything.
TimeWindowsTile ==
  /\ FindReports(None, None, None, None) = rows
  /\ \A t \in Ticks :
       LET before == ToSet(FindReports(None, None, None, t))
           after  == ToSet(FindReports(None, None, t + 1, None))
       IN /\ before \cap after = {}
          /\ before \cup after = {r \in ToSet(rows) : r.tick # None}

\* A spatial query finds only reports placed within its radius of it, all of
\* them, in order of arrival; a report with no place, or a place that is not a
\* number, is near nothing (find_reports, the comment at reports.py:91-93).
NearMeansNear ==
  \A near \in Places, radius \in Radii :
    LET found == FindReports(near, radius, None, None)
    IN /\ \A r \in ToSet(rows) :
            r \in ToSet(found) <=> r.coords \in (near - radius)..(near + radius)
       /\ \A j, k \in DOMAIN found :
            j < k => \E m, n \in DOMAIN rows : m < n /\ rows[m] = found[j] /\ rows[n] = found[k]
=============================================================================
