-------------------------- MODULE LoggedIncidents --------------------------
(***************************************************************************)
(* stores/incidents.py with a path: every mutator that gets as far as      *)
(* `self._log()` rewrites the debug log, and may be left by what _log()    *)
(* lets escape.                                                            *)
(*                                                                         *)
(* IncidentStore is the abstract specification here: the same store with   *)
(* no log.  "A debug aid must never be able to abort a mutation"           *)
(* (incidents.py:12) says that a caller cannot tell the two apart.         *)
(***************************************************************************)
EXTENDS IncidentStore

CONSTANTS
  Old, Torn,   \* see DebugLog
  Deep         \* free-form values nested deeper than dataclasses.asdict recurses

VARIABLES
  path, file, warned,  \* DebugLog
  result       \* how the last call ended for its caller; `raised` is how its body did

\* What an earlier session left in the file is none of what this one writes.
ASSUME FileAssumption ==
  /\ Old \notin {None, Torn}
  /\ \A held \in SUBSET (1..MaxSeq) : Old \notin [held -> Incident]

\* None is no error of the log either.
ASSUME EscapeAssumption == None # "RecursionError"

Debug == INSTANCE DebugLog
Plain == INSTANCE IncidentStore WITH raised <- result

logged == <<vars, path, file, warned, result>>

Nested(inc) == inc.notes \in Deep \/ inc.close_reason \in Deep

\* What serialising the rows raises that _log() does not catch.  (What it does
\* catch, such as the TypeError of a tuple as a key, ends like a failed write.)
LogError(beliefs) ==
  IF \E i \in DOMAIN beliefs : Nested(beliefs[i]) THEN "RecursionError" ELSE None

\* The path to clear, or go without.
LoggedInit ==
  /\ Init /\ result = None
  /\ \E before \in {None, Old, Torn} : Debug!Construct(before)

\* A mutator's last statement before it returns; a body that raised never
\* gets there.
LogFirst ==
  IF raised' # None THEN result' = raised' /\ UNCHANGED <<path, file, warned>>
  ELSE Debug!Log(incidents, LogError(incidents)) /\ result' = Debug!Escapes(LogError(incidents))
LogLastUncaught ==
  IF raised' # None THEN result' = raised' /\ UNCHANGED <<path, file, warned>>
  ELSE /\ Debug!Log(incidents', LogError(incidents'))
       /\ result' = IF path /\ warned' THEN "OSError" ELSE Debug!Escapes(LogError(incidents'))
LogLast ==
  IF raised' # None THEN result' = raised' /\ UNCHANGED <<path, file, warned>>
  ELSE Debug!Log(incidents', LogError(incidents')) /\ result' = Debug!Escapes(LogError(incidents'))

LoggedNext == Next /\ LogLast

LoggedSpec == LoggedInit /\ [][LoggedNext]_logged

----------------------------------------------------------------------------
\* With values asdict can follow, the log is invisible: the store with a path
\* implements the store without one, whatever the file system does.
LogIsInvisible == Plain!Spec

\* Whoever reads the log finds the store as it is, or a warning
\* (incidents.py:10-12).
LogIsCurrentOrWarned ==
  LogError(incidents) = None => Debug!LogIsCurrentOrWarned(incidents, <<>>)

\* incidents.py:226-228 "any remaining failure is warned about rather than
\* raised - the mutation has already happened": a call that did its work
\* returns.
LogNeverAborts == result = raised
=============================================================================
