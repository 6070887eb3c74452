------------------------------ MODULE DebugLog ------------------------------
(***************************************************************************)
(* The debug log of a store built with a path: the constructor and _log()  *)
(* of stores/reports.py.  (stores/incidents.py has the same code.)         *)
(***************************************************************************)
CONSTANTS
  None,
  Old,   \* what an earlier session left in the file
  Torn   \* a file that was truncated and not, or not wholly, written

VARIABLES
  path,    \* _path is not None: the store still tries to write its log
  file,    \* what the file holds: None (it is absent), Old, Torn, or the rows
  warned   \* the last attempt at the file ended in log.warning

logVars == <<path, file, warned>>

\* The constructor: clear the file, or go without a log.
ConstructKeepsPath(before) ==
  \/ path = TRUE /\ file = None /\ warned = FALSE
  \/ path = TRUE /\ file = before /\ warned = TRUE
Construct(before) ==
  \/ path = TRUE /\ file = None /\ warned = FALSE
  \/ path = FALSE /\ file = before /\ warned = TRUE

(***************************************************************************)
(* _log(): the rows are serialised before the file is opened.  `error` is  *)
(* what serialising them raises: None, an exception _log() catches, or     *)
(* RecursionError, which is none of those it names.  The caller of _log()  *)
(* gets `raises`.                                                          *)
(***************************************************************************)
Caught == {"TypeError", "ValueError"}

LogSilent(rows, error) ==
  \/ path /\ error \in Caught /\ UNCHANGED logVars
  \/ path /\ error = None /\ file' = rows /\ UNCHANGED <<path, warned>>
  \/ path /\ error = None /\ file' \in {file, Torn} /\ UNCHANGED <<path, warned>>
  \/ (~path \/ error = "RecursionError") /\ UNCHANGED logVars
Log(rows, error) ==
  \/ path /\ error \in Caught /\ warned' = TRUE /\ UNCHANGED <<path, file>>
  \/ path /\ error = None /\ file' = rows /\ warned' = FALSE /\ UNCHANGED path
  \/ path /\ error = None /\ file' \in {file, Torn} /\ warned' = TRUE /\ UNCHANGED path
  \/ (~path \/ error = "RecursionError") /\ UNCHANGED logVars

\* What escapes from _log() into the mutator that called it.
Escapes(error) == IF path /\ error = "RecursionError" THEN error ELSE None

\* Whoever reads the log can trust it: no earlier session's rows stand in a
\* file this session writes, and a log that is behind the store, torn or lost
\* was announced by the warning of the last attempt (reports.py:8-10).
LogIsCurrentOrWarned(rows, empty) ==
  path => /\ file # Old
          /\ file = rows \/ warned \/ (rows = empty /\ file = None)
=============================================================================
