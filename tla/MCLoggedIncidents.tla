------------------------- MODULE MCLoggedIncidents -------------------------
(* The whole store over a file system that may fail at any write: two ids  *)
(* (and one nobody drew), a report (linked twice, it would show), and one  *)
(* status outside the legal vocabulary.  Callers of the first run write    *)
(* statuses and a name no incident has, in any combination; those of the   *)
(* second write a belief, `deep`, that is nested too deep for the log.     *)
EXTENDS LoggedIncidents

CONSTANT r1

MCReportIds == {r1}
MCTicks     == {1}
MCStatuses  == {"open", "closed", "covered"}

StatusNames == {"status", "bogus"}
OneText     == {""}
Shallow     == {}

BeliefNames == {"notes"}
TwoTexts    == {"", "deep"}
DeepText    == {"deep"}
=============================================================================
