--------------------------- MODULE MCReportStore ---------------------------
(* Up to three reports of two contacts, at two places, at none, or at NaN; *)
(* one claim is not serialisable, one nested too deep.  The contacts are     *)
(* interchangeable.                                                        *)
EXTENDS ReportStore, TLC

CONSTANTS c1, c2, plain, odd, deep

MCContactIds == {c1, c2}
MCClaims     == {plain, odd, deep}
MCPlaces     == {0, 2}
MCTicks      == {1, 2}
MCDeep       == {deep}
MCOdd        == {odd}
ContactSymmetry == Permutations(MCContactIds)
=============================================================================
