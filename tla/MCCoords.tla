------------------------------ MODULE MCCoords ------------------------------
(* Two callers and two buildings, one more request than callers for each.   *)
EXTENDS Coords, TLC

CONSTANTS c1, c2, b1, b2

MCCallers   == {c1, c2}
MCBuildings == {b1, b2}
MCPoints    == {"here", "there"}
Symmetry    == Permutations(MCCallers) \cup Permutations(MCBuildings)
=============================================================================
