----------------------------- MODULE MCDispatch -----------------------------
(* One run_dispatch over a store of one incident (and ids nobody filed).   *)
(* Two calls per turn, and two turns: a late request of the first turn can *)
(* meet the second.  The slots are interchangeable: the loop may issue any *)
(* subset of them and runs them in any order.                              *)
EXTENDS Dispatch, TLC

CONSTANTS s1, s2, t1, r1

MCTexts     == {"", "closed by dispatch"}
MCReportIds == {r1}
MCTicks     == {1}
MCStatuses  == {"open", "closed", "covered"}
MCSlots     == {s1, s2}
MCTrucks    == {t1}
SlotSymmetry == Permutations(MCSlots)
=============================================================================
