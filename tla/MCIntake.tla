------------------------------ MODULE MCIntake ------------------------------
(* JSON one level deep, alone or among remarks, cut off at any token; two   *)
(* calls in a row, with _finalize built.                                    *)
EXTENDS Intake
=============================================================================
