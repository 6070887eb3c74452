------------------------------ MODULE MCRunner ------------------------------
(* Episodes of up to two ticks.  Contact h1 is a human report, v1 a truck's *)
(* sensor reading; either may come twice, in one observation or in two.     *)
EXTENDS Runner

CONSTANTS s1, t1, r1, h1, v1

MCTexts      == {"", "closed by dispatch"}
MCReportIds  == {r1}
MCStatuses   == {"open", "closed", "covered"}
MCTicks      == 0..2
MCSlots      == {s1}
MCTrucks     == {t1}
MCDeliveries == {<<>>, <<v1, h1, h1>>}
MCSensors    == {v1}
MCUseLLM     == BOOLEAN
MCBuilds     == {Holes, {}}
AsShipped    == {{}}
ByDefault    == {TRUE}
=============================================================================
