---------------------------- MODULE TickProtocol ----------------------------
(***************************************************************************)
(* What an episode promises, seen from outside (runner.py:1-7, and         *)
(* run_episode's "exactly one next_tick per tick"): a clock, per tick one  *)
(* act and one request to advance, and an end with the engine's verdict.    *)
(* Runner implements it.                                                   *)
(***************************************************************************)
EXTENDS Naturals, Sequences

VARIABLES
  stage,   \* "idle", "acting", "advancing", "done" or "failed"
  clock,   \* the tick acted on
  over,    \* the engine has said that the episode is over
  verdict, \* and an outcome has been heard with it
  asks,    \* the ticks it was asked to leave, in order
  served   \* the ticks in which an order was accepted

vars == <<stage, clock, over, verdict, asks, served>>

Init ==
  /\ stage = "idle" /\ clock = 0 /\ over = FALSE /\ verdict = FALSE
  /\ asks = <<>> /\ served = {}

Begin ==
  /\ stage = "idle" /\ stage' = "acting"
  /\ UNCHANGED <<clock, over, verdict, asks, served>>

\* An order takes effect in the tick it was decided on, or never.
Serve ==
  /\ stage # "idle" /\ served' = served \cup {clock}
  /\ UNCHANGED <<stage, clock, over, verdict, asks>>

Ask ==
  /\ stage = "acting" /\ ~over
  /\ stage' = "advancing" /\ asks' = Append(asks, clock)
  /\ UNCHANGED <<clock, over, verdict, served>>

Advance ==
  /\ stage = "advancing"
  /\ stage' = "acting" /\ clock' = clock + 1 /\ over' \in BOOLEAN
  /\ verdict' = over'
  /\ UNCHANGED <<asks, served>>

Finish ==
  /\ stage = "acting" /\ over /\ stage' = "done"
  /\ UNCHANGED <<clock, over, verdict, asks, served>>

Fail ==
  /\ stage \in {"idle", "acting", "advancing"} /\ stage' = "failed"
  /\ UNCHANGED <<clock, over, verdict, asks, served>>

Next == Begin \/ Serve \/ Ask \/ Advance \/ Finish \/ Fail

Spec == Init /\ [][Next]_vars
=============================================================================
