------------------------------- MODULE Tokens -------------------------------
(***************************************************************************)
(* Token accounting, field by field: TokenUse and print_summary() of       *)
(* util.py, and the two totals Episode keeps, one per role, with           *)
(* token_report() of runner.py.                                            *)
(*                                                                         *)
(* Runner counts provider calls to follow the hand-over from round to run  *)
(* to episode, calls that raise included; here every call answers, and its *)
(* usage has the fields a provider reports, any of which may be missing.   *)
(* External: the providers, and the line of the intake hole that adds what *)
(* extract_report() returns (runner.py:131).                               *)
(***************************************************************************)
EXTENDS Naturals

CONSTANTS
  None,
  Counts,    \* what a provider may report in a field
  MaxCalls   \* bound: provider calls

ASSUME CountsAssumption == Counts \subseteq Nat /\ MaxCalls \in Nat

VARIABLES
  intake_tokens, dispatch_tokens,  \* Episode's totals
  run_usage,   \* LoopResult.usage of the run_dispatch under way, or None
  shown,       \* token_report() as last sent with next_tick: <<intake, dispatch>>
  calls,       \* history: the provider calls
  intake_billed, dispatch_billed,  \* history: all they reported for each role,
                                   \*   a missing field as 0
  whole        \* history: no usage had cached tokens and no prompt tokens

billVars == <<calls, intake_billed, dispatch_billed, whole>>
vars == <<intake_tokens, dispatch_tokens, run_usage, shown, billVars>>

TokenUse == [read: Nat, write: Nat, cache_read: Nat]
Zero     == [read |-> 0, write |-> 0, cache_read |-> 0]
Total(u) == u.read + u.write
ASSUME NoneAssumption == None \notin TokenUse \cup Counts

\* add(): another TokenUse.
Add(t, u) == [read |-> t.read + u.read, write |-> t.write + u.write,
              cache_read |-> t.cache_read + u.cache_read]

\* A provider's usage: anything may be missing, the usage itself too; where
\* both are there, prompt_tokens counts the cached tokens in.
Fields == [prompt: Counts \cup {None}, completion: Counts \cup {None},
           cached: Counts \cup {None}]
Reported ==
  {u \in Fields : u.cached # None /\ u.prompt # None => u.cached <= u.prompt} \cup {None}

Or0(x) == IF x = None THEN 0 ELSE x

AddCacheWritten(t, u) ==
  IF u = None THEN t
  ELSE Add(t, [read |-> Or0(u.prompt), write |-> Or0(u.completion), cache_read |-> Or0(u.completion)])
\* add(): a response's usage.
AddReported(t, u) ==
  IF u = None THEN t
  ELSE Add(t, [read |-> Or0(u.prompt), write |-> Or0(u.completion), cache_read |-> Or0(u.cached)])

----------------------------------------------------------------------------
Init ==
  /\ intake_tokens = Zero /\ dispatch_tokens = Zero /\ run_usage = None
  /\ shown = <<Zero, Zero>> /\ calls = 0
  /\ intake_billed = Zero /\ dispatch_billed = Zero /\ whole = TRUE

Charged(bill, u) ==
  IF u = None THEN bill
  ELSE [read |-> bill.read + Or0(u.prompt), write |-> bill.write + Or0(u.completion),
        cache_read |-> bill.cache_read + Or0(u.cached)]
Call(u) ==
  /\ calls < MaxCalls /\ calls' = calls + 1
  /\ whole' = (whole /\ (u # None /\ u.cached # None => u.prompt # None))

\* extract_report() makes a TokenUse of the answer, its caller adds that one.
IntakeCall(u) ==
  /\ run_usage = None /\ Call(u) /\ intake_billed' = Charged(intake_billed, u)
  /\ intake_tokens' = Add(intake_tokens, AddReported(Zero, u))
  /\ UNCHANGED <<dispatch_tokens, run_usage, shown, dispatch_billed>>

\* The agent loop accumulates; run_dispatch() hands its usage on.
BeginRun ==
  /\ run_usage = None /\ run_usage' = Zero
  /\ UNCHANGED <<intake_tokens, dispatch_tokens, shown, billVars>>
Round(u) ==
  /\ run_usage # None /\ Call(u) /\ dispatch_billed' = Charged(dispatch_billed, u)
  /\ run_usage' = AddReported(run_usage, u)
  /\ UNCHANGED <<intake_tokens, dispatch_tokens, shown, intake_billed>>
EndRunReplacing ==
  /\ run_usage # None /\ run_usage' = None
  /\ dispatch_tokens' = run_usage
  /\ UNCHANGED <<intake_tokens, shown, billVars>>
EndRun ==
  /\ run_usage # None /\ run_usage' = None
  /\ dispatch_tokens' = Add(dispatch_tokens, run_usage)
  /\ UNCHANGED <<intake_tokens, shown, billVars>>

TokenReportSwapped ==
  /\ run_usage = None
  /\ shown' = <<dispatch_tokens, intake_tokens>>
  /\ UNCHANGED <<intake_tokens, dispatch_tokens, run_usage, billVars>>
\* token_report(), sent with next_tick.
TokenReport ==
  /\ run_usage = None
  /\ shown' = <<intake_tokens, dispatch_tokens>>
  /\ UNCHANGED <<intake_tokens, dispatch_tokens, run_usage, billVars>>

Next ==
  \/ \E u \in Reported : IntakeCall(u) \/ Round(u)
  \/ BeginRun \/ EndRun \/ TokenReport

Spec == Init /\ [][Next]_vars

\* print_summary(): the TOTAL line.
SummaryTotal == Total(intake_tokens) + Total(dispatch_tokens)

----------------------------------------------------------------------------
Pending == IF run_usage = None THEN Zero ELSE run_usage

Covers(u, v) == u.read >= v.read /\ u.write >= v.write /\ u.cache_read >= v.cache_read

\* Field by field and role by role, the total and, for dispatch, the run under
\* way are what the providers billed: no usage goes to the other role, is lost,
\* or is counted twice; and the display shows of each role only what that role
\* was billed (runner.py:58-67, 131, 145).
TotalsAreBilled ==
  /\ intake_tokens = intake_billed
  /\ Add(dispatch_tokens, Pending) = dispatch_billed
  /\ Covers(intake_billed, shown[1]) /\ Covers(dispatch_billed, shown[2])

\* The printed TOTAL, read plus write, is what was billed for both: cached
\* tokens are not paid a second time.  And as long as no provider reports
\* cached tokens without the prompt tokens they belong to, every total has them
\* among those read, as its readers take for granted (util.py:27-29).
CacheIsPartOfRead ==
  /\ run_usage = None => SummaryTotal = Total(intake_billed) + Total(dispatch_billed)
  /\ whole => \A u \in {intake_tokens, dispatch_tokens, Pending, shown[1], shown[2]} :
                 u.cache_read <= u.read

\* What the wall display shows only ever grows, and never runs ahead of what
\* the summary will print.
DisplayGrows ==
  [][/\ Covers(shown'[1], shown[1]) /\ Covers(shown'[2], shown[2])
     /\ Covers(intake_tokens', shown'[1]) /\ Covers(dispatch_tokens', shown'[2])]_vars
=============================================================================
