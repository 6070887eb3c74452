---------------------------- MODULE TokensProofs ----------------------------
(***************************************************************************)
(* Proofs about Tokens, for whatever counts providers report and however   *)
(* many calls an episode makes.                                            *)
(***************************************************************************)
EXTENDS Tokens, TLAPS

\* Every variable has its type.
TypeOK ==
  /\ intake_tokens \in TokenUse /\ dispatch_tokens \in TokenUse
  /\ run_usage \in TokenUse \cup {None}
  /\ shown \in TokenUse \X TokenUse
  /\ calls \in Nat /\ intake_billed \in TokenUse /\ dispatch_billed \in TokenUse
  /\ whole \in BOOLEAN

\* Cached tokens are a part of those read.
Partly(u) == u.cache_read <= u.read

\* What was shown is part of what is now in the totals.
ShownIsCovered == Covers(intake_tokens, shown[1]) /\ Covers(dispatch_tokens, shown[2])

\* The totals are each role's bill.
Balanced == intake_tokens = intake_billed /\ Add(dispatch_tokens, Pending) = dispatch_billed

\* The inductive invariant.  The totals balance; and while usages are whole each
\* of them has its cached tokens among those read: so has their sum.
IInv ==
  /\ TypeOK
  /\ Balanced
  /\ whole => \A u \in {intake_tokens, dispatch_tokens, Pending, shown[1], shown[2]} : Partly(u)
  /\ ShownIsCovered

\* Adding two totals adds them field by field (TokenUse.add), so that the sum
\* is a total, is no less than either, and keeps cached tokens among those read.
LEMMA AddFields ==
  ASSUME NEW t \in TokenUse, NEW u \in TokenUse
  PROVE  /\ Add(t, u) \in TokenUse
         /\ Add(t, u).read = t.read + u.read
         /\ Add(t, u).write = t.write + u.write
         /\ Add(t, u).cache_read = t.cache_read + u.cache_read
         /\ Covers(Add(t, u), t)
         /\ Partly(t) /\ Partly(u) => Partly(Add(t, u))
  BY DEF Add, TokenUse, Covers, Partly

\* Two totals are the same when their fields are.
LEMMA SameFields ==
  ASSUME NEW t \in TokenUse, NEW u \in TokenUse,
         t.read = u.read, t.write = u.write, t.cache_read = u.cache_read
  PROVE  t = u
  BY DEF TokenUse

\* What a provider reported, as a total: missing fields count nothing.
Counted(u) == AddReported(Zero, u)

\* It has the prompt tokens that its cached ones belong to.
Whole(u) == u # None /\ u.cached # None => u.prompt # None

LEMMA ZeroTyped == Zero \in TokenUse /\ Partly(Zero)
  BY DEF Zero, TokenUse, Partly

\* add() of a response is add() of the total it reports.
LEMMA ReportedAdds ==
  ASSUME NEW t \in TokenUse, NEW u \in Reported
  PROVE  /\ Counted(u) \in TokenUse
         /\ Whole(u) => Partly(Counted(u))
         /\ AddReported(t, u) = Add(t, Counted(u))
<1>1. CASE u = None
  <2>1. Counted(u) = Zero /\ AddReported(t, u) = t
    BY <1>1 DEF AddReported, Counted
  <2>2. Add(t, Zero) = t
    BY DEF Add, Zero, TokenUse
  <2>3. QED
    BY <2>1, <2>2, ZeroTyped
<1>2. CASE u # None
  <2> DEFINE r == Or0(u.prompt)
             w == Or0(u.completion)
             c == Or0(u.cached)
  <2>1. u \in Fields /\ (u.cached # None /\ u.prompt # None => u.cached <= u.prompt)
    BY <1>2 DEF Reported
  <2>2. r \in Nat /\ w \in Nat /\ c \in Nat /\ (Whole(u) => c <= r)
    <3>1. u.prompt \in Nat \cup {None} /\ u.completion \in Nat \cup {None}
          /\ u.cached \in Nat \cup {None}
      BY <2>1, CountsAssumption DEF Fields
    <3>2. r \in Nat /\ w \in Nat /\ c \in Nat
      BY <3>1 DEF Or0
    <3>3. Whole(u) => c <= r
      <4>1. u.cached = None => c = 0
        BY DEF Or0
      <4>2. Whole(u) /\ u.cached # None => u.cached <= u.prompt /\ c = u.cached /\ r = u.prompt
        BY <1>2, <2>1 DEF Or0, Whole
      <4>3. QED
        BY <2>1, <3>2, <4>1, <4>2
    <3>4. QED
      BY <3>2, <3>3
  <2>3. AddReported(t, u) = Add(t, [read |-> r, write |-> w, cache_read |-> c])
        /\ Counted(u) = Add(Zero, [read |-> r, write |-> w, cache_read |-> c])
    BY <1>2 DEF AddReported, Counted
  <2> HIDE DEF r, w, c
  <2>4. Counted(u) = [read |-> r, write |-> w, cache_read |-> c]
    BY <2>2, <2>3 DEF Add, Zero
  <2>5. QED
    BY <2>2, <2>3, <2>4 DEF TokenUse, Partly
<1>3. QED
  BY <1>1, <1>2

\* A bill grows by what was reported.
LEMMA ChargeAdds ==
  ASSUME NEW bill \in TokenUse, NEW u \in Reported
  PROVE  Charged(bill, u) = Add(bill, Counted(u))
<1>1. CASE u = None
  BY <1>1 DEF Charged, Add, Counted, AddReported, Zero, TokenUse
<1>2. CASE u # None
  <2> DEFINE r == Or0(u.prompt)
             w == Or0(u.completion)
             c == Or0(u.cached)
  <2>1. r \in Nat /\ w \in Nat /\ c \in Nat
    BY <1>2, CountsAssumption DEF Reported, Fields, Or0
  <2>2. Charged(bill, u) = [read |-> bill.read + r, write |-> bill.write + w,
                            cache_read |-> bill.cache_read + c]
    BY <1>2 DEF Charged
  <2>3. Counted(u) = Add(Zero, [read |-> r, write |-> w, cache_read |-> c])
    BY <1>2 DEF AddReported, Counted
  <2> HIDE DEF r, w, c
  <2>4. Counted(u) = [read |-> r, write |-> w, cache_read |-> c]
    BY <2>1, <2>3 DEF Add, Zero
  <2>5. QED
    BY <2>2, <2>4 DEF Add
<1>3. QED
  BY <1>1, <1>2

LEMMA CallCounts ==
  ASSUME TypeOK, NEW u \in Reported, Call(u)
  PROVE  calls' \in Nat /\ whole' \in BOOLEAN /\ (whole' => whole /\ Whole(u))
<1>1. calls' \in Nat
  BY DEF Call, TypeOK
<1>2. whole \in BOOLEAN /\ whole' = (whole /\ Whole(u))
  BY Zenon DEF Call, TypeOK, Whole
<1>3. Whole(u) \in BOOLEAN
  BY DEF Whole
<1>4. QED
  BY <1>1, <1>2, <1>3

\* A run that grows, and a run that joins its total, keep their sum.
LEMMA AddRearranges ==
  ASSUME NEW b \in TokenUse, NEW c \in TokenUse, NEW u \in TokenUse
  PROVE  /\ Add(b, Add(c, u)) = Add(Add(b, c), u)
         /\ Add(Add(b, c), Zero) = Add(b, c)
  BY DEF Add, TokenUse, Zero

LEMMA PendingTyped == TypeOK => Pending \in TokenUse
  BY ZeroTyped DEF TypeOK, Pending

LEMMA CoversTransitive ==
  ASSUME NEW t \in TokenUse, NEW u \in TokenUse, NEW v \in TokenUse, Covers(t, u), Covers(u, v)
  PROVE  Covers(t, v)
  BY DEF Covers, TokenUse

LEMMA InitIInv == Init => IInv
  BY ZeroTyped DEF Init, IInv, TypeOK, Balanced, Pending, ShownIsCovered, Covers,
                   Add, Zero, TokenUse, Partly

\* What each step does to the balance, the parts and the display.
LEMMA NextIInv == IInv /\ [Next]_vars => IInv'
<1> SUFFICES ASSUME IInv, [Next]_vars PROVE IInv'
  OBVIOUS
<1> USE DEF IInv
<1>0. Pending \in TokenUse /\ shown[1] \in TokenUse /\ shown[2] \in TokenUse
  BY PendingTyped DEF TypeOK
<1>1. ASSUME NEW u \in Reported, IntakeCall(u) PROVE IInv'
  <2>1. /\ Call(u) /\ run_usage' = run_usage /\ shown' = shown /\ Pending' = Pending
        /\ UNCHANGED <<dispatch_tokens, dispatch_billed>>
        /\ intake_tokens' = Add(intake_tokens, Counted(u))
        /\ intake_billed' = Charged(intake_billed, u)
    BY <1>1 DEF IntakeCall, Pending, Counted
  <2>2. Counted(u) \in TokenUse /\ (Whole(u) => Partly(Counted(u)))
    BY ReportedAdds DEF TypeOK
  <2>3. /\ intake_tokens' \in TokenUse /\ Covers(intake_tokens', intake_tokens)
        /\ whole /\ Whole(u) => Partly(intake_tokens')
    BY <2>1, <2>2, AddFields DEF TypeOK
  <2>4. calls' \in Nat /\ whole' \in BOOLEAN /\ (whole' => whole /\ Whole(u))
    BY <2>1, CallCounts
  <2>5. intake_billed' = intake_tokens'
    BY <2>1, ChargeAdds DEF Balanced, TypeOK
  <2>6. TypeOK' /\ Balanced'
    BY <2>1, <2>3, <2>4, <2>5 DEF TypeOK, Balanced
  <2>7. ShownIsCovered'
    BY <1>0, <2>1, <2>3, CoversTransitive DEF ShownIsCovered, TypeOK
  <2>8. QED
    BY <2>1, <2>3, <2>4, <2>6, <2>7
<1>2. ASSUME NEW u \in Reported, Round(u) PROVE IInv'
  <2>1. /\ Call(u) /\ run_usage # None /\ run_usage \in TokenUse /\ Pending = run_usage
        /\ shown' = shown /\ UNCHANGED <<intake_tokens, intake_billed>>
        /\ dispatch_tokens' = dispatch_tokens
        /\ run_usage' = AddReported(run_usage, u)
        /\ dispatch_billed' = Charged(dispatch_billed, u)
    BY <1>2 DEF Round, Pending, TypeOK
  <2>2. /\ Counted(u) \in TokenUse /\ (Whole(u) => Partly(Counted(u)))
        /\ run_usage' = Add(run_usage, Counted(u))
    BY <2>1, ReportedAdds
  <2>3. run_usage' \in TokenUse /\ (whole /\ Whole(u) => Partly(run_usage'))
    BY <2>1, <2>2, AddFields
  <2>4. calls' \in Nat /\ whole' \in BOOLEAN /\ (whole' => whole /\ Whole(u))
    BY <2>1, CallCounts
  <2>5. Pending' = run_usage'
    BY <2>3, NoneAssumption DEF Pending
  <2>6. dispatch_billed' = Add(Add(dispatch_tokens, run_usage), Counted(u))
        /\ dispatch_billed' \in TokenUse
    BY <2>1, <2>2, ChargeAdds, AddFields DEF Balanced, TypeOK
  <2>7. TypeOK' /\ Balanced'
    BY <2>1, <2>2, <2>3, <2>4, <2>5, <2>6, AddRearranges DEF TypeOK, Balanced
  <2>8. ShownIsCovered'
    BY <2>1 DEF ShownIsCovered
  <2>9. QED
    BY <2>1, <2>3, <2>4, <2>5, <2>7, <2>8
<1>3. CASE BeginRun
  <2>1. /\ Pending = Zero /\ Pending' = Zero /\ run_usage' = Zero
        /\ UNCHANGED <<intake_tokens, dispatch_tokens, shown, billVars>>
    BY <1>3 DEF BeginRun, Pending
  <2>2. QED
    BY <2>1, ZeroTyped DEF TypeOK, Balanced, ShownIsCovered, billVars
<1>4. CASE EndRun
  <2>1. /\ run_usage \in TokenUse /\ Pending = run_usage /\ run_usage' = None /\ Pending' = Zero
        /\ dispatch_tokens' = Add(dispatch_tokens, run_usage)
        /\ UNCHANGED <<intake_tokens, shown, calls, intake_billed, dispatch_billed, whole>>
    BY <1>4 DEF EndRun, Pending, TypeOK, billVars
  <2>2. /\ dispatch_tokens' \in TokenUse /\ Covers(dispatch_tokens', dispatch_tokens)
        /\ whole => Partly(dispatch_tokens')
    BY <2>1, AddFields DEF TypeOK
  <2>3. TypeOK'
    BY <2>1, <2>2 DEF TypeOK
  <2>4. Balanced'
    BY <2>1, AddRearranges DEF Balanced, TypeOK
  <2>5. ShownIsCovered'
    BY <1>0, <2>1, <2>2, CoversTransitive DEF ShownIsCovered, TypeOK
  <2>6. QED
    BY <2>1, <2>2, <2>3, <2>4, <2>5, ZeroTyped
<1>5. CASE TokenReport
  <2>1. /\ shown' = <<intake_tokens, dispatch_tokens>> /\ Pending' = Pending
        /\ UNCHANGED <<intake_tokens, dispatch_tokens, run_usage, billVars>>
    BY <1>5 DEF TokenReport, Pending
  <2>2. TypeOK' /\ Balanced'
    BY <2>1 DEF TypeOK, Balanced, billVars
  <2>3. ShownIsCovered'
    BY <2>1 DEF ShownIsCovered, Covers, TypeOK, TokenUse
  <2>4. QED
    BY <2>1, <2>2, <2>3 DEF billVars
<1>6. CASE UNCHANGED vars
  BY <1>6 DEF vars, billVars, TypeOK, Balanced, Pending, ShownIsCovered
<1>7. QED
  BY <1>1, <1>2, <1>3, <1>4, <1>5, <1>6 DEF Next

THEOREM Accounted == Spec => []IInv
  BY InitIInv, NextIInv, PTL DEF Spec

\* Field by field and role by role, the totals and the run under way are the
\* bill, and what is displayed of a role was billed to it, for any usage the
\* providers report (TokenUse.add, run_dispatch, _process_tick, token_report).
THEOREM TotalsAreTheBill == Spec => []TotalsAreBilled
<1>1. IInv => TotalsAreBilled
  <2> SUFFICES ASSUME IInv PROVE TotalsAreBilled
    OBVIOUS
  <2>1. /\ TypeOK /\ Balanced /\ ShownIsCovered /\ Pending \in TokenUse
        /\ shown[1] \in TokenUse /\ shown[2] \in TokenUse
    BY PendingTyped DEF IInv, TypeOK
  <2>2. Covers(dispatch_billed, dispatch_tokens)
    BY <2>1, AddFields DEF Balanced, TypeOK
  <2>3. Covers(dispatch_billed, shown[2])
    BY <2>1, <2>2, CoversTransitive DEF TypeOK, ShownIsCovered
  <2>4. QED
    BY <2>1, <2>3 DEF TotalsAreBilled, Balanced, ShownIsCovered
<1>2. QED
  BY <1>1, Accounted, PTL

\* The TOTAL that print_summary() prints, read plus write, is the bill of both
\* roles, cached tokens not added again; and they are among those read, in every
\* total, while no usage names them without its prompt tokens.
THEOREM CachedTokensArePaidOnce == Spec => []CacheIsPartOfRead
<1>1. IInv => CacheIsPartOfRead
  <2> SUFFICES ASSUME IInv PROVE CacheIsPartOfRead
    OBVIOUS
  <2>1. ASSUME run_usage = None
        PROVE  SummaryTotal = Total(intake_billed) + Total(dispatch_billed)
    <3>1. intake_billed = intake_tokens /\ dispatch_billed = Add(dispatch_tokens, Zero)
      BY <2>1 DEF IInv, Balanced, Pending
    <3>2. QED
      BY <3>1 DEF Add, Zero, SummaryTotal, Total, IInv, TypeOK, TokenUse
  <2>2. QED
    BY <2>1 DEF CacheIsPartOfRead, IInv, Partly
<1>2. QED
  BY <1>1, Accounted, PTL

\* The wall display (next_tick's tokens) only grows, and never runs ahead of
\* the summary.
THEOREM TheDisplayGrows == Spec => DisplayGrows
<1> DEFINE Grows == /\ Covers(shown'[1], shown[1]) /\ Covers(shown'[2], shown[2])
                    /\ Covers(intake_tokens', shown'[1]) /\ Covers(dispatch_tokens', shown'[2])
<1>1. IInv /\ IInv' /\ [Next]_vars => [Grows]_vars
  <2> SUFFICES ASSUME IInv, IInv', [Next]_vars PROVE Grows
    OBVIOUS
  <2>1. ShownIsCovered /\ ShownIsCovered'
    BY DEF IInv
  <2>2. shown[1] \in TokenUse /\ shown[2] \in TokenUse
    BY DEF IInv, TypeOK
  <2>3. shown' = shown \/ shown' = <<intake_tokens, dispatch_tokens>>
    BY DEF Next, IntakeCall, Round, BeginRun, EndRun, TokenReport, vars
  <2>4. Covers(shown[1], shown[1]) /\ Covers(shown[2], shown[2])
    BY <2>2 DEF Covers, TokenUse
  <2>5. QED
    BY <2>1, <2>3, <2>4 DEF ShownIsCovered
<1>2. QED
  BY <1>1, Accounted, PTL DEF Spec, DisplayGrows
=============================================================================
