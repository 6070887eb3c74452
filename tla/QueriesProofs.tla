--------------------------- MODULE QueriesProofs ---------------------------
(***************************************************************************)
(* Proofs about ReportStore, for any contacts, claims, points and ticks,   *)
(* any number of calls and any failures of the file system: what it holds, *)
(* its debug log and its query; then about FindIncidents, for any beliefs  *)
(* its mutators leave: find(), down to the sort.                           *)
(*                                                                         *)
(* Loops are recursive functions; their equations, and what holds after    *)
(* every pass, are proved by looking at the first pass that would break it.*)
(***************************************************************************)
EXTENDS ReportStore, FindIncidents, SequenceTheorems, WellFoundedInduction, TLAPS

StoreTyped ==
  /\ rows \in Seq(Report) /\ offered \in Seq(Report)
  /\ path \in BOOLEAN

\* Among the reports ever offered of a contact there is a first one.
ContactsHaveAFirst ==
  \A k \in DOMAIN offered :
    \E j \in FirstOffers : offered[j].contact_id = offered[k].contact_id

\* The rows are the first offers, in their order.
RowsAreFirstOffers ==
  /\ \A k \in FirstOffers : \E n \in DOMAIN rows : rows[n] = offered[k]
  /\ \A n \in DOMAIN rows : \E k \in FirstOffers : rows[n] = offered[k]
  /\ \A m, n \in DOMAIN rows, j, k \in FirstOffers :
       m < n /\ rows[m] = offered[j] /\ rows[n] = offered[k] => j < k

AnswersAreFirstOffers ==
  offered # <<>> /\ raised = None =>
    \E k \in FirstOffers : /\ returned = offered[k]
                          /\ returned.contact_id = Last(offered).contact_id

\* Nothing of an earlier session is read in this one, and the log is not behind.
LogInv ==
  LogError(rows) # "RecursionError" =>
    (path => /\ file # Old
             /\ file = rows \/ warned \/ (rows = <<>> /\ file = None))

EvidenceInv ==
  StoreTyped /\ ContactsHaveAFirst /\ RowsAreFirstOffers /\ AnswersAreFirstOffers

----------------------------------------------------------------------------
\* A record is not None, so get() is None exactly for a contact without a row.
LEMMA GetFinds ==
  ASSUME StoreTyped, NEW id
  PROVE  /\ Get(id) = None <=> ~\E n \in DOMAIN rows : rows[n].contact_id = id
         /\ Get(id) # None => \E n \in DOMAIN rows : Get(id) = rows[n] /\ rows[n].contact_id = id
<1>1. CASE \E n \in DOMAIN rows : rows[n].contact_id = id
  <2> DEFINE n == CHOOSE k \in DOMAIN rows : rows[k].contact_id = id
  <2>1. n \in DOMAIN rows /\ rows[n].contact_id = id
    BY <1>1
  <2>2. Get(id) = rows[n]
    BY <1>1 DEF Get
  <2> HIDE DEF n
  <2>3. rows[n] \in Report
    BY <2>1 DEF StoreTyped
  <2>4. QED
    BY <2>1, <2>2, <2>3, FileAssumption
<1>2. CASE ~\E n \in DOMAIN rows : rows[n].contact_id = id
  BY <1>2 DEF Get
<1>3. QED
  BY <1>1, <1>2

\* What appending to a log of reports does to its places and to its first
\* offers: none is lost, and the new one is first of its contact or no first.
LEMMA AppendsOne ==
  ASSUME NEW s \in Seq(Report), NEW report \in Report
  PROVE  LET t == Append(s, report)
         IN /\ t \in Seq(Report) /\ Len(t) = Len(s) + 1 /\ Len(s) \in Nat
            /\ DOMAIN s = 1..Len(s) /\ DOMAIN t = 1..(Len(s) + 1)
            /\ \A k \in DOMAIN s : t[k] = s[k]
            /\ t[Len(s) + 1] = report /\ t # <<>>
  BY AppendProperties

LEMMA FirstsGrow ==
  ASSUME StoreTyped, NEW report \in Report, offered' = Append(offered, report)
  PROVE  LET new == Len(offered) + 1
         IN /\ FirstOffers \subseteq DOMAIN offered
            /\ \A k \in FirstOffers : k \in FirstOffers' /\ offered'[k] = offered[k] /\ k < new
            /\ \A k \in FirstOffers' : k \in FirstOffers \/ k = new
            /\ new \in FirstOffers' <=>
                 \A j \in DOMAIN offered : offered[j].contact_id # report.contact_id
            /\ offered'[new] = report /\ Last(offered') = report
<1> DEFINE new == Len(offered) + 1
<1>1. /\ new \in Nat /\ DOMAIN offered = 1..(new - 1) /\ DOMAIN offered' = 1..new
      /\ \A k \in DOMAIN offered : offered'[k] = offered[k]
      /\ offered'[new] = report /\ Len(offered') = new
  BY AppendsOne DEF StoreTyped
<1> HIDE DEF new
<1>2. /\ FirstOffers \subseteq DOMAIN offered
      /\ \A k \in FirstOffers : k \in FirstOffers' /\ offered'[k] = offered[k] /\ k < new
      /\ \A k \in FirstOffers' : k \in FirstOffers \/ k = new
  BY <1>1 DEF FirstOffers
<1>3. new \in FirstOffers' <=>
        \A j \in DOMAIN offered : offered[j].contact_id # report.contact_id
  BY <1>1 DEF FirstOffers
<1>4. Last(offered') = report
  BY <1>1 DEF Last
<1>5. QED
  BY <1>1, <1>2, <1>3, <1>4 DEF new

----------------------------------------------------------------------------
(* add() *)

LEMMA RowsHaveTheirContact ==
  ASSUME RowsAreFirstOffers, ContactsHaveAFirst, NEW id
  PROVE  (\E n \in DOMAIN rows : rows[n].contact_id = id)
           <=> (\E k \in DOMAIN offered : offered[k].contact_id = id)
<1>1. ASSUME NEW n \in DOMAIN rows, rows[n].contact_id = id
      PROVE  \E k \in DOMAIN offered : offered[k].contact_id = id
  <2>1. PICK k \in FirstOffers : rows[n] = offered[k]
    BY DEF RowsAreFirstOffers
  <2>2. k \in DOMAIN offered
    BY DEF FirstOffers
  <2>3. QED
    BY <1>1, <2>1, <2>2
<1>2. ASSUME NEW k \in DOMAIN offered, offered[k].contact_id = id
      PROVE  \E n \in DOMAIN rows : rows[n].contact_id = id
  <2>1. PICK j \in FirstOffers : offered[j].contact_id = offered[k].contact_id
    BY DEF ContactsHaveAFirst
  <2>2. PICK n \in DOMAIN rows : rows[n] = offered[j]
    BY DEF RowsAreFirstOffers
  <2>3. QED
    BY <1>2, <2>1, <2>2
<1>3. QED
  BY <1>1, <1>2

LEMMA FirstsStayComplete ==
  ASSUME StoreTyped, ContactsHaveAFirst, NEW report \in Report,
         offered' = Append(offered, report)
  PROVE  ContactsHaveAFirst'
<1> DEFINE new == Len(offered) + 1
<1>1. /\ \A k \in FirstOffers : k \in FirstOffers' /\ offered'[k] = offered[k] /\ k < new
      /\ new \in FirstOffers' <=>
           \A j \in DOMAIN offered : offered[j].contact_id # report.contact_id
      /\ offered'[new] = report
  BY FirstsGrow
<1>2. /\ \A k \in DOMAIN offered : offered'[k] = offered[k]
      /\ \A k \in DOMAIN offered' : k \in DOMAIN offered \/ k = new
  BY AppendsOne DEF StoreTyped
<1> HIDE DEF new
<1> SUFFICES ASSUME NEW k \in DOMAIN offered'
             PROVE  \E j \in FirstOffers' : offered'[j].contact_id = offered'[k].contact_id
  BY DEF ContactsHaveAFirst
<1>3. ASSUME NEW i \in DOMAIN offered, offered[i].contact_id = offered'[k].contact_id
      PROVE  \E j \in FirstOffers' : offered'[j].contact_id = offered'[k].contact_id
  <2>1. PICK j \in FirstOffers : offered[j].contact_id = offered[i].contact_id
    BY DEF ContactsHaveAFirst
  <2>2. QED
    BY <1>1, <1>3, <2>1
<1>4. CASE k \in DOMAIN offered
  BY <1>2, <1>3, <1>4
<1>5. CASE k = new
  BY <1>1, <1>3, <1>5
<1>6. QED
  BY <1>2, <1>4, <1>5

\* A later report of a contact changes no row, and is answered with the first.
LEMMA KnownContact ==
  ASSUME EvidenceInv, NEW report \in Report, Add(report), Get(report.contact_id) # None
  PROVE  RowsAreFirstOffers' /\ AnswersAreFirstOffers'
<1> DEFINE new == Len(offered) + 1
<1>1. /\ offered' = Append(offered, report) /\ rows' = rows
      /\ returned' = Get(report.contact_id) /\ raised' = None
  BY DEF Add
<1>2. PICK n \in DOMAIN rows : Get(report.contact_id) = rows[n] /\ rows[n].contact_id = report.contact_id
  BY GetFinds DEF EvidenceInv
<1>3. /\ \A k \in FirstOffers : k \in FirstOffers' /\ offered'[k] = offered[k] /\ k < new
      /\ \A k \in FirstOffers' : k \in FirstOffers \/ k = new
      /\ new \in FirstOffers' <=>
           \A j \in DOMAIN offered : offered[j].contact_id # report.contact_id
      /\ Last(offered') = report
  BY <1>1, FirstsGrow DEF EvidenceInv
<1>4. new \notin FirstOffers'
  BY <1>2, <1>3, RowsHaveTheirContact DEF EvidenceInv
<1> HIDE DEF new
<1>5. FirstOffers' = FirstOffers
  BY <1>3, <1>4
<1>6. RowsAreFirstOffers'
  <2>1. \A k \in FirstOffers : \E i \in DOMAIN rows : rows[i] = offered'[k]
    BY <1>3 DEF EvidenceInv, RowsAreFirstOffers
  <2>2. \A i \in DOMAIN rows : \E k \in FirstOffers : rows[i] = offered'[k]
    BY <1>3 DEF EvidenceInv, RowsAreFirstOffers
  <2>3. \A m, i \in DOMAIN rows, j, k \in FirstOffers :
          m < i /\ rows[m] = offered'[j] /\ rows[i] = offered'[k] => j < k
    <3>1. \A k \in FirstOffers : offered'[k] = offered[k]
      BY <1>3
    <3>2. QED
      BY <3>1 DEF EvidenceInv, RowsAreFirstOffers
  <2>4. rows' = rows /\ DOMAIN rows' = DOMAIN rows
    BY <1>1
  <2>5. QED
    BY <1>5, <2>1, <2>2, <2>3, <2>4, Zenon DEF RowsAreFirstOffers
<1>7. AnswersAreFirstOffers'
  <2>1. PICK k \in FirstOffers : rows[n] = offered[k]
    BY DEF EvidenceInv, RowsAreFirstOffers
  <2>2. returned' = offered'[k] /\ returned'.contact_id = Last(offered').contact_id
    BY <1>1, <1>2, <1>3, <2>1
  <2>3. QED
    BY <1>5, <2>2 DEF AnswersAreFirstOffers
<1>8. QED
  BY <1>6, <1>7

\* The first report of a contact becomes the last row.
LEMMA NewContact ==
  ASSUME EvidenceInv, NEW report \in Report, Add(report), Get(report.contact_id) = None
  PROVE  RowsAreFirstOffers' /\ AnswersAreFirstOffers'
<1> DEFINE new == Len(offered) + 1
           row == Len(rows) + 1
<1>1. /\ offered' = Append(offered, report) /\ rows' = Append(rows, report)
      /\ raised' = None => returned' = report
  BY DEF Add
<1>2. ~\E n \in DOMAIN rows : rows[n].contact_id = report.contact_id
  BY GetFinds DEF EvidenceInv
<1>3. \A j \in DOMAIN offered : offered[j].contact_id # report.contact_id
  BY <1>2, RowsHaveTheirContact DEF EvidenceInv
<1>4. /\ FirstOffers \subseteq DOMAIN offered
      /\ \A k \in FirstOffers : k \in FirstOffers' /\ offered'[k] = offered[k] /\ k < new
      /\ \A k \in FirstOffers' : k \in FirstOffers \/ k = new
      /\ new \in FirstOffers' /\ offered'[new] = report /\ Last(offered') = report
  BY <1>1, <1>3, FirstsGrow DEF EvidenceInv
<1>5. /\ \A n \in DOMAIN rows : n \in DOMAIN rows' /\ rows'[n] = rows[n] /\ n < row
      /\ \A n \in DOMAIN rows' : n \in DOMAIN rows \/ n = row
      /\ row \in DOMAIN rows' /\ rows'[row] = report /\ row \in Nat
  BY <1>1, AppendsOne DEF EvidenceInv, StoreTyped
<1> HIDE DEF new, row
<1>6. ASSUME NEW k \in FirstOffers' PROVE \E n \in DOMAIN rows' : rows'[n] = offered'[k]
  BY <1>4, <1>5 DEF EvidenceInv, RowsAreFirstOffers
<1>7. ASSUME NEW n \in DOMAIN rows' PROVE \E k \in FirstOffers' : rows'[n] = offered'[k]
  BY <1>4, <1>5 DEF EvidenceInv, RowsAreFirstOffers
<1>8. ASSUME NEW m \in DOMAIN rows', NEW n \in DOMAIN rows', NEW j \in FirstOffers', NEW k \in FirstOffers',
             m < n, rows'[m] = offered'[j], rows'[n] = offered'[k]
      PROVE  j < k
  <2>1. m \in DOMAIN rows /\ rows'[m] = rows[m]
    BY <1>5, <1>8 DEF EvidenceInv, StoreTyped
  <2>2. j \in FirstOffers /\ offered'[j] = offered[j] /\ j < new
    BY <1>2, <1>4, <1>8, <2>1
  <2>3. CASE n = row
    <3>1. k = new
      BY <1>3, <1>4, <1>5, <1>8, <2>3
    <3>2. QED
      BY <2>2, <3>1
  <2>4. CASE n \in DOMAIN rows
    <3>1. k \in FirstOffers /\ offered'[k] = offered[k] /\ rows'[n] = rows[n]
      BY <1>2, <1>4, <1>5, <1>8, <2>4
    <3>2. QED
      BY <1>8, <2>1, <2>2, <2>4, <3>1 DEF EvidenceInv, RowsAreFirstOffers
  <2>5. QED
    BY <1>5, <2>3, <2>4
<1>9. AnswersAreFirstOffers'
  BY <1>1, <1>4 DEF AnswersAreFirstOffers
<1>10. QED
  BY <1>6, <1>7, <1>8, <1>9 DEF RowsAreFirstOffers

LEMMA EvidenceStep ==
  ASSUME EvidenceInv, [Next]_vars
  PROVE  EvidenceInv'
<1>1. CASE UNCHANGED vars
  BY <1>1 DEF vars, EvidenceInv, StoreTyped, ContactsHaveAFirst, FirstOffers, RowsAreFirstOffers,
              AnswersAreFirstOffers
<1>2. ASSUME NEW report \in Report, Add(report) PROVE EvidenceInv'
  <2>1. offered' = Append(offered, report) /\ (rows' = rows \/ rows' = Append(rows, report))
    BY <1>2 DEF Add
  <2>2. path' \in BOOLEAN
    BY <1>2 DEF Add, Debug!Log, Debug!logVars, EvidenceInv, StoreTyped
  <2>3. StoreTyped'
    BY <2>1, <2>2, AppendsOne DEF EvidenceInv, StoreTyped
  <2>4. ContactsHaveAFirst'
    BY <2>1, FirstsStayComplete DEF EvidenceInv
  <2>5. QED
    BY <1>2, <2>3, <2>4, KnownContact, NewContact DEF EvidenceInv
<1>3. QED
  BY <1>1, <1>2 DEF Next

LEMMA EvidenceStart == Init => EvidenceInv
<1> SUFFICES ASSUME Init PROVE EvidenceInv
  OBVIOUS
<1>1. rows = <<>> /\ offered = <<>> /\ path \in BOOLEAN
  BY DEF Init, Debug!Construct
<1>2. FirstOffers = {}
  BY <1>1 DEF FirstOffers
<1>3. QED
  BY <1>1, <1>2 DEF EvidenceInv, StoreTyped, ContactsHaveAFirst, RowsAreFirstOffers,
                    AnswersAreFirstOffers

THEOREM EvidenceInvariance == Spec => []EvidenceInv
  BY EvidenceStart, EvidenceStep, PTL DEF Spec

\* Of everything ever offered the store keeps, for each contact, the first, in
\* order of arrival, and add() answers with it (reports.py:57-66).
THEOREM FirstWriteAlwaysWins == Spec => []FirstWriteWins
<1>1. EvidenceInv => FirstWriteWins
  BY DEF EvidenceInv, RowsAreFirstOffers, AnswersAreFirstOffers, FirstWriteWins
<1>2. QED
  BY <1>1, EvidenceInvariance, PTL

----------------------------------------------------------------------------
(* The debug log *)

LEMMA ErrorsOfRows ==
  ASSUME NEW rs
  PROVE  LogError(rs) \in {None, "TypeError", "RecursionError"}
  BY DEF LogError

LEMMA LogStart == Init => LogInv
<1> SUFFICES ASSUME Init, path PROVE file # Old /\ rows = <<>> /\ file = None
  BY DEF LogInv
<1>1. file = None /\ rows = <<>>
  BY DEF Init, Debug!Construct
<1>2. QED
  BY <1>1, FileAssumption

\* A claim nested too deep for the log stays in the store, so the rows that can
\* be serialised after a step could be before it.
LEMMA LogStep ==
  ASSUME EvidenceInv, LogInv, [Next]_vars
  PROVE  LogInv'
<1>1. CASE UNCHANGED vars
  BY <1>1 DEF vars, LogInv, LogError
<1>2. CASE UNCHANGED <<rows, path, file, warned>>
  BY <1>2 DEF LogInv, LogError
<1>3. ASSUME NEW report \in Report, rows' = Append(rows, report), Debug!Log(rows', LogError(rows'))
      PROVE  LogInv'
  <2> SUFFICES ASSUME LogError(rows') # "RecursionError", path'
               PROVE  file' # Old /\ (file' = rows' \/ warned' \/ (rows' = <<>> /\ file' = None))
    BY DEF LogInv, LogError
  <2>1. LogError(rows') \in {None, "TypeError"}
    BY ErrorsOfRows
  <2>2. LogError(rows) # "RecursionError"
    <3>1. \A k \in DOMAIN rows : k \in DOMAIN rows' /\ rows'[k] = rows[k]
      BY <1>3, AppendsOne DEF EvidenceInv, StoreTyped
    <3>2. ASSUME NEW k \in DOMAIN rows, rows[k].claim \in Deep PROVE FALSE
      BY <3>1, <3>2 DEF LogError
    <3>3. QED
      BY <3>2, NoneAssumption DEF LogError
  <2>3. path /\ file # Old
    BY <1>3, <2>2 DEF Debug!Log, Debug!logVars, LogInv
  <2>4. CASE LogError(rows') = "TypeError"
    BY <1>3, <2>3, <2>4, NoneAssumption DEF Debug!Log, Debug!logVars, Debug!Caught
  <2>5. CASE LogError(rows') = None
    <3>1. rows' \in Seq(Report)
      BY <1>3, AppendsOne DEF EvidenceInv, StoreTyped
    <3>2. file' = rows' \/ (warned' /\ file' \in {file, Torn})
      BY <1>3, <2>3, <2>5, NoneAssumption DEF Debug!Log, Debug!logVars, Debug!Caught
    <3>3. QED
      BY <2>3, <3>1, <3>2, FileAssumption
  <2>6. QED
    BY <2>1, <2>4, <2>5
<1>4. QED
  BY <1>1, <1>2, <1>3 DEF Next, Add

\* Whoever reads the log of the reports finds them as they are or was warned,
\* whatever the file system does, as long as they can be serialised
\* (reports.py:8-10).
THEOREM LogIsAlwaysCurrentOrWarned == Spec => []LogIsCurrentOrWarned
<1>1. LogInv => LogIsCurrentOrWarned
  BY DEF LogInv, LogIsCurrentOrWarned, Debug!LogIsCurrentOrWarned
<1>2. QED
  BY <1>1, LogStart, LogStep, EvidenceInvariance, PTL DEF Spec

----------------------------------------------------------------------------
(* Loops over a sequence *)

Smaller == {p \in Nat \X Nat : p[1] < p[2]}

\* Some number is the first of those with a property, when one has it.
LEMMA FirstOfThem ==
  ASSUME NEW T \in SUBSET Nat, T # {}
  PROVE  \E first \in T : \A x \in T : first <= x
<1>1. Smaller = OpToRel(<, Nat)
  BY DEF Smaller, OpToRel
<1>2. IsWellFoundedOn(Smaller, Nat)
  BY <1>1, NatLessThanWellFounded
<1>3. PICK first \in T : \A x \in T : ~ (<<x, first>> \in Smaller)
  BY <1>2, WFMin
<1>4. ASSUME NEW x \in T, x < first PROVE FALSE
  <2>1. <<x, first>> \in Nat \X Nat /\ <<x, first>>[1] = x /\ <<x, first>>[2] = first
    OBVIOUS
  <2>2. <<x, first>> \in Smaller
    BY <1>4, <2>1 DEF Smaller
  <2>3. QED
    BY <1>3, <2>2
<1>5. first \in Nat /\ T \subseteq Nat
  OBVIOUS
<1>6. QED
  BY <1>4, <1>5

\* A value for each of the first n passes of a loop that starts with `base` and
\* makes step[k][x] of x in pass k.
Passes(f, S, base, step, n) ==
  f \in [0..n -> S] /\ f[0] = base /\ \A k \in 1..n : f[k] = step[k][f[k - 1]]

LEMMA OnePassMore ==
  ASSUME NEW S, NEW base \in S, NEW N \in Nat, NEW step \in [1..N -> [S -> S]],
         NEW n \in 0..N, n < N, NEW g, Passes(g, S, base, step, n)
  PROVE  \E f : Passes(f, S, base, step, n + 1)
<1> DEFINE f == [k \in 0..(n + 1) |-> IF k <= n THEN g[k] ELSE step[n + 1][g[n]]]
<1>1. g \in [0..n -> S] /\ g[0] = base /\ \A k \in 1..n : g[k] = step[k][g[k - 1]]
  BY DEF Passes
<1>2. n + 1 \in 1..N /\ n \in 0..n /\ n \in Nat
  OBVIOUS
<1>3. step[n + 1][g[n]] \in S
  BY <1>1, <1>2
<1>4. f \in [0..(n + 1) -> S] /\ \A k \in 0..n : f[k] = g[k]
  BY <1>1, <1>2, <1>3
<1>5. f[n + 1] = step[n + 1][g[n]]
  BY <1>2
<1> HIDE DEF f
<1>6. ASSUME NEW k \in 1..(n + 1) PROVE f[k] = step[k][f[k - 1]]
  <2>1. CASE k = n + 1
    BY <1>2, <1>4, <1>5, <2>1
  <2>2. CASE k # n + 1
    <3>1. k \in 1..n /\ k - 1 \in 0..n /\ k \in 0..n
      BY <1>2, <2>2
    <3>2. QED
      BY <1>1, <1>4, <3>1
  <2>3. QED
    BY <2>1, <2>2
<1>7. f[0] = base
  BY <1>1, <1>2, <1>4
<1>8. QED
  BY <1>4, <1>6, <1>7 DEF Passes

LEMMA LoopsRun ==
  ASSUME NEW S, NEW base \in S, NEW N \in Nat, NEW step \in [1..N -> [S -> S]]
  PROVE  \E f : Passes(f, S, base, step, N)
<1> DEFINE T == {n \in 0..N : ~\E f : Passes(f, S, base, step, n)}
<1>1. ASSUME T # {} PROVE FALSE
  <2>1. T \in SUBSET Nat
    OBVIOUS
  <2>2. PICK n \in T : \A m \in T : n <= m
    BY <1>1, <2>1, FirstOfThem
  <2>3. CASE n = 0
    <3> DEFINE f == [k \in 0..0 |-> base]
    <3>1. Passes(f, S, base, step, 0)
      BY DEF Passes
    <3>2. QED
      BY <2>3, <3>1
  <2>4. CASE n # 0
    <3>1. n - 1 \in 0..N /\ n - 1 \notin T /\ n - 1 < N /\ (n - 1) + 1 = n
      BY <2>2, <2>4
    <3>2. PICK g : Passes(g, S, base, step, n - 1)
      BY <3>1
    <3>3. \E f : Passes(f, S, base, step, n)
      BY <3>1, <3>2, OnePassMore
    <3>4. QED
      BY <3>3
  <2>5. QED
    BY <2>3, <2>4
<1>2. N \in 0..N
  OBVIOUS
<1>3. QED
  BY <1>1, <1>2

\* A function that is the base at first and then steps as the loop does, as
\* long as it stays in S, stays in S.
LEMMA LoopStays ==
  ASSUME NEW S, NEW base \in S, NEW N \in Nat, NEW step \in [1..N -> [S -> S]],
         NEW g, g = [n \in 0..N |-> g[n]], g[0] = base,
         \A n \in 1..N : g[n - 1] \in S => g[n] = step[n][g[n - 1]]
  PROVE  Passes(g, S, base, step, N)
<1> DEFINE T == {n \in 0..N : g[n] \notin S}
<1>1. ASSUME T # {} PROVE FALSE
  <2>1. T \in SUBSET Nat
    OBVIOUS
  <2>2. PICK n \in T : \A m \in T : n <= m
    BY <1>1, <2>1, FirstOfThem
  <2>3. n # 0 /\ n \in 0..N /\ g[n] \notin S
    OBVIOUS
  <2>4. n \in 1..N /\ n - 1 \in 0..N /\ n - 1 \notin T
    BY <2>2, <2>3
  <2>5. g[n - 1] \in S
    BY <2>4
  <2>6. g[n] = step[n][g[n - 1]] /\ step[n] \in [S -> S]
    BY <2>4, <2>5
  <2>7. QED
    BY <2>3, <2>5, <2>6
<1>2. \A n \in 0..N : g[n] \in S
  BY <1>1
<1>3. \A n \in 1..N : n - 1 \in 0..N
  OBVIOUS
<1>4. g \in [0..N -> S]
  BY <1>2
<1>5. QED
  BY <1>2, <1>3, <1>4 DEF Passes

----------------------------------------------------------------------------
(* What Kept computes *)

Another(f, s, kept, n) ==
  IF n = 0 THEN <<>> ELSE IF n \in kept THEN Append(f[n - 1], s[n]) ELSE f[n - 1]
Unrolls(f, s, kept) == f = [n \in 0..Len(s) |-> Another(f, s, kept, n)]

\* f is what the loop has found after each element of s.
Found(f, S, s, kept) ==
  /\ f \in [0..Len(s) -> Seq(S)] /\ f[0] = <<>> /\ Kept(s, kept) = f[Len(s)]
  /\ \A n \in 1..Len(s) : f[n] = IF n \in kept THEN Append(f[n - 1], s[n]) ELSE f[n - 1]

LEMMA KeptUnrolls ==
  ASSUME NEW S, NEW s \in Seq(S), NEW kept
  PROVE  \E f : Found(f, S, s, kept)
<1> DEFINE N == Len(s)
           step == [n \in 1..N |-> [q \in Seq(S) |-> IF n \in kept THEN Append(q, s[n]) ELSE q]]
<1>1. N \in Nat /\ \A n \in 1..N : s[n] \in S
  OBVIOUS
<1>2. ASSUME NEW n \in 1..N, NEW q \in Seq(S)
      PROVE  (IF n \in kept THEN Append(q, s[n]) ELSE q) \in Seq(S)
  BY <1>1, AppendProperties
<1>3. step \in [1..N -> [Seq(S) -> Seq(S)]]
  BY <1>2
<1>4. <<>> \in Seq(S)
  OBVIOUS
<1>5. \A n \in 1..N, q \in Seq(S) : step[n][q] = IF n \in kept THEN Append(q, s[n]) ELSE q
  OBVIOUS
<1> HIDE DEF N, step
<1>6. PICK f : Passes(f, Seq(S), <<>>, step, N)
  BY <1>1, <1>3, <1>4, LoopsRun
<1>7. f = [n \in 0..N |-> f[n]] /\ 0 \in 0..N
  BY <1>1, <1>6 DEF Passes
<1>8. \A n \in 0..N : f[n] = Another(f, s, kept, n)
  <2>1. ASSUME NEW n \in 0..N, n # 0 PROVE f[n] = Another(f, s, kept, n)
    <3>1. n \in 1..N /\ n - 1 \in 0..N
      BY <1>1, <2>1
    <3>2. f[n] = step[n][f[n - 1]] /\ f[n - 1] \in Seq(S)
      BY <1>6, <3>1 DEF Passes
    <3>3. QED
      BY <1>5, <2>1, <3>1, <3>2 DEF Another
  <2>2. f[0] = Another(f, s, kept, 0)
    BY <1>6 DEF Passes, Another
  <2>3. QED
    BY <2>1, <2>2
<1>9. \E g : Unrolls(g, s, kept)
  BY <1>7, <1>8 DEF Unrolls, N
<1> DEFINE g == CHOOSE h : Unrolls(h, s, kept)
<1>10. Kept(s, kept) = g[N] /\ Unrolls(g, s, kept)
  <2>1. Kept(s, kept) = (CHOOSE h : Unrolls(h, s, kept))[Len(s)]
    BY Zenon DEF Kept, Unrolls, Another
  <2>2. Unrolls(g, s, kept)
    BY <1>9, Zenon
  <2>3. QED
    BY <2>1, <2>2 DEF N
<1> HIDE DEF g
<1>11. /\ DOMAIN g = 0..N /\ g = [n \in 0..N |-> g[n]]
       /\ \A n \in 0..N : g[n] = Another(g, s, kept, n)
  <2>1. g = [n \in 0..N |-> Another(g, s, kept, n)]
    BY <1>10 DEF Unrolls, N
  <2>2. QED
    BY <2>1
<1>12. g[0] = <<>> /\ \A n \in 1..N : g[n] = IF n \in kept THEN Append(g[n - 1], s[n]) ELSE g[n - 1]
  <2>1. 0 \in 0..N /\ \A n \in 1..N : n \in 0..N /\ n # 0
    BY <1>1
  <2>2. QED
    BY <1>11, <2>1 DEF Another
<1>13. \A n \in 1..N : g[n - 1] \in Seq(S) => g[n] = step[n][g[n - 1]]
  BY <1>5, <1>12
<1>14. g \in [0..N -> Seq(S)]
  <2>1. Passes(g, Seq(S), <<>>, step, N)
    BY <1>1, <1>3, <1>4, <1>11, <1>12, <1>13, LoopStays
  <2>2. QED
    BY <2>1 DEF Passes
<1>15. Found(g, S, s, kept)
  BY <1>10, <1>12, <1>14 DEF N, Found
<1>16. QED
  BY <1>15

\* q is what the first n elements of s leave when `kept` is kept, each at the
\* index `at` tells.
Chosen(q, at, s, kept, n) ==
  /\ at \in [1..Len(q) -> Nat]
  /\ \A k \in 1..Len(q) : at[k] \in 1..n /\ at[k] \in kept /\ q[k] = s[at[k]]
  /\ \A j, k \in 1..Len(q) : j < k => at[j] < at[k]
  /\ \A m \in 1..n : m \in kept => \E k \in 1..Len(q) : at[k] = m

LEMMA ChosenSkips ==
  ASSUME NEW n \in Nat, NEW q, NEW at, NEW s, NEW kept, Chosen(q, at, s, kept, n), n + 1 \notin kept
  PROVE  Chosen(q, at, s, kept, n + 1)
<1>1. \A m \in 1..(n + 1) : m \in kept => m \in 1..n
  OBVIOUS
<1>2. \A m \in 1..n : m \in 1..(n + 1)
  OBVIOUS
<1>3. QED
  BY <1>1, <1>2 DEF Chosen

LEMMA ChosenTakes ==
  ASSUME NEW n \in Nat, NEW S, NEW q \in Seq(S), NEW at, NEW s, NEW kept,
         Chosen(q, at, s, kept, n), n + 1 \in kept, s[n + 1] \in S
  PROVE  \E next : Chosen(Append(q, s[n + 1]), next, s, kept, n + 1)
<1> DEFINE L == Len(q)
           p == Append(q, s[n + 1])
           next == [k \in 1..(L + 1) |-> IF k = L + 1 THEN n + 1 ELSE at[k]]
<1>1. /\ L \in Nat /\ Len(p) = L + 1 /\ p[L + 1] = s[n + 1]
      /\ \A k \in 1..L : p[k] = q[k]
  BY AppendProperties
<1>2. /\ at \in [1..L -> Nat]
      /\ \A k \in 1..L : at[k] \in 1..n /\ at[k] \in kept /\ q[k] = s[at[k]]
      /\ \A j, k \in 1..L : j < k => at[j] < at[k]
      /\ \A m \in 1..n : m \in kept => \E k \in 1..L : at[k] = m
  BY DEF Chosen
<1> HIDE DEF L, p
<1>3. next[L + 1] = n + 1 /\ \A k \in 1..L : next[k] = at[k]
  BY <1>1
<1>4. next \in [1..(L + 1) -> Nat]
  <2>1. ASSUME NEW k \in 1..(L + 1) PROVE (IF k = L + 1 THEN n + 1 ELSE at[k]) \in Nat
    BY <1>1, <1>2
  <2>2. QED
    BY <2>1
<1> HIDE DEF next
<1>5. ASSUME NEW k \in 1..(L + 1)
      PROVE  next[k] \in 1..(n + 1) /\ next[k] \in kept /\ p[k] = s[next[k]]
  <2>1. CASE k = L + 1
    BY <1>1, <1>3, <2>1
  <2>2. CASE k # L + 1
    <3>1. k \in 1..L
      BY <1>1, <2>2
    <3>2. QED
      BY <1>1, <1>2, <1>3, <3>1
  <2>3. QED
    BY <2>1, <2>2
<1>6. ASSUME NEW j \in 1..(L + 1), NEW k \in 1..(L + 1), j < k
      PROVE  next[j] < next[k]
  <2>1. j \in 1..L
    BY <1>1, <1>6
  <2>2. CASE k = L + 1
    <3>1. at[j] \in 1..n
      BY <1>2, <2>1
    <3>2. QED
      BY <1>3, <2>1, <2>2, <3>1
  <2>3. CASE k # L + 1
    <3>1. k \in 1..L
      BY <1>1, <2>3
    <3>2. QED
      BY <1>2, <1>3, <1>6, <2>1, <3>1
  <2>4. QED
    BY <2>2, <2>3
<1>7. ASSUME NEW m \in 1..(n + 1), m \in kept PROVE \E k \in 1..(L + 1) : next[k] = m
  <2>1. CASE m = n + 1
    <3>1. L + 1 \in 1..(L + 1)
      BY <1>1
    <3>2. QED
      BY <1>3, <2>1, <3>1
  <2>2. CASE m # n + 1
    <3>1. PICK k \in 1..L : at[k] = m
      BY <1>2, <1>7, <2>2
    <3>2. k \in 1..(L + 1)
      BY <1>1
    <3>3. QED
      BY <1>3, <3>1, <3>2
  <2>3. QED
    BY <2>1, <2>2
<1>8. Chosen(p, next, s, kept, n + 1)
  BY <1>1, <1>4, <1>5, <1>6, <1>7 DEF Chosen
<1>9. QED
  BY <1>8 DEF p

\* The loop leaves the elements of the chosen indexes, in the order of these.
LEMMA KeptChosen ==
  ASSUME NEW S, NEW s \in Seq(S), NEW kept
  PROVE  Kept(s, kept) \in Seq(S) /\ \E at : Chosen(Kept(s, kept), at, s, kept, Len(s))
<1>0. PICK f : Found(f, S, s, kept)
  BY KeptUnrolls
<1> DEFINE N == Len(s)
<1>1. /\ f \in [0..N -> Seq(S)] /\ f[0] = <<>> /\ Kept(s, kept) = f[N]
      /\ \A n \in 1..N : f[n] = IF n \in kept THEN Append(f[n - 1], s[n]) ELSE f[n - 1]
  BY <1>0 DEF Found
<1>2. N \in Nat /\ \A n \in 1..N : s[n] \in S
  OBVIOUS
<1> HIDE DEF N
<1> DEFINE T == {n \in 0..N : ~\E at : Chosen(f[n], at, s, kept, n)}
<1>3. ASSUME T # {} PROVE FALSE
  <2>1. T \in SUBSET Nat
    BY <1>2
  <2>2. PICK n \in T : \A m \in T : n <= m
    BY <1>3, <2>1, FirstOfThem
  <2>3. n \in 0..N /\ ~\E at : Chosen(f[n], at, s, kept, n)
    OBVIOUS
  <2>4. n # 0
    <3>1. Chosen(<<>>, <<>>, s, kept, 0)
      BY DEF Chosen
    <3>2. QED
      BY <1>1, <2>3, <3>1
  <2>5. n \in 1..N /\ n - 1 \in 0..N /\ n - 1 \notin T /\ n - 1 \in Nat /\ (n - 1) + 1 = n
    BY <1>2, <2>2, <2>3, <2>4
  <2>6. PICK at : Chosen(f[n - 1], at, s, kept, n - 1)
    BY <2>5
  <2> HIDE DEF T
  <2>7. CASE n \notin kept
    BY <1>1, <2>3, <2>5, <2>6, <2>7, ChosenSkips
  <2>8. CASE n \in kept
    <3>1. \E next : Chosen(Append(f[n - 1], s[n]), next, s, kept, n)
      BY <1>1, <1>2, <2>5, <2>6, <2>8, ChosenTakes
    <3>2. QED
      BY <1>1, <2>3, <2>5, <2>8, <3>1
  <2>9. QED
    BY <2>7, <2>8
<1>4. N \in 0..N
  BY <1>2
<1>5. QED
  BY <1>1, <1>3, <1>4 DEF N

\* A loop that skips nothing copies.
LEMMA KeptAll ==
  ASSUME NEW S, NEW s \in Seq(S), NEW kept, \A n \in 1..Len(s) : n \in kept
  PROVE  Kept(s, kept) = s
<1> DEFINE N == Len(s)
           q == Kept(s, kept)
           L == Len(q)
<1>1. PICK at : Chosen(q, at, s, kept, N)
  BY KeptChosen
<1>2. q \in Seq(S) /\ L \in Nat /\ N \in Nat
  BY KeptChosen
<1>3. /\ at \in [1..L -> Nat]
      /\ \A k \in 1..L : at[k] \in 1..N /\ q[k] = s[at[k]]
      /\ \A j, k \in 1..L : j < k => at[j] < at[k]
      /\ \A m \in 1..N : \E k \in 1..L : at[k] = m
  BY <1>1 DEF Chosen
<1> HIDE DEF N, q, L
<1> DEFINE T == {k \in 1..L : at[k] # k}
<1>4. ASSUME T # {} PROVE FALSE
  <2>1. T \in SUBSET Nat
    BY <1>2
  <2>2. PICK k \in T : \A j \in T : k <= j
    BY <1>4, <2>1, FirstOfThem
  <2>3. k \in 1..L /\ at[k] # k /\ at[k] \in 1..N
    BY <1>3
  <2>4. \A j \in 1..L : j < k => at[j] = j
    BY <1>2, <2>2
  <2> HIDE DEF T
  <2>5. at[k] > k
    <3>1. CASE at[k] < k
      <4>1. at[k] \in 1..L /\ at[at[k]] = at[k]
        BY <1>2, <2>3, <2>4, <3>1
      <4>2. at[at[k]] < at[k]
        BY <1>3, <2>3, <3>1, <4>1
      <4>3. QED
        BY <1>2, <2>3, <4>1, <4>2
    <3>2. QED
      BY <1>2, <2>3, <3>1
  <2>6. k \in 1..N
    BY <1>2, <2>3, <2>5
  <2>7. PICK j \in 1..L : at[j] = k
    BY <1>3, <2>6
  <2>8. j # k /\ ~ (j < k)
    BY <1>2, <2>3, <2>4, <2>7
  <2>9. k < j
    BY <1>2, <2>3, <2>8
  <2>10. at[k] < k
    BY <1>3, <2>3, <2>7, <2>9
  <2>11. QED
    BY <1>2, <2>3, <2>5, <2>10
<1>5. \A k \in 1..L : at[k] = k
  BY <1>4
<1>6. L = N
  <2>1. L <= N
    BY <1>2, <1>3, <1>5
  <2>2. N <= L
    BY <1>2, <1>3, <1>5
  <2>3. QED
    BY <1>2, <2>1, <2>2
<1>7. \A k \in 1..N : q[k] = s[k]
  BY <1>3, <1>5, <1>6
<1>8. q = s
  BY <1>2, <1>6, <1>7, SeqEqual DEF N, L
<1>9. QED
  BY <1>8 DEF q

----------------------------------------------------------------------------
(* find_reports() *)

\* A query collects the rows its filters pass, in order of arrival.
LEMMA FoundReports ==
  ASSUME StoreTyped, NEW near, NEW radius, NEW start, NEW end
  PROVE  LET found == FindReports(near, radius, start, end)
             passes(r) == ~NotNear(r, near, radius) /\ ~OutOfTime(r, start, end)
         IN /\ ToSet(found) = {r \in ToSet(rows) : passes(r)}
            /\ (\A r \in ToSet(rows) : passes(r)) => found = rows
            /\ \A j, k \in DOMAIN found :
                 j < k => \E m, n \in DOMAIN rows : m < n /\ rows[m] = found[j] /\ rows[n] = found[k]
<1> DEFINE passes(r) == ~NotNear(r, near, radius) /\ ~OutOfTime(r, start, end)
           kept  == {n \in DOMAIN rows : passes(rows[n])}
           found == Kept(rows, kept)
<1>1. rows \in Seq(Report) /\ DOMAIN rows = 1..Len(rows) /\ found = FindReports(near, radius, start, end)
  BY DEF StoreTyped, FindReports
<1> HIDE DEF passes
<1>2. \A n \in 1..Len(rows) : n \in kept <=> passes(rows[n])
  BY <1>1
<1>3. (\A r \in ToSet(rows) : passes(r)) => found = rows
  <2>1. ASSUME \A r \in ToSet(rows) : passes(r) PROVE \A n \in 1..Len(rows) : n \in kept
    BY <1>1, <2>1 DEF ToSet
  <2> HIDE DEF kept
  <2>2. QED
    BY <1>1, <2>1, KeptAll
<1> HIDE DEF kept
<1>4. PICK at : Chosen(found, at, rows, kept, Len(rows))
  BY <1>1, KeptChosen
<1>5. found \in Seq(Report) /\ DOMAIN found = 1..Len(found)
  <2>1. found \in Seq(Report)
    BY <1>1, KeptChosen
  <2>2. QED
    BY <2>1
<1> HIDE DEF found
<1>6. \A k \in DOMAIN found : at[k] \in DOMAIN rows /\ at[k] \in kept /\ found[k] = rows[at[k]]
  BY <1>1, <1>4, <1>5 DEF Chosen
<1>7. \A n \in DOMAIN rows : n \in kept => \E k \in DOMAIN found : at[k] = n
  BY <1>1, <1>4, <1>5 DEF Chosen
<1>8. ToSet(found) = {r \in ToSet(rows) : passes(r)}
  <2>1. ASSUME NEW r \in ToSet(found) PROVE r \in ToSet(rows) /\ passes(r)
    BY <1>1, <1>2, <1>6 DEF ToSet
  <2>2. ASSUME NEW r \in ToSet(rows), passes(r) PROVE r \in ToSet(found)
    <3>1. PICK n \in DOMAIN rows : r = rows[n]
      BY DEF ToSet
    <3>2. PICK k \in DOMAIN found : at[k] = n
      BY <1>1, <1>2, <1>7, <2>2, <3>1
    <3>3. QED
      BY <1>6, <3>1, <3>2 DEF ToSet
  <2>3. QED
    BY <2>1, <2>2
<1>9. ASSUME NEW j \in DOMAIN found, NEW k \in DOMAIN found, j < k
      PROVE  \E m, n \in DOMAIN rows : m < n /\ rows[m] = found[j] /\ rows[n] = found[k]
  <2>1. at[j] < at[k]
    BY <1>4, <1>5, <1>9 DEF Chosen
  <2>2. QED
    BY <1>6, <2>1
<1>10. QED
  BY <1>1, <1>3, <1>8, <1>9 DEF passes

\* Cut at any tick, the dated reports fall on exactly one side, the undated on
\* neither; without a bound every report is found (reports.py:103-110).
THEOREM TimeWindowsAlwaysTile == Spec => []TimeWindowsTile
<1>1. ASSUME StoreTyped PROVE TimeWindowsTile
  <2>1. FindReports(None, None, None, None) = rows
    <3>1. \A r : ~NotNear(r, None, None) /\ ~OutOfTime(r, None, None)
      BY DEF NotNear, OutOfTime
    <3>2. QED
      BY <1>1, <3>1, FoundReports
  <2>2. ASSUME NEW t \in Ticks
        PROVE  LET before == ToSet(FindReports(None, None, None, t))
                   after  == ToSet(FindReports(None, None, t + 1, None))
               IN /\ before \cap after = {}
                  /\ before \cup after = {r \in ToSet(rows) : r.tick # None}
    <3>1. t \in Int /\ t + 1 \in Int /\ None \notin Int
      BY NumbersAssumption, BoundsAssumption
    <3>2. t # None /\ t + 1 # None
      BY <3>1
    <3>3. \A r \in ToSet(rows) : r.tick = None \/ r.tick \in Int
      <4>1. ToSet(rows) \subseteq Report
        BY <1>1 DEF StoreTyped, ToSet
      <4>2. QED
        BY <4>1, BoundsAssumption DEF Report
    <3>4. \A r : ~NotNear(r, None, None)
      BY DEF NotNear
    <3>5. /\ ToSet(FindReports(None, None, None, t)) = {r \in ToSet(rows) : ~OutOfTime(r, None, t)}
          /\ ToSet(FindReports(None, None, t + 1, None)) = {r \in ToSet(rows) : ~OutOfTime(r, t + 1, None)}
      BY <1>1, <3>4, FoundReports
    <3>6. ASSUME NEW r \in ToSet(rows)
          PROVE  /\ OutOfTime(r, None, t) <=> (r.tick = None \/ r.tick > t)
                 /\ OutOfTime(r, t + 1, None) <=> (r.tick = None \/ r.tick < t + 1)
      BY <3>2 DEF OutOfTime
    <3>7. \A r \in ToSet(rows) : r.tick # None => ((r.tick > t) <=> ~ (r.tick < t + 1))
      BY <3>1, <3>3
    <3>8. QED
      BY <3>5, <3>6, <3>7
  <2>3. QED
    BY <2>1, <2>2 DEF TimeWindowsTile
<1>2. EvidenceInv => StoreTyped
  BY DEF EvidenceInv
<1>3. QED
  BY <1>1, <1>2, EvidenceInvariance, PTL

\* Within a radius of a point is an interval, which nothing but numbers is in.
LEMMA NearIsAnInterval ==
  ASSUME NEW c \in Places \cup {None, NaN}, NEW near \in Int, NEW radius \in Int
  PROVE  (c # None /\ LessEq(Dist(c, near), radius)) <=> c \in (near - radius)..(near + radius)
<1>1. near # NaN /\ radius # NaN
  BY NumbersAssumption
<1>2. CASE c \in Places
  <2>1. c \in Int /\ c # None /\ c # NaN
    BY <1>2, NumbersAssumption
  <2>2. Dist(c, near) = IF c < near THEN near - c ELSE c - near
    BY <1>1, <2>1 DEF Dist
  <2>3. Dist(c, near) \in Int
    BY <2>1, <2>2
  <2>4. Dist(c, near) # NaN
    BY <2>3, NumbersAssumption
  <2>5. LessEq(Dist(c, near), radius) <=> Dist(c, near) <= radius
    BY <1>1, <2>4 DEF LessEq
  <2>6. QED
    BY <2>1, <2>2, <2>5
<1>3. CASE c \in {None, NaN}
  <2>1. c \notin Int
    BY <1>3, NumbersAssumption
  <2>2. c = NaN => Dist(c, near) = NaN
    BY DEF Dist
  <2>3. QED
    BY <1>3, <2>1, <2>2 DEF LessEq
<1>4. QED
  BY <1>2, <1>3

LEMMA RadiiAreNumbers == Radii \subseteq Nat
<1>1. ASSUME NEW p \in Places, NEW q \in Places PROVE Dist(p, q) \in Nat
  <2>1. p \in Int /\ q \in Int /\ p # NaN /\ q # NaN
    BY NumbersAssumption
  <2>2. QED
    BY <2>1 DEF Dist
<1>2. QED
  BY <1>1 DEF Radii

\* A spatial query finds exactly the reports placed within its radius, in order
\* of arrival; one that has no place, or none that is a number, is not found
\* (reports.py:88-102).
THEOREM NearAlwaysMeansNear == Spec => []NearMeansNear
<1>1. ASSUME StoreTyped PROVE NearMeansNear
  <2> DEFINE Good(near, radius) ==
               LET found == FindReports(near, radius, None, None)
               IN /\ \A r \in ToSet(rows) :
                       r \in ToSet(found) <=> r.coords \in (near - radius)..(near + radius)
                  /\ \A j, k \in DOMAIN found :
                       j < k => \E m, n \in DOMAIN rows : m < n /\ rows[m] = found[j] /\ rows[n] = found[k]
  <2>1. ASSUME NEW near \in Int, NEW radius \in Int
        PROVE  Good(near, radius)
    <3>1. near # None /\ radius # None
      BY NumbersAssumption
    <3>2. \A r \in ToSet(rows) : ~OutOfTime(r, None, None)
      BY DEF OutOfTime
    <3>3. \A r \in ToSet(rows) : r.coords \in Places \cup {None, NaN}
      <4>1. ToSet(rows) \subseteq Report
        BY <1>1 DEF StoreTyped, ToSet
      <4>2. QED
        BY <4>1 DEF Report
    <3>4. \A r : ~NotNear(r, near, radius) <=> (r.coords # None /\ LessEq(Dist(r.coords, near), radius))
      BY <3>1 DEF NotNear
    <3>5. \A c \in Places \cup {None, NaN} :
            (c # None /\ LessEq(Dist(c, near), radius)) <=> c \in (near - radius)..(near + radius)
      BY <3>1, NearIsAnInterval
    <3>6. \A r \in ToSet(rows) :
            ~NotNear(r, near, radius) <=> r.coords \in (near - radius)..(near + radius)
      BY <3>3, <3>4, <3>5, Zenon
    <3>7. QED
      BY <1>1, <3>2, <3>6, FoundReports
  <2> HIDE DEF Good
  <2>2. QED
    BY <2>1, RadiiAreNumbers, NumbersAssumption DEF NearMeansNear, Good
<1>2. EvidenceInv => StoreTyped
  BY DEF EvidenceInv
<1>3. QED
  BY <1>1, <1>2, EvidenceInvariance, PTL

----------------------------------------------------------------------------
(* Putting one element into a sequence *)

\* u is t with x put in after the first p elements.
PutIn(u, t, p, x) ==
  /\ p \in 0..Len(t) /\ Len(u) = Len(t) + 1
  /\ \A k \in 1..p : u[k] = t[k]
  /\ u[p + 1] = x
  /\ \A k \in (p + 2)..(Len(t) + 1) : u[k] = t[k - 1]

LEMMA InsertedAt ==
  ASSUME NEW S, NEW t \in Seq(S), NEW x \in S, NEW p \in 0..Len(t)
  PROVE  InsertAt(t, p + 1, x) \in Seq(S) /\ PutIn(InsertAt(t, p + 1, x), t, p, x)
<1> DEFINE L == Len(t)
           a == SubSeq(t, 1, p)
           b == SubSeq(t, p + 1, L)
           ax == a \o <<x>>
<1>1. L \in Nat /\ p \in Int /\ p + 1 \in Int /\ 0 <= p /\ p <= L /\ \A k \in 1..L : t[k] \in S
  OBVIOUS
<1>2. a \in Seq(S) /\ Len(a) = p /\ \A k \in 1..p : a[k] = t[k]
  <2>1. \A i \in 1..p : t[i] \in S
    BY <1>1
  <2>2. /\ SubSeq(t, 1, p) \in Seq(S)
        /\ Len(SubSeq(t, 1, p)) = IF 1 <= p THEN p - 1 + 1 ELSE 0
        /\ \A i \in 1..(p - 1 + 1) : SubSeq(t, 1, p)[i] = t[1 + i - 1]
    BY <1>1, <2>1, SubSeqProperties
  <2>3. QED
    BY <1>1, <2>2
<1>3. b \in Seq(S) /\ Len(b) = L - p /\ \A k \in 1..(L - p) : b[k] = t[p + k]
  <2>1. \A i \in (p + 1)..L : t[i] \in S
    BY <1>1
  <2>2. /\ SubSeq(t, p + 1, L) \in Seq(S)
        /\ Len(SubSeq(t, p + 1, L)) = IF p + 1 <= L THEN L - (p + 1) + 1 ELSE 0
        /\ \A i \in 1..(L - (p + 1) + 1) : SubSeq(t, p + 1, L)[i] = t[(p + 1) + i - 1]
    BY <1>1, <2>1, SubSeqProperties
  <2>3. QED
    BY <1>1, <2>2
<1>4. <<x>> \in Seq(S) /\ Len(<<x>>) = 1 /\ <<x>>[1] = x
  OBVIOUS
<1> HIDE DEF L, a, b
<1>5. /\ ax \in Seq(S) /\ Len(ax) = p + 1
      /\ \A k \in 1..p : ax[k] = t[k]
      /\ ax[p + 1] = x
  <2>1. /\ a \o <<x>> \in Seq(S) /\ Len(a \o <<x>>) = Len(a) + Len(<<x>>)
        /\ \A i \in 1..(Len(a) + Len(<<x>>)) : (a \o <<x>>)[i] = IF i <= Len(a) THEN a[i] ELSE <<x>>[i - Len(a)]
    BY <1>2, <1>4, ConcatProperties
  <2>2. QED
    BY <1>1, <1>2, <1>4, <2>1
<1> HIDE DEF ax
<1>6. /\ ax \o b \in Seq(S) /\ Len(ax \o b) = Len(ax) + Len(b)
      /\ \A i \in 1..(Len(ax) + Len(b)) : (ax \o b)[i] = IF i <= Len(ax) THEN ax[i] ELSE b[i - Len(ax)]
  BY <1>3, <1>5, ConcatProperties
<1>7. InsertAt(t, p + 1, x) = ax \o b
  <2>1. p + 1 - 1 = p
    BY <1>1
  <2>2. ASSUME NEW i, i - 1 = p
        PROVE  InsertAt(t, i, x) = (SubSeq(t, 1, p) \o <<x>>) \o SubSeq(t, i, Len(t))
    BY <2>2, Zenon DEF InsertAt
  <2> DEFINE i == p + 1
  <2>3. i - 1 = p
    BY <2>1
  <2> HIDE DEF i
  <2>4. InsertAt(t, i, x) = (SubSeq(t, 1, p) \o <<x>>) \o SubSeq(t, i, Len(t))
    BY <2>2, <2>3
  <2>5. QED
    BY <2>4, Zenon DEF ax, a, b, L, i
<1>8. \A k \in (p + 2)..(L + 1) : (ax \o b)[k] = t[k - 1]
  <2> SUFFICES ASSUME NEW k \in (p + 2)..(L + 1) PROVE (ax \o b)[k] = t[k - 1]
    OBVIOUS
  <2>1. k \in 1..(Len(ax) + Len(b)) /\ ~ (k <= Len(ax)) /\ k - Len(ax) \in 1..(L - p)
    BY <1>1, <1>3, <1>5
  <2>2. (ax \o b)[k] = b[k - (p + 1)] /\ k - (p + 1) \in 1..(L - p)
    BY <1>5, <1>6, <2>1
  <2>3. p + (k - (p + 1)) = k - 1
    BY <1>1
  <2>4. QED
    BY <1>3, <2>2, <2>3
<1>9. /\ InsertAt(t, p + 1, x) \in Seq(S) /\ Len(InsertAt(t, p + 1, x)) = Len(t) + 1
      /\ \A k \in 1..p : InsertAt(t, p + 1, x)[k] = t[k]
      /\ InsertAt(t, p + 1, x)[p + 1] = x
  <2>1. Len(ax \o b) = L + 1
    BY <1>1, <1>3, <1>5, <1>6
  <2>2. \A k \in 1..(p + 1) : (ax \o b)[k] = ax[k]
    BY <1>1, <1>3, <1>5, <1>6
  <2>3. /\ \A k \in 1..p : (ax \o b)[k] = t[k]
        /\ (ax \o b)[p + 1] = x
    BY <1>1, <1>5, <2>2
  <2> DEFINE u == ax \o b
  <2>4. InsertAt(t, p + 1, x) = u /\ u \in Seq(S) /\ Len(u) = L + 1 /\ u[p + 1] = x
        /\ \A k \in 1..p : u[k] = t[k]
    BY <1>6, <1>7, <2>1, <2>3
  <2> HIDE DEF u
  <2>5. QED
    BY <2>4 DEF L
<1>10. \A k \in (p + 2)..(Len(t) + 1) : InsertAt(t, p + 1, x)[k] = t[k - 1]
  BY <1>7, <1>8, Zenon DEF L
<1>11. QED
  BY <1>9, <1>10, Zenon DEF PutIn

----------------------------------------------------------------------------
(* Binary search *)

Windows(s) == {b \in [l : 0..Len(s), r : 0..Len(s)] : b.l <= b.r}

\* A pass looks at one element of the window and keeps what is on one side.
LEMMA HalveNarrows ==
  ASSUME NEW s, Len(s) \in Nat, NEW x, NEW near, NEW b \in Windows(s)
  PROVE  LET h == Halve(s, x, near, b)
         IN /\ h \in Windows(s)
            /\ \/ b.l = b.r /\ h = b
               \/ \E k \in (b.l + 1)..b.r :
                    \/ Nearer(x, s[k], near) /\ h.l = b.l /\ h.r = k - 1
                    \/ ~Nearer(x, s[k], near) /\ h.l = k /\ h.r = b.r
<1> DEFINE p == (b.l + b.r) \div 2
           h == Halve(s, x, near, b)
<1>1. b \in [l : 0..Len(s), r : 0..Len(s)] /\ b.l \in 0..Len(s) /\ b.r \in 0..Len(s) /\ b.l <= b.r
  BY DEF Windows
<1>2. CASE b.l >= b.r
  <2>1. h = b
    BY <1>2 DEF Halve
  <2>2. QED
    BY <1>1, <1>2, <2>1
<1>3. CASE b.l < b.r
  <2>1. p \in Nat /\ p \in b.l..(b.r - 1)
    BY <1>1, <1>3
  <2>2. h = IF Nearer(x, s[p + 1], near) THEN [b EXCEPT !.r = p] ELSE [b EXCEPT !.l = p + 1]
    BY <1>1, <1>3 DEF Halve
  <2> HIDE DEF p, h
  <2>3. p + 1 \in (b.l + 1)..b.r /\ p + 1 - 1 = p /\ p \in 0..Len(s) /\ p + 1 \in 0..Len(s)
    BY <1>1, <2>1
  <2>4. CASE Nearer(x, s[p + 1], near)
    <3>1. h = [b EXCEPT !.r = p]
      BY <2>2, <2>4
    <3>2. h \in [l : 0..Len(s), r : 0..Len(s)] /\ h.l = b.l /\ h.r = p
      BY <1>1, <2>3, <3>1
    <3>3. h \in Windows(s)
      BY <1>1, <2>1, <3>2 DEF Windows
    <3>4. QED
      BY <2>3, <2>4, <3>2, <3>3 DEF h
  <2>5. CASE ~Nearer(x, s[p + 1], near)
    <3>1. h = [b EXCEPT !.l = p + 1]
      BY <2>2, <2>5
    <3>2. h \in [l : 0..Len(s), r : 0..Len(s)] /\ h.l = p + 1 /\ h.r = b.r
      BY <1>1, <2>3, <3>1
    <3>3. h \in Windows(s)
      BY <1>1, <2>1, <3>2 DEF Windows
    <3>4. QED
      BY <2>3, <2>5, <3>2, <3>3 DEF h
  <2>6. QED
    BY <2>4, <2>5
<1>4. QED
  BY <1>1, <1>2, <1>3

Halved(g, s, x, near, n) ==
  IF n = 0 THEN [l |-> 0, r |-> Len(s)] ELSE Halve(s, x, near, g[n - 1])
Halves(g, s, x, near) == g = [n \in 0..Len(s) |-> Halved(g, s, x, near, n)]

\* g is what the search has narrowed its window to after each pass.
Searched(g, s, x, near) ==
  /\ g \in [0..Len(s) -> Windows(s)] /\ g[0] = [l |-> 0, r |-> Len(s)]
  /\ \A n \in 1..Len(s) : g[n] = Halve(s, x, near, g[n - 1])
  /\ Place(s, x, near) = g[Len(s)].l

LEMMA PlaceUnrolls ==
  ASSUME NEW s, Len(s) \in Nat, NEW x, NEW near
  PROVE  \E g : Searched(g, s, x, near)
<1> DEFINE N == Len(s)
           W == Windows(s)
           base == [l |-> 0, r |-> N]
           step == [n \in 1..N |-> [b \in W |-> Halve(s, x, near, b)]]
<1>1. base \in W
  BY DEF Windows
<1>2. \A b \in W : Halve(s, x, near, b) \in W
  BY HalveNarrows
<1>3. step \in [1..N -> [W -> W]] /\ \A n \in 1..N, b \in W : step[n][b] = Halve(s, x, near, b)
  BY <1>2
<1>4. N \in Nat /\ base = [l |-> 0, r |-> N]
  OBVIOUS
<1>5. \A g, n : Halved(g, s, x, near, n) = IF n = 0 THEN base ELSE Halve(s, x, near, g[n - 1])
  BY DEF Halved
<1>6. \A g : Halves(g, s, x, near) <=> g = [n \in 0..N |-> Halved(g, s, x, near, n)]
  BY DEF Halves
<1> HIDE DEF base, step, W
<1>7. PICK f : Passes(f, W, base, step, N)
  BY <1>1, <1>3, <1>4, LoopsRun
<1>8. f \in [0..N -> W] /\ f[0] = base /\ \A n \in 1..N : f[n] = Halve(s, x, near, f[n - 1])
  <2>1. \A n \in 1..N : n - 1 \in 0..N
    BY <1>4
  <2>2. QED
    BY <1>3, <1>7, <2>1 DEF Passes
<1>9. f = [n \in 0..N |-> Halved(f, s, x, near, n)]
  <2>1. \A n \in 0..N : n # 0 => n \in 1..N
    BY <1>4
  <2>2. \A n \in 0..N : f[n] = Halved(f, s, x, near, n)
    BY <1>5, <1>8, <2>1
  <2>3. f = [n \in 0..N |-> f[n]]
    BY <1>8
  <2>4. QED
    BY <2>2, <2>3
<1>10. \E g : Halves(g, s, x, near)
  BY <1>6, <1>9
<1> DEFINE g == CHOOSE h : Halves(h, s, x, near)
<1>11. Place(s, x, near) = g[N].l
  BY Zenon DEF Place, Halves, Halved
<1>12. Halves(g, s, x, near)
  BY <1>10, Zenon
<1> HIDE DEF g
<1>13. g = [n \in 0..N |-> Halved(g, s, x, near, n)]
  BY <1>6, <1>12
<1>14. /\ g = [n \in 0..N |-> g[n]] /\ g[0] = base
       /\ \A n \in 1..N : g[n] = Halve(s, x, near, g[n - 1])
  <2>1. \A n \in 0..N : g[n] = Halved(g, s, x, near, n)
    BY <1>13
  <2>2. 0 \in 0..N /\ \A n \in 1..N : n \in 0..N /\ n # 0
    BY <1>4
  <2>3. g = [n \in 0..N |-> g[n]]
    BY <1>13
  <2>4. QED
    BY <1>5, <2>1, <2>2, <2>3
<1>15. \A n \in 1..N : g[n - 1] \in W => g[n] = step[n][g[n - 1]]
  BY <1>3, <1>14
<1>16. Passes(g, W, base, step, N)
  BY <1>1, <1>3, <1>4, <1>14, <1>15, LoopStays
<1>17. Searched(g, s, x, near)
  BY <1>4, <1>11, <1>14, <1>16 DEF Passes, Searched, W
<1>18. QED
  BY <1>17

\* After N passes nothing is left of the window, wherever the search went.
LEMMA SearchEnds ==
  ASSUME NEW s, Len(s) \in Nat, NEW x, NEW near, NEW g, Searched(g, s, x, near)
  PROVE  g[Len(s)].l = g[Len(s)].r /\ Place(s, x, near) = g[Len(s)].l /\ Place(s, x, near) \in 0..Len(s)
<1> DEFINE N == Len(s)
           T == {n \in 0..N : g[n].r - g[n].l > N - n}
<1>1. /\ N \in Nat /\ \A n \in 0..N : g[n] \in Windows(s)
      /\ g[0] = [l |-> 0, r |-> N] /\ Place(s, x, near) = g[N].l
      /\ \A n \in 1..N : g[n] = Halve(s, x, near, g[n - 1])
  BY DEF Searched
<1>2. \A n \in 0..N : g[n].l \in 0..N /\ g[n].r \in 0..N /\ g[n].l <= g[n].r
  BY <1>1 DEF Windows
<1> HIDE DEF N
<1>3. ASSUME T # {} PROVE FALSE
  <2>1. T \in SUBSET Nat
    BY <1>1
  <2>2. PICK n \in T : \A m \in T : n <= m
    BY <1>3, <2>1, FirstOfThem
  <2>3. n \in 0..N /\ g[n].r - g[n].l > N - n
    OBVIOUS
  <2>4. n # 0
    <3>1. g[0].l = 0 /\ g[0].r = N
      BY <1>1
    <3>2. QED
      BY <1>1, <2>3, <3>1
  <2>5. n \in 1..N /\ n - 1 \in 0..N /\ ~ (n - 1 \in T)
    BY <1>1, <2>2, <2>3, <2>4
  <2> DEFINE b == g[n - 1]
             h == g[n]
  <2>6. b \in Windows(s) /\ h = Halve(s, x, near, b) /\ b.l \in 0..N /\ b.r \in 0..N /\ b.l <= b.r
    BY <1>1, <1>2, <2>5
  <2>7. ~ (b.r - b.l > N - (n - 1))
    BY <2>5
  <2> HIDE DEF T, b, h
  <2>8. \/ b.l = b.r /\ h = b
        \/ \E k \in (b.l + 1)..b.r : (h.l = b.l /\ h.r = k - 1) \/ (h.l = k /\ h.r = b.r)
    BY <1>1, <2>6, HalveNarrows DEF N
  <2>9. h.r - h.l > N - n /\ N - n >= 0
    BY <1>1, <2>3 DEF h
  <2>10. QED
    BY <1>1, <2>5, <2>6, <2>7, <2>8, <2>9
<1>4. N \in 0..N /\ ~ (g[N].r - g[N].l > N - N)
  BY <1>1, <1>3
<1>5. QED
  BY <1>1, <1>2, <1>4 DEF N

\* Whatever the keys, the place is one of s.
LEMMA PlaceInside ==
  ASSUME NEW s, Len(s) \in Nat, NEW x, NEW near
  PROVE  Place(s, x, near) \in 0..Len(s)
<1>1. PICK g : Searched(g, s, x, near)
  BY PlaceUnrolls
<1>2. QED
  BY <1>1, SearchEnds

\* What is nearer than x comes first in s, what x is nearer than comes last:
\* then the search finds where the one ends and the other begins.
Parting(s, x, near, b) ==
  /\ \A k \in 1..b.l : ~Nearer(x, s[k], near)
  /\ \A k \in (b.r + 1)..Len(s) : Nearer(x, s[k], near)

LEMMA PlaceParts ==
  ASSUME NEW s, Len(s) \in Nat, NEW x, NEW near,
         \A j, k \in 1..Len(s) : j < k /\ Nearer(x, s[j], near) => Nearer(x, s[k], near)
  PROVE  /\ \A k \in 1..Place(s, x, near) : ~Nearer(x, s[k], near)
         /\ \A k \in (Place(s, x, near) + 1)..Len(s) : Nearer(x, s[k], near)
<1>1. PICK g : Searched(g, s, x, near)
  BY PlaceUnrolls
<1> DEFINE N == Len(s)
           T == {n \in 0..N : ~Parting(s, x, near, g[n])}
<1>2. /\ N \in Nat /\ \A n \in 0..N : g[n] \in Windows(s)
      /\ g[0] = [l |-> 0, r |-> N]
      /\ \A n \in 1..N : g[n] = Halve(s, x, near, g[n - 1])
  BY <1>1 DEF Searched
<1>3. \A n \in 0..N : g[n].l \in 0..N /\ g[n].r \in 0..N /\ g[n].l <= g[n].r
  BY <1>2 DEF Windows
<1> HIDE DEF N
<1>4. ASSUME T # {} PROVE FALSE
  <2>1. T \in SUBSET Nat
    BY <1>2
  <2>2. PICK n \in T : \A m \in T : n <= m
    BY <1>4, <2>1, FirstOfThem
  <2>3. n \in 0..N /\ ~Parting(s, x, near, g[n])
    OBVIOUS
  <2>4. n # 0
    <3>1. g[0].l = 0 /\ g[0].r = N
      BY <1>2
    <3>2. Parting(s, x, near, g[0])
      BY <1>2, <3>1 DEF Parting, N
    <3>3. QED
      BY <2>3, <3>2
  <2>5. n \in 1..N /\ n - 1 \in 0..N /\ ~ (n - 1 \in T)
    BY <1>2, <2>2, <2>3, <2>4
  <2> DEFINE b == g[n - 1]
             h == g[n]
  <2>6. /\ b \in Windows(s) /\ h = Halve(s, x, near, b)
        /\ b.l \in 0..N /\ b.r \in 0..N /\ b.l <= b.r
    BY <1>2, <1>3, <2>5
  <2>7. Parting(s, x, near, b) /\ ~Parting(s, x, near, h)
    BY <2>3, <2>5
  <2> HIDE DEF T, b, h
  <2>8. /\ \A k \in 1..b.l : ~Nearer(x, s[k], near)
        /\ \A k \in (b.r + 1)..N : Nearer(x, s[k], near)
    BY <2>7 DEF Parting, N
  <2>9. \/ h = b
        \/ \E k \in (b.l + 1)..b.r :
             \/ Nearer(x, s[k], near) /\ h.l = b.l /\ h.r = k - 1
             \/ ~Nearer(x, s[k], near) /\ h.l = k /\ h.r = b.r
    BY <1>2, <2>6, HalveNarrows DEF N
  <2>10. \A j, k \in 1..N : j < k /\ Nearer(x, s[j], near) => Nearer(x, s[k], near)
    BY DEF N
  <2>11. ASSUME NEW k \in (b.l + 1)..b.r, Nearer(x, s[k], near), h.l = b.l, h.r = k - 1 PROVE FALSE
    <3>1. k \in 1..N /\ \A j \in (h.r + 1)..N : j \in 1..N /\ (j = k \/ k < j)
      BY <1>2, <2>6, <2>11
    <3>2. \A j \in (h.r + 1)..N : Nearer(x, s[j], near)
      BY <2>10, <2>11, <3>1
    <3>3. QED
      BY <2>7, <2>8, <2>11, <3>2 DEF Parting, N
  <2>12. ASSUME NEW k \in (b.l + 1)..b.r, ~Nearer(x, s[k], near), h.l = k, h.r = b.r PROVE FALSE
    <3>1. k \in 1..N /\ \A j \in 1..h.l : j \in 1..N /\ (j = k \/ j < k)
      BY <1>2, <2>6, <2>12
    <3>2. \A j \in 1..h.l : ~Nearer(x, s[j], near)
      BY <2>10, <2>12, <3>1
    <3>3. QED
      BY <2>7, <2>8, <2>12, <3>2 DEF Parting, N
  <2>13. QED
    BY <2>7, <2>9, <2>11, <2>12
<1>5. N \in 0..N /\ Parting(s, x, near, g[N])
  BY <1>2, <1>4
<1>6. g[N].l = Place(s, x, near) /\ g[N].r = Place(s, x, near)
  BY <1>1, SearchEnds DEF N
<1>7. QED
  BY <1>5, <1>6 DEF Parting, N

----------------------------------------------------------------------------
(* Insertions into the first run *)

\* t has the first n elements of s, each once.
Arranges(t, s, n) ==
  /\ Len(t) = n
  /\ \A j, k \in 1..n : t[j] = t[k] => j = k
  /\ \A j \in 1..n : \E k \in 1..n : t[j] = s[k]
  /\ \A k \in 1..n : \E j \in 1..n : t[j] = s[k]

Distinct(s) == \A j, k \in 1..Len(s) : s[j] = s[k] => j = k

LEMMA Inserted ==
  ASSUME NEW S, NEW t \in Seq(S), NEW x \in S, NEW near
  PROVE  /\ Insert(t, x, near) \in Seq(S)
         /\ PutIn(Insert(t, x, near), t, Place(t, x, near), x)
<1> DEFINE p == Place(t, x, near)
<1>1. Len(t) \in Nat
  OBVIOUS
<1>2. p \in 0..Len(t)
  BY <1>1, PlaceInside
<1>3. Insert(t, x, near) = InsertAt(t, p + 1, x)
  BY Zenon DEF Insert
<1> HIDE DEF p
<1>4. InsertAt(t, p + 1, x) \in Seq(S) /\ PutIn(InsertAt(t, p + 1, x), t, p, x)
  BY <1>2, InsertedAt
<1>5. QED
  BY <1>3, <1>4, Zenon DEF p

LEMMA PutInArranges ==
  ASSUME NEW s, Distinct(s), Len(s) \in Nat, NEW n \in 0..Len(s), n < Len(s),
         NEW t, Arranges(t, s, n), NEW u, NEW p, NEW x, x = s[n + 1], PutIn(u, t, p, x)
  PROVE  Arranges(u, s, n + 1)
<1>1. /\ n \in Nat /\ n + 1 \in 1..Len(s) /\ Len(t) = n
      /\ \A j, k \in 1..n : t[j] = t[k] => j = k
      /\ \A j \in 1..n : \E k \in 1..n : t[j] = s[k]
      /\ \A k \in 1..n : \E j \in 1..n : t[j] = s[k]
  BY DEF Arranges
<1>2. /\ p \in 0..n
      /\ Len(u) = n + 1
      /\ \A k \in 1..p : u[k] = t[k]
      /\ u[p + 1] = x
      /\ \A k \in (p + 2)..(n + 1) : u[k] = t[k - 1]
  BY <1>1 DEF PutIn
<1>3. \A k \in 1..n : s[k] # x
  <2>1. \A k \in 1..n : k \in 1..Len(s) /\ k # n + 1
    BY <1>1
  <2>2. QED
    BY <1>1, <2>1 DEF Distinct
<1>4. ASSUME NEW j \in 1..n PROVE t[j] # x
  <2>1. PICK k \in 1..n : t[j] = s[k]
    BY <1>1
  <2>2. QED
    BY <1>3, <2>1
\* Where an element of t has gone, and where each of u is from.
<1> DEFINE from(k) == IF k <= p THEN k ELSE k - 1
<1>5. \A k \in 1..(n + 1) : k # p + 1 => from(k) \in 1..n /\ u[k] = t[from(k)]
  <2> SUFFICES ASSUME NEW k \in 1..(n + 1), k # p + 1
               PROVE  from(k) \in 1..n /\ u[k] = t[from(k)]
    OBVIOUS
  <2>1. CASE k <= p
    <3>1. k \in 1..p /\ k \in 1..n
      BY <1>1, <1>2, <2>1
    <3>2. QED
      BY <1>2, <2>1, <3>1
  <2>2. CASE ~ (k <= p)
    <3>1. k \in (p + 2)..(n + 1) /\ k - 1 \in 1..n
      BY <1>1, <1>2, <2>2
    <3>2. QED
      BY <1>2, <2>2, <3>1
  <2>3. QED
    BY <2>1, <2>2
<1>6. \A j \in 1..n : \E k \in 1..(n + 1) : k # p + 1 /\ u[k] = t[j]
  <2> SUFFICES ASSUME NEW j \in 1..n PROVE \E k \in 1..(n + 1) : k # p + 1 /\ u[k] = t[j]
    OBVIOUS
  <2>1. CASE j <= p
    <3>1. j \in 1..p /\ j \in 1..(n + 1) /\ j # p + 1
      BY <1>1, <1>2, <2>1
    <3>2. QED
      BY <1>2, <3>1
  <2>2. CASE ~ (j <= p)
    <3>1. j + 1 \in (p + 2)..(n + 1) /\ j + 1 \in 1..(n + 1) /\ j + 1 # p + 1 /\ (j + 1) - 1 = j
      BY <1>1, <1>2, <2>2
    <3>2. u[j + 1] = t[j]
      BY <1>2, <3>1
    <3>3. QED
      BY <3>1, <3>2
  <2>3. QED
    BY <2>1, <2>2
<1> HIDE DEF from
<1>7. p + 1 \in 1..(n + 1) /\ n + 1 \in 1..(n + 1) /\ \A k \in 1..n : k \in 1..(n + 1)
  BY <1>1, <1>2
<1>8. ASSUME NEW j \in 1..(n + 1), NEW k \in 1..(n + 1), u[j] = u[k] PROVE j = k
  <2>1. CASE j = p + 1 \/ k = p + 1
    BY <1>2, <1>4, <1>5, <1>8, <2>1
  <2>2. CASE j # p + 1 /\ k # p + 1
    <3>1. from(j) \in 1..n /\ from(k) \in 1..n /\ t[from(j)] = t[from(k)]
      BY <1>5, <1>8, <2>2
    <3>2. from(j) = from(k)
      BY <1>1, <3>1
    <3>3. p \in Int /\ j \in Int /\ k \in Int
      BY <1>1, <1>2
    <3>4. QED
      BY <2>2, <3>2, <3>3 DEF from
  <2>3. QED
    BY <2>1, <2>2
<1>9. ASSUME NEW j \in 1..(n + 1) PROVE \E k \in 1..(n + 1) : u[j] = s[k]
  <2>1. CASE j = p + 1
    BY <1>2, <1>7, <2>1
  <2>2. CASE j # p + 1
    <3>1. PICK k \in 1..n : t[from(j)] = s[k]
      BY <1>1, <1>5, <2>2
    <3>2. QED
      BY <1>5, <1>7, <2>2, <3>1
  <2>3. QED
    BY <2>1, <2>2
<1>10. ASSUME NEW k \in 1..(n + 1) PROVE \E j \in 1..(n + 1) : u[j] = s[k]
  <2>1. CASE k = n + 1
    BY <1>2, <1>7, <2>1
  <2>2. CASE k # n + 1
    <3>1. k \in 1..n
      BY <1>1, <2>2
    <3>2. PICK j \in 1..n : t[j] = s[k]
      BY <1>1, <3>1
    <3>3. QED
      BY <1>6, <3>2
  <2>3. QED
    BY <2>1, <2>2
<1>11. Arranges(u, s, n + 1)
  BY <1>2, <1>8, <1>9, <1>10 DEF Arranges
<1>12. QED
  BY <1>11

LEMMA InsertArranges ==
  ASSUME NEW S, NEW s \in Seq(S), Distinct(s), NEW n \in 0..Len(s), n < Len(s),
         NEW t \in Seq(S), Arranges(t, s, n), NEW near
  PROVE  /\ Insert(t, s[n + 1], near) \in Seq(S)
         /\ Arranges(Insert(t, s[n + 1], near), s, n + 1)
<1>1. Len(s) \in Nat /\ s[n + 1] \in S
  OBVIOUS
<1>2. QED
  BY <1>1, Inserted, PutInArranges

\* Among finitely many numbers one is the largest.
LEMMA MaxIsOne ==
  ASSUME NEW N \in Nat, NEW T \in SUBSET (1..N), T # {}
  PROVE  Max(T) \in T
<1> DEFINE D == {d \in Nat : \E x \in T : d = N - x}
<1>1. T \subseteq Nat /\ \A x \in T : x <= N /\ N - x \in D
  OBVIOUS
<1>2. D \in SUBSET Nat /\ D # {}
  BY <1>1
<1>3. PICK d \in D : \A e \in D : d <= e
  BY <1>2, FirstOfThem
<1>4. PICK m \in T : d = N - m
  OBVIOUS
<1> HIDE DEF D
<1>5. \A x \in T : m >= x
  BY <1>1, <1>3, <1>4
<1>6. QED
  BY <1>5, Zenon DEF Max

LEMMA RunIsOne ==
  ASSUME NEW s, Len(s) \in Nat, Len(s) >= 1, NEW near, NEW falls
  PROVE  /\ Run(s, near, falls) \in 1..Len(s)
         /\ \A k \in 2..Run(s, near, falls) : Nearer(s[k], s[k - 1], near) = falls
<1> DEFINE T == {m \in 1..Len(s) : \A k \in 2..m : Nearer(s[k], s[k - 1], near) = falls}
<1>1. T \in SUBSET (1..Len(s)) /\ 1 \in T
  OBVIOUS
<1>2. Max(T) \in T
  BY <1>1, MaxIsOne
<1>3. Run(s, near, falls) = Max(T)
  BY DEF Run
<1> DEFINE m == Max(T)
<1>4. m \in {i \in 1..Len(s) : \A k \in 2..i : Nearer(s[k], s[k - 1], near) = falls}
  BY <1>2
<1> HIDE DEF m, T
<1>5. QED
  BY <1>3, <1>4 DEF m

LEMMA PrefixTaken ==
  ASSUME NEW S, NEW s \in Seq(S), NEW m \in 1..Len(s)
  PROVE  /\ SubSeq(s, 1, m) \in Seq(S) /\ Len(SubSeq(s, 1, m)) = m
         /\ \A k \in 1..m : SubSeq(s, 1, m)[k] = s[k]
         /\ Reverse(SubSeq(s, 1, m)) \in Seq(S) /\ Len(Reverse(SubSeq(s, 1, m))) = m
         /\ \A k \in 1..m : Reverse(SubSeq(s, 1, m))[k] = s[m - k + 1]
<1> DEFINE q == SubSeq(s, 1, m)
<1>1. m \in Nat /\ 1 <= m /\ \A k \in 1..m : s[k] \in S
  OBVIOUS
<1>2. /\ q \in Seq(S) /\ Len(q) = IF 1 <= m THEN m - 1 + 1 ELSE 0
      /\ \A i \in 1..(m - 1 + 1) : q[i] = s[1 + i - 1]
  BY <1>1, SubSeqProperties
<1> HIDE DEF q
<1>3. q \in Seq(S) /\ Len(q) = m /\ \A k \in 1..m : q[k] = s[k]
  BY <1>1, <1>2
<1>4. Reverse(q) = [i \in 1..Len(q) |-> q[(Len(q) - i) + 1]]
  BY DEF Reverse
<1>5. Reverse(q) = [i \in 1..m |-> q[(m - i) + 1]]
  BY <1>3, <1>4, Zenon
<1>6. \A i \in 1..m : (m - i) + 1 \in 1..m /\ q[(m - i) + 1] \in S /\ q[(m - i) + 1] = s[(m - i) + 1]
  BY <1>1, <1>3
<1>7. Reverse(q) \in Seq(S) /\ Len(Reverse(q)) = m
  BY <1>1, <1>5, <1>6
<1>8. \A k \in 1..m : Reverse(q)[k] = s[m - k + 1]
  BY <1>5, <1>6
<1>9. QED
  BY <1>3, <1>7, <1>8 DEF q

\* r is the run that s begins with, of m elements: as it stands, or reversed
\* when it falls.
StartsOn(r, s, near, m) ==
  /\ m \in 1..Len(s) /\ Len(r) = m
  /\ \/ /\ \A k \in 1..m : r[k] = s[k]
        /\ \A k \in 2..m : ~Nearer(s[k], s[k - 1], near)
     \/ /\ \A k \in 1..m : r[k] = s[m - k + 1]
        /\ \A k \in 2..m : Nearer(s[k], s[k - 1], near)

LEMMA FirstRunIs ==
  ASSUME NEW S, NEW s \in Seq(S), Len(s) >= 1, NEW near
  PROVE  FirstRun(s, near) \in Seq(S) /\ \E m : StartsOn(FirstRun(s, near), s, near, m)
<1> DEFINE r    == FirstRun(s, near)
           down == Run(s, near, TRUE)
           up   == Run(s, near, FALSE)
<1>1. Len(s) \in Nat
  OBVIOUS
<1>2. /\ down \in 1..Len(s)
      /\ \A k \in 2..down : Nearer(s[k], s[k - 1], near) = TRUE
  BY <1>1, RunIsOne
<1>3. /\ up \in 1..Len(s)
      /\ \A k \in 2..up : Nearer(s[k], s[k - 1], near) = FALSE
  BY <1>1, RunIsOne
<1>4. r = IF down > 1 THEN Reverse(SubSeq(s, 1, down)) ELSE SubSeq(s, 1, up)
  BY Zenon DEF FirstRun
<1> HIDE DEF r, down, up
<1>5. CASE down > 1
  <2>1. r \in Seq(S) /\ Len(r) = down /\ \A k \in 1..down : r[k] = s[down - k + 1]
    BY <1>2, <1>4, <1>5, PrefixTaken
  <2>2. StartsOn(r, s, near, down)
    BY <1>2, <2>1 DEF StartsOn
  <2>3. QED
    BY <2>1, <2>2 DEF r
<1>6. CASE ~ (down > 1)
  <2>1. r \in Seq(S) /\ Len(r) = up /\ \A k \in 1..up : r[k] = s[k]
    BY <1>3, <1>4, <1>6, PrefixTaken
  <2>2. StartsOn(r, s, near, up)
    BY <1>3, <2>1 DEF StartsOn
  <2>3. QED
    BY <2>1, <2>2 DEF r
<1>7. QED
  BY <1>5, <1>6

LEMMA FirstRunArranges ==
  ASSUME NEW s, Len(s) \in Nat, Distinct(s), NEW r, NEW near, NEW m, StartsOn(r, s, near, m)
  PROVE  Arranges(r, s, m)
<1>1. m \in Nat /\ m \in 1..Len(s) /\ Len(r) = m /\ \A k \in 1..m : k \in 1..Len(s)
  BY DEF StartsOn
<1>2. \A j, k \in 1..m : s[j] = s[k] => j = k
  BY <1>1 DEF Distinct
<1>3. CASE \A k \in 1..m : r[k] = s[k]
  BY <1>1, <1>2, <1>3 DEF Arranges
<1>4. CASE \A k \in 1..m : r[k] = s[m - k + 1]
  <2>1. \A k \in 1..m : m - k + 1 \in 1..m /\ m - (m - k + 1) + 1 = k
    BY <1>1
  <2>2. \A k \in 1..m : r[m - k + 1] = s[k]
    BY <1>4, <2>1
  <2>3. ASSUME NEW j \in 1..m, NEW k \in 1..m, r[j] = r[k] PROVE j = k
    <3>1. m - j + 1 = m - k + 1
      BY <1>2, <1>4, <2>1, <2>3
    <3>2. QED
      BY <1>1, <3>1
  <2>4. QED
    BY <1>1, <1>4, <2>1, <2>2, <2>3 DEF Arranges
<1>5. QED
  BY <1>3, <1>4 DEF StartsOn

----------------------------------------------------------------------------
(* Insertion sort *)

SortedSoFar(f, s, run, near, n) ==
  IF n = 0 THEN run ELSE Insert(f[n - 1], s[Len(run) + n], near)
Sorts(f, s, run, near) ==
  f = [n \in 0..(Len(s) - Len(run)) |-> SortedSoFar(f, s, run, near, n)]

\* f is what is sorted after each insertion.
SortRuns(f, S, s, run, near) ==
  LET N == Len(s) - Len(run)
  IN /\ N \in Nat /\ f \in [0..N -> Seq(S)] /\ f[0] = run
     /\ \A n \in 1..N : f[n] = Insert(f[n - 1], s[Len(run) + n], near)
     /\ Sort(s, run, near) = f[N]

LEMMA SortUnrolls ==
  ASSUME NEW S, NEW s \in Seq(S), NEW run \in Seq(S), Len(run) \in 1..Len(s), NEW near
  PROVE  \E f : SortRuns(f, S, s, run, near)
<1> DEFINE N == Len(s) - Len(run)
           m == Len(run)
           Q == Seq(S)
           step == [n \in 1..N |-> [q \in Q |-> Insert(q, s[m + n], near)]]
<1>1. N \in Nat /\ m \in Nat /\ \A n \in 1..N : s[m + n] \in S
  OBVIOUS
<1>2. \A n \in 1..N, q \in Q : Insert(q, s[m + n], near) \in Q
  BY <1>1, Inserted
<1>3. step \in [1..N -> [Q -> Q]] /\ \A n \in 1..N, q \in Q : step[n][q] = Insert(q, s[m + n], near)
  BY <1>2
<1>4. run \in Q
  OBVIOUS
<1>5. \A f, n : SortedSoFar(f, s, run, near, n) = IF n = 0 THEN run ELSE Insert(f[n - 1], s[m + n], near)
  BY DEF SortedSoFar
<1>6. \A f : Sorts(f, s, run, near) <=> f = [n \in 0..N |-> SortedSoFar(f, s, run, near, n)]
  BY DEF Sorts
<1> HIDE DEF step, Q
<1>7. PICK f : Passes(f, Q, run, step, N)
  BY <1>1, <1>3, <1>4, LoopsRun
<1>8. f \in [0..N -> Q] /\ f[0] = run /\ \A n \in 1..N : f[n] = Insert(f[n - 1], s[m + n], near)
  <2>1. \A n \in 1..N : n - 1 \in 0..N
    BY <1>1
  <2>2. QED
    BY <1>3, <1>7, <2>1 DEF Passes
<1> HIDE DEF N, m
<1>9. f = [n \in 0..N |-> SortedSoFar(f, s, run, near, n)]
  <2>1. \A n \in 0..N : n # 0 => n \in 1..N
    BY <1>1
  <2>2. \A n \in 0..N : f[n] = SortedSoFar(f, s, run, near, n)
    BY <1>5, <1>8, <2>1
  <2>3. f = [n \in 0..N |-> f[n]]
    BY <1>8
  <2>4. QED
    BY <2>2, <2>3
<1>10. \E g : Sorts(g, s, run, near)
  BY <1>6, <1>9
<1> DEFINE g == CHOOSE h : Sorts(h, s, run, near)
<1>11. Sort(s, run, near) = g[N]
  BY Zenon DEF Sort, Sorts, SortedSoFar, N
<1>12. Sorts(g, s, run, near)
  BY <1>10, Zenon
<1> HIDE DEF g
<1>13. g = [n \in 0..N |-> SortedSoFar(g, s, run, near, n)]
  BY <1>6, <1>12
<1>14. /\ g = [n \in 0..N |-> g[n]] /\ g[0] = run
       /\ \A n \in 1..N : g[n] = Insert(g[n - 1], s[m + n], near)
  <2>1. \A n \in 0..N : g[n] = SortedSoFar(g, s, run, near, n)
    BY <1>13
  <2>2. 0 \in 0..N /\ \A n \in 1..N : n \in 0..N /\ n # 0
    BY <1>1
  <2>3. g = [n \in 0..N |-> g[n]]
    BY <1>13
  <2>4. QED
    BY <1>5, <2>1, <2>2, <2>3
<1>15. \A n \in 1..N : g[n - 1] \in Q => g[n] = step[n][g[n - 1]]
  BY <1>3, <1>14
<1>16. Passes(g, Q, run, step, N)
  BY <1>1, <1>3, <1>4, <1>14, <1>15, LoopStays
<1>17. SortRuns(g, S, s, run, near)
  BY <1>1, <1>11, <1>14, <1>16 DEF Passes, SortRuns, Q, N, m
<1>18. QED
  BY <1>17

LEMMA SortArranges ==
  ASSUME NEW S, NEW s \in Seq(S), Distinct(s), NEW near
  PROVE  SortBy(s, near) \in Seq(S) /\ Arranges(SortBy(s, near), s, Len(s))
<1>1. CASE s = <<>>
  <2>1. SortBy(s, near) = s
    BY <1>1 DEF SortBy
  <2>2. Arranges(s, s, 0)
    BY <1>1 DEF Arranges
  <2>3. QED
    BY <1>1, <2>1, <2>2
<1>2. CASE s # <<>>
  <2> DEFINE run == FirstRun(s, near)
             m == Len(run)
             N == Len(s) - m
  <2>1. Len(s) \in Nat /\ Len(s) >= 1
    BY <1>2
  <2>2. run \in Seq(S) /\ \E i : StartsOn(run, s, near, i)
    BY <2>1, FirstRunIs
  <2>3. StartsOn(run, s, near, m) /\ m \in 1..Len(s)
    BY <2>2 DEF StartsOn
  <2>4. Arranges(run, s, m)
    BY <2>1, <2>3, FirstRunArranges
  <2>5. SortBy(s, near) = Sort(s, run, near)
    BY <1>2 DEF SortBy
  <2> HIDE DEF run
  <2>6. PICK f : SortRuns(f, S, s, run, near)
    BY <2>2, <2>3, SortUnrolls
  <2>7. /\ N \in Nat /\ m \in Nat /\ f \in [0..N -> Seq(S)] /\ f[0] = run
        /\ \A n \in 1..N : f[n] = Insert(f[n - 1], s[m + n], near)
        /\ SortBy(s, near) = f[N] /\ m + N = Len(s)
    BY <2>1, <2>3, <2>5, <2>6 DEF SortRuns
  <2> HIDE DEF m, N
  <2> DEFINE T == {n \in 0..N : ~Arranges(f[n], s, m + n)}
  <2>8. ASSUME T # {} PROVE FALSE
    <3>1. T \in SUBSET Nat
      BY <2>7
    <3>2. PICK n \in T : \A i \in T : n <= i
      BY <2>8, <3>1, FirstOfThem
    <3>3. n \in 0..N /\ ~Arranges(f[n], s, m + n)
      OBVIOUS
    <3>4. n # 0
      <4>1. m + 0 = m
        BY <2>7
      <4>2. QED
        BY <2>4, <2>7, <3>3, <4>1
    <3>5. n \in 1..N /\ n - 1 \in 0..N /\ ~ (n - 1 \in T)
      BY <2>7, <3>2, <3>3, <3>4
    <3> DEFINE i == m + (n - 1)
    <3>6. Arranges(f[n - 1], s, i)
      BY <3>5
    <3>7. i \in 0..Len(s) /\ i < Len(s) /\ i + 1 = m + n
      BY <2>1, <2>7, <3>5
    <3>8. f[n - 1] \in Seq(S) /\ f[n] = Insert(f[n - 1], s[m + n], near)
      BY <2>7, <3>5
    <3> HIDE DEF T, i
    <3>9. Arranges(Insert(f[n - 1], s[i + 1], near), s, i + 1)
      BY <3>6, <3>7, <3>8, InsertArranges
    <3>10. QED
      BY <3>3, <3>7, <3>8, <3>9
  <2>9. N \in 0..N /\ Arranges(f[N], s, m + N)
    BY <2>7, <2>8
  <2>10. QED
    BY <2>7, <2>9
<1>3. QED
  BY <1>1, <1>2

----------------------------------------------------------------------------
(* Sorted, when the keys are numbers *)

\* Whose place is a number, in the order they were opened in.
Placed(s, near) ==
  /\ \A k \in 1..Len(s) : Dist(s[k].coords, near) \in Int /\ s[k].id \in Int
  /\ \A j, k \in 1..Len(s) : j < k => s[j].id < s[k].id

Before(i, j, near) ==
  LET di == Dist(i.coords, near) dj == Dist(j.coords, near)
  IN di < dj \/ (di = dj /\ i.id < j.id)

LEMMA SortedMeans ==
  ASSUME NEW t, Len(t) \in Nat, DOMAIN t = 1..Len(t), NEW near,
         \A k \in 1..Len(t) : Dist(t[k].coords, near) \in Int
  PROVE  Sorted(t, near) <=> \A j, k \in 1..Len(t) : j < k => Before(t[j], t[k], near)
<1>1. \A k \in 1..Len(t) : Dist(t[k].coords, near) # NaN
  BY NumbersAssumption
<1>2. QED
  BY <1>1 DEF Sorted, Before, Less

LEMMA InsertSorts ==
  ASSUME NEW s, Len(s) \in Nat, NEW near, Placed(s, near), NEW n \in 0..Len(s), n < Len(s),
         NEW t, Arranges(t, s, n), \A j, k \in 1..n : j < k => Before(t[j], t[k], near),
         NEW u, NEW x, x = s[n + 1], PutIn(u, t, Place(t, x, near), x)
  PROVE  \A j, k \in 1..(n + 1) : j < k => Before(u[j], u[k], near)
<1> DEFINE d(i) == Dist(i.coords, near)
           p == Place(t, x, near)
<1>1. /\ n \in Nat /\ n + 1 \in 1..Len(s) /\ Len(t) = n
      /\ \A j \in 1..n : \E k \in 1..n : t[j] = s[k]
  BY DEF Arranges
<1>2. /\ p \in 0..n
      /\ \A k \in 1..p : u[k] = t[k]
      /\ u[p + 1] = x
      /\ \A k \in (p + 2)..(n + 1) : u[k] = t[k - 1]
  BY <1>1 DEF PutIn
<1> HIDE DEF p
<1>3. d(x) \in Int /\ x.id \in Int
  BY <1>1 DEF Placed
<1>4. ASSUME NEW j \in 1..n PROVE d(t[j]) \in Int /\ t[j].id \in Int /\ t[j].id < x.id
  <2>1. PICK k \in 1..n : t[j] = s[k]
    BY <1>1
  <2>2. k \in 1..Len(s) /\ k < n + 1
    BY <1>1
  <2>3. QED
    BY <1>1, <2>1, <2>2 DEF Placed
<1>5. \A j \in 1..n : Nearer(x, t[j], near) <=> d(x) < d(t[j])
  <2>1. d(x) # NaN /\ \A j \in 1..n : d(t[j]) # NaN
    BY <1>3, <1>4, NumbersAssumption
  <2>2. QED
    BY <2>1 DEF Nearer, Less
<1>6. \A j, k \in 1..n : j < k => d(t[j]) <= d(t[k])
  BY <1>4 DEF Before
<1>7. /\ \A k \in 1..p : ~Nearer(x, t[k], near)
      /\ \A k \in (p + 1)..n : Nearer(x, t[k], near)
  <2>1. \A j, k \in 1..n : j < k /\ Nearer(x, t[j], near) => Nearer(x, t[k], near)
    BY <1>3, <1>4, <1>5, <1>6
  <2>2. QED
    BY <1>1, <2>1, PlaceParts DEF p
<1>8. \A k \in 1..p : Before(t[k], x, near)
  <2> SUFFICES ASSUME NEW k \in 1..p PROVE Before(t[k], x, near)
    OBVIOUS
  <2>1. k \in 1..n
    BY <1>1, <1>2
  <2>2. ~ (d(x) < d(t[k]))
    BY <1>5, <1>7, <2>1
  <2>3. QED
    BY <1>3, <1>4, <2>1, <2>2 DEF Before
<1>9. \A k \in (p + 1)..n : Before(x, t[k], near)
  <2> SUFFICES ASSUME NEW k \in (p + 1)..n PROVE Before(x, t[k], near)
    OBVIOUS
  <2>1. k \in 1..n
    BY <1>1, <1>2
  <2>2. d(x) < d(t[k])
    BY <1>5, <1>7, <2>1
  <2>3. QED
    BY <2>2 DEF Before
<1> HIDE DEF d
<1> SUFFICES ASSUME NEW j \in 1..(n + 1), NEW k \in 1..(n + 1), j < k
             PROVE  Before(u[j], u[k], near)
  OBVIOUS
<1>10. CASE k <= p
  <2>1. j \in 1..p /\ k \in 1..p /\ j \in 1..n /\ k \in 1..n
    BY <1>1, <1>2, <1>10
  <2>2. u[j] = t[j] /\ u[k] = t[k]
    BY <1>2, <2>1
  <2>3. QED
    BY <2>1, <2>2
<1>11. CASE k = p + 1
  <2>1. j \in 1..p
    BY <1>1, <1>2, <1>11
  <2>2. QED
    BY <1>2, <1>8, <1>11, <2>1
<1>12. CASE k > p + 1
  <2>1. k \in (p + 2)..(n + 1) /\ k - 1 \in (p + 1)..n /\ k - 1 \in 1..n
    BY <1>1, <1>2, <1>12
  <2>2. u[k] = t[k - 1]
    BY <1>2, <2>1
  <2>3. CASE j <= p
    <3>1. j \in 1..p /\ j \in 1..n /\ j < k - 1
      BY <1>1, <1>2, <2>1, <2>3
    <3>2. u[j] = t[j]
      BY <1>2, <3>1
    <3>3. QED
      BY <2>1, <2>2, <3>1, <3>2
  <2>4. CASE j = p + 1
    BY <1>2, <1>9, <2>1, <2>2, <2>4
  <2>5. CASE j > p + 1
    <3>1. j \in (p + 2)..(n + 1) /\ j - 1 \in 1..n /\ j - 1 < k - 1
      BY <1>1, <1>2, <2>5
    <3>2. u[j] = t[j - 1]
      BY <1>2, <3>1
    <3>3. QED
      BY <2>1, <2>2, <3>1, <3>2
  <2>6. QED
    BY <1>2, <2>3, <2>4, <2>5
<1>13. QED
  BY <1>2, <1>10, <1>11, <1>12

LEMMA Climbs ==
  ASSUME NEW m \in Nat, NEW d \in [1..m -> Int], \A k \in 2..m : d[k - 1] <= d[k],
         NEW j \in 1..m, NEW k \in 1..m, j < k
  PROVE  d[j] <= d[k]
<1> DEFINE T == {i \in (j + 1)..m : ~ (d[j] <= d[i])}
<1>1. ASSUME T # {} PROVE FALSE
  <2>1. T \in SUBSET Nat
    OBVIOUS
  <2>2. PICK i \in T : \A h \in T : i <= h
    BY <1>1, <2>1, FirstOfThem
  <2>3. i \in (j + 1)..m /\ ~ (d[j] <= d[i]) /\ i \in 2..m /\ i - 1 \in 1..m
    OBVIOUS
  <2>4. d[i - 1] <= d[i] /\ d[i] \in Int /\ d[i - 1] \in Int /\ d[j] \in Int
    BY <2>3
  <2>5. i - 1 = j \/ (i - 1 \in (j + 1)..m /\ ~ (i - 1 \in T))
    BY <2>2, <2>3
  <2>6. d[j] <= d[i - 1]
    BY <2>4, <2>5
  <2>7. QED
    BY <2>3, <2>4, <2>6
<1>2. k \in (j + 1)..m
  OBVIOUS
<1>3. QED
  BY <1>1, <1>2

LEMMA Falls ==
  ASSUME NEW m \in Nat, NEW d \in [1..m -> Int], \A k \in 2..m : d[k] < d[k - 1],
         NEW j \in 1..m, NEW k \in 1..m, j < k
  PROVE  d[k] < d[j]
<1> DEFINE T == {i \in (j + 1)..m : ~ (d[i] < d[j])}
<1>1. ASSUME T # {} PROVE FALSE
  <2>1. T \in SUBSET Nat
    OBVIOUS
  <2>2. PICK i \in T : \A h \in T : i <= h
    BY <1>1, <2>1, FirstOfThem
  <2>3. i \in (j + 1)..m /\ ~ (d[i] < d[j]) /\ i \in 2..m /\ i - 1 \in 1..m
    OBVIOUS
  <2>4. d[i] < d[i - 1] /\ d[i] \in Int /\ d[i - 1] \in Int /\ d[j] \in Int
    BY <2>3
  <2>5. i - 1 = j \/ (i - 1 \in (j + 1)..m /\ ~ (i - 1 \in T))
    BY <2>2, <2>3
  <2>6. i - 1 = j \/ d[i - 1] < d[j]
    BY <2>5
  <2> HIDE DEF T
  <2>7. CASE i - 1 = j
    <3>1. d[i - 1] = d[j]
      BY <2>7
    <3>2. QED
      BY <2>3, <2>4, <3>1
  <2>8. CASE d[i - 1] < d[j]
    BY <2>3, <2>4, <2>8
  <2>9. QED
    BY <2>6, <2>7, <2>8
<1>2. k \in (j + 1)..m
  OBVIOUS
<1>3. QED
  BY <1>1, <1>2

LEMMA FirstRunSorts ==
  ASSUME NEW s, Len(s) \in Nat, NEW near, Placed(s, near), NEW r, NEW m, StartsOn(r, s, near, m)
  PROVE  \A j, k \in 1..m : j < k => Before(r[j], r[k], near)
<1> DEFINE d == [k \in 1..m |-> Dist(s[k].coords, near)]
<1>1. m \in Nat /\ \A k \in 1..m : k \in 1..Len(s)
  BY DEF StartsOn
<1>2. d \in [1..m -> Int] /\ \A k \in 1..m : Dist(s[k].coords, near) = d[k]
  BY <1>1 DEF Placed
<1> HIDE DEF d
<1>3. \A k \in 2..m : k \in 1..m /\ k - 1 \in 1..m
  BY <1>1
<1>4. \A k \in 2..m : Nearer(s[k], s[k - 1], near) <=> d[k] < d[k - 1]
  <2>1. \A k \in 1..m : d[k] # NaN
    BY <1>2, NumbersAssumption
  <2>2. QED
    BY <1>2, <1>3, <2>1 DEF Nearer, Less
<1>5. \A j, k \in 1..m : j < k => s[j].id < s[k].id
  BY <1>1 DEF Placed
<1>6. CASE (\A k \in 1..m : r[k] = s[k]) /\ \A k \in 2..m : ~Nearer(s[k], s[k - 1], near)
  <2>1. \A k \in 2..m : d[k - 1] <= d[k]
    BY <1>2, <1>3, <1>4, <1>6
  <2>2. ASSUME NEW j \in 1..m, NEW k \in 1..m, j < k PROVE Before(r[j], r[k], near)
    <3>1. d[j] <= d[k] /\ d[j] \in Int /\ d[k] \in Int
      BY <1>1, <1>2, <2>1, <2>2, Climbs
    <3>2. QED
      BY <1>2, <1>5, <1>6, <2>2, <3>1 DEF Before
  <2>3. QED
    BY <2>2
<1>7. CASE (\A k \in 1..m : r[k] = s[m - k + 1]) /\ \A k \in 2..m : Nearer(s[k], s[k - 1], near)
  <2>1. \A k \in 2..m : d[k] < d[k - 1]
    BY <1>4, <1>7
  <2>2. ASSUME NEW j \in 1..m, NEW k \in 1..m, j < k PROVE Before(r[j], r[k], near)
    <3>1. m - j + 1 \in 1..m /\ m - k + 1 \in 1..m /\ m - k + 1 < m - j + 1
      BY <1>1, <2>2
    <3>2. d[m - j + 1] < d[m - k + 1]
      BY <1>1, <1>2, <2>1, <3>1, Falls
    <3>3. r[j] = s[m - j + 1] /\ r[k] = s[m - k + 1]
      BY <1>7
    <3>4. QED
      BY <1>2, <3>1, <3>2, <3>3 DEF Before
  <2>3. QED
    BY <2>2
<1>8. QED
  BY <1>6, <1>7 DEF StartsOn

LEMMA SortSorts ==
  ASSUME NEW S, NEW s \in Seq(S), Distinct(s), NEW near, Placed(s, near)
  PROVE  \A j, k \in 1..Len(s) : j < k => Before(SortBy(s, near)[j], SortBy(s, near)[k], near)
<1>1. CASE s = <<>>
  BY <1>1
<1>2. CASE s # <<>>
  <2> DEFINE run == FirstRun(s, near)
             m == Len(run)
             N == Len(s) - m
             Good(t, i) == Arranges(t, s, i) /\ \A j, k \in 1..i : j < k => Before(t[j], t[k], near)
  <2>1. Len(s) \in Nat /\ Len(s) >= 1
    BY <1>2
  <2>2. run \in Seq(S) /\ \E i : StartsOn(run, s, near, i)
    BY <2>1, FirstRunIs
  <2>3. StartsOn(run, s, near, m) /\ m \in 1..Len(s)
    BY <2>2 DEF StartsOn
  <2>4. Good(run, m)
    BY <2>1, <2>3, FirstRunArranges, FirstRunSorts
  <2>5. SortBy(s, near) = Sort(s, run, near)
    BY <1>2 DEF SortBy
  <2> HIDE DEF run
  <2>6. PICK f : SortRuns(f, S, s, run, near)
    BY <2>2, <2>3, SortUnrolls
  <2>7. /\ N \in Nat /\ m \in Nat /\ f \in [0..N -> Seq(S)] /\ f[0] = run
        /\ \A n \in 1..N : f[n] = Insert(f[n - 1], s[m + n], near)
        /\ SortBy(s, near) = f[N] /\ m + N = Len(s)
    BY <2>1, <2>3, <2>5, <2>6 DEF SortRuns
  <2> HIDE DEF m, N
  <2> DEFINE T == {n \in 0..N : ~Good(f[n], m + n)}
  <2>8. ASSUME T # {} PROVE FALSE
    <3>1. T \in SUBSET Nat
      BY <2>7
    <3>2. PICK n \in T : \A i \in T : n <= i
      BY <2>8, <3>1, FirstOfThem
    <3>3. n \in 0..N /\ ~Good(f[n], m + n)
      BY <3>2
    <3> HIDE DEF Good
    <3>4. n # 0
      <4>1. m + 0 = m
        BY <2>7
      <4>2. QED
        BY <2>4, <2>7, <3>3, <4>1
    <3>5. n \in 1..N /\ n - 1 \in 0..N /\ ~ (n - 1 \in T)
      BY <2>7, <3>2, <3>3, <3>4
    <3> DEFINE i == m + (n - 1)
               t == f[n - 1]
               x == s[m + n]
               u == f[n]
    <3>6. Good(t, i)
      BY <3>5
    <3>7. i \in 0..Len(s) /\ i < Len(s) /\ i + 1 = m + n /\ x = s[i + 1] /\ x \in S
      BY <2>1, <2>7, <3>5
    <3>8. t \in Seq(S) /\ u = Insert(t, x, near)
      BY <2>7, <3>5
    <3> HIDE DEF T, i, t, x, u
    <3>9. PutIn(u, t, Place(t, x, near), x)
      BY <3>7, <3>8, Inserted
    <3>10. Arranges(t, s, i) /\ \A j, k \in 1..i : j < k => Before(t[j], t[k], near)
      BY <3>6 DEF Good
    <3>11. Arranges(u, s, i + 1)
      BY <2>1, <3>7, <3>9, <3>10, PutInArranges
    <3>12. \A j, k \in 1..(i + 1) : j < k => Before(u[j], u[k], near)
      BY <2>1, <3>7, <3>9, <3>10, InsertSorts
    <3>13. Good(u, i + 1)
      BY <3>11, <3>12 DEF Good
    <3>14. QED
      BY <3>3, <3>7, <3>13 DEF u
  <2> HIDE DEF Good
  <2>9. N \in 0..N /\ Good(f[N], m + N)
    BY <2>7, <2>8
  <2>10. QED
    BY <2>7, <2>9 DEF Good
<1>3. QED
  BY <1>1, <1>2

----------------------------------------------------------------------------
(* find() *)

BeliefsInv ==
  /\ beliefs \in Seq(Incident) /\ Len(beliefs) <= MaxIncidents
  /\ \A n \in DOMAIN beliefs : beliefs[n].id = n

LEMMA BeliefsStart == FindInit => BeliefsInv
<1> SUFFICES ASSUME FindInit PROVE BeliefsInv
  OBVIOUS
<1>1. beliefs = <<>>
  BY DEF FindInit
<1>2. QED
  BY <1>1, SmallAssumption DEF BeliefsInv

LEMMA BeliefsStep ==
  ASSUME BeliefsInv, [Revise]_beliefs
  PROVE  BeliefsInv'
<1>1. /\ beliefs \in Seq(Incident) /\ Len(beliefs) \in Nat /\ DOMAIN beliefs = 1..Len(beliefs)
      /\ \A n \in 1..Len(beliefs) : beliefs[n] \in Incident /\ beliefs[n].id = n
      /\ Len(beliefs) <= MaxIncidents /\ MaxIncidents \in Nat
  BY SmallAssumption DEF BeliefsInv
<1>2. CASE UNCHANGED beliefs
  BY <1>2 DEF BeliefsInv
<1>3. ASSUME NEW type \in Types, NEW coords \in Coords, Open(type, coords) PROVE BeliefsInv'
  <2> DEFINE i == [id |-> Len(beliefs) + 1, type |-> type, coords |-> coords, status |-> "open"]
  <2>1. Len(beliefs) < MaxIncidents /\ beliefs' = Append(beliefs, i)
    BY <1>3 DEF Open
  <2>2. Len(beliefs) \in Nat /\ MaxIncidents \in Nat /\ Len(beliefs) + 1 \in 1..MaxIncidents
    <3>1. Len(beliefs) \in Nat /\ MaxIncidents \in Nat /\ Len(beliefs) < MaxIncidents
      BY <1>1, <2>1
    <3>2. QED
      BY <3>1
  <2>3. i \in Incident /\ i.id = Len(beliefs) + 1
    BY <2>2 DEF Incident, Statuses
  <2> HIDE DEF i
  <2>4. /\ beliefs' \in Seq(Incident) /\ Len(beliefs') = Len(beliefs) + 1
        /\ \A n \in 1..Len(beliefs) : beliefs'[n] = beliefs[n]
        /\ beliefs'[Len(beliefs) + 1] = i /\ DOMAIN beliefs' = 1..Len(beliefs')
    <3>1. beliefs \in Seq(Incident)
      BY <1>1
    <3>2. /\ Append(beliefs, i) \in Seq(Incident) /\ Len(Append(beliefs, i)) = Len(beliefs) + 1
          /\ \A n \in 1..Len(beliefs) : Append(beliefs, i)[n] = beliefs[n]
          /\ Append(beliefs, i)[Len(beliefs) + 1] = i
      BY <2>3, <3>1, AppendProperties
    <3>3. QED
      BY <2>1, <3>2
  <2>5. \A n \in DOMAIN beliefs' : n \in 1..Len(beliefs) \/ n = Len(beliefs) + 1
    BY <2>2, <2>4
  <2>6. \A n \in DOMAIN beliefs' : beliefs'[n].id = n
    BY <1>1, <2>3, <2>4, <2>5
  <2>7. Len(beliefs') <= MaxIncidents
    BY <2>2, <2>4
  <2>8. QED
    BY <2>4, <2>6, <2>7 DEF BeliefsInv
<1>4. ASSUME NEW n \in DOMAIN beliefs, NEW i \in Incident, i.id = n, beliefs' = [beliefs EXCEPT ![n] = i]
      PROVE  BeliefsInv'
  <2>1. beliefs' \in Seq(Incident) /\ Len(beliefs') = Len(beliefs) /\ DOMAIN beliefs' = 1..Len(beliefs)
    BY <1>1, <1>4
  <2>2. \A k \in 1..Len(beliefs) : beliefs'[k] = IF k = n THEN i ELSE beliefs[k]
    BY <1>1, <1>4
  <2>3. QED
    BY <1>1, <1>4, <2>1, <2>2 DEF BeliefsInv
<1>5. ASSUME NEW n \in DOMAIN beliefs, NEW type \in Types, NEW coords \in Coords, NEW status \in Statuses,
             Update(n, type, coords, status)
      PROVE  BeliefsInv'
  <2> DEFINE i == [beliefs[n] EXCEPT !.type = type, !.coords = coords, !.status = status]
  <2>1. beliefs' = [beliefs EXCEPT ![n] = i]
    BY <1>5 DEF Update
  <2>2. beliefs[n] \in Incident /\ beliefs[n].id = n
    BY <1>1
  <2>3. i \in Incident /\ i.id = n
    BY <2>2 DEF Incident
  <2> HIDE DEF i
  <2>4. QED
    BY <1>4, <2>1, <2>3
<1>6. ASSUME NEW n \in DOMAIN beliefs, Close(n) PROVE BeliefsInv'
  <2> DEFINE i == [beliefs[n] EXCEPT !.status = "closed"]
  <2>1. beliefs' = [beliefs EXCEPT ![n] = i]
    BY <1>6 DEF Close
  <2>2. beliefs[n] \in Incident /\ beliefs[n].id = n
    BY <1>1
  <2>3. i \in Incident /\ i.id = n
    BY <2>2 DEF Incident, Statuses
  <2> HIDE DEF i
  <2>4. QED
    BY <1>4, <2>1, <2>3
<1>7. QED
  BY <1>2, <1>3, <1>5, <1>6 DEF Revise

THEOREM BeliefsInvariance == FindSpec => []BeliefsInv
  BY BeliefsStart, BeliefsStep, PTL DEF FindSpec

\* What passes the filters, in the order of the store.
Passing(near, radius, type, status) ==
  Kept(beliefs, {n \in DOMAIN beliefs : Matches(beliefs[n], near, radius, type, status)})

LEMMA FindSorts ==
  ASSUME NEW near, NEW radius, NEW type, NEW status
  PROVE  Find(near, radius, type, status) =
           IF near = None THEN Passing(near, radius, type, status)
           ELSE SortBy(Passing(near, radius, type, status), near)
  BY Zenon DEF Find, Passing

LEMMA PassingBeliefs ==
  ASSUME BeliefsInv, NEW near, NEW radius, NEW type, NEW status
  PROVE  LET found == Passing(near, radius, type, status)
             passes(i) == Matches(i, near, radius, type, status)
         IN /\ found \in Seq(Incident)
            /\ \A i : i \in ToSet(found) <=> i \in ToSet(beliefs) /\ passes(i)
            /\ \A j, k \in 1..Len(found) : j < k => found[j].id < found[k].id
            /\ (\A i \in ToSet(beliefs) : passes(i)) => found = beliefs
<1> DEFINE passes(i) == Matches(i, near, radius, type, status)
           kept  == {n \in DOMAIN beliefs : passes(beliefs[n])}
           found == Kept(beliefs, kept)
<1>1. /\ beliefs \in Seq(Incident) /\ DOMAIN beliefs = 1..Len(beliefs)
      /\ \A n \in 1..Len(beliefs) : beliefs[n].id = n
      /\ found = Passing(near, radius, type, status)
  BY DEF BeliefsInv, Passing
<1> HIDE DEF passes
<1>2. \A n \in 1..Len(beliefs) : n \in kept <=> passes(beliefs[n])
  BY <1>1
<1>3. ASSUME \A i \in ToSet(beliefs) : passes(i) PROVE found = beliefs
  <2>1. \A n \in 1..Len(beliefs) : n \in kept
    BY <1>1, <1>3 DEF ToSet
  <2> HIDE DEF kept
  <2>2. QED
    BY <1>1, <2>1, KeptAll
<1> HIDE DEF kept
<1>4. found \in Seq(Incident) /\ \E at : Chosen(found, at, beliefs, kept, Len(beliefs))
  BY <1>1, KeptChosen
<1>5. PICK at : Chosen(found, at, beliefs, kept, Len(beliefs))
  BY <1>4
<1> HIDE DEF found
<1>6. /\ DOMAIN found = 1..Len(found)
      /\ \A k \in 1..Len(found) : at[k] \in 1..Len(beliefs) /\ at[k] \in kept /\ found[k] = beliefs[at[k]]
      /\ \A j, k \in 1..Len(found) : j < k => at[j] < at[k]
      /\ \A n \in 1..Len(beliefs) : n \in kept => \E k \in 1..Len(found) : at[k] = n
  BY <1>4, <1>5 DEF Chosen
<1>7. ASSUME NEW i PROVE i \in ToSet(found) <=> i \in ToSet(beliefs) /\ passes(i)
  <2>1. ASSUME i \in ToSet(found) PROVE i \in ToSet(beliefs) /\ passes(i)
    BY <1>1, <1>2, <1>6, <2>1 DEF ToSet
  <2>2. ASSUME i \in ToSet(beliefs), passes(i) PROVE i \in ToSet(found)
    <3>1. PICK n \in 1..Len(beliefs) : i = beliefs[n]
      BY <1>1, <2>2 DEF ToSet
    <3>2. PICK k \in 1..Len(found) : at[k] = n
      BY <1>2, <1>6, <2>2, <3>1
    <3>3. QED
      BY <1>6, <3>1, <3>2 DEF ToSet
  <2>3. QED
    BY <2>1, <2>2
<1>8. ASSUME NEW j \in 1..Len(found), NEW k \in 1..Len(found), j < k PROVE found[j].id < found[k].id
  <2>1. found[j].id = at[j] /\ found[k].id = at[k]
    BY <1>1, <1>6
  <2>2. QED
    BY <1>6, <1>8, <2>1
<1>9. /\ found \in Seq(Incident)
      /\ \A i : i \in ToSet(found) <=> i \in ToSet(beliefs) /\ passes(i)
      /\ \A j, k \in 1..Len(found) : j < k => found[j].id < found[k].id
      /\ (\A i \in ToSet(beliefs) : passes(i)) => found = beliefs
  BY <1>3, <1>4, <1>7, <1>8
<1>10. QED
  BY <1>1, <1>9, Zenon DEF passes

\* The ids tell what was found apart.
LEMMA PassingDistinct ==
  ASSUME BeliefsInv, NEW near, NEW radius, NEW type, NEW status
  PROVE  Distinct(Passing(near, radius, type, status))
<1> DEFINE found == Passing(near, radius, type, status)
<1>1. found \in Seq(Incident) /\ \A j, k \in 1..Len(found) : j < k => found[j].id < found[k].id
  BY PassingBeliefs
<1> HIDE DEF found
<1>2. \A k \in 1..Len(found) : found[k].id \in Int
  <2>1. \A i \in Incident : i.id \in Int
    BY DEF Incident
  <2>2. \A k \in 1..Len(found) : found[k] \in Incident
    BY <1>1
  <2>3. QED
    BY <2>1, <2>2
<1>3. ASSUME NEW j \in 1..Len(found), NEW k \in 1..Len(found), found[j] = found[k] PROVE j = k
  <2>1. ~ (j < k) /\ ~ (k < j)
    BY <1>1, <1>2, <1>3
  <2>2. j \in Int /\ k \in Int
    BY <1>1
  <2>3. QED
    BY <2>1, <2>2
<1>4. Distinct(found)
  BY <1>3 DEF Distinct
<1>5. QED
  BY <1>4 DEF found

\* An answer has each belief that passes the filters, once.
LEMMA FindAnswers ==
  ASSUME BeliefsInv, NEW near, NEW radius, NEW type, NEW status
  PROVE  LET answer == Find(near, radius, type, status)
             passes(i) == Matches(i, near, radius, type, status)
         IN /\ answer \in Seq(Incident) /\ IsInjective(answer)
            /\ \A i : i \in ToSet(answer) <=> i \in ToSet(beliefs) /\ passes(i)
            /\ (\A i \in ToSet(beliefs) : passes(i)) => Len(answer) = Len(beliefs)
<1> DEFINE answer == Find(near, radius, type, status)
           passes(i) == Matches(i, near, radius, type, status)
           found == Passing(near, radius, type, status)
<1>1. /\ found \in Seq(Incident) /\ Distinct(found)
      /\ \A i : i \in ToSet(found) <=> i \in ToSet(beliefs) /\ passes(i)
      /\ (\A i \in ToSet(beliefs) : passes(i)) => found = beliefs
  BY PassingBeliefs, PassingDistinct
<1>2. answer = IF near = None THEN found ELSE SortBy(found, near)
  BY FindSorts
<1> HIDE DEF answer, found, passes
<1>3. answer \in Seq(Incident) /\ Arranges(answer, found, Len(found))
  <2>1. Arranges(found, found, Len(found))
    BY <1>1 DEF Arranges, Distinct
  <2>2. SortBy(found, near) \in Seq(Incident) /\ Arranges(SortBy(found, near), found, Len(found))
    BY <1>1, SortArranges
  <2>3. QED
    BY <1>1, <1>2, <2>1, <2>2
<1>4. /\ DOMAIN answer = 1..Len(found) /\ Len(answer) = Len(found) /\ DOMAIN found = 1..Len(found)
      /\ \A j, k \in 1..Len(found) : answer[j] = answer[k] => j = k
      /\ \A j \in 1..Len(found) : \E k \in 1..Len(found) : answer[j] = found[k]
      /\ \A k \in 1..Len(found) : \E j \in 1..Len(found) : answer[j] = found[k]
  BY <1>1, <1>3 DEF Arranges
<1>5. IsInjective(answer)
  BY <1>4 DEF IsInjective
<1>6. ASSUME NEW i PROVE i \in ToSet(answer) <=> i \in ToSet(found)
  <2>1. ASSUME i \in ToSet(answer) PROVE i \in ToSet(found)
    <3>1. PICK j \in 1..Len(found) : i = answer[j]
      BY <1>4, <2>1 DEF ToSet
    <3>2. PICK k \in 1..Len(found) : answer[j] = found[k]
      BY <1>4
    <3>3. QED
      BY <1>4, <3>1, <3>2 DEF ToSet
  <2>2. ASSUME i \in ToSet(found) PROVE i \in ToSet(answer)
    <3>1. PICK k \in 1..Len(found) : i = found[k]
      BY <1>4, <2>2 DEF ToSet
    <3>2. PICK j \in 1..Len(found) : answer[j] = found[k]
      BY <1>4
    <3>3. QED
      BY <1>4, <3>1, <3>2 DEF ToSet
  <2>3. QED
    BY <2>1, <2>2
<1>7. /\ answer \in Seq(Incident) /\ IsInjective(answer)
      /\ \A i : i \in ToSet(answer) <=> i \in ToSet(beliefs) /\ passes(i)
      /\ (\A i \in ToSet(beliefs) : passes(i)) => Len(answer) = Len(beliefs)
  BY <1>1, <1>3, <1>4, <1>5, <1>6
<1>8. QED
  BY <1>7, Zenon DEF answer, passes

LEMMA NobodyIsNone ==
  /\ None \notin Places /\ None \notin Radii /\ None \notin Types /\ None \notin Statuses
<1>1. None \notin Int /\ NaN # None
  BY NumbersAssumption
<1>2. None \notin Places
  BY <1>1, NumbersAssumption
<1>3. ASSUME None \in Radii PROVE FALSE
  <2>1. None \in Nat
    BY <1>3, RadiiAreNumbers
  <2>2. None \in Int
    BY <2>1
  <2>3. QED
    BY <1>1, <2>2
<1>4. None \notin Types /\ None \notin Statuses
  BY TypesAssumption DEF Statuses
<1>5. QED
  BY <1>2, <1>3, <1>4

\* Every belief is in one answer, once: the filters divide the store and the sort
\* loses nothing, even where the distances are not numbers (incidents.py:147-164);
\* unless the query raises, coming upon a belief without a place.
THEOREM FindNeverLoses == FindSpec => []FindLosesNothing
<1>1. ASSUME BeliefsInv PROVE FindLosesNothing
  <2>1. ASSUME NEW near \in Coords
        PROVE  LET whole == Find(near, None, None, None)
               IN Len(whole) = Len(beliefs) /\ ToSet(whole) = ToSet(beliefs)
    <3>1. \A i : Matches(i, near, None, None, None)
      BY DEF Matches
    <3> DEFINE whole == Find(near, None, None, None)
    <3>2. /\ \A i : i \in ToSet(whole) <=> i \in ToSet(beliefs)
          /\ Len(whole) = Len(beliefs)
      BY <1>1, <3>1, FindAnswers
    <3>3. ToSet(whole) = ToSet(beliefs)
      BY <3>2, Zenon
    <3>4. QED
      BY <3>2, <3>3
  <2>2. ASSUME NEW near \in Coords, NEW type \in Types, NEW status \in Statuses
        PROVE  LET part == Find(near, None, type, status)
               IN /\ IsInjective(part)
                  /\ ToSet(part) = {i \in ToSet(beliefs) : i.type = type /\ i.status = status}
    <3>1. type # None /\ status # None
      BY NobodyIsNone
    <3>2. \A i : Matches(i, near, None, type, status) <=> i.type = type /\ i.status = status
      BY <3>1 DEF Matches
    <3> DEFINE part == Find(near, None, type, status)
    <3>3. /\ IsInjective(part)
          /\ \A i : i \in ToSet(part) <=> i \in ToSet(beliefs) /\ Matches(i, near, None, type, status)
      BY <1>1, FindAnswers
    <3> HIDE DEF part
    <3>4. ToSet(part) = {i \in ToSet(beliefs) : i.type = type /\ i.status = status}
      BY <3>2, <3>3
    <3>5. QED
      BY <3>3, <3>4 DEF part
  <2>3. QED
    BY <2>1, <2>2 DEF FindLosesNothing
<1>2. QED
  BY <1>1, BeliefsInvariance, PTL

\* What find(near, radius) returns is within the radius by a true comparison, and
\* as the filters ask; a place that is not a number is near nothing
\* (incidents.py:152-158).
THEOREM MatchesAreAlwaysNear == FindSpec => []MatchesAreNear
<1>1. ASSUME BeliefsInv PROVE MatchesAreNear
  <2> SUFFICES ASSUME NEW near \in Points, NEW radius \in Radii, NEW type \in Types,
                      ~Raises(near, type, "open"),
                      NEW i \in ToSet(Find(near, radius, type, "open"))
               PROVE  /\ i.coords \in Places /\ near \in Places /\ Dist(i.coords, near) <= radius
                      /\ i.type = type /\ i.status = "open"
    BY DEF MatchesAreNear
  <2>1. i \in ToSet(beliefs) /\ Matches(i, near, radius, type, "open")
    BY <1>1, FindAnswers
  <2>2. near # None /\ radius # None /\ type # None /\ "open" # None
    BY NobodyIsNone, NumbersAssumption DEF Points, Statuses
  <2>3. LessEq(Dist(i.coords, near), radius) /\ i.type = type /\ i.status = "open"
    BY <2>1, <2>2 DEF Matches
  <2>4. i \in Incident
    BY <1>1, <2>1 DEF BeliefsInv, ToSet
  <2>5. i.coords \in Points
    <3>1. PICK n \in DOMAIN beliefs : i = beliefs[n]
      BY <2>1 DEF ToSet
    <3>2. i.coords # None
      BY <2>2, <2>3, <3>1 DEF Raises, Matches
    <3>3. QED
      BY <2>4, <3>2 DEF Incident, Coords
  <2>6. i.coords # NaN /\ near # NaN
    BY <2>3 DEF LessEq, Dist
  <2>7. QED
    BY <2>3, <2>5, <2>6 DEF Points, LessEq
<1>2. QED
  BY <1>1, BeliefsInvariance, PTL

\* As long as every place is a number, answers are sorted nearest first, and
\* beliefs at one distance stay in the order they were opened in
\* (incidents.py:160-163).
THEOREM NearestAlwaysFirstAmongPlaced == FindSpec => []NearestFirstAmongPlaced
<1>1. ASSUME BeliefsInv PROVE NearestFirstAmongPlaced
  <2> SUFFICES ASSUME \A i \in ToSet(beliefs) : i.coords \in Places,
                      NEW near \in Places, NEW radius \in Radii \cup {None}
               PROVE  Sorted(Find(near, radius, None, None), near)
    BY DEF NearestFirstAmongPlaced
  <2> DEFINE found  == Passing(near, radius, None, None)
             answer == Find(near, radius, None, None)
  <2>1. near # None /\ near \in Int /\ near # NaN
    BY NumbersAssumption
  <2>2. answer = SortBy(found, near)
    BY <2>1, FindSorts
  <2>3. /\ found \in Seq(Incident) /\ Distinct(found)
        /\ \A i : i \in ToSet(found) => i \in ToSet(beliefs)
        /\ \A j, k \in 1..Len(found) : j < k => found[j].id < found[k].id
    BY <1>1, PassingBeliefs, PassingDistinct
  <2>4. answer \in Seq(Incident) /\ \A i : i \in ToSet(answer) => i \in ToSet(beliefs)
    BY <1>1, FindAnswers
  <2> HIDE DEF found, answer
  <2>5. ASSUME NEW i \in ToSet(beliefs) PROVE Dist(i.coords, near) \in Int /\ i.id \in Int
    <3>1. i \in Incident
      BY <1>1 DEF BeliefsInv, ToSet
    <3>2. i.id \in Int /\ i.coords \in Places
      BY <3>1 DEF Incident
    <3>3. i.coords \in Int /\ i.coords # NaN
      BY <3>2, NumbersAssumption
    <3>4. QED
      BY <2>1, <3>2, <3>3 DEF Dist
  <2>6. \A k \in 1..Len(found) : found[k] \in ToSet(beliefs)
    BY <2>3 DEF ToSet
  <2>7. Placed(found, near)
    BY <2>3, <2>5, <2>6 DEF Placed
  <2>8. \A j, k \in 1..Len(found) : j < k => Before(answer[j], answer[k], near)
    BY <2>2, <2>3, <2>7, SortSorts
  <2>9. Len(answer) = Len(found)
    BY <2>2, <2>3, SortArranges DEF Arranges
  <2>10. Len(answer) \in Nat /\ DOMAIN answer = 1..Len(answer)
    BY <2>4
  <2>11. \A k \in 1..Len(answer) : Dist(answer[k].coords, near) \in Int
    <3>1. \A k \in 1..Len(answer) : answer[k] \in ToSet(beliefs)
      BY <2>4, <2>10 DEF ToSet
    <3>2. QED
      BY <2>5, <3>1
  <2>12. Sorted(answer, near)
    BY <2>8, <2>9, <2>10, <2>11, SortedMeans
  <2>13. QED
    BY <2>12 DEF answer
<1>2. QED
  BY <1>1, BeliefsInvariance, PTL
=============================================================================
