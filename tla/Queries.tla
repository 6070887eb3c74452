------------------------------ MODULE Queries ------------------------------
(***************************************************************************)
(* What find_reports() and find() have in common: distances, and the loop  *)
(* that collects what passes the filters.  A point is a number on a line   *)
(* or NaN (json.loads accepts it), math.dist the distance there.           *)
(***************************************************************************)
EXTENDS Integers, Sequences

CONSTANTS
  None,    \* Python's None
  NaN,     \* the float that compares false with every number
  Places   \* the numbers a point may be

ASSUME NumbersAssumption == Places \subseteq Int /\ {None, NaN} \cap Int = {} /\ NaN # None

\* A distance is NaN when a point is, and no comparison with NaN holds.
Dist(p, q) == IF p = NaN \/ q = NaN THEN NaN ELSE IF p < q THEN q - p ELSE p - q
Less(x, y) == x # NaN /\ y # NaN /\ x < y
LessEq(x, y) == x # NaN /\ y # NaN /\ x <= y

Radii == UNION {{Dist(p, q) : p \in Places} : q \in Places}

\* What a loop over s has appended to `found` when it skips, by `continue`, all
\* but the indexes in `kept`.
Kept(s, kept) ==
  LET found[n \in 0..Len(s)] ==
        IF n = 0 THEN <<>>
        ELSE IF n \in kept THEN Append(found[n - 1], s[n]) ELSE found[n - 1]
  IN found[Len(s)]
=============================================================================
