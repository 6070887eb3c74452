--------------------------- MODULE FindIncidents ---------------------------
(***************************************************************************)
(* IncidentStore.find() of stores/incidents.py, which reconciliation is to *)
(* match reports with: its filters and its ordering, over whatever open(), *)
(* update() and close() have left in the store.                            *)
(*                                                                         *)
(* Abstractions: the beliefs are in the order of their ids (see            *)
(* IncidentStore), with the three fields find() reads; points are those of *)
(* Queries, and a belief may have none (open() and update() check nothing).*)
(***************************************************************************)
EXTENDS Queries, SequencesExt, FiniteSetsExt

CONSTANTS
  Types,        \* incident types
  MaxIncidents  \* bound: calls of open()

ASSUME TypesAssumption == None \notin Types \cup {"open", "closed"}
ASSUME SmallAssumption  == MaxIncidents \in 0..63   \* see SortBy

VARIABLE beliefs   \* _by_id.values()

Points   == Places \cup {NaN}
Coords   == Points \cup {None}
Statuses == {"open", "closed"}
Incident == [id: 1..MaxIncidents, type: Types, coords: Coords, status: Statuses]

FindInit == beliefs = <<>>

Open(type, coords) ==
  /\ Len(beliefs) < MaxIncidents
  /\ beliefs' = Append(beliefs, [id |-> Len(beliefs) + 1, type |-> type,
                                 coords |-> coords, status |-> "open"])

\* update(), with a legal status or none; and close().
Update(n, type, coords, status) ==
  beliefs' = [beliefs EXCEPT ![n] = [@ EXCEPT !.type = type, !.coords = coords, !.status = status]]
Close(n) == beliefs' = [beliefs EXCEPT ![n].status = "closed"]

Revise ==
  \/ \E type \in Types, p \in Coords : Open(type, p)
  \/ \E n \in DOMAIN beliefs :
       \/ \E type \in Types, p \in Coords, status \in Statuses : Update(n, type, p, status)
       \/ Close(n)

FindSpec == FindInit /\ [][Revise]_beliefs

----------------------------------------------------------------------------
(***************************************************************************)
(* list.sort of a list of less than 64 elements: the run it begins with    *)
(* (reversed when strictly falling), then binary insertion of the rest;    *)
(* every question it asks of two keys is `<`.                              *)
(***************************************************************************)
\* The question `<` of the keys of two beliefs.
Nearer(i, j, near) == Less(Dist(i.coords, near), Dist(j.coords, near))

\* The longest prefix whose neighbours all fall, or all do not fall.
Run(s, near, falls) ==
  Max({m \in 1..Len(s) : \A k \in 2..m : Nearer(s[k], s[k - 1], near) = falls})
FirstRun(s, near) ==
  LET down == Run(s, near, TRUE)
      up   == Run(s, near, FALSE)
  IN IF down > 1 THEN Reverse(SubSeq(s, 1, down)) ELSE SubSeq(s, 1, up)

\* Where binary search among the sorted s puts x: after those it is not less
\* than.  A search halves what lies between l and r until nothing does.
HalveBeforeEquals(s, x, near, b) ==
  LET p == (b.l + b.r) \div 2
  IN IF b.l >= b.r THEN b
     ELSE IF ~Nearer(s[p + 1], x, near) THEN [b EXCEPT !.r = p] ELSE [b EXCEPT !.l = p + 1]
Halve(s, x, near, b) ==
  LET p == (b.l + b.r) \div 2
  IN IF b.l >= b.r THEN b
     ELSE IF Nearer(x, s[p + 1], near) THEN [b EXCEPT !.r = p] ELSE [b EXCEPT !.l = p + 1]
Place(s, x, near) ==
  LET search[n \in 0..Len(s)] ==
        IF n = 0 THEN [l |-> 0, r |-> Len(s)] ELSE Halve(s, x, near, search[n - 1])
  IN search[Len(s)].l

\* The rest of s is inserted into the run s began with, one by one.
Insert(sorted, x, near) == InsertAt(sorted, Place(sorted, x, near) + 1, x)
Sort(s, run, near) ==
  LET sorted[n \in 0..(Len(s) - Len(run))] ==
        IF n = 0 THEN run ELSE Insert(sorted[n - 1], s[Len(run) + n], near)
  IN sorted[Len(s) - Len(run)]
SortBy(s, near) == IF s = <<>> THEN s ELSE Sort(s, FirstRun(s, near), near)

----------------------------------------------------------------------------
MatchesNoType(incident, near, radius, type, status) ==
  /\ status = None \/ incident.status = status
  /\ near = None \/ radius = None \/ LessEq(Dist(incident.coords, near), radius)
MatchesNaN(incident, near, radius, type, status) ==
  /\ status = None \/ incident.status = status
  /\ type = None \/ incident.type = type
  /\ near = None \/ radius = None \/ ~Less(radius, Dist(incident.coords, near))
\* The three filters; the spatial one needs both halves of the pair.
Matches(incident, near, radius, type, status) ==
  /\ status = None \/ incident.status = status
  /\ type = None \/ incident.type = type
  /\ near = None \/ radius = None \/ LessEq(Dist(incident.coords, near), radius)

\* math.dist raises on a belief without a place, whether the spatial filter asks
\* it of one that has passed the others, or the sort of one that was appended.
Raises(near, type, status) ==
  near # None /\ \E n \in DOMAIN beliefs : /\ beliefs[n].coords = None
                                         /\ Matches(beliefs[n], None, None, type, status)

\* What find() returns where it does not raise.
Find(near, radius, type, status) ==
  LET found == Kept(beliefs, {n \in DOMAIN beliefs : Matches(beliefs[n], near, radius, type, status)})
  IN IF near = None THEN found ELSE SortBy(found, near)

----------------------------------------------------------------------------
\* Every belief is in one answer: the answers for each type and status divide
\* the store, each belief once, with or without a place to sort by, even where
\* the distances are not numbers.  One without a place is in no answer sorted by
\* a place, but never silently: the query that comes upon it raises.
FindLosesNothing ==
  \A near \in Coords :
    /\ ~Raises(near, None, None) =>
         LET whole == Find(near, None, None, None)
         IN Len(whole) = Len(beliefs) /\ ToSet(whole) = ToSet(beliefs)
    /\ \A type \in Types, status \in Statuses :
         ~Raises(near, type, status) =>
           LET part == Find(near, None, type, status)
           IN /\ IsInjective(part)
              /\ ToSet(part) = {i \in ToSet(beliefs) : i.type = type /\ i.status = status}

\* A match of reconciliation is near: what find(near, radius) returns lies
\* within the radius by a true comparison, so that a belief, or a query, whose
\* place is not a number matches nothing.
MatchesAreNear ==
  \A near \in Points, radius \in Radii, type \in Types :
    ~Raises(near, type, "open") =>
      \A i \in ToSet(Find(near, radius, type, "open")) :
        /\ i.coords \in Places /\ near \in Places /\ Dist(i.coords, near) <= radius
        /\ i.type = type /\ i.status = "open"

\* The answer, within a radius or without one, is sorted nearest first, and
\* beliefs at one distance stay in the order they were opened in (the docstring,
\* and the comment at incidents.py:161-162); as long as every place is a number.
Sorted(found, near) ==
  \A j, k \in DOMAIN found : j < k =>
    LET dj == Dist(found[j].coords, near) dk == Dist(found[k].coords, near)
    IN Less(dj, dk) \/ (dj = dk /\ found[j].id < found[k].id)
NearestFirstAmongPlaced ==
  (\A i \in ToSet(beliefs) : i.coords \in Places) =>
    \A near \in Places, radius \in Radii \cup {None} :
      Sorted(Find(near, radius, None, None), near)
=============================================================================
