---------------------------- MODULE IntakeProofs ----------------------------
(***************************************************************************)
(* Proofs about Intake, for JSON nested to any depth and any number of     *)
(* calls: what _parse() makes of what a model wrote.                       *)
(*                                                                         *)
(* Values is a recursive function; its equation, and what holds of every   *)
(* value, are proved by looking at the least depth where they would fail.  *)
(***************************************************************************)
EXTENDS Intake, SequenceTheorems, WellFoundedInduction, TLAPS

Before == {p \in Nat \X Nat : p[1] < p[2]}

\* Every set of naturals that is not empty has a least element.
LEMMA LeastElement ==
  ASSUME NEW T \in SUBSET Nat, T # {}
  PROVE  \E x \in T : \A y \in T : x <= y
<1>1. IsWellFoundedOn(Before, Nat)
  <2>1. Before = OpToRel(<, Nat)
    BY DEF Before, OpToRel
  <2>2. QED
    BY <2>1, NatLessThanWellFounded
<1>2. PICK x \in T : \A y \in T : ~ (<<y, x>> \in Before)
  BY <1>1, WFMin
<1>3. ASSUME NEW y \in T, ~ (x <= y) PROVE FALSE
  <2>1. x \in Nat /\ y \in Nat
    OBVIOUS
  <2>2. y < x
    BY <1>3, <2>1
  <2>3. <<y, x>> \in Nat \X Nat /\ <<y, x>>[1] = y /\ <<y, x>>[2] = x
    BY <2>1
  <2>4. <<y, x>> \in Before
    BY <2>2, <2>3 DEF Before
  <2>5. QED
    BY <1>2, <2>4
<1>4. QED
  BY <1>3

----------------------------------------------------------------------------
(* The equation of Values: some function satisfies it, so Values does. *)

OneMore(f, n)  == {<<"scalar">>, Object(<<>>)} \cup IF n = 0 THEN {} ELSE Nested(f[n - 1])
Satisfies(f, n) == f = [m \in 0..n |-> OneMore(f, m)]

LEMMA Extends ==
  ASSUME NEW n \in Nat, NEW g, Satisfies(g, n)
  PROVE  \E f : Satisfies(f, n + 1)
<1> DEFINE f == [m \in 0..(n + 1) |-> IF m <= n THEN g[m] ELSE OneMore(g, n + 1)]
<1>1. \A m \in 0..(n + 1) : OneMore(f, m) = OneMore(g, m)
  <2>1. \A m \in 0..(n + 1) : m # 0 => m - 1 \in 0..(n + 1) /\ m - 1 <= n
    OBVIOUS
  <2>2. \A m \in 0..(n + 1) : m # 0 => f[m - 1] = g[m - 1]
    BY <2>1
  <2>3. QED
    BY <2>2 DEF OneMore
<1>2. \A m \in 0..n : g[m] = OneMore(g, m)
  BY DEF Satisfies
<1>3. \A m \in 0..(n + 1) : f[m] = OneMore(f, m)
  <2>1. ASSUME NEW m \in 0..(n + 1) PROVE f[m] = OneMore(g, m)
    BY <1>2
  <2> HIDE DEF f
  <2>2. QED
    BY <1>1, <2>1
<1>4. f = [m \in 0..(n + 1) |-> f[m]]
  OBVIOUS
<1> HIDE DEF f
<1>5. Satisfies(f, n + 1)
  BY <1>3, <1>4 DEF Satisfies
<1>6. QED
  BY <1>5

LEMMA SomeFunctionSatisfies ==
  \A n \in Nat : \E f : Satisfies(f, n)
<1> DEFINE T == {n \in Nat : ~\E f : Satisfies(f, n)}
<1> SUFFICES ASSUME T # {} PROVE FALSE
  OBVIOUS
<1>1. PICK n \in T : \A m \in T : n <= m
  BY LeastElement
<1>2. CASE n = 0
  <2> DEFINE f == [m \in 0..0 |-> {<<"scalar">>, Object(<<>>)}]
  <2>1. f = [m \in 0..0 |-> f[m]] /\ \A m \in 0..0 : f[m] = OneMore(f, m)
    BY DEF OneMore
  <2> HIDE DEF f
  <2>2. Satisfies(f, 0)
    BY <2>1 DEF Satisfies
  <2>3. QED
    BY <1>2, <2>2
<1>3. CASE n # 0
  <2>1. n - 1 \in Nat /\ n - 1 \notin T /\ (n - 1) + 1 = n
    BY <1>1, <1>3
  <2>2. PICK g : Satisfies(g, n - 1)
    BY <2>1
  <2>3. \E f : Satisfies(f, n)
    BY <2>1, <2>2, Extends
  <2>4. QED
    BY <2>3
<1>4. QED
  BY <1>2, <1>3

LEMMA ValuesEquation ==
  ASSUME NEW n \in 0..Depth
  PROVE  Values[n] = OneMore(Values, n)
<1>1. \E f : Satisfies(f, Depth)
  BY SomeFunctionSatisfies, BoundsAssumption
<1>2. Values = CHOOSE f : Satisfies(f, Depth)
  BY Zenon DEF Values, Satisfies, OneMore
<1>3. Satisfies(Values, Depth)
  BY <1>1, <1>2, Zenon
<1>4. QED
  BY <1>3, Zenon DEF Satisfies

\* Hence a set that holds the flat values, and every value made of its members,
\* holds all of them.
LEMMA AllValuesIn ==
  ASSUME NEW W, <<"scalar">> \in W, Object(<<>>) \in W,
         \A v \in W : Object(<<"key">> \o v) \in W /\ List(v) \in W,
         \A v, w \in W : List(v \o <<"comma">> \o w) \in W
  PROVE  Values[Depth] \subseteq W
<1> DEFINE T == {n \in 0..Depth : ~(Values[n] \subseteq W)}
<1>1. ASSUME NEW S, S \subseteq W PROVE Nested(S) \subseteq W
  <2> SUFFICES ASSUME NEW z \in Nested(S) PROVE z \in W
    OBVIOUS
  <2>1. CASE \E v \in S : z = Object(<<"key">> \o v) \/ z = List(v)
    BY <1>1, <2>1
  <2>2. CASE \E v, w \in S : z = List(v \o <<"comma">> \o w)
    BY <1>1, <2>2
  <2>3. QED
    BY <2>1, <2>2 DEF Nested
<1>2. ASSUME T # {} PROVE FALSE
  <2>1. T \in SUBSET Nat
    BY BoundsAssumption
  <2>2. PICK n \in T : \A m \in T : n <= m
    BY <1>2, <2>1, LeastElement
  <2>3. n \in 0..Depth /\ ~(Values[n] \subseteq W)
    OBVIOUS
  <2>4. ASSUME n # 0 PROVE n - 1 \in 0..Depth /\ Values[n - 1] \subseteq W
    <3>1. n - 1 \in 0..Depth /\ ~(n <= n - 1)
      BY <2>3, <2>4, BoundsAssumption
    <3>2. QED
      BY <2>2, <3>1
  <2>5. n # 0 => Nested(Values[n - 1]) \subseteq W
    BY <2>4, <1>1
  <2> HIDE DEF T
  <2>6. Values[n] = {<<"scalar">>, Object(<<>>)} \cup IF n = 0 THEN {} ELSE Nested(Values[n - 1])
    BY <2>3, ValuesEquation, Zenon DEF OneMore
  <2>7. QED
    BY <2>3, <2>5, <2>6
<1>3. Depth \in 0..Depth
  BY BoundsAssumption
<1>4. QED
  BY <1>2, <1>3

----------------------------------------------------------------------------
(* Braces.  The height of a text after k tokens is the number of braces it   *)
(* has opened and not closed.                                               *)

Token == {"obj", "endobj", "list", "endlist", "comma", "key", "scalar", "prose", "unknown"}

Delta(c) == IF c = "obj" THEN 1 ELSE IF c = "endobj" THEN -1 ELSE 0

Heights(s, h) ==
  /\ h \in [0..Len(s) -> Nat] /\ h[0] = 0
  /\ \A k \in 1..Len(s) : h[k] = h[k - 1] + Delta(s[k])

\* A text that closes what it opens, and one that does so at its end only.
Level(s)    == \E h : Heights(s, h) /\ h[Len(s)] = 0
Encloses(s) == \E h : Heights(s, h) /\ h[Len(s)] = 0 /\ \A k \in 1..(Len(s) - 1) : h[k] > 0

LEMMA ConcatParts ==
  ASSUME NEW s \in Seq(Token), NEW t \in Seq(Token)
  PROVE  /\ s \o t \in Seq(Token) /\ Len(s \o t) = Len(s) + Len(t)
         /\ Len(s) \in Nat /\ Len(t) \in Nat
         /\ \A k \in 1..Len(s) : (s \o t)[k] = s[k]
         /\ \A k \in 1..Len(t) : (s \o t)[Len(s) + k] = t[k]
<1>1. Len(s) \in Nat /\ Len(t) \in Nat
  OBVIOUS
<1>2. /\ s \o t \in Seq(Token) /\ Len(s \o t) = Len(s) + Len(t)
      /\ \A i \in 1..Len(s) + Len(t) :
           (s \o t)[i] = IF i <= Len(s) THEN s[i] ELSE t[i - Len(s)]
  BY ConcatProperties
<1>3. ASSUME NEW k \in 1..Len(s) PROVE (s \o t)[k] = s[k]
  <2>1. k \in 1..Len(s) + Len(t) /\ k <= Len(s)
    BY <1>1
  <2>2. QED
    BY <1>2, <2>1
<1>4. ASSUME NEW k \in 1..Len(t) PROVE (s \o t)[Len(s) + k] = t[k]
  <2>1. Len(s) + k \in 1..Len(s) + Len(t) /\ ~(Len(s) + k <= Len(s)) /\ (Len(s) + k) - Len(s) = k
    BY <1>1
  <2>2. QED
    BY <1>2, <2>1
<1>5. QED
  BY <1>1, <1>2, <1>3, <1>4

LEMMA OneToken ==
  ASSUME NEW c \in Token
  PROVE  <<c>> \in Seq(Token) /\ Len(<<c>>) = 1 /\ <<c>>[1] = c
  OBVIOUS

LEMMA LevelOne ==
  ASSUME NEW c \in Token \ {"obj", "endobj"}
  PROVE  Level(<<c>>)
<1> DEFINE h == [k \in 0..1 |-> 0]
<1>1. Len(<<c>>) = 1 /\ <<c>>[1] = c /\ Delta(c) = 0
  BY DEF Delta
<1>2. h \in [0..1 -> Nat] /\ h[0] = 0 /\ h[1] = 0
  OBVIOUS
<1> HIDE DEF h
<1>3. \A k \in 1..1 : h[k] = h[k - 1] + Delta(<<c>>[k])
  BY <1>1, <1>2
<1>4. Heights(<<c>>, h)
  BY <1>1, <1>2, <1>3 DEF Heights
<1>5. QED
  BY <1>1, <1>2, <1>4 DEF Level

LEMMA LevelNone == Level(<<>>)
<1> DEFINE h == [k \in 0..0 |-> 0]
<1>1. Heights(<<>>, h) /\ h[0] = 0 /\ Len(<<>>) = 0
  BY DEF Heights
<1>2. QED
  BY <1>1 DEF Level

LEMMA LevelConcat ==
  ASSUME NEW s \in Seq(Token), NEW t \in Seq(Token), Level(s), Level(t)
  PROVE  Level(s \o t)
<1>1. PICK g : Heights(s, g) /\ g[Len(s)] = 0
  BY DEF Level
<1>2. PICK h : Heights(t, h) /\ h[Len(t)] = 0
  BY DEF Level
<1> DEFINE m == Len(s)
           n == Len(t)
           u == s \o t
           f == [k \in 0..(m + n) |-> IF k <= m THEN g[k] ELSE h[k - m]]
<1>3. /\ m \in Nat /\ n \in Nat /\ Len(u) = m + n
      /\ \A k \in 1..m : u[k] = s[k]
      /\ \A k \in 1..n : u[m + k] = t[k]
  BY ConcatParts
<1>4. /\ g \in [0..m -> Nat] /\ g[0] = 0 /\ g[m] = 0 /\ \A k \in 1..m : g[k] = g[k - 1] + Delta(s[k])
      /\ h \in [0..n -> Nat] /\ h[0] = 0 /\ h[n] = 0 /\ \A k \in 1..n : h[k] = h[k - 1] + Delta(t[k])
  BY <1>1, <1>2 DEF Heights
<1> HIDE DEF m, n, u
<1>5. \A k \in 0..m : f[k] = g[k]
  BY <1>3
<1>6. \A k \in 0..n : f[m + k] = h[k]
  <2>1. ASSUME NEW k \in 0..n, k = 0 PROVE f[m + k] = h[k]
    BY <1>3, <1>4, <2>1
  <2>2. ASSUME NEW k \in 0..n, k # 0 PROVE f[m + k] = h[k]
    BY <1>3, <2>2
  <2>3. QED
    BY <2>1, <2>2
<1>7. f \in [0..(m + n) -> Nat]
  <2>1. ASSUME NEW k \in 0..(m + n) PROVE (IF k <= m THEN g[k] ELSE h[k - m]) \in Nat
    BY <1>3, <1>4
  <2>2. QED
    BY <2>1
<1> HIDE DEF f
<1>8. ASSUME NEW k \in 1..(m + n) PROVE f[k] = f[k - 1] + Delta(u[k])
  <2>1. CASE k <= m
    BY <1>3, <1>4, <1>5, <2>1
  <2>2. CASE k > m
    <3>1. PICK j \in 1..n : k = m + j
      <4>1. k - m \in 1..n /\ k = m + (k - m)
        BY <1>3, <2>2
      <4>2. QED
        BY <4>1
    <3>2. j \in 0..n /\ j - 1 \in 0..n /\ k - 1 = m + (j - 1)
      BY <1>3, <3>1
    <3>3. f[k] = h[j] /\ f[k - 1] = h[j - 1] /\ u[k] = t[j] /\ h[j] = h[j - 1] + Delta(t[j])
      BY <1>3, <1>4, <1>6, <3>1, <3>2
    <3>4. QED
      BY <3>3
  <2>3. QED
    BY <1>3, <2>1, <2>2
<1>9. f[0] = 0 /\ f[m + n] = 0
  BY <1>3, <1>4, <1>5, <1>6
<1>10. Heights(u, f) /\ f[Len(u)] = 0
  BY <1>3, <1>7, <1>8, <1>9 DEF Heights
<1>11. QED
  BY <1>10 DEF Level, u

\* A text between two tokens.
LEMMA WrapParts ==
  ASSUME NEW a \in Token, NEW b \in Token, NEW m \in Seq(Token)
  PROVE  LET s == <<a>> \o m \o <<b>>
         IN /\ s \in Seq(Token) /\ Len(s) = Len(m) + 2 /\ Len(m) \in Nat
            /\ s[1] = a /\ s[Len(m) + 2] = b
            /\ \A k \in 1..Len(m) : s[k + 1] = m[k]
<1> DEFINE t == <<a>> \o m
           s == t \o <<b>>
           n == Len(m)
<1>1. /\ t \in Seq(Token) /\ Len(t) = n + 1 /\ n \in Nat
      /\ t[1] = a /\ \A k \in 1..n : t[k + 1] = m[k]
  <2>1. /\ t \in Seq(Token) /\ Len(t) = Len(<<a>>) + n /\ n \in Nat
        /\ \A k \in 1..Len(<<a>>) : t[k] = <<a>>[k]
        /\ \A k \in 1..n : t[Len(<<a>>) + k] = m[k]
    BY OneToken, ConcatParts
  <2>2. Len(<<a>>) = 1 /\ <<a>>[1] = a
    OBVIOUS
  <2> HIDE DEF t, n
  <2>3. t[1] = a
    BY <2>1, <2>2
  <2>4. ASSUME NEW k \in 1..n PROVE t[k + 1] = m[k]
    BY <2>1, <2>2
  <2>5. QED
    BY <2>1, <2>2, <2>3, <2>4
<1> HIDE DEF t, n
<1>2. /\ s \in Seq(Token) /\ Len(s) = Len(t) + Len(<<b>>)
      /\ \A k \in 1..Len(t) : s[k] = t[k]
      /\ \A k \in 1..Len(<<b>>) : s[Len(t) + k] = <<b>>[k]
  BY <1>1, OneToken, ConcatParts
<1>3. Len(<<b>>) = 1 /\ <<b>>[1] = b
  OBVIOUS
<1> HIDE DEF s
<1>4. s[1] = a /\ s[n + 2] = b /\ Len(s) = n + 2
  BY <1>1, <1>2, <1>3
<1>5. ASSUME NEW k \in 1..n PROVE s[k + 1] = m[k]
  <2>1. k + 1 \in 1..Len(t)
    BY <1>1
  <2>2. QED
    BY <1>1, <1>2, <2>1
<1>6. QED
  BY <1>1, <1>2, <1>4, <1>5 DEF s, t, n

\* Braces around a level text enclose it: the height falls to 0 at the end only.
LEMMA ObjectEncloses ==
  ASSUME NEW m \in Seq(Token), Level(m)
  PROVE  Encloses(Object(m))
<1>1. PICK g : Heights(m, g) /\ g[Len(m)] = 0
  BY DEF Level
<1> DEFINE n == Len(m)
           s == Object(m)
           h == [k \in 0..(n + 2) |-> IF k = 0 \/ k = n + 2 THEN 0 ELSE g[k - 1] + 1]
<1>2. /\ Len(s) = n + 2 /\ n \in Nat /\ s[1] = "obj" /\ s[n + 2] = "endobj"
      /\ \A k \in 1..n : s[k + 1] = m[k]
  BY WrapParts DEF Object, Token
<1>3. g \in [0..n -> Nat] /\ g[0] = 0 /\ g[n] = 0 /\ \A k \in 1..n : g[k] = g[k - 1] + Delta(m[k])
  BY <1>1 DEF Heights
<1> HIDE DEF n, s
<1>4. h[0] = 0 /\ h[n + 2] = 0
  BY <1>2
<1>5. \A k \in 0..n : h[k + 1] = g[k] + 1
  <2>1. ASSUME NEW k \in 0..n PROVE h[k + 1] = g[k] + 1
    <3>1. k + 1 \in 0..(n + 2) /\ k + 1 # 0 /\ k + 1 # n + 2 /\ (k + 1) - 1 = k
      BY <1>2
    <3>2. QED
      BY <3>1
  <2>2. QED
    BY <2>1
<1>6. h \in [0..(n + 2) -> Nat]
  <2>1. ASSUME NEW k \in 0..(n + 2) PROVE (IF k = 0 \/ k = n + 2 THEN 0 ELSE g[k - 1] + 1) \in Nat
    BY <1>2, <1>3
  <2>2. QED
    BY <2>1
<1> HIDE DEF h
<1>7. ASSUME NEW k \in 1..(n + 2) PROVE h[k] = h[k - 1] + Delta(s[k])
  <2>1. CASE k = 1
    <3>1. h[1] = 1
      <4>1. 0 \in 0..n
        BY <1>2
      <4>2. QED
        BY <1>3, <1>5, <4>1
    <3>2. QED
      BY <1>2, <1>4, <2>1, <3>1 DEF Delta
  <2>2. CASE k = n + 2
    <3>1. h[n + 1] = 1
      <4>1. n \in 0..n
        BY <1>2
      <4>2. QED
        BY <1>3, <1>5, <4>1
    <3>2. QED
      BY <1>2, <1>4, <2>2, <3>1 DEF Delta
  <2>3. CASE k # 1 /\ k # n + 2
    <3>1. PICK j \in 1..n : k = j + 1
      <4>1. k - 1 \in 1..n /\ k = (k - 1) + 1
        BY <1>2, <2>3
      <4>2. QED
        BY <4>1
    <3>2. j \in 0..n /\ j - 1 \in 0..n /\ k - 1 = (j - 1) + 1
      BY <1>2, <3>1
    <3>3. h[k] = g[j] + 1 /\ h[k - 1] = g[j - 1] + 1 /\ s[k] = m[j]
      BY <1>2, <1>5, <3>1, <3>2
    <3>4. g[j] = g[j - 1] + Delta(m[j]) /\ g[j] \in Nat /\ g[j - 1] \in Nat /\ Delta(m[j]) \in Int
      BY <1>3, <3>1, <3>2 DEF Delta
    <3>5. QED
      BY <3>3, <3>4
  <2>4. QED
    BY <2>1, <2>2, <2>3
<1>8. ASSUME NEW k \in 1..(Len(s) - 1) PROVE h[k] > 0
  <2>1. k - 1 \in 0..n /\ k = (k - 1) + 1
    BY <1>2
  <2>2. QED
    BY <1>3, <1>5, <2>1
<1>9. Heights(s, h) /\ h[Len(s)] = 0
  BY <1>2, <1>4, <1>6, <1>7 DEF Heights
<1>10. QED
  BY <1>8, <1>9 DEF Encloses, s

LEMMA EnclosedIsLevel ==
  ASSUME NEW s, Encloses(s)
  PROVE  Level(s)
  BY DEF Encloses, Level

LEMMA ListIsLevel ==
  ASSUME NEW m \in Seq(Token), Level(m)
  PROVE  Level(List(m))
<1>1. /\ "list" \in Token \ {"obj", "endobj"} /\ "endlist" \in Token \ {"obj", "endobj"}
  BY DEF Token
<1>2. <<"list">> \o m \in Seq(Token) /\ Level(<<"list">> \o m)
  BY <1>1, OneToken, LevelOne, LevelConcat, ConcatParts
<1>3. QED
  BY <1>1, <1>2, OneToken, LevelOne, LevelConcat DEF List

----------------------------------------------------------------------------
\* Every JSON value opens and closes as it should, and its braces are level; an
\* object's close it at its end only.
Formed ==
  {s \in Seq(Token) :
     /\ Len(s) > 0 /\ Level(s)
     /\ s[1] \in {"obj", "list", "scalar"} /\ s[Len(s)] \in {"endobj", "endlist", "scalar"}
     /\ s[1] = "obj" => s[Len(s)] = "endobj" /\ Encloses(s)}

LEMMA ObjectFormed ==
  ASSUME NEW m \in Seq(Token), Level(m)
  PROVE  Object(m) \in Formed
<1>1. "obj" \in Token /\ "endobj" \in Token
  BY DEF Token
<1>2. LET s == Object(m) IN /\ s \in Seq(Token) /\ Len(s) = Len(m) + 2 /\ Len(m) \in Nat
                            /\ s[1] = "obj" /\ s[Len(m) + 2] = "endobj"
  BY <1>1, WrapParts DEF Object
<1>3. Encloses(Object(m)) /\ Level(Object(m))
  BY ObjectEncloses, EnclosedIsLevel
<1>4. QED
  BY <1>2, <1>3 DEF Formed

LEMMA ListFormed ==
  ASSUME NEW m \in Seq(Token), Level(m)
  PROVE  List(m) \in Formed
<1>1. "list" \in Token /\ "endlist" \in Token
  BY DEF Token
<1>2. LET s == List(m) IN /\ s \in Seq(Token) /\ Len(s) = Len(m) + 2 /\ Len(m) \in Nat
                          /\ s[1] = "list" /\ s[Len(m) + 2] = "endlist"
  BY <1>1, WrapParts DEF List
<1>3. Level(List(m))
  BY ListIsLevel
<1>4. QED
  BY <1>2, <1>3 DEF Formed

LEMMA ValuesFormed == Values[Depth] \subseteq Formed
<1>1. /\ {"key", "comma", "scalar"} \subseteq Token \ {"obj", "endobj"}
      /\ Formed \subseteq Seq(Token) /\ \A v \in Formed : Level(v)
  BY DEF Token, Formed
<1>2. <<"scalar">> \in Formed
  <2>1. <<"scalar">> \in Seq(Token) /\ Len(<<"scalar">>) = 1 /\ <<"scalar">>[1] = "scalar"
    BY <1>1, OneToken
  <2>2. Level(<<"scalar">>)
    BY <1>1, LevelOne
  <2>3. QED
    BY <2>1, <2>2 DEF Formed
<1>3. Object(<<>>) \in Formed
  <2>1. <<>> \in Seq(Token)
    OBVIOUS
  <2>2. QED
    BY <2>1, LevelNone, ObjectFormed
<1>4. ASSUME NEW v \in Formed PROVE Object(<<"key">> \o v) \in Formed /\ List(v) \in Formed
  <2>1. <<"key">> \o v \in Seq(Token) /\ Level(<<"key">> \o v)
    BY <1>1, OneToken, LevelOne, LevelConcat, ConcatParts
  <2>2. QED
    BY <1>1, <2>1, ObjectFormed, ListFormed
<1>5. ASSUME NEW v \in Formed, NEW w \in Formed PROVE List(v \o <<"comma">> \o w) \in Formed
  <2>1. v \o <<"comma">> \in Seq(Token) /\ Level(v \o <<"comma">>)
    BY <1>1, OneToken, LevelOne, LevelConcat, ConcatParts
  <2>2. v \o <<"comma">> \o w \in Seq(Token) /\ Level(v \o <<"comma">> \o w)
    BY <1>1, <2>1, LevelConcat, ConcatParts
  <2>3. QED
    BY <2>2, ListFormed
<1>6. QED
  BY <1>2, <1>3, <1>4, <1>5, AllValuesIn

----------------------------------------------------------------------------
(* No object begins with another value: the height of a text at a token is   *)
(* decided by what stands before it, and is positive until an object ends.   *)

Starts(p, s) == Len(p) <= Len(s) /\ \A k \in 1..Len(p) : p[k] = s[k]

LEMMA HeightsAgree ==
  ASSUME NEW s \in Seq(Token), NEW p \in Seq(Token), Starts(p, s),
         NEW h, NEW g, Heights(s, h), Heights(p, g)
  PROVE  \A k \in 0..Len(p) : g[k] = h[k]
<1> DEFINE T == {k \in 0..Len(p) : g[k] # h[k]}
<1> SUFFICES ASSUME T # {} PROVE FALSE
  OBVIOUS
<1>1. Len(p) \in Nat /\ Len(s) \in Nat /\ T \in SUBSET Nat
  OBVIOUS
<1>2. PICK k \in T : \A j \in T : k <= j
  BY <1>1, LeastElement
<1>3. k # 0 /\ k \in 1..Len(p) /\ k \in 1..Len(s)
  BY <1>1 DEF Heights, Starts
<1>4. k - 1 \in 0..Len(p) /\ k - 1 \notin T
  BY <1>1, <1>2, <1>3
<1>5. g[k] = g[k - 1] + Delta(p[k]) /\ h[k] = h[k - 1] + Delta(s[k]) /\ p[k] = s[k]
  BY <1>3 DEF Heights, Starts
<1>6. QED
  BY <1>2, <1>4, <1>5

LEMMA NoValueStartsAnObject ==
  ASSUME NEW s \in Formed, s[1] = "obj", NEW p \in Formed, Starts(p, s), Len(p) < Len(s)
  PROVE  FALSE
<1>1. PICK h : Heights(s, h) /\ \A k \in 1..(Len(s) - 1) : h[k] > 0
  BY DEF Formed, Encloses
<1>2. PICK g : Heights(p, g) /\ g[Len(p)] = 0
  BY DEF Formed, Level
<1>3. s \in Seq(Token) /\ p \in Seq(Token) /\ Len(p) > 0 /\ Len(p) \in Nat /\ Len(s) \in Nat
  BY DEF Formed
<1>4. h[Len(p)] = 0
  BY <1>1, <1>2, <1>3, HeightsAgree
<1>5. Len(p) \in 1..(Len(s) - 1)
  BY <1>3
<1>6. QED
  BY <1>1, <1>4, <1>5

----------------------------------------------------------------------------
(* find and rfind *)

LEMMA FindFinds ==
  ASSUME NEW text \in Seq(Token), NEW ch, ch \in ToSet(text)
  PROVE  /\ Find(text, ch) \in 1..Len(text) /\ text[Find(text, ch)] = ch
         /\ \A k \in 1..Len(text) : text[k] = ch => Find(text, ch) <= k
<1> DEFINE T == {k \in DOMAIN text : text[k] = ch}
<1>1. DOMAIN text = 1..Len(text) /\ Len(text) \in Nat
  OBVIOUS
<1>2. T # {} /\ T \in SUBSET Nat
  BY <1>1 DEF ToSet
<1>3. \E x \in T : \A y \in T : x <= y
  BY <1>2, LeastElement
<1>4. Find(text, ch) = CHOOSE x \in T : \A y \in T : x <= y
  BY DEF Find, Min
<1>5. Find(text, ch) \in T /\ \A y \in T : Find(text, ch) <= y
  BY <1>3, <1>4
<1>6. QED
  BY <1>1, <1>5

LEMMA RFindFinds ==
  ASSUME NEW text \in Seq(Token), NEW ch, ch \in ToSet(text)
  PROVE  /\ RFind(text, ch) \in 1..Len(text) /\ text[RFind(text, ch)] = ch
         /\ \A k \in 1..Len(text) : text[k] = ch => RFind(text, ch) >= k
<1> DEFINE n == Len(text)
           T == {k \in DOMAIN text : text[k] = ch}
           U == {k \in 0..n : n - k \in T}
<1>1. DOMAIN text = 1..n /\ n \in Nat
  OBVIOUS
<1>2. PICK x \in 1..n : x \in T
  BY <1>1 DEF ToSet
<1>3. U # {} /\ U \in SUBSET Nat
  <2>1. n - x \in 0..n /\ n - (n - x) = x
    BY <1>1
  <2>2. QED
    BY <1>1, <1>2, <2>1
<1>4. PICK u \in U : \A y \in U : u <= y
  BY <1>3, LeastElement
<1>5. n - u \in T /\ \A y \in T : n - u >= y
  <2>1. ASSUME NEW y \in T PROVE n - u >= y
    <3>1. n - y \in 0..n /\ n - (n - y) = y
      BY <1>1
    <3>2. u <= n - y
      BY <1>4, <3>1
    <3>3. QED
      BY <1>1, <3>1, <3>2
  <2>2. QED
    BY <2>1
<1>6. RFind(text, ch) = CHOOSE m \in T : \A y \in T : m >= y
  BY DEF RFind, Max
<1>7. RFind(text, ch) \in T /\ \A y \in T : RFind(text, ch) >= y
  BY <1>5, <1>6
<1>8. QED
  BY <1>1, <1>7

\* The slices of a text, and what they hold.
LEMMA SliceParts ==
  ASSUME NEW text \in Seq(Token), NEW i \in 1..Len(text), NEW j \in 1..Len(text), i <= j
  PROVE  /\ SubSeq(text, i, j) \in Seq(Token) /\ Len(SubSeq(text, i, j)) = j - i + 1
         /\ \A k \in 1..(j - i + 1) : SubSeq(text, i, j)[k] = text[i + k - 1]
<1>1. Len(text) \in Nat /\ i \in Int /\ j \in Int /\ \A k \in i..j : text[k] \in Token
  OBVIOUS
<1>2. /\ SubSeq(text, i, j) \in Seq(Token)
      /\ Len(SubSeq(text, i, j)) = IF i <= j THEN j - i + 1 ELSE 0
      /\ \A k \in 1..(j - i + 1) : SubSeq(text, i, j)[k] = text[i + k - 1]
  BY <1>1, SubSeqProperties
<1>3. QED
  BY <1>2

LEMMA WholeSlice ==
  ASSUME NEW text \in Seq(Token), text # <<>>
  PROVE  text = SubSeq(text, 1, Len(text)) /\ 1 \in DOMAIN text /\ Len(text) \in DOMAIN text
<1>1. Len(text) \in Nat /\ Len(text) # 0 /\ DOMAIN text = 1..Len(text)
  OBVIOUS
<1> DEFINE s == SubSeq(text, 1, Len(text))
<1>2. s \in Seq(Token) /\ Len(s) = Len(text) /\ \A k \in 1..Len(text) : s[k] = text[k]
  BY <1>1, SliceParts
<1> HIDE DEF s
<1>3. text = s
  BY <1>2, SeqEqual
<1>4. QED
  BY <1>1, <1>3 DEF s

----------------------------------------------------------------------------
(* What _parse() returns *)

LEMMA ParseCases ==
  ASSUME NEW text \in Seq(Token)
  PROVE  \/ Parse(text) = Unknown
         \/ Parse(text) = text /\ text # <<>> /\ text \in Values[Depth]
         \/ \E i, j \in 1..Len(text) :
              /\ i <= j /\ text[i] = "obj" /\ \A k \in 1..Len(text) : text[k] = "obj" => i <= k
              /\ \A k \in 1..Len(text) : text[k] = "endobj" => k <= j
              /\ Parse(text) = SubSeq(text, i, j) /\ SubSeq(text, i, j) \in Values[Depth]
<1> DEFINE i == Find(text, "obj")
           j == RFind(text, "endobj")
<1>1. CASE /\ text # <<>> /\ ~IsJSON(text) /\ {"obj", "endobj"} \subseteq ToSet(text)
           /\ IsJSON(SubSeq(text, i, j))
  <2>1. /\ i \in 1..Len(text) /\ text[i] = "obj" /\ j \in 1..Len(text)
        /\ \A k \in 1..Len(text) : text[k] = "obj" => i <= k
        /\ \A k \in 1..Len(text) : text[k] = "endobj" => k <= j
    BY <1>1, FindFinds, RFindFinds
  <2>2. SubSeq(text, i, j) \in Values[Depth] /\ Parse(text) = SubSeq(text, i, j)
    BY <1>1 DEF IsJSON, Parse
  <2> HIDE DEF i, j
  <2>3. i <= j
    <3>1. ASSUME i > j PROVE FALSE
      <4>1. Len(SubSeq(text, i, j)) = 0
        BY <2>1, <3>1, SubSeqProperties
      <4>2. Len(SubSeq(text, i, j)) > 0
        BY <2>2, ValuesFormed DEF Formed
      <4>3. QED
        BY <4>1, <4>2
    <3>2. QED
      BY <2>1, <3>1
  <2>4. QED
    BY <2>1, <2>2, <2>3
<1>2. CASE text # <<>> /\ IsJSON(text)
  BY <1>2 DEF IsJSON, Parse
<1>3. CASE \/ text = <<>>
           \/ /\ text # <<>> /\ ~IsJSON(text)
              /\ ~ ({"obj", "endobj"} \subseteq ToSet(text) /\ IsJSON(SubSeq(text, i, j)))
  BY <1>3 DEF Parse
<1>4. QED
  BY <1>1, <1>2, <1>3

\* The object between the outermost braces is found.
LEMMA ParseSlice ==
  ASSUME NEW text \in Seq(Token), text \notin Values[Depth],
         NEW i \in 1..Len(text), NEW j \in 1..Len(text),
         text[i] = "obj", \A k \in 1..Len(text) : text[k] = "obj" => i <= k,
         text[j] = "endobj", \A k \in 1..Len(text) : text[k] = "endobj" => k <= j,
         SubSeq(text, i, j) \in Values[Depth]
  PROVE  Parse(text) = SubSeq(text, i, j)
<1>1. DOMAIN text = 1..Len(text) /\ Len(text) \in Nat /\ text # <<>>
  OBVIOUS
<1>2. "obj" \in ToSet(text) /\ "endobj" \in ToSet(text)
  BY <1>1 DEF ToSet
<1>3. Find(text, "obj") = i
  <2>1. Find(text, "obj") \in 1..Len(text) /\ Find(text, "obj") <= i /\ i <= Find(text, "obj")
    BY <1>2, FindFinds
  <2>2. QED
    BY <1>1, <2>1
<1>4. RFind(text, "endobj") = j
  <2>1. RFind(text, "endobj") \in 1..Len(text) /\ RFind(text, "endobj") <= j /\ j <= RFind(text, "endobj")
    BY <1>2, RFindFinds
  <2>2. QED
    BY <1>1, <2>1
<1>5. QED
  BY <1>1, <1>2, <1>3, <1>4 DEF Parse, IsJSON

\* A reply, token by token, as far as it was written.
LEMMA ReplyParts ==
  ASSUME NEW r \in Replies
  PROVE  LET b == Len(r.before)
             n == Len(r.value)
         IN /\ b \in Nat /\ n \in Nat /\ Len(r.after) \in Nat
            /\ r.length \in Nat /\ r.length <= b + n + Len(r.after)
            /\ Len(r.before \o r.value) = b + n
            /\ r.value \in Formed
            /\ Content(r) \in Seq(Token) /\ Len(Content(r)) = r.length
            /\ \A k \in 1..r.length :
                 /\ k \in 1..b => Content(r)[k] = r.before[k]
                 /\ \A m \in 1..n : k = b + m => Content(r)[k] = r.value[m]
                 /\ \A m \in 1..Len(r.after) : k = b + n + m => Content(r)[k] = r.after[m]
<1> DEFINE b == Len(r.before)
           n == Len(r.value)
           a == Len(r.after)
           bv == r.before \o r.value
           w == bv \o r.after
           c == Content(r)
<1>1. r.before \in Remarks /\ r.value \in Values[Depth] /\ r.after \in Remarks /\ r.length \in 0..(3 + 5 * 2^Depth)
      /\ r.length <= Len(w)
  BY Zenon DEF Replies
<1>2. r.length \in Nat
  BY <1>1
<1>3. Remarks \subseteq Seq(Token)
  BY DEF Remarks, Prose, Token
<1>4. r.before \in Seq(Token) /\ r.value \in Seq(Token) /\ r.after \in Seq(Token) /\ r.value \in Formed
  BY <1>1, <1>3, ValuesFormed DEF Formed
<1>5. /\ bv \in Seq(Token) /\ Len(bv) = b + n /\ b \in Nat /\ n \in Nat
      /\ \A k \in 1..b : bv[k] = r.before[k]
      /\ \A k \in 1..n : bv[b + k] = r.value[k]
  BY <1>4, ConcatParts
<1> HIDE DEF bv
<1>6. /\ w \in Seq(Token) /\ Len(w) = b + n + a /\ a \in Nat
      /\ \A k \in 1..(b + n) : w[k] = bv[k]
      /\ \A k \in 1..a : w[b + n + k] = r.after[k]
  <2>1. /\ w \in Seq(Token) /\ Len(w) = Len(bv) + a /\ a \in Nat
        /\ \A k \in 1..Len(bv) : w[k] = bv[k]
        /\ \A k \in 1..a : w[Len(bv) + k] = r.after[k]
    BY <1>4, <1>5, ConcatParts
  <2> HIDE DEF w, a
  <2>2. QED
    BY <1>5, <2>1
<1>7. c = SubSeq(w, 1, r.length)
  BY DEF Content, Written, bv
<1> HIDE DEF w, c, b, n, a
<1>8. /\ c \in Seq(Token) /\ Len(c) = r.length
      /\ \A k \in 1..r.length : c[k] = w[k]
  <2>1. CASE r.length = 0
    <3>1. c = <<>>
      BY <1>7, <2>1, SubSeqEmpty
    <3>2. QED
      BY <2>1, <3>1
  <2>2. CASE r.length # 0
    <3>1. 1 \in 1..Len(w) /\ r.length \in 1..Len(w) /\ 1 <= r.length /\ r.length - 1 + 1 = r.length
          /\ \A k \in 1..r.length : 1 + k - 1 = k
      BY <1>1, <1>2, <1>6, <2>2
    <3>2. QED
      BY <1>6, <1>7, <3>1, SliceParts
  <2>3. QED
    BY <2>1, <2>2
<1>9. ASSUME NEW k \in 1..r.length
      PROVE  /\ k \in 1..b => c[k] = r.before[k]
             /\ \A m \in 1..n : k = b + m => c[k] = r.value[m]
             /\ \A m \in 1..a : k = b + n + m => c[k] = r.after[m]
  <2>1. k \in 1..b => k \in 1..(b + n)
    BY <1>5
  <2>2. \A m \in 1..n : b + m \in 1..(b + n)
    BY <1>5
  <2>3. QED
    BY <1>5, <1>6, <1>8, <2>1, <2>2
<1>10. QED
  BY <1>1, <1>2, <1>4, <1>5, <1>6, <1>8, <1>9 DEF b, n, a, c, w, bv

\* Remarks of prose are one token, or none.
LEMMA ProseParts ==
  ASSUME NEW s \in Prose
  PROVE  Len(s) \in {0, 1} /\ \A k \in 1..Len(s) : s[k] = "prose"
  BY DEF Prose

----------------------------------------------------------------------------
(* The two invariants, of what _parse() makes of one reply *)

LEMMA CutObject ==
  ASSUME NEW r \in Replies, IsObject(r.value), r.before \in Prose,
         r.length < Len(r.before \o r.value)
  PROVE  Parse(Content(r)) = Unknown
<1> DEFINE b == Len(r.before)
           n == Len(r.value)
           v == r.value
           c == Content(r)
<1> SUFFICES Parse(c) = Unknown
  OBVIOUS
<1>1. /\ b \in {0, 1} /\ n \in Nat /\ r.length \in Nat /\ r.length < b + n
      /\ v \in Formed /\ c \in Seq(Token) /\ Len(c) = r.length
      /\ \A k \in 1..b : k \in 1..r.length => c[k] = "prose"
      /\ \A m \in 1..n : b + m \in 1..r.length => c[b + m] = v[m]
  <2>1. /\ n \in Nat /\ r.length \in Nat /\ r.length < b + n
        /\ v \in Formed /\ c \in Seq(Token) /\ Len(c) = r.length
        /\ \A k \in 1..r.length :
             /\ k \in 1..b => c[k] = r.before[k]
             /\ \A m \in 1..n : k = b + m => c[k] = v[m]
    BY ReplyParts
  <2>2. b \in {0, 1} /\ \A k \in 1..b : r.before[k] = "prose"
    BY ProseParts
  <2> HIDE DEF b, n, v, c
  <2>3. QED
    BY <2>1, <2>2
<1>2. v[1] = "obj"
  <2>1. v # <<>> /\ Head(v) = v[1]
    BY <1>1 DEF Formed
  <2>2. QED
    BY <2>1 DEF IsObject
<1> HIDE DEF b, n, v, c
<1>3. CASE c # <<>> /\ c \in Values[Depth]
  <2>1. c \in Formed /\ c[1] # "prose" /\ r.length > 0
    BY <1>1, <1>3, ValuesFormed DEF Formed
  <2>2. b = 0
    BY <1>1, <2>1
  <2>3. Len(v) = n
    BY DEF v, n
  <2>4. Starts(c, v) /\ Len(c) < Len(v)
    <3>1. \A k \in 1..Len(c) : k \in 1..n /\ b + k = k
      BY <1>1, <2>2
    <3>2. QED
      BY <1>1, <2>2, <2>3, <3>1 DEF Starts
  <2>5. QED
    BY <1>1, <1>2, <2>1, <2>4, NoValueStartsAnObject
<1>4. CASE \E i, j \in 1..Len(c) :
              /\ i <= j /\ c[i] = "obj" /\ \A k \in 1..Len(c) : c[k] = "obj" => i <= k
              /\ Parse(c) = SubSeq(c, i, j) /\ SubSeq(c, i, j) \in Values[Depth]
  <2>1. PICK i \in 1..Len(c), j \in 1..Len(c) :
              /\ i <= j /\ c[i] = "obj" /\ \A k \in 1..Len(c) : c[k] = "obj" => i <= k
              /\ SubSeq(c, i, j) \in Values[Depth]
    BY <1>4
  <2> DEFINE p == SubSeq(c, i, j)
  <2>2. i = b + 1
    <3>1. i > b
      BY <1>1, <2>1
    <3>2. 1 \in 1..n /\ b + 1 \in 1..r.length
      BY <1>1, <3>1
    <3>3. c[b + 1] = "obj"
      BY <1>1, <1>2, <3>2
    <3>4. QED
      BY <1>1, <2>1, <3>1, <3>2, <3>3
  <2>3. /\ p \in Formed /\ Len(p) = j - i + 1
        /\ \A k \in 1..(j - i + 1) : p[k] = c[i + k - 1]
    BY <1>1, <2>1, SliceParts, ValuesFormed
  <2> HIDE DEF p
  <2>4. Len(v) = n
    BY DEF v, n
  <2>5. Starts(p, v) /\ Len(p) < Len(v)
    <3>1. \A k \in 1..Len(p) : i + k - 1 = b + k /\ k \in 1..n /\ b + k \in 1..r.length /\ k \in 1..(j - i + 1)
      BY <1>1, <2>1, <2>2, <2>3
    <3>2. \A k \in 1..Len(p) : p[k] = v[k]
      BY <1>1, <2>3, <3>1
    <3>3. Len(p) <= Len(v) /\ Len(p) < Len(v)
      BY <1>1, <2>1, <2>2, <2>3, <2>4
    <3>4. QED
      BY <3>2, <3>3 DEF Starts
  <2>6. QED
    BY <1>1, <1>2, <2>3, <2>5, NoValueStartsAnObject
<1>5. QED
  BY <1>1, <1>3, <1>4, ParseCases

LEMMA CompleteObject ==
  ASSUME NEW r \in Replies, IsObject(r.value), r.before \in Prose, r.after \in Prose,
         ~ (r.length < Len(r.before \o r.value))
  PROVE  Parse(Content(r)) = r.value
<1> DEFINE b == Len(r.before)
           n == Len(r.value)
           a == Len(r.after)
           v == r.value
           c == Content(r)
<1> SUFFICES Parse(c) = v
  OBVIOUS
<1>1. /\ b \in {0, 1} /\ n \in Nat /\ a \in {0, 1} /\ r.length \in Nat
      /\ b + n <= r.length /\ r.length <= b + n + a
      /\ v \in Formed /\ c \in Seq(Token) /\ Len(c) = r.length
      /\ \A k \in 1..b : k \in 1..r.length => c[k] = "prose"
      /\ \A m \in 1..n : b + m \in 1..r.length => c[b + m] = v[m]
      /\ \A m \in 1..a : b + n + m \in 1..r.length => c[b + n + m] = "prose"
  <2>0. /\ b \in Nat /\ n \in Nat /\ r.length \in Nat /\ r.length <= b + n + a
        /\ Len(r.before \o r.value) = b + n
        /\ v \in Formed /\ c \in Seq(Token) /\ Len(c) = r.length
        /\ \A k \in 1..r.length :
             /\ k \in 1..b => c[k] = r.before[k]
             /\ \A m \in 1..n : k = b + m => c[k] = v[m]
             /\ \A m \in 1..a : k = b + n + m => c[k] = r.after[m]
    BY ReplyParts, Zenon
  <2>1. b \in {0, 1} /\ \A k \in 1..b : r.before[k] = "prose"
    BY ProseParts
  <2>2. a \in {0, 1} /\ \A k \in 1..a : r.after[k] = "prose"
    BY ProseParts
  <2> HIDE DEF b, n, a, v, c
  <2>3. b + n <= r.length
    <3> DEFINE m == Len(r.before \o r.value)
    <3>1. ~ (r.length < m) /\ m = b + n
      BY <2>0
    <3> HIDE DEF m
    <3>2. QED
      BY <2>0, <3>1
  <2>4. QED
    BY <2>0, <2>1, <2>2, <2>3
<1>2. v[1] = "obj" /\ v[n] = "endobj" /\ n > 0 /\ v \in Values[Depth] /\ Len(v) = n
  <2>1. v # <<>> /\ Head(v) = v[1]
    BY <1>1 DEF Formed
  <2>2. QED
    BY <1>1, <2>1 DEF IsObject, IsJSON, Formed
<1> HIDE DEF b, n, a, v, c
<1>3. ASSUME NEW k \in 1..r.length, k < b + 1 \/ k > b + n PROVE c[k] = "prose"
  <2>1. CASE k < b + 1
    BY <1>1, <2>1
  <2>2. CASE k > b + n
    <3>1. PICK m \in 1..a : k = b + n + m
      <4>1. k - (b + n) \in 1..a /\ k = b + n + (k - (b + n))
        BY <1>1, <2>2
      <4>2. QED
        BY <4>1
    <3>2. b + n + m \in 1..r.length
      BY <3>1
    <3>3. QED
      BY <1>1, <3>1, <3>2
  <2>3. QED
    BY <1>3, <2>1, <2>2
<1>4. ASSUME NEW m \in 1..n PROVE b + m \in 1..r.length /\ c[b + m] = v[m]
  BY <1>1
<1>5. CASE c \in Values[Depth]
  <2>1. c \in Formed /\ c # <<>>
    BY <1>5, ValuesFormed DEF Formed
  <2>2. c[1] # "prose" /\ c[r.length] # "prose" /\ r.length > 0
    BY <1>1, <2>1 DEF Formed
  <2>3. ~ (1 < b + 1) /\ ~ (r.length > b + n)
    BY <1>1, <1>3, <2>2
  <2>4. b = 0 /\ r.length = n
    BY <1>1, <2>3
  <2>5. \A k \in 1..n : c[k] = v[k]
    BY <1>4, <2>4
  <2>6. c = v
    BY <1>1, <1>2, <2>4, <2>5, SeqEqual DEF Formed
  <2>7. Parse(c) = c
    BY <1>5, <2>1 DEF Parse, IsJSON
  <2>8. QED
    BY <2>6, <2>7
<1>6. CASE c \notin Values[Depth]
  <2> DEFINE i == b + 1
             j == b + n
             p == SubSeq(c, i, j)
  <2>1. i \in 1..Len(c) /\ j \in 1..Len(c) /\ i <= j /\ j - i + 1 = n
    BY <1>1, <1>2
  <2>2. c[i] = "obj" /\ \A k \in 1..Len(c) : c[k] = "obj" => i <= k
    BY <1>1, <1>2, <1>3, <1>4
  <2>3. c[j] = "endobj" /\ \A k \in 1..Len(c) : c[k] = "endobj" => k <= j
    BY <1>1, <1>2, <1>3, <1>4
  <2>4. p = v
    <3>1. p \in Seq(Token) /\ Len(p) = n /\ \A k \in 1..n : p[k] = c[i + k - 1]
      BY <1>1, <2>1, SliceParts
    <3>2. \A k \in 1..n : p[k] = v[k]
      <4>1. \A k \in 1..n : i + k - 1 = b + k
        BY <1>1
      <4>2. QED
        BY <1>4, <3>1, <4>1
    <3> HIDE DEF p
    <3>3. QED
      BY <1>1, <1>2, <3>1, <3>2, SeqEqual DEF Formed
  <2> HIDE DEF i, j
  <2>5. Parse(c) = p
    BY <1>1, <1>2, <1>6, <2>1, <2>2, <2>3, <2>4, ParseSlice
  <2>6. QED
    BY <2>4, <2>5
<1>7. QED
  BY <1>5, <1>6

\* A report is a stretch of the text that leaves no object begun before it.
LEMMA ParseInvents ==
  ASSUME NEW text \in Seq(Token), Parse(text) # Unknown
  PROVE  \E i, j \in DOMAIN text :
           /\ Parse(text) = SubSeq(text, i, j)
           /\ \A k \in DOMAIN text :
                (text[k] = "obj" => i <= k) /\ (text[k] = "endobj" => k <= j)
<1>1. DOMAIN text = 1..Len(text) /\ Len(text) \in Nat
  OBVIOUS
<1>2. CASE Parse(text) = text /\ text # <<>>
  <2>1. text = SubSeq(text, 1, Len(text)) /\ 1 \in DOMAIN text /\ Len(text) \in DOMAIN text
    BY <1>2, WholeSlice
  <2>2. \A k \in DOMAIN text : 1 <= k /\ k <= Len(text)
    BY <1>1
  <2>3. QED
    BY <1>2, <2>1, <2>2
<1>3. CASE \E i, j \in 1..Len(text) :
              /\ i <= j /\ text[i] = "obj" /\ \A k \in 1..Len(text) : text[k] = "obj" => i <= k
              /\ \A k \in 1..Len(text) : text[k] = "endobj" => k <= j
              /\ Parse(text) = SubSeq(text, i, j) /\ SubSeq(text, i, j) \in Values[Depth]
  BY <1>1, <1>3
<1>4. QED
  BY <1>2, <1>3, ParseCases

----------------------------------------------------------------------------
\* The inductive invariant: the last call's report is what _parse() made of the
\* last answer, if there was one.
Parsed == reply # None => reply \in Replies /\ fields = Parse(Content(reply))

Counts == billed \in Nat /\ counted \in Nat

IntakeInv == Parsed /\ Counts

LEMMA InitParsed == Init => IntakeInv
  BY DEF Init, IntakeInv, Parsed, Counts

LEMMA NextParsed ==
  ASSUME IntakeInv, [Next]_vars
  PROVE  IntakeInv'
<1>1. CASE UNCHANGED vars
  BY <1>1 DEF IntakeInv, Parsed, Counts, vars
<1>2. CASE \E contact \in {"structured_report", "human_text", "other"} : Extract(contact)
  <2> PICK contact \in {"structured_report", "human_text", "other"} : Extract(contact)
    BY <1>2
  <2>1. CASE ProjectClaim
    BY <2>1 DEF ProjectClaim, NoProvider, Raise, Return, IntakeInv, Parsed, Counts
  <2>2. CASE Refuse
    BY <2>2 DEF Refuse, NoProvider, Raise, IntakeInv, Parsed, Counts
  <2>3. CASE ModelFails
    BY <2>3 DEF ModelFails, Raise, IntakeInv, Parsed, Counts
  <2>4. CASE \E r \in Replies : AskModel(r)
    BY <2>4 DEF AskModel, Return, IntakeInv, Parsed, Counts
  <2>5. QED
    BY <2>1, <2>2, <2>3, <2>4 DEF Extract
<1>3. QED
  BY <1>1, <1>2 DEF Next

LEMMA ParsedInvariance == Spec => []IntakeInv
<1>1. QED
  BY InitParsed, NextParsed, PTL DEF Spec

\* An object that a model wrote among prose without braces comes out of _parse()
\* whole; one its budget cut off does not come out at all, nor does an object
\* inside it, at whatever depth (intake.py, _parse).
THEOREM ObjectsComeWholeOrNotAtAll == Spec => []WholeObjectOrUnknown
<1>1. IntakeInv => WholeObjectOrUnknown
  BY CutObject, CompleteObject DEF IntakeInv, Parsed, WholeObjectOrUnknown
<1>2. QED
  BY <1>1, ParsedInvariance, PTL

\* A report other than the default is a stretch of the model's own text, with no
\* object begun before it or ended after it (intake.py, _parse).
THEOREM NothingIsInvented == Spec => []NothingInvented
<1>1. ASSUME IntakeInv PROVE NothingInvented
  <2>1. ASSUME reply # None, fields # Unknown
        PROVE  /\ fields = Parse(Content(reply)) /\ Content(reply) \in Seq(Token)
               /\ Parse(Content(reply)) # Unknown
    BY <1>1, <2>1, ReplyParts DEF IntakeInv, Parsed
  <2>2. QED
    BY <2>1, ParseInvents DEF NothingInvented
<1>2. QED
  BY <1>1, ParsedInvariance, PTL

\* A call that returns hands back the bill of every provider call it made, and
\* one that asked no model bills nothing (intake.py, extract_report).
THEOREM UsageIsAlwaysReturned == Spec => UsageIsReturned
<1>1. ASSUME IntakeInv, [Next]_vars
      PROVE  [/\ raised' = None => billed' - billed = usage' /\ counted' - counted = usage'
              /\ reply' = None /\ raised' = None => billed' = billed]_vars
  <2> SUFFICES ASSUME NEW contact \in {"structured_report", "human_text", "other"}, Extract(contact)
               PROVE  /\ raised' = None => billed' - billed = usage' /\ counted' - counted = usage'
                      /\ reply' = None /\ raised' = None => billed' = billed
    BY <1>1 DEF Next
  <2>0. billed \in Nat /\ counted \in Nat
    BY <1>1 DEF IntakeInv, Counts
  <2>1. CASE ProjectClaim
    BY <2>0, <2>1, NoneAssumption DEF ProjectClaim, NoProvider, Raise, Return
  <2>2. CASE Refuse
    BY <2>2, NoneAssumption DEF Refuse, NoProvider, Raise
  <2>3. CASE ModelFails
    BY <2>3, NoneAssumption DEF ModelFails, Raise
  <2>4. CASE \E r \in Replies : AskModel(r)
    <3>1. PICK r \in Replies : AskModel(r)
      BY <2>4
    <3>2. reply' # None /\ billed' = billed + 1 /\ usage' = 1 /\ counted' = counted + 1
      BY <3>1, NoneAssumption DEF AskModel, Return
    <3>3. QED
      BY <2>0, <3>2
  <2>5. QED
    BY <2>1, <2>2, <2>3, <2>4 DEF Extract
<1>2. QED
  BY <1>1, ParsedInvariance, PTL DEF Spec, UsageIsReturned
=============================================================================
