------------------------------ MODULE NerProofs ------------------------------
(***************************************************************************)
(* What holds of the detector for every window size, overlap, budget,      *)
(* field, pool and number of calls.  The pool is whole because only a      *)
(* session of the pool's own provider joins it.  Every short run of a      *)
(* field is seen whole because, as the plan advances, the runs that start  *)
(* before the next window are each inside a window already planned.        *)
(*                                                                         *)
(* And what is found is what the model said.  Of one window this is a      *)
(* lemma about its decoder: TagsDecoded, because a label has a run around  *)
(* it with one kind throughout, and SpansDecoded, because the candidates   *)
(* can be put in order and each is taken in it or covered by a better one. *)
(* The invariant carries it from the windows to the field.                 *)
(***************************************************************************)
EXTENDS NerDetector, FiniteSetTheorems, WellFoundedInduction, TLAPS

----------------------------------------------------------------------------
(* Numbers                                                                 *)

\* A set of natural numbers has a least one.
LEMMA LeastNat ==
    ASSUME NEW T \in SUBSET Nat, T # {}
    PROVE  \E x \in T : \A y \in T : x <= y
<1> DEFINE R == OpToRel(<, Nat)
<1>1. \A x, y \in Nat : <<x, y>> \in R <=> x < y
  BY DEF OpToRel
<1>2. IsWellFoundedOn(R, Nat)
  BY NatLessThanWellFounded
<1> HIDE DEF R
<1>3. PICK x \in T : \A y \in T : ~ (<<y, x>> \in R)
  BY <1>2, WFMin
<1>4. \A y \in T : ~ (y < x)
  BY <1>1, <1>3
<1> QED BY <1>4

\* What holds of 0 and passes on from each number to the next holds up to n.
LEMMA InductionUpTo ==
    ASSUME NEW n \in Nat, NEW T, 0 \in T, \A k \in 1 .. n : k - 1 \in T => k \in T
    PROVE  0 .. n \subseteq T
<1> DEFINE S == {k \in 0 .. n : k \notin T}
<1> SUFFICES ASSUME S # {} PROVE FALSE
  OBVIOUS
<1>1. PICK m \in S : \A y \in S : m <= y
  <2>1. S \in SUBSET Nat
    OBVIOUS
  <2> HIDE DEF S
  <2> QED BY <2>1, LeastNat
<1>2. m \in 1 .. n /\ m \notin T /\ m - 1 \in 0 .. n
  OBVIOUS
<1>3. m - 1 \notin S
  BY <1>1, <1>2
<1> QED BY <1>2, <1>3

\* A function defined by recursion up to n exists.
LEMMA IteratesUpTo ==
    ASSUME NEW S, NEW c \in S, NEW n \in Nat, NEW F \in [1 .. n -> [S -> S]]
    PROVE  \E g \in [0 .. n -> S] : g[0] = c /\ \A i \in 1 .. n : g[i] = F[i][g[i - 1]]
<1> DEFINE Upto(m, g) == g \in [0 .. m -> S] /\ g[0] = c /\ \A i \in 1 .. m : g[i] = F[i][g[i - 1]]
           T == {m \in 0 .. n : \E g : Upto(m, g)}
<1>1. 0 \in T
  <2>1. Upto(0, [i \in 0 .. 0 |-> c])
    OBVIOUS
  <2>2. 0 \in 0 .. n
    OBVIOUS
  <2> HIDE DEF Upto
  <2> QED BY <2>1, <2>2
<1>2. ASSUME NEW m \in 1 .. n, m - 1 \in T PROVE m \in T
  <2>1. PICK g : Upto(m - 1, g)
    BY <1>2
  <2> DEFINE h == [i \in 0 .. m |-> IF i = m THEN F[m][g[m - 1]] ELSE g[i]]
  <2>2. m - 1 \in 0 .. (m - 1) /\ F[m][g[m - 1]] \in S
    BY <2>1
  <2>3. h \in [0 .. m -> S] /\ h[0] = c
    BY <2>1, <2>2
  <2>4. ASSUME NEW i \in 1 .. m PROVE h[i] = F[i][h[i - 1]]
    <3>1. i - 1 \in 0 .. m /\ i - 1 # m /\ h[i - 1] = g[i - 1]
      OBVIOUS
    <3>2. CASE i = m
      BY <3>1, <3>2
    <3>3. CASE i # m
      BY <2>1, <3>1, <3>3
    <3> QED BY <3>2, <3>3
  <2>5. Upto(m, h)
    BY <2>3, <2>4
  <2>6. m \in 0 .. n
    OBVIOUS
  <2> HIDE DEF Upto
  <2> QED BY <2>5, <2>6
<1> HIDE DEF T
<1>3. 0 .. n \subseteq T
  BY <1>1, <1>2, InductionUpTo
<1>4. n \in T
  BY <1>3
<1> QED BY <1>4 DEF T

----------------------------------------------------------------------------
(* The planners                                                            *)

ShortRunOf(fam, f, s, e) ==
    IF fam = "tagger"
      THEN e - s <= Overlap + 1
      ELSE e - s <= WordOverlap + 1 /\ FitsBudget(f, Budget, s, e)

IsField(f) ==
    /\ f.n \in Nat
    /\ f.mass \in [0 .. f.n -> Nat]
    /\ \A i, j \in 0 .. f.n : i < j => f.mass[i] < f.mass[j]

\* A tagger's window that is not the last one holds every short run that
\* starts in it before the next window does; the last one holds them all.
LEMMA TokenWindowHolds ==
    ASSUME NEW n \in Nat, NEW t \in 0 .. n, NEW s \in Nat, NEW e \in Nat,
           CharStart(n, t) <= s, s < e, e <= n, e - s <= Overlap + 1,
           TokenEnd(n, t) = Encoded(n) \/ s < CharStart(n, t + Stride)
    PROVE  CharStart(n, t) <= s /\ e <= CharEnd(n, t)
<1> USE WindowAssumption
<1>1. CASE TokenEnd(n, t) = Encoded(n)
  BY <1>1 DEF CharEnd
<1>2. CASE TokenEnd(n, t) # Encoded(n)
  <2>1. TokenEnd(n, t) = t + Window /\ t + Window < n + 2
    BY <1>2 DEF TokenEnd, AtMost, Encoded
  <2>2. Stride = Window - Overlap
    BY DEF Stride, AtLeast
  <2>3. CharStart(n, t + Stride) = t + Window - Overlap - 1
    BY <2>1, <2>2 DEF CharStart, Offset
  <2>4. Offset(n, TokenEnd(n, t) - 1) = <<t + Window - 2, t + Window - 1>>
    BY <2>1 DEF Offset
  <2>5. CharEnd(n, t) \in Int /\ CharEnd(n, t) >= t + Window - 1
    <3>1. CharStart(n, t) \in Nat
      BY DEF CharStart, Offset
    <3> QED BY <1>2, <2>4, <3>1 DEF CharEnd, AtLeast
  <2> QED BY <1>2, <2>3, <2>5
<1> QED BY <1>1, <1>2

\* The plan of tokens goes on where there is text to see.
LEMMA TokenPlanAdvances ==
    ASSUME NEW n \in Nat, NEW t \in 0 .. n
    PROVE  /\ CharStart(n, t) \in 0 .. n /\ CharEnd(n, t) \in 0 .. n
           /\ CharStart(n, t) <= CharEnd(n, t)
           /\ TokenEnd(n, t) # Encoded(n) => t + Stride \in 0 .. n
<1> USE WindowAssumption
<1>1. CharStart(n, t) \in 0 .. n
  BY DEF CharStart, Offset
<1>2. ASSUME TokenEnd(n, t) # Encoded(n)
      PROVE  /\ CharEnd(n, t) \in 0 .. n /\ CharStart(n, t) <= CharEnd(n, t)
             /\ t + Stride \in 0 .. n
  <2>1. TokenEnd(n, t) = t + Window /\ t + Window < n + 2
    BY <1>2 DEF TokenEnd, AtMost, Encoded
  <2>2. Stride = Window - Overlap
    BY DEF Stride, AtLeast
  <2>3. Offset(n, TokenEnd(n, t) - 1) = <<t + Window - 2, t + Window - 1>>
    BY <2>1 DEF Offset
  <2> QED BY <1>1, <1>2, <2>1, <2>2, <2>3 DEF CharEnd, AtLeast
<1>3. TokenEnd(n, t) = Encoded(n) =>
        CharEnd(n, t) \in 0 .. n /\ CharStart(n, t) <= CharEnd(n, t)
  BY <1>1 DEF CharEnd
<1> QED BY <1>1, <1>2, <1>3

\* A window of words holds every short run that starts in it before the next
\* window does: the overlap sees to it where the window is longer than that,
\* and where it is not the next one starts a word later, so that only runs
\* from its first word count, and those fit the budget.
LEMMA WordWindowHolds ==
    ASSUME NEW f, IsField(f), NEW b \in Int,
           NEW lo \in 0 .. f.n, NEW hi \in lo + 1 .. f.n, IsWordEnd(f, b, lo, hi),
           NEW s \in Nat, NEW e \in Nat,
           lo <= s, s < e, e <= f.n, e - s <= WordOverlap + 1, FitsBudget(f, b, s, e),
           hi = f.n \/ s < WordNext(lo, hi)
    PROVE  e <= hi
<1> USE WindowAssumption
<1>1. CASE hi = f.n
  BY <1>1
<1>2. CASE hi # f.n /\ WordOverlap <= hi - lo - 1
  BY <1>2 DEF WordNext, AtMost
<1>3. CASE hi # f.n /\ WordOverlap > hi - lo - 1
  <2>1. s = lo
    BY <1>3 DEF WordNext, AtMost
  <2>2. SUFFICES ASSUME e > hi PROVE FALSE
    OBVIOUS
  <2>3. ~FitsBudget(f, b, lo, hi + 1)
    BY <1>3 DEF IsWordEnd
  <2>4. /\ f.mass[e] \in Nat /\ f.mass[lo] \in Nat /\ f.mass[hi + 1] \in Nat
        /\ f.mass[hi + 1] <= f.mass[e]
    BY <2>2, <1>3 DEF IsField
  <2>5. AtLeast(b, 1) \in Int
    BY DEF AtLeast
  <2>6. e # lo + 1
    BY <2>2
  <2> QED BY <2>1, <2>3, <2>4, <2>5, <2>6 DEF FitsBudget
<1> QED BY <1>1, <1>2, <1>3

LEMMA WordPlanAdvances ==
    ASSUME NEW n \in Nat, NEW lo \in 0 .. n, NEW hi \in lo + 1 .. n, hi # n
    PROVE  WordNext(lo, hi) \in 0 .. n - 1
BY WindowAssumption DEF WordNext, AtMost

----------------------------------------------------------------------------
(* The order of candidates                                                 *)

\* Before ranks the members of U: it is a strict order, and no two are equal.
Orders(U) ==
    /\ \A a \in U : ~Before(a, a)
    /\ \A a, b \in U : a # b => Before(a, b) \/ Before(b, a)
    /\ \A a, b, d \in U : Before(a, b) /\ Before(b, d) => Before(a, d)

\* What ReadingsAssumption says of one window's candidates.
IsReading(U) ==
    /\ IsFiniteSet(U)
    /\ \A s \in U :
         /\ s.start \in Nat /\ s.end \in Nat /\ s.rank \in Int /\ s.score \in Int
         /\ s = [kind |-> s.kind, rank |-> s.rank, start |-> s.start,
                 end |-> s.end, score |-> s.score]
    /\ \A s, t \in U : s.rank = t.rank => s.kind = t.kind

LEMMA CandidatesRank == ASSUME NEW U, IsReading(U) PROVE Orders(U)
<1>1. \A s \in U : s.start \in Int /\ s.end \in Int /\ s.rank \in Int /\ s.score \in Int
  BY DEF IsReading
<1>2. \A a \in U : ~Before(a, a)
  BY <1>1 DEF Before
<1>3. ASSUME NEW a \in U, NEW b \in U, a # b PROVE Before(a, b) \/ Before(b, a)
  <2>1. ~(a.start = b.start /\ a.end = b.end /\ a.rank = b.rank /\ a.score = b.score)
    <3> SUFFICES ASSUME a.start = b.start, a.end = b.end, a.rank = b.rank, a.score = b.score
                 PROVE  FALSE
      OBVIOUS
    <3>1. a.kind = b.kind
      BY DEF IsReading
    <3>2. /\ a = [kind |-> a.kind, rank |-> a.rank, start |-> a.start, end |-> a.end, score |-> a.score]
          /\ b = [kind |-> b.kind, rank |-> b.rank, start |-> b.start, end |-> b.end, score |-> b.score]
      BY DEF IsReading
    <3>3. a = b
      BY <3>1, <3>2, Zenon
    <3> QED BY <1>3, <3>3
  <2> QED BY <1>1, <2>1 DEF Before
<1>4. ASSUME NEW a \in U, NEW b \in U, NEW d \in U, Before(a, b), Before(b, d)
      PROVE  Before(a, d)
  BY <1>1, <1>4 DEF Before
<1> QED BY <1>2, <1>3, <1>4 DEF Orders

\* Of finitely many candidates one is the last.
LEMMA LastCandidate ==
    ASSUME NEW U, IsFiniteSet(U), U # {}, Orders(U)
    PROVE  \E m \in U : \A t \in U : t # m => Before(t, m)
<1> DEFINE Last(V) == \E m \in V : \A t \in V : t # m => Before(t, m)
           T == {n \in Nat : \A V \in SUBSET U : Cardinality(V) = n + 1 => Last(V)}
           n0 == Cardinality(U) - 1
<1>1. \A V \in SUBSET U : IsFiniteSet(V) /\ Cardinality(V) \in Nat
  BY FS_Subset, FS_CardinalityType
<1>2. 0 \in T
  <2>1. ASSUME NEW V \in SUBSET U, Cardinality(V) = 1 PROVE Last(V)
    <3>1. PICK x : V = {x}
      BY <1>1, <2>1, FS_Singleton
    <3> QED BY <3>1
  <2> HIDE DEF Last
  <2> QED BY <2>1
<1>3. ASSUME NEW k \in 1 .. n0, k - 1 \in T PROVE k \in T
  <2>1. ASSUME NEW V \in SUBSET U, Cardinality(V) = k + 1 PROVE Last(V)
    <3>1. PICK x \in V : TRUE
      <4>1. V # {}
        BY <2>1, FS_EmptySet
      <4> QED BY <4>1
    <3>2. Cardinality(V \ {x}) = k - 1 + 1 /\ V \ {x} \in SUBSET U
      <4>1. Cardinality(V \ {x}) = Cardinality(V) - 1
        BY <1>1, FS_RemoveElement
      <4> QED BY <2>1, <4>1
    <3>3. Last(V \ {x})
      <4> HIDE DEF Last
      <4> QED BY <1>3, <3>2
    <3>4. PICK m \in V \ {x} : \A t \in V \ {x} : t # m => Before(t, m)
      BY <3>3
    <3>5. CASE Before(m, x)
      <4>1. \A t \in V : t # x => Before(t, x)
        BY <3>1, <3>4, <3>5 DEF Orders
      <4> QED BY <4>1
    <3>6. CASE Before(x, m)
      <4>1. \A t \in V : t # m => Before(t, m)
        BY <3>4, <3>6
      <4> QED BY <4>1
    <3> QED BY <3>1, <3>4, <3>5, <3>6 DEF Orders
  <2> HIDE DEF Last
  <2> QED BY <2>1
<1>4. n0 \in Nat /\ Cardinality(U) = n0 + 1
  <2>1. Cardinality(U) \in Nat /\ Cardinality(U) # 0
    BY <1>1, FS_EmptySet
  <2> QED BY <2>1
<1> HIDE DEF T, n0
<1>5. 0 .. n0 \subseteq T
  BY <1>2, <1>3, <1>4, InductionUpTo
<1>6. n0 \in T /\ U \in SUBSET U
  BY <1>4, <1>5
<1> HIDE DEF Last
<1>7. Last(U)
  BY <1>4, <1>6 DEF T
<1> QED BY <1>7 DEF Last

\* q has the members of U, the best first.
InOrder(q, n, U) ==
    /\ q \in [1 .. n -> U]
    /\ \A i, j \in 1 .. n : i < j => Before(q[i], q[j])
    /\ \A s \in U : \E i \in 1 .. n : q[i] = s

LEMMA CandidatesInOrder ==
    ASSUME NEW U, IsFiniteSet(U), Orders(U)
    PROVE  InOrder(Ranked(U), Cardinality(U), U)
<1> DEFINE Sorted(V, n) == \E q : InOrder(q, n, V)
           T == {n \in Nat : \A V \in SUBSET U : Cardinality(V) = n => Sorted(V, n)}
           n0 == Cardinality(U)
<1>1. \A V \in SUBSET U : IsFiniteSet(V) /\ Cardinality(V) \in Nat
  BY FS_Subset, FS_CardinalityType
<1>2. 0 \in T
  <2>1. ASSUME NEW V \in SUBSET U, Cardinality(V) = 0 PROVE Sorted(V, 0)
    <3>1. V = {}
      BY <1>1, <2>1, FS_EmptySet
    <3>2. InOrder([i \in 1 .. 0 |-> 0], 0, V)
      BY <3>1 DEF InOrder
    <3> QED BY <3>2
  <2> HIDE DEF Sorted
  <2> QED BY <2>1
<1>3. ASSUME NEW k \in 1 .. n0, k - 1 \in T PROVE k \in T
  <2>1. ASSUME NEW V \in SUBSET U, Cardinality(V) = k PROVE Sorted(V, k)
    <3>1. V # {} /\ Orders(V) /\ IsFiniteSet(V)
      BY <1>1, <2>1, FS_EmptySet DEF Orders
    <3>2. PICK m \in V : \A t \in V : t # m => Before(t, m)
      BY <3>1, LastCandidate
    <3>3. Cardinality(V \ {m}) = k - 1 /\ V \ {m} \in SUBSET U
      BY <1>1, <2>1, <3>2, FS_RemoveElement
    <3>4. PICK q : InOrder(q, k - 1, V \ {m})
      <4>1. Sorted(V \ {m}, k - 1)
        <5> HIDE DEF Sorted
        <5> QED BY <1>3, <3>3
      <4> QED BY <4>1
    <3> DEFINE p == [i \in 1 .. k |-> IF i = k THEN m ELSE q[i]]
    <3>5. \A i \in 1 .. k : (i = k /\ p[i] = m) \/ (i \in 1 .. (k - 1) /\ p[i] = q[i])
      OBVIOUS
    <3>6. \A i \in 1 .. (k - 1) : q[i] \in V /\ q[i] # m /\ Before(q[i], m)
      BY <3>2, <3>4 DEF InOrder
    <3>7. p \in [1 .. k -> V]
      BY <3>2, <3>6
    <3>8. ASSUME NEW i \in 1 .. k, NEW j \in 1 .. k, i < j PROVE Before(p[i], p[j])
      <4>1. i \in 1 .. (k - 1) /\ p[i] = q[i]
        BY <3>8
      <4>2. CASE j = k
        BY <3>6, <4>1, <4>2
      <4>3. CASE j # k
        <5>1. j \in 1 .. (k - 1) /\ p[j] = q[j]
          BY <4>3
        <5> HIDE DEF p
        <5> QED BY <3>4, <3>8, <4>1, <5>1 DEF InOrder
      <4> QED BY <4>2, <4>3
    <3>9. ASSUME NEW s \in V PROVE \E i \in 1 .. k : p[i] = s
      <4>1. CASE s = m
        BY <4>1
      <4>2. CASE s # m
        <5>1. PICK i \in 1 .. (k - 1) : q[i] = s
          BY <3>4, <4>2 DEF InOrder
        <5>2. i \in 1 .. k /\ p[i] = s
          BY <5>1
        <5> QED BY <5>2
      <4> QED BY <4>1, <4>2
    <3> HIDE DEF p
    <3>10. InOrder(p, k, V)
      BY <3>7, <3>8, <3>9 DEF InOrder
    <3> QED BY <3>10
  <2> HIDE DEF Sorted
  <2> QED BY <2>1
<1>4. n0 \in Nat
  BY <1>1
<1> HIDE DEF T
<1>5. 0 .. n0 \subseteq T
  <2> HIDE DEF n0
  <2> QED BY <1>2, <1>3, <1>4, InductionUpTo
<1>6. Sorted(U, n0)
  <2>1. n0 \in T /\ U \in SUBSET U
    BY <1>4, <1>5
  <2> HIDE DEF Sorted
  <2> QED BY <2>1 DEF T
<1>7. PICK q : InOrder(q, n0, U)
  BY <1>6
<1> DEFINE Is(x) == /\ \A i, j \in DOMAIN x : i < j => Before(x[i], x[j])
                    /\ \A s \in U : \E i \in DOMAIN x : x[i] = s
<1>8. q \in [1 .. n0 -> U] /\ Is(q)
  BY <1>7 DEF InOrder
<1>9. Ranked(U) = CHOOSE x \in [1 .. n0 -> U] : Is(x)
  BY DEF Ranked
<1>10. Ranked(U) \in [1 .. n0 -> U] /\ Is(Ranked(U))
  <2> HIDE DEF Is, n0
  <2> QED BY <1>8, <1>9
<1> QED BY <1>10 DEF InOrder

\* What is taken of candidates in order: each is taken, or a better one that
\* covers a word of it.
LEMMA GreedyTakes ==
    ASSUME NEW U, NEW n \in Nat, NEW q, InOrder(q, n, U)
    PROVE  /\ Greedy(q, n) \subseteq U
           /\ \A s \in U : \E t \in Greedy(q, n) : t = s \/ (Before(t, s) /\ Overlapping(t, s))
<1> DEFINE F == [i \in 1 .. n |-> [K \in SUBSET U |->
                   IF \E k \in K : Overlapping(k, q[i]) THEN K ELSE K \cup {q[i]}]]
<1>1. q \in [1 .. n -> U]
  BY DEF InOrder
<1>2. F \in [1 .. n -> [SUBSET U -> SUBSET U]]
  BY <1>1
<1>3. PICK g \in [0 .. n -> SUBSET U] :
        g[0] = {} /\ \A i \in 1 .. n : g[i] = F[i][g[i - 1]]
  <2> DEFINE S == SUBSET U
  <2>1. F \in [1 .. n -> [S -> S]] /\ {} \in S
    BY <1>2
  <2> HIDE DEF F, S
  <2>2. PICK none \in S, f \in [1 .. n -> [S -> S]] : none = {} /\ f = F
    BY <2>1
  <2>3. PICK g \in [0 .. n -> S] : g[0] = none /\ \A i \in 1 .. n : g[i] = f[i][g[i - 1]]
    BY IteratesUpTo
  <2>4. g \in [0 .. n -> SUBSET U]
    BY DEF S
  <2> QED BY <2>2, <2>3, <2>4
<1> DEFINE Next1(x) == [i \in 0 .. n |->
             IF i = 0 THEN {}
             ELSE IF \E k \in x[i - 1] : Overlapping(k, q[i])
                    THEN x[i - 1] ELSE x[i - 1] \cup {q[i]}]
           taken == CHOOSE x : x = Next1(x)
<1>4. g = Next1(g)
  <2>1. ASSUME NEW i \in 1 .. n PROVE g[i] = Next1(g)[i]
    <3>1. i - 1 \in 0 .. n /\ i # 0 /\ i \in 0 .. n
      OBVIOUS
    <3> QED BY <1>3, <3>1
  <2>2. g[0] = Next1(g)[0]
    BY <1>3
  <2>3. \A i \in 0 .. n : g[i] = Next1(g)[i]
    <3>1. \A i \in 0 .. n : i = 0 \/ i \in 1 .. n
      OBVIOUS
    <3> HIDE DEF Next1
    <3> QED BY <2>1, <2>2, <3>1
  <2>4. DOMAIN g = 0 .. n /\ g = [i \in 0 .. n |-> g[i]]
    BY <1>3
  <2> QED BY <2>3, <2>4
<1>5. taken = Next1(taken)
  <2> HIDE DEF Next1
  <2> QED BY <1>4
<1>6. Greedy(q, n) = taken[n]
  BY DEF Greedy
<1> HIDE DEF taken
<1>7. taken[0] = {} /\ \A i \in 1 .. n : taken[i] =
        IF \E k \in taken[i - 1] : Overlapping(k, q[i])
          THEN taken[i - 1] ELSE taken[i - 1] \cup {q[i]}
  <2>1. 0 \in 0 .. n /\ \A i \in 1 .. n : i \in 0 .. n /\ i # 0
    OBVIOUS
  <2> QED BY <1>5, <2>1
<1> DEFINE T == {i \in 0 .. n :
              /\ taken[i] \subseteq {q[j] : j \in 1 .. i}
              /\ \A j \in 1 .. i : \E t \in taken[i] :
                   t = q[j] \/ (Before(t, q[j]) /\ Overlapping(t, q[j]))}
<1>8. 0 \in T
  BY <1>7
<1>9. ASSUME NEW i \in 1 .. n, i - 1 \in T PROVE i \in T
  <2>1. /\ taken[i - 1] \subseteq {q[j] : j \in 1 .. (i - 1)}
        /\ \A j \in 1 .. (i - 1) : \E t \in taken[i - 1] :
             t = q[j] \/ (Before(t, q[j]) /\ Overlapping(t, q[j]))
    BY <1>9
  <2>2. taken[i - 1] \subseteq taken[i] /\ taken[i] \subseteq taken[i - 1] \cup {q[i]}
    BY <1>7
  <2>3. taken[i] \subseteq {q[j] : j \in 1 .. i}
    <3>1. \A j \in 1 .. (i - 1) : j \in 1 .. i
      OBVIOUS
    <3>2. i \in 1 .. i
      OBVIOUS
    <3> QED BY <2>1, <2>2, <3>1, <3>2
  <2>4. \E t \in taken[i] : t = q[i] \/ (Before(t, q[i]) /\ Overlapping(t, q[i]))
    <3>1. CASE \E k \in taken[i - 1] : Overlapping(k, q[i])
      <4>1. PICK k \in taken[i - 1] : Overlapping(k, q[i])
        BY <3>1
      <4>2. PICK j \in 1 .. (i - 1) : k = q[j]
        BY <2>1
      <4>3. j \in 1 .. n /\ j < i
        OBVIOUS
      <4>4. Before(k, q[i])
        BY <4>2, <4>3 DEF InOrder
      <4> QED BY <2>2, <4>1, <4>4
    <3>2. CASE ~ \E k \in taken[i - 1] : Overlapping(k, q[i])
      BY <1>7, <3>2
    <3> QED BY <3>1, <3>2
  <2>5. ASSUME NEW j \in 1 .. i PROVE \E t \in taken[i] :
             t = q[j] \/ (Before(t, q[j]) /\ Overlapping(t, q[j]))
    <3>1. j = i \/ j \in 1 .. (i - 1)
      OBVIOUS
    <3> QED BY <2>1, <2>2, <2>4, <3>1
  <2>6. i \in 0 .. n
    OBVIOUS
  <2> QED BY <2>3, <2>5, <2>6
<1> HIDE DEF T
<1>10. n \in T
  <2>1. 0 .. n \subseteq T
    BY <1>8, <1>9, InductionUpTo
  <2> QED BY <2>1
<1>11. taken[n] \subseteq U
  BY <1>1, <1>10 DEF T
<1>12. ASSUME NEW s \in U
       PROVE  \E t \in taken[n] : t = s \/ (Before(t, s) /\ Overlapping(t, s))
  <2>1. PICK j \in 1 .. n : q[j] = s
    BY DEF InOrder
  <2> QED BY <1>10, <2>1 DEF T
<1> QED BY <1>6, <1>11, <1>12

SpanOf(s) == [kind |-> s.kind, start |-> s.start, end |-> s.end]

\* What the decoder makes of candidates (decode_spans).
LEMMA SpansDecoded ==
    ASSUME NEW len, NEW reading, IsReading(reading)
    PROVE  /\ \A s \in reading : Usable(len, s) =>
                \E t \in reading :
                  /\ Usable(len, t) /\ SpanOf(t) \in DecodeSpans(len, reading)
                  /\ t = s \/ (Before(t, s) /\ Overlapping(t, s))
           /\ \A x \in DecodeSpans(len, reading) :
                \E s \in reading : Usable(len, s) /\ x = SpanOf(s)
<1> DEFINE U == {s \in reading : Usable(len, s)}
           kept == Greedy(Ranked(U), Cardinality(U))
<1>1. U \subseteq reading /\ \A s \in U : Usable(len, s)
  OBVIOUS
<1>2. \A s \in reading : Usable(len, s) => s \in U
  OBVIOUS
<1>3. DecodeSpans(len, reading) = {SpanOf(s) : s \in kept}
  BY DEF DecodeSpans, SpanOf
<1> HIDE DEF U
<1>4. IsFiniteSet(U) /\ Orders(U) /\ Cardinality(U) \in Nat
  <2>1. IsFiniteSet(reading) /\ Orders(reading)
    BY CandidatesRank DEF IsReading
  <2>2. IsFiniteSet(U)
    BY <1>1, <2>1, FS_Subset
  <2>3. Orders(U)
    BY <1>1, <2>1 DEF Orders
  <2> QED BY <2>2, <2>3, FS_CardinalityType
<1>5. InOrder(Ranked(U), Cardinality(U), U)
  BY <1>4, CandidatesInOrder
<1>6. /\ kept \subseteq U
      /\ \A s \in U : \E t \in kept : t = s \/ (Before(t, s) /\ Overlapping(t, s))
  <2>1. PICK q, n : q = Ranked(U) /\ n = Cardinality(U)
    OBVIOUS
  <2>2. n \in Nat /\ InOrder(q, n, U)
    BY <1>4, <1>5, <2>1
  <2> QED BY <2>1, <2>2, GreedyTakes
<1> HIDE DEF kept
<1> QED BY <1>1, <1>2, <1>3, <1>6

----------------------------------------------------------------------------
(* Runs of labels                                                          *)

\* A run has one kind.
LEMMA OneKind ==
    ASSUME NEW reading, NEW s \in Int, NEW e \in Int, \A t \in s + 1 .. e : Extends(reading, t)
    PROVE  \A t \in s .. e : LabelKind(reading[t]) = LabelKind(reading[s])
<1> SUFFICES ASSUME NEW t \in s .. e PROVE LabelKind(reading[t]) = LabelKind(reading[s])
  OBVIOUS
<1> DEFINE T == {k \in 0 .. (t - s) : LabelKind(reading[s + k]) = LabelKind(reading[s])}
           n == t - s
<1>1. 0 \in T
  <2>1. s + 0 = s /\ 0 \in 0 .. (t - s)
    OBVIOUS
  <2> QED BY <2>1
<1>2. ASSUME NEW k \in 1 .. n, k - 1 \in T PROVE k \in T
  <2>1. s + k \in s + 1 .. e /\ s + k - 1 = s + (k - 1) /\ k \in 0 .. (t - s)
    OBVIOUS
  <2>2. LabelKind(reading[s + k]) = LabelKind(reading[s + k - 1])
    BY <2>1 DEF Extends
  <2> QED BY <1>2, <2>1, <2>2
<1>3. n \in Nat
  OBVIOUS
<1> HIDE DEF T
<1>4. 0 .. n \subseteq T
  <2> HIDE DEF n
  <2> QED BY <1>1, <1>2, <1>3, InductionUpTo
<1>5. t - s \in T
  BY <1>3, <1>4
<1>6. s + (t - s) = t
  OBVIOUS
<1> QED BY <1>5, <1>6 DEF T

\* A labelled token is in a run.
LEMMA RunAround ==
    ASSUME NEW len \in Nat, NEW reading, NEW p \in 1 .. len, LabelKind(reading[p]) # "none"
    PROVE  \E s \in 0 .. p, e \in p .. len + 1 : IsRun(len, reading, s, e)
<1> DEFINE S == {k \in 0 .. p : ~Extends(reading, p - k)}
           E == {k \in 0 .. (len + 1 - p) : p + k = len + 1 \/ ~Extends(reading, p + k + 1)}
<1>1. S \in SUBSET Nat /\ S # {}
  <2>1. ~Extends(reading, p - p) /\ p \in 0 .. p
    BY DEF Extends
  <2> QED BY <2>1
<1>2. E \in SUBSET Nat /\ E # {}
  <2>1. PICK k : k = len + 1 - p
    OBVIOUS
  <2>2. k \in 0 .. k /\ p + k = len + 1
    BY <2>1
  <2>3. k \in E
    BY <2>1, <2>2
  <2>4. E \in SUBSET Nat
    OBVIOUS
  <2> HIDE DEF E
  <2> QED BY <2>3, <2>4
<1> DEFINE Least(m, T) == m \in T /\ \A y \in T : m <= y
<1>3. PICK i : Least(i, S)
  <2> HIDE DEF S
  <2> QED BY <1>1, LeastNat
<1>4. PICK j : Least(j, E)
  <2> HIDE DEF E
  <2> QED BY <1>2, LeastNat
<1>5. PICK s, e : s = p - i /\ e = p + j
  OBVIOUS
<1>6. s \in 0 .. p /\ e \in p .. len + 1 /\ p \in Int /\ i \in Int /\ j \in Int
  BY <1>3, <1>4, <1>5
<1>7. ~Extends(reading, s) /\ (e = len + 1 \/ ~Extends(reading, e + 1))
  BY <1>3, <1>4, <1>5
<1>8. ASSUME NEW t \in s + 1 .. p PROVE Extends(reading, t)
  <2>1. p - t \in 0 .. p /\ ~(i <= p - t) /\ p - (p - t) = t
    BY <1>5, <1>6
  <2> QED BY <1>3, <2>1
<1>9. ASSUME NEW t \in p + 1 .. e PROVE Extends(reading, t)
  <2>1. /\ t - 1 - p \in 0 .. (len + 1 - p) /\ ~(j <= t - 1 - p)
        /\ p + (t - 1 - p) + 1 = t
    BY <1>5, <1>6
  <2> QED BY <1>4, <2>1
<1>10. \A t \in s + 1 .. e : Extends(reading, t)
  <2>1. \A t \in s + 1 .. e : t \in s + 1 .. p \/ t \in p + 1 .. e
    BY <1>6
  <2> QED BY <1>8, <1>9, <2>1
<1>11. LabelKind(reading[s]) = LabelKind(reading[p])
  <2>1. p \in s .. e /\ s \in Int /\ e \in Int
    BY <1>6
  <2> QED BY <1>10, <2>1, OneKind
<1> HIDE DEF S, E
<1>12. s <= e
  BY <1>6
<1>13. IsRun(len, reading, s, e)
  BY <1>7, <1>10, <1>11, <1>12 DEF IsRun
<1> QED BY <1>6, <1>13

\* The slice of a run that ends before the closing token.
LEMMA SliceOfRun ==
    ASSUME NEW len \in Nat, NEW s \in 0 .. len + 1, NEW e \in 0 .. len + 1, s <= e
    PROVE  /\ Offset(len, s)[1] \in Nat /\ Offset(len, e)[2] \in Nat
           /\ Offset(len, s)[1] < Offset(len, e)[2] => e \in 1 .. len
           /\ e \in 1 .. len =>
                /\ Offset(len, s)[1] = (IF s = 0 THEN 0 ELSE s - 1)
                /\ Offset(len, e)[2] = e
BY DEF Offset

\* What the decoder makes of labels (decode_entities).
LEMMA TagsDecoded ==
    ASSUME NEW len \in Nat, NEW reading
    PROVE  /\ \A p \in 1 .. len :
                /\ reading[p].kind # "none"
                /\ ~ \A q \in p + 1 .. len + 1 :
                        reading[q].kind = reading[p].kind /\ ~reading[q].begin
                => \E x \in DecodeTags(len, reading) :
                     /\ x.kind = reading[p].kind
                     /\ x.start \in Nat /\ x.end \in 0 .. len
                     /\ x.start < p /\ p <= x.end
                     /\ \A q \in Int : x.start + 1 < q /\ q <= x.end => ~reading[q].begin
           /\ \A x \in DecodeTags(len, reading) :
                /\ x.start \in Nat /\ x.end \in 0 .. len
                /\ \A p \in x.start + 1 .. x.end : reading[p].kind = x.kind
<1> DEFINE Cut(s, e) == [kind |-> LabelKind(reading[s]),
                         start |-> Offset(len, s)[1], end |-> Offset(len, e)[2]]
           D == DecodeTags(len, reading)
<1>1. \A x \in D : \E s, e \in 0 .. len + 1 :
        IsRun(len, reading, s, e) /\ x = Cut(s, e) /\ x.start < x.end
  BY DEF DecodeTags
<1>2. \A s, e \in 0 .. len + 1 :
        IsRun(len, reading, s, e) /\ Cut(s, e).start < Cut(s, e).end => Cut(s, e) \in D
  <2> SUFFICES ASSUME NEW s \in 0 .. len + 1, NEW e \in 0 .. len + 1,
                      IsRun(len, reading, s, e), Cut(s, e).start < Cut(s, e).end
               PROVE  Cut(s, e) \in D
    OBVIOUS
  <2> DEFINE runs == {r \in (0 .. len + 1) \X (0 .. len + 1) : IsRun(len, reading, r[1], r[2])}
  <2>1. <<s, e>> \in runs /\ <<s, e>>[1] = s /\ <<s, e>>[2] = e
    OBVIOUS
  <2>2. D = {x \in {Cut(r[1], r[2]) : r \in runs} : x.start < x.end}
    BY DEF DecodeTags
  <2> HIDE DEF runs, D
  <2>3. PICK x : x = Cut(s, e)
    OBVIOUS
  <2>4. x \in {Cut(r[1], r[2]) : r \in runs}
    BY <2>1, <2>3
  <2> QED BY <2>2, <2>3, <2>4
<1> HIDE DEF D
<1>3. ASSUME NEW p \in 1 .. len, reading[p].kind # "none",
             ~ \A q \in p + 1 .. len + 1 :
                 reading[q].kind = reading[p].kind /\ ~reading[q].begin
      PROVE  \E x \in D :
               /\ x.kind = reading[p].kind
               /\ x.start \in Nat /\ x.end \in 0 .. len
               /\ x.start < p /\ p <= x.end
               /\ \A q \in Int : x.start + 1 < q /\ q <= x.end => ~reading[q].begin
  <2>1. PICK s \in 0 .. p, e \in p .. len + 1 : IsRun(len, reading, s, e)
    BY <1>3, RunAround DEF LabelKind
  <2>2. \A t \in s + 1 .. e : Extends(reading, t)
    BY <2>1 DEF IsRun
  <2>3. e # len + 1
    <3> SUFFICES ASSUME e = len + 1 PROVE FALSE
      OBVIOUS
    <3>1. \A t \in p + 1 .. e : Extends(reading, t)
      BY <2>2
    <3>2. \A t \in p .. e : LabelKind(reading[t]) = LabelKind(reading[p])
      <4>1. p \in Int /\ e \in Int
        OBVIOUS
      <4> QED BY <3>1, <4>1, OneKind
    <3>3. \A q \in p + 1 .. len + 1 : reading[q].kind = reading[p].kind /\ ~reading[q].begin
      BY <3>1, <3>2 DEF Extends, LabelKind, IsBegin
    <3> QED BY <1>3, <3>3
  <2>4. /\ s \in 0 .. len + 1 /\ e \in 0 .. len + 1 /\ s <= e /\ e \in 1 .. len
        /\ s \in Int /\ e \in Int /\ p \in s .. e
    BY <2>3
  <2>5. PICK x : x = Cut(s, e)
    OBVIOUS
  <2>6. x.kind = reading[s].kind /\ x.start = (IF s = 0 THEN 0 ELSE s - 1) /\ x.end = e
    BY <2>4, <2>5, SliceOfRun DEF LabelKind
  <2>7. x.start \in Nat /\ x.end \in 0 .. len /\ x.start < p /\ p <= x.end
    BY <2>4, <2>6
  <2>8. x.start < x.end
    BY <2>7
  <2>9. x \in D
    BY <1>2, <2>1, <2>4, <2>5, <2>8
  <2>10. x.kind = reading[p].kind
    BY <2>2, <2>4, <2>6, OneKind DEF LabelKind
  <2>11. ASSUME NEW q \in Int, x.start + 1 < q, q <= x.end PROVE ~reading[q].begin
    <3>1. q \in s + 1 .. e
      BY <2>4, <2>6, <2>11
    <3> QED BY <2>2, <3>1 DEF Extends, IsBegin
  <2> QED BY <2>7, <2>9, <2>10, <2>11
<1>4. ASSUME NEW x \in D
      PROVE  /\ x.start \in Nat /\ x.end \in 0 .. len
             /\ \A p \in x.start + 1 .. x.end : reading[p].kind = x.kind
  <2>1. PICK s \in 0 .. len + 1, e \in 0 .. len + 1 :
          IsRun(len, reading, s, e) /\ x = Cut(s, e) /\ x.start < x.end
    BY <1>1
  <2>2. s <= e /\ \A t \in s + 1 .. e : Extends(reading, t)
    BY <2>1 DEF IsRun
  <2>3. e \in 1 .. len
    BY <2>1, <2>2, SliceOfRun
  <2>4. x.kind = reading[s].kind /\ x.start = (IF s = 0 THEN 0 ELSE s - 1) /\ x.end = e
    BY <2>1, <2>2, <2>3, SliceOfRun DEF LabelKind
  <2>5. x.start \in Nat /\ x.end \in 0 .. len
    BY <2>3, <2>4
  <2>6. ASSUME NEW p \in x.start + 1 .. x.end PROVE reading[p].kind = x.kind
    <3>1. p \in s .. e /\ s \in Int /\ e \in Int
      BY <2>4
    <3> QED BY <2>2, <2>4, <3>1, OneKind DEF LabelKind
  <2> QED BY <2>5, <2>6
<1> QED BY <1>3, <1>4 DEF D

----------------------------------------------------------------------------
(* The invariant                                                           *)

\* The cut the next window of the plan starts at.
NextCut(fam, r) == IF fam = "tagger" THEN CharStart(r.field.n, r.from) ELSE r.from

\* Every short run that starts before cut k is whole in one of ws.
SeenBefore(fam, r, ws, k) ==
    \A s, e \in 0 .. r.field.n :
      s < e /\ ShortRunOf(fam, r.field, s, e) /\ s < k =>
        \E h \in ws : h.lo <= s /\ e <= h.hi

\* The windows a call has run, and the one it is about to.
SeenAndCurrent(r) == r.heard \cup {[lo |-> r.lo, hi |-> r.hi]}

InWindow == {"window", "waiting", "running"}

\* A record with the components of a call, whatever their types.
Shape(r) ==
    r \in [field : {r.field}, phase : {r.phase}, from : {r.from}, lo : {r.lo},
           hi : {r.hi}, last : {r.last}, slot : {r.slot}, heard : {r.heard},
           found : {r.found}, answer : {r.answer}, crashed : {r.crashed}]

Planning(fam, r) ==
    /\ r.from \in 0 .. r.field.n
    /\ fam # "tagger" => r.from < r.field.n

DecodeOf(fam, len, reading) ==
    IF fam = "tagger" THEN DecodeTags(len, reading) ELSE DecodeSpans(len, reading)

\* A window of the field, and what the model may have said of it.
HeardOf(fam, f, h) ==
    /\ h.lo \in 0 .. f.n /\ h.hi \in h.lo .. f.n
    /\ h.reading \in Readings(fam, f, h.lo, h.hi)

\* Its entities, in the field.
EntitiesOf(fam, h) == Shift(DecodeOf(fam, h.hi - h.lo, h.reading), h.lo)

FoundGood(fam, r) ==
    /\ r.field \in Fields
    /\ r.phase \in InWindow => r.lo \in 0 .. r.field.n /\ r.hi \in r.lo .. r.field.n
    /\ \A h \in r.heard : HeardOf(fam, r.field, h) /\ EntitiesOf(fam, h) \subseteq r.found
    /\ \A x \in r.found : \E h \in r.heard : x \in EntitiesOf(fam, h)

\* A step of a call that hears nothing.
LEMMA NothingHeard ==
    ASSUME NEW fam, NEW r, FoundGood(fam, r),
           NEW q, q.field = r.field, q.heard = r.heard, q.found = r.found,
           q.phase \in InWindow => q.lo \in 0 .. r.field.n /\ q.hi \in q.lo .. r.field.n
    PROVE  FoundGood(fam, q)
BY DEF FoundGood

\* A window is heard, and its entities are found.
LEMMA WindowHeard ==
    ASSUME NEW fam, NEW r, FoundGood(fam, r), NEW h, HeardOf(fam, r.field, h),
           NEW q, q.field = r.field, q.heard = r.heard \cup {h},
           q.found = r.found \cup EntitiesOf(fam, h), q.phase \notin InWindow
    PROVE  FoundGood(fam, q)
BY DEF FoundGood

CallGood(fam, r) ==
    /\ Shape(r)
    /\ IsField(r.field)
    /\ FoundGood(fam, r)
    /\ r.phase = "called" => r.from = 0 /\ r.answer = "none"
    /\ r.phase = "plan" =>
         r.answer = "none" /\ Planning(fam, r) /\ SeenBefore(fam, r, r.heard, NextCut(fam, r))
    /\ r.phase \in InWindow =>
         /\ r.answer = "none"
         /\ r.last \in BOOLEAN
         /\ ~r.last =>
              Planning(fam, r) /\ SeenBefore(fam, r, SeenAndCurrent(r), NextCut(fam, r))
         /\ r.last => SeenBefore(fam, r, SeenAndCurrent(r), r.field.n)
    /\ r.answer = "entities" => SeenBefore(fam, r, r.heard, r.field.n)
    /\ r.answer = "panicked" => r.crashed

CallsGood ==
    /\ family \in {"tagger", "gliner"}
    /\ DOMAIN call = Calls /\ call = [c \in Calls |-> call[c]]
    /\ \A c \in Calls : CallGood(family, call[c])

----------------------------------------------------------------------------
(* What one step of a call does to its record                              *)

LEMMA CallMoves ==
    ASSUME NEW c \in Calls, CallsGood, NEW r, CallGood(family, r),
           call' = [call EXCEPT ![c] = r], UNCHANGED family
    PROVE  CallsGood'
<1>1. \A d \in Calls : call'[d] = IF d = c THEN r ELSE call[d]
  BY DEF CallsGood
<1>2. \A d \in Calls : CallGood(family, call'[d])
  BY <1>1 DEF CallsGood
<1>3. DOMAIN call' = Calls /\ call' = [d \in Calls |-> call'[d]]
  BY DEF CallsGood
<1> QED BY <1>2, <1>3 DEF CallsGood

\* An answer other than entities or a panic ends a call.
LEMMA AnswerGood ==
    ASSUME NEW fam, NEW r, CallGood(fam, r), NEW what, what # "entities", what # "panicked"
    PROVE  CallGood(fam, [r EXCEPT !.phase = "done", !.answer = what])
<1> DEFINE q == [r EXCEPT !.phase = "done", !.answer = what]
<1>0. Shape(r)
  BY DEF CallGood
<1>1. /\ Shape(q) /\ q.field = r.field /\ q.phase = "done" /\ q.answer = what
      /\ q.heard = r.heard /\ q.found = r.found
  <2>1. q \in [field : {r.field}, phase : {"done"}, from : {r.from}, lo : {r.lo},
                hi : {r.hi}, last : {r.last}, slot : {r.slot}, heard : {r.heard},
                found : {r.found}, answer : {what}, crashed : {r.crashed}]
    BY <1>0 DEF Shape
  <2> QED BY <2>1 DEF Shape
<1> HIDE DEF q
<1>2. FoundGood(fam, q)
  BY <1>1, NothingHeard DEF CallGood, InWindow
<1>3. CallGood(fam, q)
  BY <1>1, <1>2 DEF CallGood, InWindow
<1> QED BY <1>3 DEF q

\* A step within a window: neither the window nor what was heard changes.
LEMMA WindowGood ==
    ASSUME NEW fam, NEW r, CallGood(fam, r), r.phase \in InWindow,
           NEW q, Shape(q), q.phase \in InWindow,
           q.field = r.field, q.from = r.from, q.lo = r.lo, q.hi = r.hi, q.last = r.last,
           q.heard = r.heard, q.found = r.found, q.answer = r.answer, q.crashed = r.crashed
    PROVE  CallGood(fam, q)
<1>1. FoundGood(fam, q)
  BY DEF CallGood, FoundGood
<1> QED BY <1>1 DEF CallGood, InWindow, Planning, SeenBefore, SeenAndCurrent, NextCut

\* What was planned and seen of a window that has been run counts as heard.
LEMMA HeardGood ==
    ASSUME NEW fam, NEW r, NEW q, NEW h, NEW k,
           SeenBefore(fam, r, SeenAndCurrent(r), k),
           h.lo = r.lo, h.hi = r.hi, q.field = r.field, q.heard = r.heard \cup {h}
    PROVE  SeenBefore(fam, q, q.heard, k)
<1> SUFFICES ASSUME NEW s \in 0 .. r.field.n, NEW e \in 0 .. r.field.n,
                    s < e, ShortRunOf(fam, r.field, s, e), s < k
             PROVE  \E x \in q.heard : x.lo <= s /\ e <= x.hi
  BY DEF SeenBefore
<1>1. PICK x \in SeenAndCurrent(r) : x.lo <= s /\ e <= x.hi
  BY DEF SeenBefore
<1>2. CASE x \in r.heard
  BY <1>1, <1>2
<1>3. CASE x = [lo |-> r.lo, hi |-> r.hi]
  BY <1>1, <1>3
<1> QED BY <1>1, <1>2, <1>3 DEF SeenAndCurrent

\* A newly planned window takes up the runs between this cut and the next.
LEMMA PlannedGood ==
    ASSUME NEW fam, NEW r, CallGood(fam, r), r.phase = "plan",
           NEW q, Shape(q), q.phase = "window", q.last \in BOOLEAN,
           q.field = r.field, q.heard = r.heard, q.found = r.found, q.answer = r.answer,
           q.lo \in 0 .. r.field.n, q.hi \in q.lo .. r.field.n,
           ~q.last => Planning(fam, q) /\ NextCut(fam, q) \in Int,
           NextCut(fam, r) \in Int,
           \A s, e \in 0 .. r.field.n :
             s < e /\ ShortRunOf(fam, r.field, s, e) /\ NextCut(fam, r) <= s
             /\ (q.last \/ s < NextCut(fam, q)) => q.lo <= s /\ e <= q.hi
    PROVE  CallGood(fam, q)
<1>1. IsField(r.field) /\ r.answer = "none" /\ SeenBefore(fam, r, r.heard, NextCut(fam, r))
  BY DEF CallGood
<1>2. ASSUME NEW k, q.last \/ k = NextCut(fam, q)
      PROVE  SeenBefore(fam, q, SeenAndCurrent(q), k)
  <2> SUFFICES ASSUME NEW s \in 0 .. q.field.n, NEW e \in 0 .. q.field.n,
                      s < e, ShortRunOf(fam, q.field, s, e), s < k
               PROVE  \E x \in SeenAndCurrent(q) : x.lo <= s /\ e <= x.hi
    BY DEF SeenBefore
  <2>1. CASE s < NextCut(fam, r)
    BY <1>1, <2>1 DEF SeenBefore, SeenAndCurrent
  <2>2. CASE ~(s < NextCut(fam, r))
    <3>1. q.lo <= s /\ e <= q.hi
      BY <1>1, <1>2, <2>2 DEF IsField
    <3>2. [lo |-> q.lo, hi |-> q.hi] \in SeenAndCurrent(q)
      BY DEF SeenAndCurrent
    <3> QED BY <3>1, <3>2
  <2> QED BY <2>1, <2>2
<1>3. ~q.last => SeenBefore(fam, q, SeenAndCurrent(q), NextCut(fam, q))
  BY <1>2
<1>4. q.last => SeenBefore(fam, q, SeenAndCurrent(q), q.field.n)
  BY <1>2
<1>5. FoundGood(fam, q)
  BY NothingHeard DEF CallGood
<1> QED BY <1>1, <1>3, <1>4, <1>5 DEF CallGood, InWindow

----------------------------------------------------------------------------
(* The steps                                                               *)

LEMMA BeginKeeps ==
    ASSUME NEW c \in Calls, CallsGood, Begin(c)
    PROVE  CallsGood'
<1> DEFINE r == call[c]
<1>1. CallGood(family, r) /\ r.phase = "called" /\ UNCHANGED family
      /\ r.from = 0 /\ r.answer = "none" /\ IsField(r.field) /\ Shape(r)
      /\ FoundGood(family, r) /\ r.field.n \in Nat
  BY DEF CallsGood, Begin, CallGood, IsField
<1>2. CASE family = "gliner" /\ r.field.n = 0
  <2> DEFINE q == [r EXCEPT !.phase = "done", !.answer = "entities"]
  <2>1. call' = [call EXCEPT ![c] = q]
    BY <1>2 DEF Begin, Answer, CallsGood
  <2>2. /\ Shape(q) /\ q.field = r.field /\ q.phase = "done" /\ q.answer = "entities"
        /\ q.heard = r.heard /\ q.found = r.found
    BY <1>1 DEF Shape
  <2> HIDE DEF q
  <2>3. SeenBefore(family, q, q.heard, q.field.n)
    BY <1>2, <2>2 DEF SeenBefore
  <2>4. FoundGood(family, q)
    BY <1>1, <2>2, NothingHeard DEF InWindow
  <2>5. CallGood(family, q)
    BY <1>1, <2>2, <2>3, <2>4 DEF CallGood, InWindow
  <2> QED BY <1>1, <2>1, <2>5, CallMoves
<1>3. CASE family = "gliner" /\ r.field.n > 0 /\ ~PromptFits
  <2> DEFINE q == [r EXCEPT !.phase = "done", !.answer = "unavailable"]
  <2>1. call' = [call EXCEPT ![c] = q]
    BY <1>3 DEF Begin, Answer, CallsGood
  <2>2. CallGood(family, q)
    BY <1>1, AnswerGood
  <2> HIDE DEF q
  <2> QED BY <1>1, <2>1, <2>2, CallMoves
<1>4. CASE family = "tagger" /\ Encoded(r.field.n) <= Window
  <2> DEFINE q == [r EXCEPT !.phase = "window", !.lo = 0, !.hi = r.field.n, !.last = TRUE]
  <2>1. call' = [call EXCEPT ![c] = q]
    BY <1>4 DEF Begin, CallsGood
  <2>2. Shape(q) /\ q.field = r.field /\ q.phase = "window" /\ q.lo = 0
        /\ q.hi = r.field.n /\ q.last = TRUE /\ q.answer = "none"
        /\ q.heard = r.heard /\ q.found = r.found
    BY <1>1 DEF Shape
  <2> HIDE DEF q
  <2>3. SeenBefore(family, q, SeenAndCurrent(q), q.field.n)
    <3>1. [lo |-> 0, hi |-> q.field.n] \in SeenAndCurrent(q)
      BY <2>2 DEF SeenAndCurrent
    <3> QED BY <1>1, <2>2, <3>1 DEF SeenBefore, IsField
  <2>4. FoundGood(family, q)
    <3>1. q.lo \in 0 .. r.field.n /\ q.hi \in q.lo .. r.field.n
      BY <1>1, <2>2
    <3> QED BY <1>1, <2>2, <3>1, NothingHeard
  <2>5. CallGood(family, q)
    BY <1>1, <2>2, <2>3, <2>4 DEF CallGood, InWindow
  <2> QED BY <1>1, <2>1, <2>5, CallMoves
<1>5. CASE /\ ~(family = "gliner" /\ r.field.n = 0)
           /\ ~(family = "gliner" /\ r.field.n > 0 /\ ~PromptFits)
           /\ ~(family = "tagger" /\ Encoded(r.field.n) <= Window)
  <2> DEFINE q == [r EXCEPT !.phase = "plan"]
  <2>1. call' = [call EXCEPT ![c] = q]
    BY <1>5 DEF Begin, CallsGood
  <2>2. /\ Shape(q) /\ q.field = r.field /\ q.phase = "plan" /\ q.from = 0 /\ q.answer = "none"
        /\ q.heard = r.heard /\ q.found = r.found
    BY <1>1 DEF Shape
  <2> HIDE DEF q
  <2>3. Planning(family, q) /\ NextCut(family, q) = 0
    BY <1>1, <1>5, <2>2 DEF Planning, NextCut, CharStart, Offset, IsField, CallsGood
  <2>4. SeenBefore(family, q, q.heard, 0)
    BY <1>1, <2>2 DEF SeenBefore, IsField
  <2>5. FoundGood(family, q)
    BY <1>1, <2>2, NothingHeard DEF InWindow
  <2>6. CallGood(family, q)
    BY <1>1, <2>2, <2>3, <2>4, <2>5 DEF CallGood, InWindow
  <2> QED BY <1>1, <2>1, <2>6, CallMoves
<1> QED BY <1>2, <1>3, <1>4, <1>5

LEMMA PlanTokensKeeps ==
    ASSUME NEW c \in Calls, CallsGood, PlanTokens(c)
    PROVE  CallsGood'
<1> DEFINE r == call[c]
           n == r.field.n
           t == r.from
           q == [r EXCEPT !.phase = "window", !.lo = CharStart(n, t), !.hi = CharEnd(n, t),
                          !.last = TokenEnd(n, t) = Encoded(n), !.from = t + Stride]
<1>1. CallGood(family, r) /\ r.phase = "plan" /\ UNCHANGED family /\ family = "tagger"
  BY DEF CallsGood, PlanTokens
<1>2. IsField(r.field) /\ Shape(r) /\ t \in 0 .. n /\ n \in Nat
  BY <1>1 DEF CallGood, Planning, IsField
<1>3. call' = [call EXCEPT ![c] = q]
  BY DEF PlanTokens, CallsGood
<1>4. /\ Shape(q) /\ q.field = r.field /\ q.phase = "window" /\ q.lo = CharStart(n, t)
      /\ q.hi = CharEnd(n, t) /\ q.last = (TokenEnd(n, t) = Encoded(n))
      /\ q.from = t + Stride /\ q.answer = r.answer /\ q.heard = r.heard /\ q.found = r.found
  BY <1>2 DEF Shape
<1>5. /\ CharStart(n, t) \in Int
      /\ q.lo \in 0 .. n /\ q.hi \in q.lo .. n
      /\ ~q.last => t + Stride \in 0 .. n
  <2> HIDE DEF r, n, t, q
  <2>1. /\ CharStart(n, t) \in 0 .. n /\ CharEnd(n, t) \in 0 .. n
        /\ CharStart(n, t) <= CharEnd(n, t)
        /\ TokenEnd(n, t) # Encoded(n) => t + Stride \in 0 .. n
    BY <1>2, TokenPlanAdvances
  <2>2. ASSUME ~q.last PROVE TokenEnd(n, t) # Encoded(n)
    BY <1>4, <2>2, Zenon
  <2>3. CharStart(n, t) \in Int
    BY <1>2, <2>1
  <2>4. q.lo \in 0 .. n /\ q.hi \in q.lo .. n
    BY <1>2, <1>4, <2>1
  <2> QED BY <2>1, <2>2, <2>3, <2>4
<1>6. ~q.last => Planning(family, q) /\ NextCut(family, q) = CharStart(n, t + Stride)
  BY <1>1, <1>4, <1>5 DEF Planning, NextCut
<1>7. ~q.last => CharStart(n, t + Stride) \in Int
  <2> HIDE DEF r, n, t, q
  <2>1. ASSUME ~q.last PROVE CharStart(n, t + Stride) \in 0 .. n
    BY <1>2, <1>5, <2>1, TokenPlanAdvances
  <2> QED BY <1>2, <2>1
<1>8. NextCut(family, r) = CharStart(n, t)
  BY <1>1 DEF NextCut
<1>9. ASSUME NEW s \in 0 .. n, NEW e \in 0 .. n, s < e, ShortRunOf(family, r.field, s, e),
             CharStart(n, t) <= s, q.last \/ s < CharStart(n, t + Stride)
      PROVE  q.lo <= s /\ e <= q.hi
  <2>1. e - s <= Overlap + 1 /\ s \in Nat /\ e \in Nat /\ e <= n
    BY <1>1, <1>2, <1>9 DEF ShortRunOf
  <2>2. TokenEnd(n, t) = Encoded(n) \/ s < CharStart(n, t + Stride)
    BY <1>4, <1>9
  <2> HIDE DEF r, n, t, q
  <2>3. CharStart(n, t) <= s /\ e <= CharEnd(n, t)
    BY <1>2, <1>9, <2>1, <2>2, TokenWindowHolds
  <2> QED BY <1>4, <2>3
<1>10. CallGood(family, q)
  <2> HIDE DEF q
  <2>1. \A s, e \in 0 .. r.field.n :
          s < e /\ ShortRunOf(family, r.field, s, e) /\ NextCut(family, r) <= s
          /\ (q.last \/ s < NextCut(family, q)) => q.lo <= s /\ e <= q.hi
    BY <1>6, <1>8, <1>9
  <2>2. q.last \in BOOLEAN
    BY <1>4
  <2> QED BY <1>1, <1>4, <1>5, <1>6, <1>7, <1>8, <2>1, <2>2, PlannedGood
<1> HIDE DEF q
<1> QED BY <1>1, <1>3, <1>10, CallMoves

LEMMA PlanWordsKeeps ==
    ASSUME NEW c \in Calls, CallsGood, PlanWords(c)
    PROVE  CallsGood'
<1> DEFINE r == call[c]
           f == r.field
           s0 == r.from
<1>1. CallGood(family, r) /\ r.phase = "plan" /\ UNCHANGED family /\ family = "gliner"
  BY DEF CallsGood, PlanWords
<1>2. IsField(f) /\ Shape(r) /\ s0 \in 0 .. f.n /\ s0 < f.n /\ f.n \in Nat
  BY <1>1 DEF CallGood, Planning, IsField
<1>3. PICK e0 \in s0 + 1 .. f.n :
        /\ IsWordEnd(f, Budget, s0, e0)
        /\ call' = [call EXCEPT ![c].phase = "window", ![c].lo = s0, ![c].hi = e0,
                                ![c].last = e0 = f.n, ![c].from = WordNext(s0, e0)]
  BY DEF PlanWords
<1> DEFINE q == [r EXCEPT !.phase = "window", !.lo = s0, !.hi = e0,
                          !.last = e0 = f.n, !.from = WordNext(s0, e0)]
<1>4. call' = [call EXCEPT ![c] = q]
  BY <1>3 DEF CallsGood
<1>5. /\ Shape(q) /\ q.field = r.field /\ q.phase = "window" /\ q.lo = s0
      /\ q.hi = e0 /\ q.last = (e0 = f.n)
      /\ q.from = WordNext(s0, e0) /\ q.answer = r.answer /\ q.heard = r.heard
      /\ q.found = r.found
  BY <1>2 DEF Shape
<1>6. ~q.last => WordNext(s0, e0) \in 0 .. f.n - 1
  BY <1>2, <1>5, WordPlanAdvances
<1>7. ~q.last => Planning(family, q) /\ NextCut(family, q) = WordNext(s0, e0)
                 /\ NextCut(family, q) \in Int
  BY <1>1, <1>2, <1>5, <1>6 DEF Planning, NextCut
<1>8. NextCut(family, r) = s0
  BY <1>1 DEF NextCut
<1>9. Budget \in Int
  BY DetectorAssumption DEF Budget, AtMost
<1>10. ASSUME NEW s \in 0 .. f.n, NEW e \in 0 .. f.n, s < e, ShortRunOf(family, r.field, s, e),
             s0 <= s, q.last \/ s < WordNext(s0, e0)
      PROVE  q.lo <= s /\ e <= q.hi
  <2>1. e - s <= WordOverlap + 1 /\ FitsBudget(f, Budget, s, e)
        /\ s \in Nat /\ e \in Nat /\ e <= f.n
    BY <1>1, <1>2, <1>10 DEF ShortRunOf
  <2>2. e0 = f.n \/ s < WordNext(s0, e0)
    BY <1>5, <1>10
  <2> HIDE DEF r, f, s0, q
  <2>3. e <= e0
    BY <1>2, <1>3, <1>9, <1>10, <2>1, <2>2, WordWindowHolds
  <2> QED BY <1>5, <1>10, <2>3
<1>11. CallGood(family, q)
  <2> HIDE DEF q
  <2>1. \A s, e \in 0 .. r.field.n :
          s < e /\ ShortRunOf(family, r.field, s, e) /\ NextCut(family, r) <= s
          /\ (q.last \/ s < NextCut(family, q)) => q.lo <= s /\ e <= q.hi
    BY <1>7, <1>8, <1>10
  <2>2. q.last \in BOOLEAN
    BY <1>5
  <2>3. NextCut(family, r) \in Int
    BY <1>2, <1>8
  <2>4. q.lo \in 0 .. r.field.n /\ q.hi \in q.lo .. r.field.n
    BY <1>2, <1>5
  <2> HIDE DEF r, f, s0
  <2> QED BY <1>1, <1>5, <1>7, <2>1, <2>2, <2>3, <2>4, PlannedGood
<1> HIDE DEF q
<1> QED BY <1>1, <1>4, <1>11, CallMoves

LEMMA TokenizeKeeps ==
    ASSUME NEW c \in Calls, CallsGood, Tokenize(c)
    PROVE  CallsGood'
<1> DEFINE r == call[c]
           i == (next % Len(pool)) + 1
           q == [r EXCEPT !.phase = "waiting", !.slot = i]
<1>1. CallGood(family, r) /\ r.phase = "window" /\ UNCHANGED family /\ Shape(r)
  BY DEF CallsGood, Tokenize, CallGood
<1>2. \/ call' = [call EXCEPT ![c] = [r EXCEPT !.phase = "done", !.answer = "unavailable"]]
      \/ call' = [call EXCEPT ![c] = q]
  BY DEF Tokenize, Answer, CallsGood
<1>3. CallGood(family, [r EXCEPT !.phase = "done", !.answer = "unavailable"])
  BY <1>1, AnswerGood
<1>4. CallGood(family, q)
  <2>1. Shape(q) /\ q.phase = "waiting" /\ q.field = r.field /\ q.from = r.from
        /\ q.lo = r.lo /\ q.hi = r.hi /\ q.last = r.last /\ q.heard = r.heard
        /\ q.found = r.found /\ q.answer = r.answer /\ q.crashed = r.crashed
    BY <1>1 DEF Shape
  <2> HIDE DEF q
  <2> QED BY <1>1, <2>1, WindowGood DEF InWindow
<1> HIDE DEF q
<1> QED BY <1>1, <1>2, <1>3, <1>4, CallMoves

LEMMA LockKeeps ==
    ASSUME NEW c \in Calls, CallsGood, Lock(c)
    PROVE  CallsGood'
<1> DEFINE r == call[c]
           q == [r EXCEPT !.phase = "running"]
<1>1. CallGood(family, r) /\ r.phase = "waiting" /\ UNCHANGED family /\ Shape(r)
  BY DEF CallsGood, Lock, CallGood
<1>2. call' = [call EXCEPT ![c] = q]
  BY DEF Lock, CallsGood
<1>3. CallGood(family, q)
  <2>1. Shape(q) /\ q.phase = "running" /\ q.field = r.field /\ q.from = r.from
        /\ q.lo = r.lo /\ q.hi = r.hi /\ q.last = r.last /\ q.heard = r.heard
        /\ q.found = r.found /\ q.answer = r.answer /\ q.crashed = r.crashed
    BY <1>1 DEF Shape
  <2> HIDE DEF q
  <2> QED BY <1>1, <2>1, WindowGood DEF InWindow
<1> HIDE DEF q
<1> QED BY <1>1, <1>2, <1>3, CallMoves

LEMMA FailureKeeps ==
    ASSUME NEW c \in Calls, CallsGood, RunFails(c) \/ TokenizerFails(c)
    PROVE  CallsGood'
<1> DEFINE r == call[c]
<1>1. CallGood(family, r) /\ UNCHANGED family
  BY DEF CallsGood, RunFails, TokenizerFails
<1>2. call' = [call EXCEPT ![c] = [r EXCEPT !.phase = "done", !.answer = "unavailable"]]
  BY DEF RunFails, TokenizerFails, Answer, CallsGood
<1>3. CallGood(family, [r EXCEPT !.phase = "done", !.answer = "unavailable"])
  BY <1>1, AnswerGood
<1> QED BY <1>1, <1>2, <1>3, CallMoves

LEMMA RunReadsKeeps ==
    ASSUME NEW c \in Calls, CallsGood, RunReads(c)
    PROVE  CallsGood'
<1> DEFINE r == call[c]
<1>1. CallGood(family, r) /\ r.phase = "running" /\ UNCHANGED family
  BY DEF CallsGood, RunReads
<1>2. /\ Shape(r) /\ r.answer = "none" /\ r.last \in BOOLEAN /\ IsField(r.field)
      /\ FoundGood(family, r)
      /\ ~r.last => Planning(family, r) /\ SeenBefore(family, r, SeenAndCurrent(r), NextCut(family, r))
      /\ r.last => SeenBefore(family, r, SeenAndCurrent(r), r.field.n)
  BY <1>1 DEF CallGood, InWindow
<1>3. PICK reading \in Readings(family, r.field, r.lo, r.hi) :
        call' = [call EXCEPT
                   ![c].heard = @ \cup {[lo |-> r.lo, hi |-> r.hi, reading |-> reading]},
                   ![c].found = @ \cup Shift(Decode(r.hi - r.lo, reading), r.lo),
                   ![c].phase = IF r.last THEN "done" ELSE "plan",
                   ![c].answer = IF r.last THEN "entities" ELSE @]
  BY DEF RunReads
<1> DEFINE h == [lo |-> r.lo, hi |-> r.hi, reading |-> reading]
           x == Shift(Decode(r.hi - r.lo, reading), r.lo)
           q == [r EXCEPT !.heard = @ \cup {h}, !.found = @ \cup x,
                          !.phase = IF r.last THEN "done" ELSE "plan",
                          !.answer = IF r.last THEN "entities" ELSE @]
<1>4. call' = [call EXCEPT ![c] = q]
  BY <1>3 DEF CallsGood
<1>5. /\ Shape(q) /\ q.field = r.field /\ q.from = r.from
      /\ q.heard = r.heard \cup {h} /\ q.found = r.found \cup x
      /\ q.phase = (IF r.last THEN "done" ELSE "plan")
      /\ q.answer = (IF r.last THEN "entities" ELSE "none")
  <2> HIDE DEF h, x, r
  <2> QED BY <1>2 DEF Shape
<1>6. h.lo = r.lo /\ h.hi = r.hi /\ h.reading = reading
  OBVIOUS
<1>7. x = EntitiesOf(family, h)
  BY <1>6 DEF EntitiesOf, DecodeOf, Decode
<1> HIDE DEF q, h, x
<1>8. FoundGood(family, q)
  <2>1. HeardOf(family, r.field, h)
    BY <1>1, <1>2, <1>6 DEF FoundGood, HeardOf, InWindow
  <2>2. q.phase \notin InWindow
    BY <1>5 DEF InWindow
  <2> HIDE DEF r
  <2> QED BY <1>2, <1>5, <1>7, <2>1, <2>2, WindowHeard
<1>9. CASE r.last
  <2>1. SeenBefore(family, q, q.heard, q.field.n)
    BY <1>2, <1>5, <1>6, <1>9, HeardGood
  <2>2. CallGood(family, q)
    BY <1>2, <1>5, <1>9, <1>8, <2>1 DEF CallGood, InWindow
  <2> QED BY <1>1, <1>4, <2>2, CallMoves
<1>10. CASE ~r.last
  <2>1. NextCut(family, q) = NextCut(family, r) /\ Planning(family, q)
    BY <1>2, <1>5, <1>10 DEF NextCut, Planning
  <2>2. SeenBefore(family, q, q.heard, NextCut(family, q))
    BY <1>2, <1>5, <1>6, <1>10, <2>1, HeardGood
  <2>3. CallGood(family, q)
    BY <1>2, <1>5, <1>10, <1>8, <2>1, <2>2 DEF CallGood, InWindow
  <2> QED BY <1>1, <1>4, <2>3, CallMoves
<1> QED BY <1>2, <1>9, <1>10

LEMMA RunPanicsKeeps ==
    ASSUME NEW c \in Calls, CallsGood, RunPanics(c)
    PROVE  CallsGood'
<1> DEFINE r == call[c]
           q == [r EXCEPT !.phase = "done", !.answer = "panicked", !.crashed = TRUE]
<1>1. CallGood(family, r) /\ UNCHANGED family /\ Shape(r) /\ IsField(r.field)
  BY DEF CallsGood, RunPanics, CallGood
<1>2. call' = [call EXCEPT ![c] = q]
  BY DEF RunPanics, CallsGood
<1>3. CallGood(family, q)
  <2>1. Shape(q) /\ q.phase = "done" /\ q.answer = "panicked" /\ q.crashed = TRUE
        /\ q.field = r.field /\ q.heard = r.heard /\ q.found = r.found
    BY <1>1 DEF Shape
  <2> HIDE DEF q
  <2>2. FoundGood(family, q)
    BY <1>1, <2>1, NothingHeard DEF CallGood, InWindow
  <2> QED BY <1>1, <2>1, <2>2 DEF CallGood, InWindow
<1> HIDE DEF q
<1> QED BY <1>1, <1>2, <1>3, CallMoves

LEMMA OthersKeepCalls ==
    ASSUME CallsGood, Build \/ Settled \/ UNCHANGED vars
    PROVE  CallsGood'
<1>1. UNCHANGED <<family, call>>
  BY DEF Build, BuildFirst, BuildLater, RebuildOnCpu, PoolReady, PoolFails, Settled, vars
<1> QED BY <1>1 DEF CallsGood

LEMMA InitCalls == Init => CallsGood
<1> SUFFICES ASSUME Init PROVE CallsGood
  OBVIOUS
<1>1. PICK f \in [Calls -> Fields] : call = [c \in Calls |-> Called(f[c])]
  BY DEF Init
<1>2. ASSUME NEW c \in Calls PROVE CallGood(family, call[c])
  <2>1. call[c] = Called(f[c]) /\ f[c] \in Fields
    BY <1>1
  <2>2. Shape(Called(f[c])) /\ Called(f[c]).field = f[c] /\ Called(f[c]).phase = "called"
        /\ Called(f[c]).from = 0 /\ Called(f[c]).answer = "none"
        /\ Called(f[c]).heard = {} /\ Called(f[c]).found = {}
    BY DEF Called, Shape
  <2>3. IsField(f[c])
    BY <2>1, DetectorAssumption DEF IsField
  <2>4. FoundGood(family, Called(f[c]))
    BY <2>1, <2>2 DEF FoundGood, InWindow
  <2> QED BY <2>1, <2>2, <2>3, <2>4 DEF CallGood, InWindow
<1> QED BY <1>1, <1>2 DEF CallsGood, Init

----------------------------------------------------------------------------
(* The theorems                                                            *)

LEMMA CallsStayGood == Spec => []CallsGood
<1>1. CallsGood /\ [Next]_vars => CallsGood'
  BY BeginKeeps, PlanTokensKeeps, PlanWordsKeeps, TokenizeKeeps, LockKeeps, FailureKeeps,
     RunReadsKeeps, RunPanicsKeeps, OthersKeepCalls DEF Next, CallStep
<1> QED BY InitCalls, <1>1, PTL DEF Spec

\* For every window, overlap, budget and field: a call that answers with
\* entities has shown the model every short run of its field whole
\* (chunk_char_ranges, plan_word_windows and the choke point).
THEOREM NerSeesShortRunsWhole == Spec => []ShortRunsSeenWhole
<1>1. CallsGood => ShortRunsSeenWhole
  <2> SUFFICES ASSUME CallsGood, NEW c \in Calls, call[c].answer = "entities",
                      NEW s \in 0 .. call[c].field.n, NEW e \in 0 .. call[c].field.n,
                      s < e, ShortRun(call[c].field, s, e)
               PROVE  \E h \in call[c].heard : h.lo <= s /\ e <= h.hi
    BY DEF ShortRunsSeenWhole
  <2>1. SeenBefore(family, call[c], call[c].heard, call[c].field.n) /\ IsField(call[c].field)
    BY DEF CallsGood, CallGood
  <2>2. ShortRunOf(family, call[c].field, s, e)
    BY DEF ShortRun, ShortRunOf
  <2>3. s < call[c].field.n
    BY <2>1 DEF IsField
  <2> QED BY <2>1, <2>2, <2>3 DEF SeenBefore
<1> QED BY <1>1, CallsStayGood, PTL

\* However many calls share the sessions, a panic costs only its own call.
THEOREM NerContainsPanics == Spec => []PanicsStayContained
<1>1. CallsGood => PanicsStayContained
  BY DEF CallsGood, CallGood, PanicsStayContained
<1> QED BY <1>1, CallsStayGood, PTL

----------------------------------------------------------------------------
(* What is found is what the windows said                                  *)

\* Shifting a window's spans.
LEMMA ShiftIs == \A spans, by : Shift(spans, by) = {At(x, by) : x \in spans}
BY DEF Shift, At

LEMMA TagsKept ==
    ASSUME CallsGood, family = "tagger", NEW c \in Calls
    PROVE  TagsAreKept(c)
<1> DEFINE r == call[c]
<1>1. FoundGood("tagger", r) /\ r.field.n \in Nat
  BY DetectorAssumption DEF CallsGood, CallGood, FoundGood
<1>2. ASSUME NEW h \in r.heard
      PROVE  /\ h.lo \in Nat /\ h.hi \in Nat /\ h.hi - h.lo \in Nat
             /\ EntitiesOf("tagger", h) = {At(x, h.lo) : x \in DecodeTags(h.hi - h.lo, h.reading)}
             /\ EntitiesOf("tagger", h) \subseteq r.found
  BY <1>1, <1>2, ShiftIs DEF FoundGood, HeardOf, EntitiesOf, DecodeOf
<1>3. ASSUME NEW h \in r.heard, NEW p \in 1 .. h.hi - h.lo,
             h.reading[p].kind # "none", ~RunsIntoTheClose(h, p)
      PROVE  \E f \in r.found :
               /\ f.kind = h.reading[p].kind /\ Inside(f, h)
               /\ f.start < h.lo + p /\ h.lo + p <= f.end
               /\ \A q \in 1 .. h.hi - h.lo :
                    f.start + 1 < h.lo + q /\ h.lo + q <= f.end => ~h.reading[q].begin
  <2>1. PICK len, reading : len = h.hi - h.lo /\ reading = h.reading
    OBVIOUS
  <2>2. len \in Nat /\ p \in 1 .. len /\ h.lo \in Nat /\ h.hi \in Nat
    BY <1>2, <2>1
  <2>3. PICK x \in DecodeTags(len, reading) :
          /\ x.kind = reading[p].kind /\ x.start \in Nat /\ x.end \in 0 .. len
          /\ x.start < p /\ p <= x.end
          /\ \A q \in Int : x.start + 1 < q /\ q <= x.end => ~reading[q].begin
    <3>1. ~ \A q \in p + 1 .. len + 1 : reading[q].kind = reading[p].kind /\ ~reading[q].begin
      BY <1>3, <2>1 DEF RunsIntoTheClose
    <3>2. reading[p].kind # "none"
      BY <1>3, <2>1
    <3> QED BY <2>2, <3>1, <3>2, TagsDecoded
  <2>4. PICK f : f = At(x, h.lo)
    OBVIOUS
  <2>5. f.kind = x.kind /\ f.start = x.start + h.lo /\ f.end = x.end + h.lo
    BY <2>4 DEF At
  <2>6. f \in r.found
    BY <1>2, <2>1, <2>4
  <2>7. Inside(f, h) /\ f.start < h.lo + p /\ h.lo + p <= f.end
    BY <2>1, <2>2, <2>3, <2>5 DEF Inside
  <2>8. ASSUME NEW q \in 1 .. h.hi - h.lo, f.start + 1 < h.lo + q, h.lo + q <= f.end
        PROVE  ~h.reading[q].begin
    <3>1. q \in Int /\ x.start + 1 < q /\ q <= x.end
      BY <2>2, <2>3, <2>5, <2>8
    <3> QED BY <2>1, <2>3, <3>1
  <2> QED BY <2>1, <2>3, <2>5, <2>6, <2>7, <2>8
<1>4. ASSUME NEW f \in r.found
      PROVE  \E h \in r.heard :
               /\ Inside(f, h)
               /\ \A p \in f.start + 1 .. f.end : h.reading[p - h.lo].kind = f.kind
  <2>1. PICK h \in r.heard : f \in EntitiesOf("tagger", h)
    BY <1>1 DEF FoundGood
  <2>2. PICK len, reading : len = h.hi - h.lo /\ reading = h.reading
    OBVIOUS
  <2>3. len \in Nat /\ h.lo \in Nat /\ h.hi \in Nat
    BY <1>2, <2>2
  <2>4. PICK x \in DecodeTags(len, reading) : f = At(x, h.lo)
    BY <1>2, <2>1, <2>2
  <2>5. f.kind = x.kind /\ f.start = x.start + h.lo /\ f.end = x.end + h.lo
    BY <2>4 DEF At
  <2>6. /\ x.start \in Nat /\ x.end \in 0 .. len
        /\ \A p \in x.start + 1 .. x.end : reading[p].kind = x.kind
    BY <2>3, TagsDecoded
  <2>7. Inside(f, h)
    BY <2>2, <2>3, <2>5, <2>6 DEF Inside
  <2>8. ASSUME NEW p \in f.start + 1 .. f.end PROVE h.reading[p - h.lo].kind = f.kind
    <3>1. p - h.lo \in x.start + 1 .. x.end
      BY <2>3, <2>5, <2>6
    <3> QED BY <2>2, <2>5, <2>6, <3>1
  <2> QED BY <2>7, <2>8
<1> QED BY <1>3, <1>4 DEF TagsAreKept

LEMMA SpansKept ==
    ASSUME CallsGood, family = "gliner", NEW c \in Calls
    PROVE  SpansAreKept(c)
<1> DEFINE r == call[c]
<1>1. FoundGood("gliner", r)
  BY DEF CallsGood, CallGood
<1>2. ASSUME NEW h \in r.heard
      PROVE  /\ IsReading(h.reading)
             /\ EntitiesOf("gliner", h) = {At(x, h.lo) : x \in DecodeSpans(h.hi - h.lo, h.reading)}
             /\ EntitiesOf("gliner", h) \subseteq r.found
  <2>1. r.field \in Fields /\ r.field.n \in Nat /\ HeardOf("gliner", r.field, h)
    BY <1>1, DetectorAssumption DEF FoundGood
  <2>2. h.lo \in 0 .. r.field.n /\ h.hi \in 0 .. r.field.n
    BY <2>1 DEF HeardOf
  <2>3. IsReading(h.reading)
    BY <2>1, <2>2, ReadingsAssumption DEF HeardOf, IsReading
  <2> QED BY <1>1, <2>3, ShiftIs DEF FoundGood, EntitiesOf, DecodeOf
<1>3. \A t, by : At(SpanOf(t), by) = At(t, by)
  BY DEF At, SpanOf
<1>4. ASSUME NEW h \in r.heard, NEW s \in h.reading, Usable(h.hi - h.lo, s)
      PROVE  \E t \in h.reading :
               /\ Usable(h.hi - h.lo, t) /\ At(t, h.lo) \in r.found
               /\ t = s \/ (Before(t, s) /\ Overlapping(t, s))
  <2>1. PICK len, reading : len = h.hi - h.lo /\ reading = h.reading
    OBVIOUS
  <2>2. PICK t \in reading :
          /\ Usable(len, t) /\ SpanOf(t) \in DecodeSpans(len, reading)
          /\ t = s \/ (Before(t, s) /\ Overlapping(t, s))
    BY <1>2, <1>4, <2>1, SpansDecoded
  <2>3. At(SpanOf(t), h.lo) \in r.found
    BY <1>2, <2>1, <2>2
  <2> QED BY <1>3, <2>1, <2>2, <2>3
<1>5. ASSUME NEW f \in r.found
      PROVE  \E h \in r.heard : \E s \in h.reading :
               Usable(h.hi - h.lo, s) /\ At(s, h.lo) = f
  <2>1. PICK h \in r.heard : f \in EntitiesOf("gliner", h)
    BY <1>1 DEF FoundGood
  <2>2. PICK len, reading : len = h.hi - h.lo /\ reading = h.reading
    OBVIOUS
  <2>3. PICK x \in DecodeSpans(len, reading) : f = At(x, h.lo)
    BY <1>2, <2>1, <2>2
  <2>4. PICK s \in reading : Usable(len, s) /\ x = SpanOf(s)
    BY <1>2, <2>2, SpansDecoded
  <2> QED BY <1>3, <2>2, <2>3, <2>4
<1> QED BY <1>4, <1>5 DEF SpansAreKept

\* Whatever the model says, of whichever windows: what a call finds is that, no
\* less and no more - a tagger's labels but for a run into the closing token,
\* gliner's candidates but for those a better one covers (decode_entities,
\* decode_spans, infer_chunked).
THEOREM NerLosesNothing == Spec => []NothingSaidIsLost
<1>1. CallsGood => NothingSaidIsLost
  BY TagsKept, SpansKept DEF NothingSaidIsLost, CallsGood
<1> QED BY <1>1, CallsStayGood, PTL

----------------------------------------------------------------------------
(* The pool                                                                *)

Sessions == [on : {"cpu", "gpu"}, holder : Calls \cup {Free}, poisoned : BOOLEAN]

PoolGood ==
    /\ knobs \in Knobs
    /\ pool \in Seq(Sessions)
    /\ boot \in {"building", "rebuilding", "ready", "failed"}
    /\ provider \in {"cpu", "gpu"}
    /\ boot = "rebuilding" => provider = "cpu"
    /\ \A i \in 1 .. Len(pool) : pool[i].on = provider
    /\ boot = "ready" => Len(pool) = PoolSize

\* Locking, releasing and poisoning a session leaves its provider alone.
LEMMA SessionUseKeeps ==
    ASSUME PoolGood, UNCHANGED <<knobs, boot, provider>>,
           NEW i, NEW h \in Calls \cup {Free}, NEW b \in BOOLEAN,
           \/ pool' = [pool EXCEPT ![i].holder = h]
           \/ pool' = [pool EXCEPT ![i].holder = h, ![i].poisoned = b]
           \/ pool' = pool
    PROVE  PoolGood'
<1>1. pool \in [1 .. Len(pool) -> Sessions]
  BY DEF PoolGood
<1>2. pool' \in [1 .. Len(pool) -> Sessions]
      /\ \A j \in 1 .. Len(pool) : pool'[j].on = pool[j].on
  <2>1. CASE i \in 1 .. Len(pool)
    BY <1>1, <2>1 DEF Sessions
  <2>2. CASE i \notin 1 .. Len(pool)
    BY <1>1, <2>2 DEF Sessions
  <2> QED BY <2>1, <2>2
<1>3. Len(pool) \in Nat
  BY DEF PoolGood
<1>4. pool' \in Seq(Sessions) /\ Len(pool') = Len(pool)
  BY <1>2, <1>3
<1>5. PoolSize' = PoolSize
  BY DEF PoolSize
<1> QED BY <1>2, <1>4, <1>5 DEF PoolGood

LEMMA SessionAppended ==
    ASSUME PoolGood, UNCHANGED <<knobs, boot, provider>>, boot # "ready",
           pool' = Append(pool, Session(provider))
    PROVE  PoolGood'
<1>1. Session(provider) \in Sessions /\ Session(provider).on = provider
  BY DEF PoolGood, Session, Sessions
<1>2. pool' \in Seq(Sessions) /\ Len(pool') = Len(pool) + 1
      /\ \A i \in 1 .. Len(pool') : pool'[i] = IF i <= Len(pool) THEN pool[i] ELSE Session(provider)
  BY <1>1 DEF PoolGood
<1>3. \A i \in 1 .. Len(pool') : pool'[i].on = provider
  BY <1>1, <1>2 DEF PoolGood
<1> QED BY <1>2, <1>3 DEF PoolGood

LEMMA BuildKeepsPool ==
    ASSUME PoolGood, Build
    PROVE  PoolGood'
<1>1. CASE BuildFirst
  <2>1. PICK got \in {"cpu", "gpu"} : pool' = <<Session(got)>> /\ provider' = got
    BY <1>1 DEF BuildFirst
  <2>2. Session(got) \in Sessions /\ Session(got).on = got
    BY DEF Session, Sessions
  <2>3. pool' \in Seq(Sessions) /\ Len(pool') = 1 /\ pool'[1] = Session(got)
    BY <2>1, <2>2
  <2>4. \A i \in 1 .. Len(pool') : pool'[i].on = provider'
    BY <2>1, <2>2, <2>3
  <2> QED BY <1>1, <2>1, <2>3, <2>4 DEF PoolGood, BuildFirst
<1>2. CASE BuildLater
  <2>1. CASE pool' = Append(pool, Session(provider)) /\ UNCHANGED <<boot, provider>>
    BY <1>2, <2>1, SessionAppended DEF BuildLater
  <2>2. CASE pool' = <<>> /\ boot' = "rebuilding" /\ provider' = "cpu"
    BY <1>2, <2>2 DEF BuildLater, PoolGood
  <2> QED BY <1>2, <2>1, <2>2 DEF BuildLater
<1>3. CASE RebuildOnCpu
  BY <1>3, SessionAppended DEF RebuildOnCpu, PoolGood
<1>4. CASE PoolReady
  BY <1>4 DEF PoolReady, PoolGood, PoolSize
<1>5. CASE PoolFails
  BY <1>5 DEF PoolFails, PoolGood
<1> QED BY <1>1, <1>2, <1>3, <1>4, <1>5 DEF Build

LEMMA CallKeepsPool ==
    ASSUME PoolGood, NEW c \in Calls, CallStep(c)
    PROVE  PoolGood'
<1>1. UNCHANGED <<knobs, boot, provider>>
  BY DEF CallStep, Begin, PlanTokens, PlanWords, Tokenize, TokenizerFails, Lock,
         RunReads, RunFails, RunPanics
<1>2. \/ pool' = [pool EXCEPT ![call[c].slot].holder = c]
      \/ pool' = [pool EXCEPT ![call[c].slot].holder = Free]
      \/ pool' = [pool EXCEPT ![call[c].slot].holder = Free, ![call[c].slot].poisoned = TRUE]
      \/ pool' = pool
  BY DEF CallStep, Begin, PlanTokens, PlanWords, Tokenize, TokenizerFails, Lock,
         RunReads, RunFails, RunPanics, Release
<1>3. Free \in Calls \cup {Free} /\ c \in Calls \cup {Free} /\ TRUE \in BOOLEAN
  OBVIOUS
<1> QED BY <1>1, <1>2, <1>3, SessionUseKeeps

\* Whatever sessions fail to get the accelerator, and at whatever point, the
\* pool that serves is of the size asked for, at least one, and all of it on
\* the provider it reports (build_session_pool, build_cpu_pool).
THEOREM NerPoolIsWhole == Spec => []PoolIsWhole
<1>1. Init => PoolGood
  BY DEF Init, PoolGood
<1>2. PoolGood /\ [Next]_vars => PoolGood'
  <2>1. PoolGood /\ (Settled \/ UNCHANGED vars) => PoolGood'
    BY DEF PoolGood, PoolSize, Settled, vars
  <2> QED BY <2>1, BuildKeepsPool, CallKeepsPool DEF Next
<1>3. PoolGood => PoolIsWhole
  <2>1. PoolGood => PoolSize >= 1
    BY DetectorAssumption DEF PoolGood, PoolSize
  <2> QED BY <2>1 DEF PoolGood, PoolIsWhole
<1> QED BY <1>1, <1>2, <1>3, PTL DEF Spec

\* On every machine and for every pool no larger than its thread base, the
\* derived threads of all its sessions together fit what the platform grants.
THEOREM NerThreadsFit == Spec => []ThreadsFitTheMachine
<1>1. Init => knobs \in Knobs
  BY DEF Init
<1>2. knobs \in Knobs /\ [Next]_vars => (knobs \in Knobs)'
  BY DEF Next, vars, Build, BuildFirst, BuildLater, RebuildOnCpu, PoolReady, PoolFails, Settled,
         CallStep, Begin, PlanTokens, PlanWords, Tokenize, TokenizerFails, Lock,
         RunReads, RunFails, RunPanics
<1>3. knobs \in Knobs => ThreadsFitTheMachine
  <2> DEFINE base == ThreadBase
  <2> SUFFICES ASSUME knobs \in Knobs, knobs.intra = 0, PoolSize <= base
               PROVE  PoolSize * IntraThreads <= AtLeast(knobs.logical, 1)
    BY DEF ThreadsFitTheMachine
  <2>1. PoolSize \in Nat /\ PoolSize >= 1 /\ base \in Nat /\ base >= 1
        /\ base <= AtLeast(knobs.logical, 1)
    BY DetectorAssumption DEF PoolSize, ThreadBase, CoreCounts, DeriveThreadBase, AtLeast, AtMost
  <2> DEFINE d == base \div PoolSize
  <2>2. IntraThreads = AtLeast(d, 1)
    BY DEF IntraThreads
  <2>3. AtLeast(knobs.logical, 1) \in Nat
    BY DetectorAssumption DEF AtLeast
  <2> HIDE DEF base
  <2>4. d \in Nat /\ PoolSize * d <= base
    BY <2>1
  <2>5. d >= 1
    BY <2>1
  <2> HIDE DEF d
  <2>6. IntraThreads = d
    BY <2>2, <2>4, <2>5 DEF AtLeast
  <2> QED BY <2>1, <2>3, <2>4, <2>6
<1> QED BY <1>1, <1>2, <1>3, PTL DEF Spec

=============================================================================
