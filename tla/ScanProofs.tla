----------------------------- MODULE ScanProofs -----------------------------
(***************************************************************************)
(* The scan of a request, however many fields and candidates it has,       *)
(* charges its allowance as Budget says, so that what BudgetProofs shows   *)
(* of an allowance holds of the request's; and it hides nothing.           *)
(*                                                                         *)
(* For the second, the table that ships is walked once: each recognizer is *)
(* WellShaped, and one that cuts back has only shapes that end behind a    *)
(* word and hold nothing but words and separators (Cuttable). Where such a *)
(* shape ends, and that a match cut out of its text still matches, follows *)
(* by induction on its segments (EndsClosed, EndsLocal). The invariant,    *)
(* ScanInv, says what each recognizer has covered so far, and what is      *)
(* still accepted of the match that is being cut back.                     *)
(***************************************************************************)
EXTENDS CandidateScan, BudgetProofs, SequenceTheorems, WellFoundedInduction

(***************************************************************************)
(* Least and greatest numbers, and recursion over the naturals.            *)
(***************************************************************************)

\* A set of natural numbers has a least one, a bounded set of integers a greatest.
LEMMA MinIsLeast ==
    ASSUME NEW S \in SUBSET Nat, S # {}
    PROVE  Min(S) \in S /\ \A y \in S : Min(S) <= y
<1>1. PICK x \in S : \A y \in S : ~(<<y, x>> \in OpToRel(<, Nat))
    BY NatLessThanWellFounded, WFMin
<1>2. ASSUME NEW y \in S PROVE x <= y
    <2>1. x \in Nat /\ y \in Nat /\ <<y, x>> \in Nat \X Nat
        OBVIOUS
    <2>2. <<y, x>>[1] = y /\ <<y, x>>[2] = x
        OBVIOUS
    <2>3. y < x => <<y, x>> \in OpToRel(<, Nat)
        BY <2>1, <2>2, Zenon DEF OpToRel
    <2>4. ~(y < x)
        BY <1>1, <2>3, Zenon
    <2> QED BY <2>1, <2>4
<1> QED BY <1>2 DEF Min

LEMMA MaxIsGreatest ==
    ASSUME NEW S \in SUBSET Int, S # {}, NEW b \in Int, \A x \in S : x <= b
    PROVE  Max(S) \in S /\ \A y \in S : y <= Max(S)
<1> DEFINE T == {b - x : x \in S}
<1>1. T \in SUBSET Nat /\ T # {}
    <2>1. \A x \in S : b - x \in Nat
        OBVIOUS
    <2> QED BY <2>1, Zenon
<1>2. Min(T) \in T /\ \A y \in T : Min(T) <= y
    BY <1>1, MinIsLeast
<1>3. PICK x \in S : Min(T) = b - x
    BY <1>2
<1>4. ASSUME NEW y \in S PROVE x >= y
    <2>1. b - y \in T
        OBVIOUS
    <2>2. b - x <= b - y
        BY <1>2, <1>3, <2>1
    <2> QED BY <2>2
<1>5. \E z \in S : \A y \in S : z >= y
    BY <1>4
<1>6. Max(S) \in S /\ \A y \in S : Max(S) >= y
    BY <1>5 DEF Max
<1> QED BY <1>6

\* What holds of 0 and passes on from each number to the next holds up to n.
LEMMA InductionUpTo ==
    ASSUME NEW n \in Nat, NEW T, 0 \in T, \A k \in 1..n : k - 1 \in T => k \in T
    PROVE  0..n \subseteq T
<1> DEFINE S == {k \in 0..n : k \notin T}
<1> SUFFICES ASSUME S # {} PROVE FALSE
    OBVIOUS
<1>1. Min(S) \in S /\ \A y \in S : Min(S) <= y
    <2>1. S \in SUBSET Nat
        OBVIOUS
    <2> HIDE DEF S
    <2> QED BY <2>1, MinIsLeast
<1>2. PICK m : m = Min(S)
    OBVIOUS
<1>3. m \in 1..n /\ m \notin T /\ m - 1 \in 0..n
    BY <1>1, <1>2
<1>4. m - 1 \notin S
    BY <1>1, <1>2, <1>3
<1> QED BY <1>3, <1>4

\* A function defined by recursion up to n exists.
LEMMA IteratesUpTo ==
    ASSUME NEW S, NEW c \in S, NEW n \in Nat, NEW F \in [1..n -> [S -> S]]
    PROVE  \E g \in [0..n -> S] : g[0] = c /\ \A i \in 1..n : g[i] = F[i][g[i - 1]]
<1> DEFINE Upto(m, g) == g \in [0..m -> S] /\ g[0] = c /\ \A i \in 1..m : g[i] = F[i][g[i - 1]]
           T == {m \in 0..n : \E g : Upto(m, g)}
<1>1. 0 \in T
    <2>1. Upto(0, [i \in 0..0 |-> c])
        OBVIOUS
    <2>2. 0 \in 0..n
        OBVIOUS
    <2> HIDE DEF Upto
    <2> QED BY <2>1, <2>2
<1>2. ASSUME NEW m \in 1..n, m - 1 \in T PROVE m \in T
    <2>1. PICK g : Upto(m - 1, g)
        BY <1>2
    <2> DEFINE h == [i \in 0..m |-> IF i = m THEN F[m][g[m - 1]] ELSE g[i]]
    <2>2. m - 1 \in 0..(m - 1) /\ F[m][g[m - 1]] \in S
        BY <2>1
    <2>3. h \in [0..m -> S] /\ h[0] = c
        BY <2>1, <2>2
    <2>4. ASSUME NEW i \in 1..m PROVE h[i] = F[i][h[i - 1]]
        <3>1. i - 1 \in 0..m /\ i - 1 # m /\ h[i - 1] = g[i - 1]
            OBVIOUS
        <3>2. CASE i = m
            BY <3>1, <3>2
        <3>3. CASE i # m
            BY <2>1, <3>1, <3>3
        <3> QED BY <3>2, <3>3
    <2>5. Upto(m, h)
        BY <2>3, <2>4
    <2>6. m \in 0..n
        OBVIOUS
    <2> HIDE DEF Upto
    <2> QED BY <2>5, <2>6
<1> HIDE DEF T
<1>3. 0..n \subseteq T
    BY <1>1, <1>2, InductionUpTo
<1>4. n \in T
    BY <1>3
<1> QED BY <1>4 DEF T

(***************************************************************************)
(* The shapes that ship.                                                   *)
(***************************************************************************)

Segment == [chars : SUBSET Nat, lo : Nat, hi : Nat]
Shape == Seq(Segment)

\* What may stand inside a number, and shapes made of that; those among them that
\* do not end in a separator.
Inner == AN \cup {Space, Dash, Dot}
Inners == {s \in Shape : \A k \in 1..Len(s) : s[k].chars \subseteq Inner}
Solid(segment) == segment.chars \subseteq AN /\ segment.lo >= 1
Tails == {s \in Inners : s # <<>> /\ Solid(s[Len(s)])}

\* Shapes that begin with a segment and go on with such.
Begun(head) ==
    {s \in Shape : /\ s # <<>> /\ s[1] = head
                   /\ \A k \in 2..Len(s) : s[k].chars \subseteq Inner}
Closed(head) == {s \in Begun(head) : Solid(s[Len(s)])}

\* A recognizer whose matches can be cut back at a separator: none of them ends in
\* one, and beside a leading plus there is nothing in them but words and separators.
Leads(name, segment) == Solid(segment) \/ (name = "international" /\ segment.hi = 1)
Opens(name, s) == \E head \in Segment : Leads(name, head) /\ s \in Begun(head)
Fits(name, s) == \E head \in Segment : Leads(name, head) /\ s \in Closed(head)
Cuttable(rec) == \A s \in rec.shapes : Fits(rec.name, s)

WellShaped(rec) ==
    /\ rec.shapes \in SUBSET Shape
    /\ rec.shrink => rec.scan = "Overlapping" /\ Cuttable(rec)
Table(recs) == \E S : recs \in Seq(S) /\ \A rec \in S : WellShaped(rec)

\* The characters there are.
LEMMA Characters ==
    /\ D \in SUBSET Nat /\ L \in SUBSET Nat /\ AN \in SUBSET Nat /\ Inner \in SUBSET Nat
    /\ D \subseteq AN /\ L \subseteq AN /\ AN \subseteq Inner
    /\ {Space} \subseteq Inner /\ {Space, Dash} \subseteq Inner
    /\ {Space, Dash, Dot} \subseteq Inner
    /\ {Plus} \in SUBSET Nat /\ {Dash} \in SUBSET Nat
BY DEF D, L, AN, Inner, Space, Dash, Dot, Plus

LEMMA SegShape ==
    ASSUME NEW chars \in SUBSET Nat, NEW lo \in Nat, NEW hi \in Nat
    PROVE  /\ Seg(chars, lo, hi) \in Shape
           /\ chars \subseteq Inner => Seg(chars, lo, hi) \in Inners
           /\ chars \subseteq AN /\ lo >= 1 => Seg(chars, lo, hi) \in Tails
<1> DEFINE seg == [chars |-> chars, lo |-> lo, hi |-> hi]
<1>1. seg \in Segment /\ seg.chars = chars /\ seg.lo = lo
    BY DEF Segment
<1>2. Seg(chars, lo, hi) = <<seg>>
    BY DEF Seg
<1> HIDE DEF seg
<1>3. <<seg>> \in Shape /\ <<seg>> # <<>> /\ Len(<<seg>>) = 1 /\ <<seg>>[1] = seg
    BY <1>1 DEF Shape
<1>4. chars \subseteq Inner => <<seg>> \in Inners
    <2>1. \A k \in 1..Len(<<seg>>) : <<seg>>[k] = seg
        BY <1>3
    <2> QED BY <1>1, <1>3, <2>1, Zenon DEF Inners
<1> QED BY <1>1, <1>2, <1>3, <1>4, Characters DEF Tails, Solid

LEMMA FewShape ==
    ASSUME NEW chars \in SUBSET Nat, NEW n \in Nat
    PROVE  /\ Few(chars, n) \in Shape
           /\ chars \subseteq Inner => Few(chars, n) \in Inners
           /\ chars \subseteq AN /\ n >= 1 => Few(chars, n) \in Tails
BY SegShape DEF Few

LEMMA GapShapes == Gap \in Inners /\ CGap \in Inners /\ PGap \in Inners
<1>1. 1 \in Nat /\ SeparatorRunMax \in Nat
    BY DEF SeparatorRunMax
<1>2. {Space} \in SUBSET Nat /\ {Space, Dash} \in SUBSET Nat /\ {Space, Dash, Dot} \in SUBSET Nat
    BY DEF Space, Dash, Dot
<1> QED BY <1>1, <1>2, SegShape, Characters DEF Gap, CGap, PGap

LEMMA JoinShapes ==
    ASSUME NEW a \in Shape, NEW b \in Shape
    PROVE  /\ a \o b \in Shape
           /\ a \in Inners /\ b \in Inners => a \o b \in Inners
           /\ a \in Inners /\ b \in Tails => a \o b \in Tails
<1>1. a \o b \in Shape /\ Len(a) \in Nat /\ Len(b) \in Nat /\ Len(a \o b) = Len(a) + Len(b)
    BY DEF Shape
<1>2. \A k \in 1..Len(a \o b) : (a \o b)[k] = IF k <= Len(a) THEN a[k] ELSE b[k - Len(a)]
    BY DEF Shape
<1>3. ASSUME a \in Inners, b \in Inners PROVE a \o b \in Inners
    <2>1. ASSUME NEW k \in 1..Len(a \o b) PROVE (a \o b)[k].chars \subseteq Inner
        <3>1. CASE k <= Len(a)
            BY <1>1, <1>2, <1>3, <3>1 DEF Inners
        <3>2. CASE ~(k <= Len(a))
            <4>1. k - Len(a) \in 1..Len(b)
                BY <1>1, <3>2
            <4> QED BY <1>2, <1>3, <3>2, <4>1 DEF Inners
        <3> QED BY <3>1, <3>2
    <2> QED BY <1>1, <2>1 DEF Inners
<1>4. ASSUME a \in Inners, b \in Tails PROVE a \o b \in Tails
    <2>1. b \in Inners /\ b # <<>> /\ Solid(b[Len(b)])
        BY <1>4 DEF Tails
    <2>2. Len(b) >= 1
        BY <1>1, <2>1 DEF Shape
    <2>3. /\ Len(a \o b) \in 1..Len(a \o b)
          /\ ~(Len(a \o b) <= Len(a)) /\ Len(a \o b) - Len(a) = Len(b)
        BY <1>1, <2>2
    <2>4. (a \o b)[Len(a \o b)] = b[Len(b)]
        BY <1>2, <2>3
    <2>5. a \o b # <<>>
        BY <1>1, <2>2
    <2> QED BY <1>3, <1>4, <2>1, <2>4, <2>5 DEF Tails
<1> QED BY <1>1, <1>3, <1>4

\* A shape that has begun goes on, and may end where what it goes on with does.
LEMMA BeginShape ==
    ASSUME NEW head \in Segment
    PROVE  <<head>> \in Begun(head) /\ (Solid(head) => <<head>> \in Closed(head))
<1>1. <<head>> \in Shape /\ <<head>> # <<>> /\ Len(<<head>>) = 1 /\ <<head>>[1] = head
    BY DEF Shape
<1> QED BY <1>1 DEF Begun, Closed

LEMMA ExtendShape ==
    ASSUME NEW head, NEW a \in Begun(head), NEW b \in Inners
    PROVE  a \o b \in Begun(head) /\ (b \in Tails => a \o b \in Closed(head))
<1>1. a \in Shape /\ b \in Shape /\ Len(a) \in Nat /\ Len(b) \in Nat /\ Len(a) >= 1 /\ a[1] = head
    BY DEF Begun, Inners, Shape
<1>2. a \o b \in Shape /\ Len(a \o b) = Len(a) + Len(b) /\ a \o b # <<>>
    BY <1>1 DEF Shape
<1>3. \A k \in 1..Len(a \o b) : (a \o b)[k] = IF k <= Len(a) THEN a[k] ELSE b[k - Len(a)]
    BY <1>1 DEF Shape
<1>4. (a \o b)[1] = head
    BY <1>1, <1>2, <1>3
<1>5. ASSUME NEW k \in 2..Len(a \o b) PROVE (a \o b)[k].chars \subseteq Inner
    <2>1. CASE k <= Len(a)
        BY <1>1, <1>2, <1>3, <2>1 DEF Begun
    <2>2. CASE ~(k <= Len(a))
        <3>1. k - Len(a) \in 1..Len(b)
            BY <1>1, <1>2, <2>2
        <3> QED BY <1>1, <1>3, <2>2, <3>1 DEF Inners
    <2> QED BY <2>1, <2>2
<1>6. a \o b \in Begun(head)
    BY <1>2, <1>4, <1>5 DEF Begun
<1>7. ASSUME b \in Tails PROVE a \o b \in Closed(head)
    <2>1. b # <<>> /\ Solid(b[Len(b)])
        BY <1>7 DEF Tails
    <2>2. Len(b) >= 1
        BY <1>1, <2>1 DEF Shape
    <2>3. /\ Len(a \o b) \in 1..Len(a \o b)
          /\ ~(Len(a \o b) <= Len(a)) /\ Len(a \o b) - Len(a) = Len(b)
        BY <1>1, <1>2, <2>2
    <2>4. (a \o b)[Len(a \o b)] = b[Len(b)]
        BY <1>3, <2>3
    <2> QED BY <1>6, <2>1, <2>4 DEF Closed
<1> QED BY <1>6, <1>7

LEMMA TimesShape ==
    ASSUME NEW n \in Nat, NEW s \in Shape
    PROVE  /\ Times(n, s) \in Shape
           /\ s \in Tails => Times(n, s) \in Inners /\ (n >= 1 => Times(n, s) \in Tails)
<1>0. PICK nil : nil = <<>>
    OBVIOUS
<1> DEFINE G(g) == [i \in 0..n |-> IF i = 0 THEN nil ELSE g[i - 1] \o s]
<1>1. Times(n, s) = (CHOOSE g : g = G(g))[n]
    BY <1>0 DEF Times
<1>2. ASSUME NEW S, NEW U \in SUBSET S, nil \in S, \A a \in S : a \o s \in U
      PROVE  Times(n, s) \in S /\ (n >= 1 => Times(n, s) \in U)
    <2> DEFINE F == [i \in 1..n |-> [a \in S |-> a \o s]]
    <2>1. F \in [1..n -> [S -> S]]
        BY <1>2
    <2>2. PICK g \in [0..n -> S] : g[0] = nil /\ \A i \in 1..n : g[i] = F[i][g[i - 1]]
        <3>1. nil \in S
            BY <1>2
        <3>2. PICK f \in [1..n -> [S -> S]] : f = F
            BY <2>1
        <3> HIDE DEF F
        <3>3. \E g \in [0..n -> S] : g[0] = nil /\ \A i \in 1..n : g[i] = f[i][g[i - 1]]
            BY <3>1, IteratesUpTo
        <3> QED BY <3>2, <3>3
    <2>3. ASSUME NEW i \in 1..n PROVE g[i] = g[i - 1] \o s
        <3>1. i - 1 \in 0..n /\ g[i - 1] \in S
            OBVIOUS
        <3> QED BY <2>2, <3>1
    <2>4. g = G(g)
        <3>1. \A i \in 0..n : i = 0 \/ i \in 1..n
            OBVIOUS
        <3> QED BY <2>2, <2>3, <3>1
    <2> HIDE DEF G
    <2>5. PICK h : h = (CHOOSE f : f = G(f)) /\ h = G(h)
        BY <2>4
    <2>6. \A i \in 0..n : h[i] = IF i = 0 THEN nil ELSE h[i - 1] \o s
        BY <2>5 DEF G
    <2> DEFINE T == {i \in 0..n : h[i] \in S}
    <2>7. 0 \in T
        BY <1>2, <2>6
    <2>8. ASSUME NEW k \in 1..n, h[k - 1] \in S PROVE k \in T /\ h[k] \in U
        <3>1. k \in 0..n /\ k # 0
            OBVIOUS
        <3>2. h[k] = h[k - 1] \o s
            BY <2>6, <3>1
        <3> QED BY <1>2, <2>8, <3>1, <3>2
    <2>9. 0..n \subseteq T
        <3>1. \A k \in 1..n : k - 1 \in T => k \in T
            BY <2>8
        <3> HIDE DEF T
        <3> QED BY <2>7, <3>1, InductionUpTo
    <2>10. n \in T /\ (n >= 1 => n - 1 \in T)
        BY <2>9
    <2>11. n >= 1 => h[n] \in U
        BY <2>8, <2>10
    <2> QED BY <1>1, <2>5, <2>10, <2>11
<1> HIDE DEF G
<1>3. nil \in Shape /\ nil \in Inners
    BY <1>0 DEF Shape, Inners
<1>4. Times(n, s) \in Shape
    BY <1>2, <1>3, JoinShapes
<1>5. ASSUME s \in Tails PROVE Times(n, s) \in Inners /\ (n >= 1 => Times(n, s) \in Tails)
    <2>1. \A a \in Inners : a \in Shape
        BY DEF Inners
    <2>2. \A a \in Inners : a \o s \in Tails
        BY <1>5, <2>1, JoinShapes
    <2>3. Tails \in SUBSET Inners
        BY DEF Tails
    <2> QED BY <1>2, <1>3, <2>2, <2>3
<1> QED BY <1>4, <1>5

LEMMA RecognizerFits ==
    ASSUME NEW name, NEW kind, NEW shapes \in SUBSET Shape, NEW scan
    PROVE  WellShaped(Recognizer(name, kind, shapes, scan, FALSE))
BY DEF Recognizer, WellShaped

LEMMA BoundedFits ==
    ASSUME NEW name, NEW kind, NEW shapes \in SUBSET Shape
    PROVE  WellShaped(Bounded(name, kind, shapes))
BY RecognizerFits DEF Bounded

LEMMA CuttableFits ==
    ASSUME NEW name, NEW kind, NEW shapes,
           \A s \in shapes : Fits(name, s)
    PROVE  WellShaped(Recognizer(name, kind, shapes, "Overlapping", TRUE))
<1>1. shapes \in SUBSET Shape
    BY DEF Fits, Closed, Begun
<1> DEFINE rec == Recognizer(name, kind, shapes, "Overlapping", TRUE)
<1>2. rec.name = name /\ rec.shapes = shapes /\ rec.scan = "Overlapping"
    BY DEF Recognizer
<1> HIDE DEF rec
<1>3. Cuttable(rec)
    BY <1>2 DEF Cuttable
<1> QED BY <1>1, <1>2, <1>3 DEF WellShaped, rec

\* Tables of recognizers.
LEMMA JoinTables ==
    ASSUME NEW a, NEW b, Table(a), Table(b)
    PROVE  Table(a \o b)
<1>1. PICK S : a \in Seq(S) /\ \A rec \in S : WellShaped(rec)
    BY DEF Table
<1>2. PICK T : b \in Seq(T) /\ \A rec \in T : WellShaped(rec)
    BY DEF Table
<1>3. a \in Seq(S \cup T) /\ b \in Seq(S \cup T)
    BY <1>1, <1>2
<1>4. a \o b \in Seq(S \cup T)
    BY <1>3
<1> QED BY <1>1, <1>2, <1>4 DEF Table

\* Shapes whose matches can be cut back, from left to right.
LEMMA OpenSeg ==
    ASSUME NEW name, NEW chars \in SUBSET AN, NEW lo \in Nat \ {0}, NEW hi \in Nat
    PROVE  Opens(name, Seg(chars, lo, hi)) /\ Fits(name, Seg(chars, lo, hi))
<1>1. PICK seg : seg = [chars |-> chars, lo |-> lo, hi |-> hi]
    OBVIOUS
<1>3. seg \in Segment /\ Solid(seg)
    <2>1. chars \in SUBSET Nat
        BY Characters
    <2> QED BY <1>1, <2>1 DEF Segment, Solid
<1>2. Seg(chars, lo, hi) = <<seg>>
    BY <1>1 DEF Seg
<1> QED BY <1>2, <1>3, BeginShape DEF Opens, Fits, Leads

LEMMA OpenFew ==
    ASSUME NEW name, NEW chars \in SUBSET AN, NEW n \in Nat \ {0}
    PROVE  Opens(name, Few(chars, n)) /\ Fits(name, Few(chars, n))
BY OpenSeg DEF Few

LEMMA OpenPlus == Opens("international", Few({Plus}, 1))
<1>1. PICK seg \in Segment : seg = [chars |-> {Plus}, lo |-> 1, hi |-> 1]
    BY Characters DEF Segment
<1>2. Few({Plus}, 1) = <<seg>> /\ seg.hi = 1
    BY <1>1 DEF Few, Seg
<1> QED BY <1>2, BeginShape DEF Opens, Leads

LEMMA GoOn ==
    ASSUME NEW name, NEW a, Opens(name, a), NEW b \in Inners
    PROVE  Opens(name, a \o b) /\ (b \in Tails => Fits(name, a \o b))
<1>1. PICK head \in Segment : Leads(name, head) /\ a \in Begun(head)
    BY DEF Opens
<1>2. a \o b \in Begun(head) /\ (b \in Tails => a \o b \in Closed(head))
    BY <1>1, ExtendShape
<1> QED BY <1>1, <1>2 DEF Opens, Fits

\* Segments to go on with.
LEMMA TailSeg ==
    ASSUME NEW chars \in SUBSET AN, NEW lo \in Nat \ {0}, NEW hi \in Nat
    PROVE  Seg(chars, lo, hi) \in Tails /\ Seg(chars, lo, hi) \in Inners
BY SegShape, Characters

LEMMA TailFew ==
    ASSUME NEW chars \in SUBSET AN, NEW n \in Nat \ {0}
    PROVE  Few(chars, n) \in Tails /\ Few(chars, n) \in Inners
BY FewShape, Characters

\* Groups of characters behind gaps.
LEMMA Groups ==
    ASSUME NEW gap \in Inners, NEW s \in Tails, NEW n \in Nat \ {0}
    PROVE  Times(n, gap \o s) \in Tails /\ Times(n, gap \o s) \in Inners
<1>1. gap \in Shape /\ s \in Shape
    BY DEF Tails, Inners
<1>2. gap \o s \in Tails /\ gap \o s \in Shape
    BY <1>1, JoinShapes DEF Tails, Inners
<1> QED BY <1>2, TimesShape

LEMMA SecretFits == WellShaped(UniversalRecognizers[1])
<1> DEFINE s1 == Few({128}, 1) \o Few({120}, 1) \o Few({Dash}, 1) \o Seg(AN \cup {Dash}, 6, 40)
           s2 == Few({10}, 1) \o Few({20}, 1) \o Few({18}, 1) \o Few({10}, 1) \o Few(0..35, 16)
<1>1. AN \cup {Dash} \in SUBSET Nat /\ {Dash} \in SUBSET Nat
    BY Characters
<1>2. s1 \in Shape
    BY <1>1, FewShape, SegShape, JoinShapes
<1>3. s2 \in Shape
    BY <1>1, FewShape, SegShape, JoinShapes
<1> HIDE DEF s1, s2
<1>4. WellShaped(Recognizer("secret", "Secret", {s1, s2}, "Sequential", FALSE))
    BY <1>2, <1>3, RecognizerFits
<1> QED BY <1>4 DEF UniversalRecognizers, s1, s2

LEMMA IbanFits == WellShaped(UniversalRecognizers[2])
<1> DEFINE start == Few(L, 2) \o Few(D, 2)
           group == Gap \o Few(AN, 4)
           shapes == {start \o Seg(AN, 11, 30)}
                     \cup {start \o Times(n, group) : n \in 2..7}
                     \cup {start \o Times(n, group) \o Gap \o Seg(AN, 1, 4) : n \in 2..7}
<1>1. Opens("iban", start)
    <2>1. Opens("iban", Few(L, 2)) /\ Few(D, 2) \in Inners
        BY Characters, OpenFew, TailFew
    <2> QED BY <2>1, GoOn
<1>2. AN \in SUBSET AN /\ Seg(AN, 11, 30) \in Inners /\ Seg(AN, 11, 30) \in Tails
      /\ Seg(AN, 1, 4) \in Inners /\ Seg(AN, 1, 4) \in Tails
    BY TailSeg
<1>3. ASSUME NEW n \in 2..7 PROVE Times(n, group) \in Tails /\ Times(n, group) \in Inners
    <2>1. Few(AN, 4) \in Tails /\ n \in Nat \ {0} /\ Gap \in Inners
        BY <1>2, TailFew, GapShapes
    <2> QED BY <2>1, Groups
<1> HIDE DEF start, group
<1>4. Fits("iban", start \o Seg(AN, 11, 30))
    BY <1>1, <1>2, GoOn
<1>5. ASSUME NEW n \in 2..7
      PROVE  Fits("iban", start \o Times(n, group)) /\ Opens("iban", start \o Times(n, group))
    BY <1>1, <1>3, GoOn
<1>6. ASSUME NEW n \in 2..7 PROVE Fits("iban", start \o Times(n, group) \o Gap \o Seg(AN, 1, 4))
    BY <1>2, <1>5, GapShapes, GoOn
<1>7. \A s \in shapes : Fits("iban", s)
    BY <1>4, <1>5, <1>6
<1> HIDE DEF shapes
<1>8. WellShaped(Recognizer("iban", "Iban", shapes, "Overlapping", TRUE))
    BY <1>7, CuttableFits
<1> QED BY <1>8 DEF UniversalRecognizers, shapes, start, group

LEMMA CardFits == WellShaped(UniversalRecognizers[3])
<1> DEFINE groups == Times(3, CGap \o Few(D, 4))
           s1 == Few(D, 4) \o groups
           s2 == Few(D, 4) \o groups \o CGap \o Seg(D, 1, 3)
           s3 == Few(D, 4) \o CGap \o Few(D, 6) \o CGap \o Seg(D, 4, 5)
           s4 == Seg(D, 13, 19)
<1>1. D \in SUBSET AN /\ CGap \in Inners
    BY Characters, GapShapes
<1>2. groups \in Tails /\ groups \in Inners
    <2>1. Few(D, 4) \in Tails
        BY <1>1, TailFew
    <2> QED BY <1>1, <2>1, Groups
<1>7. Opens("card", Few(D, 4))
    BY <1>1, OpenFew
<1> HIDE DEF groups
<1>3. Fits("card", s1) /\ Opens("card", s1)
    BY <1>2, <1>7, GoOn
<1>4. Fits("card", s2)
    BY <1>1, <1>3, TailSeg, GoOn
<1>5. Fits("card", s3)
    <2>1. Opens("card", Few(D, 4) \o CGap) /\ Few(D, 6) \in Inners
        BY <1>1, <1>7, TailFew, GoOn
    <2>2. Opens("card", Few(D, 4) \o CGap \o Few(D, 6))
        BY <2>1, GoOn
    <2>3. Opens("card", Few(D, 4) \o CGap \o Few(D, 6) \o CGap)
        BY <1>1, <2>2, GoOn
    <2> QED BY <1>1, <2>3, TailSeg, GoOn
<1>6. Fits("card", s4)
    BY <1>1, OpenSeg
<1> HIDE DEF s1, s2, s3, s4
<1>8. WellShaped(Recognizer("card", "CreditCard", {s1, s2, s3, s4}, "Overlapping", TRUE))
    BY <1>3, <1>4, <1>5, <1>6, CuttableFits
<1> QED BY <1>8 DEF UniversalRecognizers, s1, s2, s3, s4, groups

LEMMA InternationalFits == WellShaped(UniversalRecognizers[4])
<1> DEFINE start == Few({Plus}, 1) \o Seg(D, 1, 3)
           group == PGap \o Seg(D, 1, 8)
           shapes == {start \o Times(n, group) : n \in 1..6}
                     \cup {Few({Plus}, 1) \o Seg(D, 8, 15)}
<1>1. D \in SUBSET AN /\ PGap \in Inners
    BY Characters, GapShapes
<1>2. Opens("international", start) /\ Fits("international", Few({Plus}, 1) \o Seg(D, 8, 15))
    BY <1>1, OpenPlus, TailSeg, GoOn
<1>3. ASSUME NEW n \in 1..6 PROVE Times(n, group) \in Tails /\ Times(n, group) \in Inners
    <2>1. Seg(D, 1, 8) \in Tails /\ n \in Nat \ {0}
        BY <1>1, TailSeg
    <2> QED BY <1>1, <2>1, Groups
<1> HIDE DEF start, group
<1>4. ASSUME NEW n \in 1..6 PROVE Fits("international", start \o Times(n, group))
    BY <1>2, <1>3, GoOn
<1>5. \A s \in shapes : Fits("international", s)
    BY <1>2, <1>4
<1> HIDE DEF shapes
<1>6. WellShaped(Recognizer("international", "Phone", shapes, "Overlapping", TRUE))
    BY <1>5, CuttableFits
<1> QED BY <1>6 DEF UniversalRecognizers, shapes, start, group

LEMMA UniversalTable == Table(UniversalRecognizers)
<1>1. PICK a, b, c, d : UniversalRecognizers = <<a, b, c, d>>
    BY DEF UniversalRecognizers
<1>2. WellShaped(a) /\ WellShaped(b) /\ WellShaped(c) /\ WellShaped(d)
    BY <1>1, SecretFits, IbanFits, CardFits, InternationalFits
<1>3. <<a, b, c, d>> \in Seq({a, b, c, d})
    OBVIOUS
<1>4. PICK S : S = {a, b, c, d}
    OBVIOUS
<1>5. \A e \in S : WellShaped(e)
    BY <1>2, <1>4
<1>6. UniversalRecognizers \in Seq(S)
    BY <1>1, <1>3, <1>4
<1> QED BY <1>5, <1>6 DEF Table

\* The tables whose recognizers cut nothing back.
LEMMA Letters ==
    /\ D \in SUBSET Nat /\ L \in SUBSET Nat /\ {Dash} \in SUBSET Nat
    /\ \A n \in Nat : Either(n) \in SUBSET Nat /\ D \cup Either(n) \in SUBSET Nat
BY Characters DEF Either

LEMMA GapShapesAre == Gap \in Shape /\ CGap \in Shape /\ PGap \in Shape
BY GapShapes DEF Inners

LEMMA NationalTable == Table(NationalIdRecognizers)
<1> DEFINE last == 10..13 \cup 110..113
           ssn == Few(D, 3) \o Few({Dash}, 1) \o Few(D, 2) \o Few({Dash}, 1) \o Few(D, 4)
           cf == Few(L, 6) \o Few(D, 2) \o Few(L, 1) \o Few(D, 2) \o Few(L, 1)
                 \o Few(D, 3) \o Few(L, 1)
           nino1 == Few(L, 2) \o Few(D, 6) \o Few(last, 1)
           nino2 == Few(L, 2) \o Times(3, Gap \o Few(D, 2)) \o Gap \o Few(last, 1)
           dni1 == Few(33..35 \cup 133..135, 1) \o Few(D, 7) \o Few(L, 1)
           dni2 == Few(D, 8) \o Few(L, 1)
           months == {Few({0}, 1) \o Few(1..9, 1), Few({1}, 1) \o Few(0..2, 1),
                      Few({2}, 1) \o Few({0}, 1), Few({3}, 1) \o Few(D, 1),
                      Few({4}, 1) \o Few(0..2, 1), Few(5..9, 1) \o Few(D, 1)}
           nir == {Few({1, 2}, 1) \o Few(D, 2) \o month \o Few(D, 10) : month \in months}
           latvian == Few(D, 6) \o Few({Dash}, 1) \o Few(D, 5)
           resident == Few(D, 17) \o Few(D \cup Either(33), 1)
<1>1. last \in SUBSET Nat
    OBVIOUS
<1>2. ssn \in Shape
    BY Letters, FewShape, JoinShapes
<1>3. cf \in Shape
    BY Letters, FewShape, JoinShapes
<1>4. nino1 \in Shape
    <2> HIDE DEF last
    <2> QED BY <1>1, Letters, FewShape, JoinShapes
<1>5. nino2 \in Shape
    <2> HIDE DEF last
    <2>1. Gap \o Few(D, 2) \in Shape
        BY Letters, GapShapesAre, FewShape, JoinShapes
    <2>2. Times(3, Gap \o Few(D, 2)) \in Shape
        BY <2>1, TimesShape
    <2> QED BY <1>1, <2>2, Letters, GapShapesAre, FewShape, JoinShapes
<1>6. dni1 \in Shape /\ dni2 \in Shape
    <2>1. 33..35 \cup 133..135 \in SUBSET Nat
        OBVIOUS
    <2> QED BY <2>1, Letters, FewShape, JoinShapes
<1>7. nir \in SUBSET Shape
    <2>1. /\ {0} \in SUBSET Nat /\ 1..9 \in SUBSET Nat /\ {1} \in SUBSET Nat /\ 0..2 \in SUBSET Nat
          /\ {2} \in SUBSET Nat /\ {3} \in SUBSET Nat /\ {4} \in SUBSET Nat /\ 5..9 \in SUBSET Nat
          /\ {1, 2} \in SUBSET Nat
        OBVIOUS
    <2>2. months \in SUBSET Shape
        BY <2>1, Letters, FewShape, JoinShapes
    <2> HIDE DEF months
    <2>3. ASSUME NEW month \in months
          PROVE  Few({1, 2}, 1) \o Few(D, 2) \o month \o Few(D, 10) \in Shape
        BY <2>1, <2>2, Letters, FewShape, JoinShapes
    <2> QED BY <2>3
<1>8. latvian \in Shape /\ resident \in Shape /\ Few(D, 9) \in Shape /\ Few(D, 11) \in Shape
    BY Letters, FewShape, JoinShapes
<1> HIDE DEF ssn, cf, nino1, nino2, dni1, dni2, nir, latvian, resident
<1>9. PICK a, b, c, d, e, f, g, h, i :
        /\ a = Bounded("ssn", "Ssn", {ssn}) /\ b = Bounded("cf", "NationalId", {cf})
        /\ c = Bounded("nino", "NationalId", {nino1, nino2})
        /\ d = Bounded("dni", "NationalId", {dni1, dni2}) /\ e = Bounded("nir", "NationalId", nir)
        /\ f = Bounded("nine", "NationalId", {Few(D, 9)})
        /\ g = Bounded("eleven", "NationalId", {Few(D, 11)})
        /\ h = Bounded("latvian", "NationalId", {latvian})
        /\ i = Bounded("resident", "NationalId", {resident})
    OBVIOUS
<1>10. /\ WellShaped(a) /\ WellShaped(b) /\ WellShaped(c) /\ WellShaped(d) /\ WellShaped(e)
       /\ WellShaped(f) /\ WellShaped(g) /\ WellShaped(h) /\ WellShaped(i)
    BY <1>2, <1>3, <1>4, <1>5, <1>6, <1>7, <1>8, <1>9, BoundedFits
<1>11. PICK S : S = {a, b, c, d, e, f, g, h, i}
    OBVIOUS
<1>12. \A rec \in S : WellShaped(rec)
    BY <1>10, <1>11
<1>13. NationalIdRecognizers = <<a, b, c, d, e, f, g, h, i>>
    BY <1>9 DEF NationalIdRecognizers, ssn, cf, nino1, nino2, dni1, dni2, nir, latvian, resident
<1>14. <<a, b, c, d, e, f, g, h, i>> \in Seq(S)
    BY <1>11
<1> QED BY <1>12, <1>13, <1>14 DEF Table

LEMMA VatTable == Table(VatRecognizers)
<1> DEFINE vat(a, b) == Few(Either(a), 1) \o Few(Either(b), 1) \o Few(D, 9)
           itVat == Few(Either(18), 1) \o Few(Either(29), 1) \o Few(D, 11)
           nlVat == Few(Either(23), 1) \o Few(Either(21), 1) \o Few(D, 9) \o Few(Either(11), 1)
                    \o Few(D, 2)
<1>1. ASSUME NEW name, NEW a \in Nat, NEW b \in Nat PROVE WellShaped(Vat(name, a, b))
    <2>1. vat(a, b) \in Shape
        BY Letters, FewShape, JoinShapes
    <2> HIDE DEF vat
    <2>2. WellShaped(Bounded(name, "TaxId", {vat(a, b)}))
        BY <2>1, BoundedFits
    <2> QED BY <2>2 DEF Vat, vat
<1>2. itVat \in Shape /\ nlVat \in Shape /\ Few(D, 11) \in Shape
    BY Letters, FewShape, JoinShapes
<1> HIDE DEF itVat, nlVat
<1>3. PICK a, b, c, d, e, f :
        /\ a = Bounded("piva", "TaxId", {Few(D, 11)}) /\ b = Bounded("itVat", "TaxId", {itVat})
        /\ c = Vat("deVat", 13, 14) /\ d = Vat("gbVat", 16, 11) /\ e = Vat("ptVat", 25, 29)
        /\ f = Bounded("nlVat", "TaxId", {nlVat})
    OBVIOUS
<1>4. /\ WellShaped(a) /\ WellShaped(b) /\ WellShaped(c) /\ WellShaped(d) /\ WellShaped(e)
      /\ WellShaped(f)
    BY <1>1, <1>2, <1>3, BoundedFits
<1>5. PICK S : S = {a, b, c, d, e, f}
    OBVIOUS
<1>6. \A rec \in S : WellShaped(rec)
    BY <1>4, <1>5
<1>7. VatRecognizers = <<a, b, c, d, e, f>>
    BY <1>3 DEF VatRecognizers, itVat, nlVat
<1>8. <<a, b, c, d, e, f>> \in Seq(S)
    BY <1>5
<1> QED BY <1>6, <1>7, <1>8 DEF Table

LEMMA TrunkFits == WellShaped(PhoneShapeTemplates[1]) /\ WellShaped(PhoneShapeTemplates[2])
<1> DEFINE s1 == Few({0}, 1) \o Seg(D, 1, 4) \o Times(2, PGap \o Seg(D, 3, 4))
           s2 == Few({0}, 1) \o Seg(D, 1, 4) \o PGap \o Seg(D, 4, 8)
           s3 == Few({0}, 1) \o Seg(D, 6, 11)
           s4 == Few({0}, 1) \o Few(D, 1) \o Times(4, PGap \o Few(D, 2))
<1>1. {0} \in SUBSET Nat
    OBVIOUS
<1>2. s1 \in Shape
    <2>1. Times(2, PGap \o Seg(D, 3, 4)) \in Shape
        <3>1. PGap \o Seg(D, 3, 4) \in Shape
            BY Letters, GapShapesAre, SegShape, JoinShapes
        <3> QED BY <3>1, TimesShape
    <2> QED BY <1>1, <2>1, Letters, FewShape, SegShape, JoinShapes
<1>3. s2 \in Shape /\ s3 \in Shape
    BY <1>1, Letters, GapShapesAre, FewShape, SegShape, JoinShapes
<1>4. s4 \in Shape
    <2>1. Times(4, PGap \o Few(D, 2)) \in Shape
        <3>1. PGap \o Few(D, 2) \in Shape
            BY Letters, GapShapesAre, FewShape, JoinShapes
        <3> QED BY <3>1, TimesShape
    <2> QED BY <1>1, <2>1, Letters, FewShape, JoinShapes
<1> HIDE DEF s1, s2, s3, s4
<1>5. /\ WellShaped(Recognizer("Trunk", "Phone", {s1, s2, s3}, "Overlapping", FALSE))
      /\ WellShaped(Recognizer("TrunkPairs", "Phone", {s4}, "Overlapping", FALSE))
    BY <1>2, <1>3, <1>4, RecognizerFits
<1> QED BY <1>5 DEF PhoneShapeTemplates, s1, s2, s3, s4

LEMMA GroupsFit == WellShaped(PhoneShapeTemplates[3]) /\ WellShaped(PhoneShapeTemplates[4])
<1> DEFINE start == Few(1..9, 1) \o Seg(D, 1, 2)
           group == PGap \o Seg(D, 2, 4)
           shapes == {start \o Times(n, group) : n \in 1..3}
           block == Few(1..9, 1) \o Few(D, 2) \o PGap \o Seg(D, 6, 8)
<1>1. 1..9 \in SUBSET AN /\ D \in SUBSET AN /\ PGap \in Inners
    BY Characters, GapShapes DEF AN, D
<1>2. Opens("Groups", start) /\ Opens("LongBlock", Few(1..9, 1)) /\ Opens("Groups", Few(1..9, 1))
    BY <1>1, OpenFew, TailSeg, GoOn
<1>3. ASSUME NEW n \in 1..3 PROVE Times(n, group) \in Tails /\ Times(n, group) \in Inners
    <2>1. Seg(D, 2, 4) \in Tails /\ n \in Nat \ {0}
        BY <1>1, TailSeg
    <2> QED BY <1>1, <2>1, Groups
<1> HIDE DEF start, group
<1>4. ASSUME NEW n \in 1..3 PROVE Fits("Groups", start \o Times(n, group))
    BY <1>2, <1>3, GoOn
<1>5. \A s \in shapes : Fits("Groups", s)
    BY <1>4
<1>6. Fits("LongBlock", block)
    <2>1. Few(D, 2) \in Inners /\ Seg(D, 6, 8) \in Tails /\ Seg(D, 6, 8) \in Inners
        BY <1>1, TailFew, TailSeg
    <2> QED BY <1>1, <1>2, <2>1, GoOn
<1> HIDE DEF shapes, block
<1>7. /\ WellShaped(Recognizer("Groups", "Phone", shapes, "Overlapping", TRUE))
      /\ WellShaped(Recognizer("LongBlock", "Phone", {block}, "Overlapping", TRUE))
    BY <1>5, <1>6, CuttableFits
<1> QED BY <1>7 DEF PhoneShapeTemplates, shapes, block, start, group

LEMMA PhoneTable == Table(NationalPhoneRecognizers)
<1>1. ASSUME NEW t, WellShaped(t) PROVE Table(Needed(t))
    <2>1. PICK S : S = {t}
        OBVIOUS
    <2>2. <<>> \in Seq(S) /\ <<t>> \in Seq(S) /\ \A rec \in S : WellShaped(rec)
        BY <1>1, <2>1
    <2>3. Needed(t) = <<>> \/ Needed(t) = <<t>>
        BY DEF Needed
    <2> QED BY <2>2, <2>3 DEF Table
<1>2. /\ Table(Needed(PhoneShapeTemplates[1])) /\ Table(Needed(PhoneShapeTemplates[2]))
      /\ Table(Needed(PhoneShapeTemplates[3])) /\ Table(Needed(PhoneShapeTemplates[4]))
    BY <1>1, TrunkFits, GroupsFit
<1> QED BY <1>2, JoinTables DEF NationalPhoneRecognizers

\* What ships is well shaped, whatever regions are in use.
LEMMA ShippedFits ==
    /\ Len(Shipped) \in Nat /\ DOMAIN Shipped = 1..Len(Shipped)
    /\ \A r \in DOMAIN Shipped : WellShaped(Shipped[r])
<1>1. Table(Shipped)
    BY UniversalTable, NationalTable, VatTable, PhoneTable, JoinTables DEF Shipped
<1>2. PICK S : Shipped \in Seq(S) /\ \A rec \in S : WellShaped(rec)
    BY <1>1 DEF Table
<1> QED BY <1>2

(***************************************************************************)
(* Where matches end.                                                      *)
(***************************************************************************)

Text == Seq(Nat)

\* g[k] is where the first k segments of a shape can end.
Reached(text, i, s, g) ==
    /\ DOMAIN g = 0..Len(s)
    /\ g[0] = {i}
    /\ \A k \in 1..Len(s) : \A x :
          x \in g[k] <=> \E e \in g[k - 1] : x \in SegmentEnds(text, e, s[k])

LEMMA EndsReached ==
    ASSUME NEW text, NEW i \in Int, NEW s \in Shape
    PROVE  \E g : Reached(text, i, s, g) /\ Ends(text, i, s) = g[Len(s)]
<1> DEFINE n == Len(s)
           Step(ends, k) == UNION {SegmentEnds(text, e, s[k]) : e \in ends}
           G(g) == [k \in 0..n |-> IF k = 0 THEN {i} ELSE Step(g[k - 1], k)]
<1>1. Ends(text, i, s) = (CHOOSE g : g = G(g))[n]
    BY DEF Ends
<1>2. n \in Nat
    BY DEF Shape
<1>3. PICK h : h = (CHOOSE g : g = G(g)) /\ h = G(h)
    <2> DEFINE S == SUBSET Int
               F == [k \in 1..n |-> [ends \in S |-> Step(ends, k)]]
    <2>1. \A k \in 1..n, ends \in S : Step(ends, k) \in S
        BY DEF SegmentEnds
    <2>2. F \in [1..n -> [S -> S]] /\ {i} \in S
        <3> HIDE DEF Step
        <3> QED BY <2>1
    <2>3. \A k \in 1..n, ends \in S : F[k][ends] = Step(ends, k)
        OBVIOUS
    <2> HIDE DEF F, S, Step
    <2>4. PICK c \in S, f \in [1..n -> [S -> S]] : c = {i} /\ f = F
        BY <2>2
    <2>5. PICK g \in [0..n -> S] : g[0] = c /\ \A k \in 1..n : g[k] = f[k][g[k - 1]]
        BY <1>2, <2>2, <2>4, IteratesUpTo
    <2>6. ASSUME NEW k \in 1..n PROVE g[k] = Step(g[k - 1], k)
        <3>1. k - 1 \in 0..n
            BY <1>2
        <3>2. g[k - 1] \in S
            BY <3>1
        <3> QED BY <2>3, <2>4, <2>5, <3>2
    <2>7. g = G(g)
        <3>1. \A k \in 0..n : k = 0 \/ k \in 1..n
            BY <1>2
        <3> QED BY <2>4, <2>5, <2>6, <3>1
    <2> HIDE DEF G
    <2> QED BY <2>7
<1>4. DOMAIN h = 0..n /\ \A k \in 0..n : h[k] = IF k = 0 THEN {i} ELSE Step(h[k - 1], k)
    <2> HIDE DEF Step
    <2> QED BY <1>3
<1>5. h[0] = {i}
    BY <1>2, <1>4
<1>6. ASSUME NEW k \in 1..n, NEW x
      PROVE  x \in h[k] <=> \E e \in h[k - 1] : x \in SegmentEnds(text, e, s[k])
    <2>1. k \in 0..n /\ k # 0
        BY <1>2
    <2>2. h[k] = Step(h[k - 1], k)
        BY <1>4, <2>1
    <2> QED BY <2>2
<1> HIDE DEF G, Step
<1> QED BY <1>1, <1>3, <1>4, <1>5, <1>6 DEF Reached

\* What a set of positions for each number of segments keeps to.
LEMMA ReachedWithin ==
    ASSUME NEW text, NEW i \in Int, NEW s \in Shape, NEW g, Reached(text, i, s, g), NEW W,
           i \in W[0],
           \A k \in 1..Len(s) : \A e \in W[k - 1] :
              e \in g[k - 1] => SegmentEnds(text, e, s[k]) \subseteq W[k]
    PROVE  \A k \in 0..Len(s) : g[k] \subseteq W[k]
<1> DEFINE T == {k \in 0..Len(s) : g[k] \subseteq W[k]}
<1>1. Len(s) \in Nat
    BY DEF Shape
<1>2. 0 \in T
    BY <1>1 DEF Reached
<1>3. ASSUME NEW k \in 1..Len(s), k - 1 \in T PROVE k \in T
    <2>1. \A x \in g[k] : \E e \in g[k - 1] : x \in SegmentEnds(text, e, s[k])
        BY DEF Reached
    <2>2. k \in 0..Len(s) /\ g[k - 1] \subseteq W[k - 1]
        BY <1>1, <1>3
    <2>3. g[k] \subseteq W[k]
        BY <2>1, <2>2
    <2> QED BY <2>2, <2>3
<1> HIDE DEF T
<1>4. 0..Len(s) \subseteq T
    BY <1>1, <1>2, <1>3, InductionUpTo
<1> QED BY <1>4 DEF T

LEMMA ShapeSegments ==
    ASSUME NEW s \in Shape, NEW k \in 1..Len(s)
    PROVE  s[k] \in Segment /\ s[k].lo \in Nat /\ s[k].hi \in Nat
<1>1. PICK seg \in Segment : seg = s[k]
    BY DEF Shape
<1>2. seg.lo \in Nat /\ seg.hi \in Nat
    BY DEF Segment
<1> QED BY <1>1, <1>2

\* A match ends between its first position and the end of the text.
LEMMA EndsWithin ==
    ASSUME NEW text \in Text, NEW i \in 1..(Len(text) + 1), NEW s \in Shape
    PROVE  Ends(text, i, s) \subseteq i..(Len(text) + 1)
<1> DEFINE W == [k \in 0..Len(s) |-> i..(Len(text) + 1)]
<1>1. Len(text) \in Nat /\ Len(s) \in Nat /\ i \in Int
    BY DEF Text, Shape
<1>2. PICK g : Reached(text, i, s, g) /\ Ends(text, i, s) = g[Len(s)]
    BY <1>1, EndsReached
<1>3. i \in W[0]
    BY <1>1
<1>4. ASSUME NEW k \in 1..Len(s), NEW e \in W[k - 1] PROVE SegmentEnds(text, e, s[k]) \subseteq W[k]
    <2>1. k \in 0..Len(s) /\ k - 1 \in 0..Len(s)
        BY <1>1
    <2>2. e \in i..(Len(text) + 1) /\ W[k] = i..(Len(text) + 1)
        BY <1>4, <2>1
    <2>3. s[k].lo \in Nat
        BY ShapeSegments
    <2> QED BY <1>1, <2>2, <2>3 DEF SegmentEnds
<1>5. Len(s) \in 0..Len(s) /\ W[Len(s)] = i..(Len(text) + 1)
    BY <1>1
<1> HIDE DEF W
<1>6. PICK w : w = W
    OBVIOUS
<1>7. \A k \in 1..Len(s) : \A e \in w[k - 1] :
         e \in g[k - 1] => SegmentEnds(text, e, s[k]) \subseteq w[k]
    BY <1>4, <1>6
<1>8. \A k \in 0..Len(s) : g[k] \subseteq w[k]
    BY <1>1, <1>2, <1>3, <1>6, <1>7, ReachedWithin
<1> QED BY <1>2, <1>5, <1>6, <1>8

\* A match of a shape that can be cut back ends behind a word, and is made of words
\* and separators.
LEMMA EndsClosed ==
    ASSUME NEW text \in Text, NEW i \in 1..Len(text), NEW name, NEW s, Fits(name, s),
           NEW x \in Ends(text, i, s)
    PROVE  /\ i < x /\ x <= Len(text) + 1 /\ text[x - 1] \in AN
           /\ \A p \in (i + 1)..(x - 1) : text[p] \in Inner
           /\ name # "international" => text[i] \in AN
<1>1. PICK head \in Segment : Leads(name, head) /\ s \in Closed(head)
    BY DEF Fits
<1>2. /\ s \in Shape /\ s[1] = head /\ Len(s) \in Nat /\ Len(s) >= 1 /\ Solid(s[Len(s)])
      /\ \A k \in 2..Len(s) : s[k].chars \subseteq Inner
    BY <1>1 DEF Closed, Begun, Shape
<1>3. Len(text) \in Nat /\ i \in Int
    BY DEF Text
<1>4. \A k \in 1..Len(s) : s[k].lo \in Nat /\ s[k].hi \in Nat
    BY <1>2, ShapeSegments
<1>5. PICK g : Reached(text, i, s, g) /\ Ends(text, i, s) = g[Len(s)]
    BY <1>2, <1>3, EndsReached
<1> DEFINE W == [k \in 0..Len(s) |->
                   {y \in i..(Len(text) + 1) : /\ k = 0 => y = i
                                               /\ \A p \in (i + 1)..(y - 1) : text[p] \in Inner
                                               /\ Solid(head) /\ k >= 1 => text[i] \in AN}]
<1>6. i \in W[0]
    BY <1>2, <1>3
<1>7. ASSUME NEW k \in 1..Len(s), NEW e \in W[k - 1], NEW y \in SegmentEnds(text, e, s[k])
      PROVE  y \in W[k]
    <2>1. k \in 0..Len(s) /\ k - 1 \in 0..Len(s)
        BY <1>2
    <2>2. /\ e \in i..(Len(text) + 1) /\ (k = 1 => e = i)
          /\ \A p \in (i + 1)..(e - 1) : text[p] \in Inner
          /\ Solid(head) /\ k >= 2 => text[i] \in AN
        BY <1>7, <2>1
    <2>3. /\ y \in Int /\ e + s[k].lo <= y /\ y <= e + s[k].hi /\ y <= Len(text) + 1
          /\ \A p \in e..(y - 1) : text[p] \in s[k].chars
        BY <1>3, <1>4, <2>2 DEF SegmentEnds
    <2>4. y \in i..(Len(text) + 1)
        BY <1>3, <1>4, <2>2, <2>3
    <2>5. Solid(head) => text[i] \in AN
        <3>1. CASE k = 1 /\ Solid(head)
            <4>1. s[k] = head /\ s[k].lo >= 1 /\ s[k].lo \in Nat /\ e = i
                BY <1>2, <1>4, <2>2, <3>1 DEF Solid
            <4>2. i \in e..(y - 1)
                BY <1>3, <2>3, <4>1
            <4> QED BY <2>3, <3>1, <4>1, <4>2 DEF Solid
        <3> QED BY <2>2, <3>1
    <2>6. ASSUME NEW p \in (i + 1)..(y - 1) PROVE text[p] \in Inner
        <3>1. CASE p < e
            BY <2>2, <3>1
        <3>2. CASE ~(p < e) /\ s[k].chars \subseteq Inner
            <4>1. p \in e..(y - 1)
                BY <1>3, <2>2, <2>3, <3>2
            <4> QED BY <2>3, <3>2, <4>1
        <3>3. CASE k = 1 /\ head.hi = 1
            BY <1>2, <1>3, <2>2, <2>3, <3>3
        <3>4. k # 1 => s[k].chars \subseteq Inner
            BY <1>2
        <3>5. k = 1 => head.hi = 1 \/ s[k].chars \subseteq Inner
            BY <1>1, <1>2, Characters DEF Leads, Solid
        <3> QED BY <2>2, <3>1, <3>2, <3>3, <3>4, <3>5
    <2> QED BY <2>1, <2>4, <2>5, <2>6
<1>8. Len(s) \in 1..Len(s) /\ Len(s) \in 0..Len(s) /\ Len(s) # 0 /\ Len(s) - 1 \in 0..Len(s)
    BY <1>2
<1>9. /\ \A y \in W[Len(s)] : /\ \A p \in (i + 1)..(y - 1) : text[p] \in Inner
                              /\ Solid(head) => text[i] \in AN
      /\ \A y \in W[Len(s) - 1] : y \in i..(Len(text) + 1)
    BY <1>2, <1>8
<1> HIDE DEF W
<1>10. \A k \in 0..Len(s) : g[k] \subseteq W[k]
    <2>1. PICK w : w = W
        OBVIOUS
    <2>2. \A k \in 1..Len(s) : \A e \in w[k - 1] :
             e \in g[k - 1] => SegmentEnds(text, e, s[k]) \subseteq w[k]
        BY <1>7, <2>1
    <2>3. \A k \in 0..Len(s) : g[k] \subseteq w[k]
        BY <1>2, <1>3, <1>5, <1>6, <2>1, <2>2, ReachedWithin
    <2> QED BY <2>1, <2>3
<1>11. PICK e \in g[Len(s) - 1] : x \in SegmentEnds(text, e, s[Len(s)])
    BY <1>5, <1>8 DEF Reached
<1>12. e \in i..(Len(text) + 1)
    BY <1>8, <1>9, <1>10
<1>13. /\ x \in Int /\ e + s[Len(s)].lo <= x /\ x <= Len(text) + 1
       /\ \A p \in e..(x - 1) : text[p] \in s[Len(s)].chars
    BY <1>3, <1>4, <1>8, <1>11, <1>12 DEF SegmentEnds
<1>14. i < x /\ text[x - 1] \in AN
    <2>1. s[Len(s)].lo >= 1 /\ s[Len(s)].lo \in Nat /\ s[Len(s)].chars \subseteq AN
        BY <1>2, <1>4, <1>8 DEF Solid
    <2>2. x - 1 \in e..(x - 1)
        BY <1>12, <1>13, <2>1
    <2> QED BY <1>12, <1>13, <2>1, <2>2
<1>15. x \in W[Len(s)]
    BY <1>5, <1>8, <1>10
<1>16. name # "international" => Solid(head)
    BY <1>1 DEF Leads
<1> QED BY <1>9, <1>13, <1>14, <1>15, <1>16

\* A match is one of its own text, too.
LEMMA EndsLocal ==
    ASSUME NEW text \in Text, NEW i \in 1..Len(text), NEW j \in i..(Len(text) + 1), NEW s \in Shape,
           j \in Ends(text, i, s), NEW v, v = SubSeq(text, i, j - 1)
    PROVE  Len(v) + 1 \in Ends(v, 1, s)
<1>1. Len(text) \in Nat /\ Len(s) \in Nat /\ i \in Int /\ j \in Int
    BY DEF Text, Shape
<1>2. v \in Text /\ Len(v) = j - i /\ \A q \in 1..Len(v) : v[q] = text[q + i - 1]
    BY <1>1 DEF Text
<1>3. PICK g : Reached(text, i, s, g) /\ Ends(text, i, s) = g[Len(s)]
    BY <1>1, EndsReached
<1>4. PICK h : Reached(v, 1, s, h) /\ Ends(v, 1, s) = h[Len(s)]
    BY EndsReached
<1> DEFINE W == [k \in 0..Len(s) |-> {x \in i..(Len(text) + 1) : x <= j => x - i + 1 \in h[k]}]
<1>5. i \in W[0]
    BY <1>1, <1>4 DEF Reached
<1>6. ASSUME NEW k \in 1..Len(s), NEW e \in W[k - 1], NEW x \in SegmentEnds(text, e, s[k])
      PROVE  x \in W[k]
    <2>1. k \in 0..Len(s) /\ k - 1 \in 0..Len(s)
        BY <1>1
    <2>2. e \in i..(Len(text) + 1) /\ (e <= j => e - i + 1 \in h[k - 1])
        BY <1>6, <2>1
    <2>3. s[k].lo \in Nat /\ s[k].hi \in Nat
        BY ShapeSegments
    <2>4. /\ x \in Int /\ e + s[k].lo <= x /\ x <= e + s[k].hi /\ x <= Len(text) + 1
          /\ \A p \in e..(x - 1) : text[p] \in s[k].chars
        BY <1>1, <2>2, <2>3 DEF SegmentEnds
    <2>5. x \in i..(Len(text) + 1) /\ e <= x
        BY <1>1, <2>2, <2>3, <2>4
    <2>6. ASSUME x <= j PROVE x - i + 1 \in h[k]
        <3>1. e - i + 1 \in h[k - 1]
            BY <1>1, <2>2, <2>4, <2>5, <2>6
        <3>2. ASSUME NEW q \in (e - i + 1)..(x - i + 1 - 1) PROVE v[q] \in s[k].chars
            <4>1. q \in 1..Len(v) /\ q + i - 1 \in e..(x - 1)
                BY <1>1, <1>2, <2>2, <2>4, <2>6
            <4> QED BY <1>2, <2>4, <4>1
        <3>3. x - i + 1 \in SegmentEnds(v, e - i + 1, s[k])
            <4>1. PICK a, b : a = s[k].lo /\ b = s[k].hi
                OBVIOUS
            <4>4. /\ a \in Int /\ b \in Int /\ e \in Int /\ x \in Int /\ i \in Int
                  /\ e + a <= x /\ x <= e + b
                BY <1>1, <2>2, <2>3, <2>4, <4>1
            <4>2. x - i + 1 \in (e - i + 1 + a)..(e - i + 1 + b)
                BY <4>4
            <4>3. x - i + 1 <= Len(v) + 1
                BY <1>1, <1>2, <2>4, <2>6
            <4> QED BY <3>2, <4>1, <4>2, <4>3 DEF SegmentEnds
        <3> QED BY <1>4, <3>1, <3>3 DEF Reached
    <2> QED BY <2>1, <2>5, <2>6
<1>7. Len(s) \in 0..Len(s) /\ \A x \in W[Len(s)] : x <= j => x - i + 1 \in h[Len(s)]
    BY <1>1
<1> HIDE DEF W
<1>8. \A k \in 0..Len(s) : g[k] \subseteq W[k]
    <2>1. PICK w : w = W
        OBVIOUS
    <2>2. \A k \in 1..Len(s) : \A e \in w[k - 1] :
             e \in g[k - 1] => SegmentEnds(text, e, s[k]) \subseteq w[k]
        BY <1>6, <2>1
    <2>3. \A k \in 0..Len(s) : g[k] \subseteq w[k]
        BY <1>1, <1>3, <1>5, <2>1, <2>2, ReachedWithin
    <2> QED BY <2>1, <2>3
<1>9. j \in W[Len(s)]
    BY <1>3, <1>7, <1>8
<1>10. j - i + 1 \in h[Len(s)]
    <2>1. j <= j
        BY <1>1
    <2> QED BY <1>7, <1>9, <2>1, Zenon
<1> QED BY <1>1, <1>2, <1>4, <1>10

(***************************************************************************)
(* What is found, and what can be cut back.                                *)
(***************************************************************************)

LEMMA MatchesWithin ==
    ASSUME NEW text \in Text, NEW rec, WellShaped(rec), NEW i \in 1..(Len(text) + 1)
    PROVE  MatchesFrom(rec, text, i) \subseteq i..(Len(text) + 1)
<1>1. \A s \in rec.shapes : Ends(text, i, s) \subseteq i..(Len(text) + 1)
    BY EndsWithin DEF WellShaped
<1> QED BY <1>1 DEF MatchesFrom

LEMMA LongestMatch ==
    ASSUME NEW text \in Text, NEW rec, WellShaped(rec), NEW i \in 1..(Len(text) + 1),
           MatchesFrom(rec, text, i) # {}
    PROVE  /\ Max(MatchesFrom(rec, text, i)) \in MatchesFrom(rec, text, i)
           /\ Max(MatchesFrom(rec, text, i)) \in i..(Len(text) + 1)
           /\ \A e \in MatchesFrom(rec, text, i) : e <= Max(MatchesFrom(rec, text, i))
<1>1. Len(text) \in Nat
    BY DEF Text
<1>2. PICK S, b : S = MatchesFrom(rec, text, i) /\ b = Len(text) + 1
    OBVIOUS
<1>3. S \subseteq i..b
    BY <1>2, MatchesWithin
<1>4. S \in SUBSET Int /\ S # {} /\ b \in Int /\ \A x \in S : x <= b
    BY <1>1, <1>2, <1>3
<1>5. Max(S) \in S /\ \A y \in S : y <= Max(S)
    BY <1>4, MaxIsGreatest
<1> QED BY <1>2, <1>3, <1>5

\* The search finds the first position with a match, and its longest one there.
LEMMA FindsFirst ==
    ASSUME NEW text \in Text, NEW rec, WellShaped(rec), NEW from \in Nat \ {0}
    PROVE  LET f == FindAt(rec, text, from) IN
           /\ f = NoSpan => \A i \in from..Len(text) : MatchesFrom(rec, text, i) = {}
           /\ f # NoSpan => /\ f[1] \in from..Len(text) /\ f[1] >= 1
                            /\ f = <<f[1], f[2]>>
                            /\ \A i \in from..(f[1] - 1) : MatchesFrom(rec, text, i) = {}
                            /\ f[2] = Max(MatchesFrom(rec, text, f[1]))
                            /\ MatchesFrom(rec, text, f[1]) # {}
<1> DEFINE starts == {i \in from..Len(text) : MatchesFrom(rec, text, i) # {}}
           f == FindAt(rec, text, from)
<1>1. Len(text) \in Nat
    BY DEF Text
<1>2. CASE starts = {}
    <2>1. f = <<0, 0>>
        BY <1>2 DEF FindAt
    <2> QED BY <1>2, <2>1 DEF NoSpan
<1>3. CASE starts # {}
    <2>1. starts \in SUBSET Nat
        BY <1>1
    <2>2. Min(starts) \in starts /\ \A i \in starts : Min(starts) <= i
        BY <1>3, <2>1, MinIsLeast
    <2>3. PICK m, e : m = Min(starts) /\ e = Max(MatchesFrom(rec, text, m))
        OBVIOUS
    <2>4. f = <<m, e>>
        BY <1>3, <2>3 DEF FindAt
    <2>8. m \in starts /\ \A i \in starts : m <= i
        <3> HIDE DEF starts
        <3> QED BY <2>2, <2>3
    <2>5. m \in from..Len(text) /\ m >= 1 /\ MatchesFrom(rec, text, m) # {}
        BY <1>1, <2>8
    <2>6. ASSUME NEW i \in from..(m - 1) PROVE MatchesFrom(rec, text, i) = {}
        <3>1. i \in from..Len(text) /\ ~(m <= i)
            BY <1>1, <2>5
        <3> QED BY <2>8, <3>1
    <2>7. f[1] = m /\ f[2] = e /\ f # NoSpan
        BY <2>4, <2>5 DEF NoSpan
    <2> QED BY <2>3, <2>4, <2>5, <2>6, <2>7
<1> QED BY <1>2, <1>3

\* A match that can be cut back ends behind a word, and where it ends no word goes on.
LEMMA MatchClosed ==
    ASSUME NEW text \in Text, NEW rec, WellShaped(rec), rec.shrink, NEW i \in 1..Len(text),
           NEW e \in MatchesFrom(rec, text, i)
    PROVE  /\ i < e /\ e <= Len(text) + 1 /\ text[e - 1] \in AN
           /\ \A p \in (i + 1)..(e - 1) : text[p] \in Inner
           /\ rec.name # "international" => text[i] \in AN
           /\ e <= Len(text) => text[e] \notin AN
<1>1. PICK s \in rec.shapes : e \in Ends(text, i, s)
    BY DEF MatchesFrom
<1>2. Fits(rec.name, s)
    BY <1>1 DEF WellShaped, Cuttable
<1>3. /\ i < e /\ e <= Len(text) + 1 /\ text[e - 1] \in AN
      /\ \A p \in (i + 1)..(e - 1) : text[p] \in Inner
      /\ rec.name # "international" => text[i] \in AN
    BY <1>1, <1>2, EndsClosed
<1>4. Boundary(text, e)
    BY DEF MatchesFrom
<1>5. Len(text) \in Nat /\ DOMAIN text = 1..Len(text) /\ e \in Int
    <2>1. e \in i..(Len(text) + 1)
        BY MatchesWithin DEF Text
    <2> QED BY <2>1 DEF Text
<1>6. IsWord(text, e - 1)
    BY <1>3, <1>5 DEF IsWord
<1>7. ~ IsWord(text, e)
    BY <1>4, <1>6 DEF Boundary
<1>8. e <= Len(text) => text[e] \notin AN
    BY <1>3, <1>5, <1>7 DEF IsWord
<1> QED BY <1>3, <1>8

\* Cut out of its text it still matches.
LEMMA MatchLocal ==
    ASSUME NEW text \in Text, NEW rec, WellShaped(rec), rec.shrink, NEW i \in 1..Len(text),
           NEW e \in MatchesFrom(rec, text, i)
    PROVE  IsMatch(rec, SubSeq(text, i, e - 1))
<1>1. PICK v : v = SubSeq(text, i, e - 1)
    OBVIOUS
<1>2. e \in i..(Len(text) + 1) /\ i < e /\ Len(text) \in Nat
    <2>1. i \in 1..(Len(text) + 1) /\ Len(text) \in Nat
        BY DEF Text
    <2> QED BY <2>1, MatchesWithin, MatchClosed
<1>3. v \in Text /\ Len(v) = e - i /\ \A q \in 1..Len(v) : v[q] = text[q + i - 1]
    BY <1>1, <1>2 DEF Text
<1>4. Len(v) \in Nat \ {0} /\ DOMAIN v = 1..Len(v)
    BY <1>2, <1>3 DEF Text
<1>5. PICK s \in rec.shapes : e \in Ends(text, i, s)
    BY DEF MatchesFrom
<1>6. Len(v) + 1 \in Ends(v, 1, s)
    BY <1>1, <1>2, <1>5, EndsLocal DEF WellShaped
<1>7. IsWord(v, Len(v)) /\ ~ IsWord(v, Len(v) + 1) /\ ~ IsWord(v, 0)
    <2>1. text[e - 1] \in AN
        BY MatchClosed
    <2>2. v[Len(v)] = text[e - 1]
        BY <1>2, <1>3, <1>4
    <2> QED BY <1>4, <2>1, <2>2 DEF IsWord
<1>8. Boundary(v, Len(v) + 1)
    <2>1. PICK n : n = Len(v) + 1 /\ n - 1 = Len(v)
        BY <1>4
    <2>2. IsWord(v, n - 1) /\ ~ IsWord(v, n)
        BY <1>7, <2>1
    <2>3. Boundary(v, n)
        BY <2>2, Zenon DEF Boundary
    <2> QED BY <2>1, <2>3
<1>9. rec.name # "international" => Boundary(v, 1)
    <2>1. rec.name # "international" => text[i] \in AN
        BY MatchClosed
    <2>2. v[1] = text[i]
        BY <1>2, <1>3, <1>4
    <2>3. rec.name # "international" => IsWord(v, 1)
        BY <1>4, <2>1, <2>2 DEF IsWord
    <2> QED BY <1>7, <2>3 DEF Boundary
<1>10. Len(v) + 1 \in MatchesFrom(rec, v, 1)
    BY <1>5, <1>6, <1>8, <1>9 DEF MatchesFrom
<1>11. PICK f : f = FindAt(rec, v, 1)
    OBVIOUS
<1>12. f # NoSpan /\ f[1] = 1 /\ f = <<f[1], f[2]>> /\ f[2] = Max(MatchesFrom(rec, v, 1))
    <2>1. 1 \in 1..Len(v) /\ MatchesFrom(rec, v, 1) # {} /\ 1 \in Nat \ {0}
        BY <1>4, <1>10
    <2>2. /\ f = NoSpan => \A k \in 1..Len(v) : MatchesFrom(rec, v, k) = {}
          /\ f # NoSpan => /\ f[1] \in 1..Len(v) /\ f = <<f[1], f[2]>>
                           /\ \A k \in 1..(f[1] - 1) : MatchesFrom(rec, v, k) = {}
                           /\ f[2] = Max(MatchesFrom(rec, v, f[1]))
        BY <1>3, <1>11, <2>1, FindsFirst
    <2>3. f # NoSpan
        BY <2>1, <2>2
    <2>4. f[1] = 1
        BY <1>4, <2>1, <2>2, <2>3
    <2> QED BY <2>2, <2>3, <2>4
<1>13. f[2] = Len(v) + 1
    <2>1. 1 \in 1..(Len(v) + 1) /\ MatchesFrom(rec, v, 1) # {}
        BY <1>4, <1>10
    <2>2. f[2] \in 1..(Len(v) + 1) /\ \A x \in MatchesFrom(rec, v, 1) : x <= f[2]
        BY <1>3, <1>12, <2>1, LongestMatch
    <2> QED BY <1>4, <1>10, <2>2
<1> QED BY <1>1, <1>11, <1>12, <1>13 DEF IsMatch

\* A phone is tried against at least one numbering plan and at most MaxRegions.
LEMMA PlansTriedBounded ==
    ASSUME turn \in DOMAIN Shipped, Rec.kind = "Phone", NEW value
    PROVE  PlansTried(Rec, value) \in 1..MaxRegions
<1> DEFINE plans == Plans[Rec.name]
           valid == {i \in DOMAIN plans : NationalPhoneValid(plans[i], value)}
<1>1. Len(plans) \in 1..MaxRegions /\ DOMAIN plans = 1..Len(plans)
    BY PlansAssumption DEF Rec
<1>2. CASE valid = {}
    BY <1>1, <1>2 DEF PlansTried
<1>3. CASE valid # {}
    <2>1. valid \subseteq 1..Len(plans) /\ valid \in SUBSET Nat
        BY <1>1
    <2>2. Min(valid) \in valid
        BY <2>1, <1>3, MinIsLeast
    <2>3. PlansTried(Rec, value) = Min(valid)
        BY <1>3 DEF PlansTried
    <2>4. Min(valid) \in 1..Len(plans)
        BY <2>1, <2>2, Zenon
    <2>5. \A k, m : k \in 1..m /\ m \in 1..MaxRegions => k \in 1..MaxRegions
        BY BudgetAssumption
    <2> QED BY <1>1, <2>3, <2>4, <2>5, Zenon
<1> QED BY <1>2, <1>3

\* A validator that is called while the allowance lasts charges it once, if at all.
LEMMA CheckCharges ==
    ASSUME turn \in DOMAIN Shipped, NEW value, Check(value), ~IsExhausted
    PROVE  [BudgetNext]_budgetVars
<1>1. CASE Rec.name = "iban" /\ HasLower(value)
    BY <1>1 DEF Check, BudgetNext
<1>2. CASE ~(Rec.name = "iban" /\ HasLower(value)) /\ Rec.kind = "Phone"
    BY <1>2, PlansTriedBounded DEF Check, BudgetNext
<1>3. CASE ~(Rec.name = "iban" /\ HasLower(value)) /\ Rec.kind # "Phone"
    BY <1>3 DEF Check
<1> QED BY <1>1, <1>2, <1>3

\* Every step of the scan is a charge Budget allows, or none.
LEMMA ScanStepCharges == ASSUME [Next]_vars PROVE [BudgetNext]_budgetVars
<1>1. CASE TakeUnchecked
    BY <1>1 DEF TakeUnchecked, budgetVars
<1>2. CASE Judge
    <2>1. turn \in DOMAIN Shipped /\ ~IsExhausted
        BY <1>2 DEF Judge, Scanning, OutOfAllowance
    <2>2. Ask(Slice(Found))
        BY <1>2 DEF Judge
    <2> QED BY <2>1, <2>2, CheckCharges DEF Ask
<1>3. CASE CutBack
    <2> DEFINE value == Slice(<<pending[1], LastSeparator>>)
    <2>1. turn \in DOMAIN Shipped
        BY <1>3 DEF CutBack, Scanning
    <2>2. \/ UNCHANGED budgetVars
          \/ MayAsk(value) /\ Ask(value)
        BY <1>3 DEF CutBack, GiveUp
    <2>3. CASE MayAsk(value) /\ Ask(value)
        BY <2>1, <2>3, CheckCharges DEF MayAsk, Ask
    <2> QED BY <2>2, <2>3
<1>4. CASE NextRecognizer
    BY <1>4 DEF NextRecognizer
<1>5. CASE EndOfField
    BY <1>5 DEF EndOfField
<1>6. CASE \E d \in Later : NextField(d)
    BY <1>6 DEF NextField
<1>7. CASE Done \/ UNCHANGED vars
    BY <1>7 DEF Done, vars
<1> QED BY <1>1, <1>2, <1>3, <1>4, <1>5, <1>6, <1>7 DEF Next

\* The scan charges the allowance as Budget says: a validator that costs something
\* is called only while the allowance lasts, in both loops, for every text, every
\* set of numbering plans and every allowance (push_candidates,
\* shrink_to_a_valid_prefix).
THEOREM ScanChargesTheAllowance == Spec => ChargesTheAllowance
<1>1. Init => BudgetInit
    BY DEF Init
<1>2. [Next]_vars => [BudgetNext]_budgetVars
    BY ScanStepCharges
<1> QED BY <1>1, <1>2, PTL DEF Spec, ChargesTheAllowance, BudgetSpec

\* Over all the fields of a request the allowance is charged exactly the work done,
\* and each unit is attributed to the kind whose candidates cost it
\* (Budget::spend_fraction, Budget::attribute).
THEOREM ScanIsCharged == Spec => [](ChargeIsExact /\ EveryUnitAttributed)
<1>1. Spec => BudgetSpec
    BY ScanChargesTheAllowance DEF ChargesTheAllowance
<1> QED BY <1>1, BudgetIsExact, PTL

(***************************************************************************)
(* Nothing is hidden.                                                      *)
(***************************************************************************)

\* What a recognizer accepts at i in a text, as Accepted has it for the field's.
AcceptedIn(rec, text, i) ==
    {e \in MatchesFrom(rec, text, i) :
        /\ e = Max(MatchesFrom(rec, text, i)) \/ rec.shrink
        /\ ~IsValidated(rec) \/ Verdict(rec, SubSeq(text, i, e - 1))}

\* The positions from..(to - 1) lie in the runs, in the candidates.
Inside(rs, from, to) ==
    \A p \in Nat : from <= p /\ p < to => \E k \in DOMAIN rs : rs[k][1] <= p /\ p < rs[k][2]
CoveredBy(cs, from, to) ==
    \A p \in Nat : from <= p /\ p < to => \E c \in cs : c.from <= p /\ p < c.to

KnownTo(cs, rec, text) ==
    \A i \in DOMAIN text : \A e \in AcceptedIn(rec, text, i) : CoveredBy(cs, i, e)
Silent(rec, text, from, to) == \A i \in from..to : MatchesFrom(rec, text, i) = {}

\* Where the scan is. Between two fields it has nothing begun.
PlaceInv ==
    /\ doc \in Documents \cup Later
    /\ phase \in {"scanning", "scanned", "refused"}
    /\ turn \in 1..(Len(Shipped) + 1)
    /\ at \in Nat \ {0}
    /\ turn \notin DOMAIN Shipped => at = 1 /\ runs = <<>> /\ pending = NoSpan
    /\ phase # "scanning" => turn \notin DOMAIN Shipped
    /\ phase = "scanned" => ~IsExhausted

\* The recognizers that are done have hidden nothing.
TurnsInv ==
    ~IsExhausted =>
        \A r \in 1..(turn - 1) :
            Shipped[r].scan = "Overlapping" => KnownTo(found, Shipped[r], doc.text)

\* The one at work has hidden nothing before the place where it searches next, and its
\* runs are in order.
RunsInv ==
    turn \in DOMAIN Shipped /\ Rec.scan = "Overlapping" =>
        /\ runs \in Seq(Nat \X Nat)
        /\ runs # <<>> => Last(runs)[1] < at
        /\ ~IsExhausted => \A i \in DOMAIN doc.text : i < at =>
                              \A e \in AcceptedIn(Rec, doc.text, i) : Inside(runs, i, e)

\* While a match is cut back, nothing begins before it, and what is accepted of it ends
\* before what has been cut off.
PendingInv ==
    pending # NoSpan =>
        /\ turn \in DOMAIN Shipped /\ Rec.shrink /\ IsValidated(Rec)
        /\ pending = <<pending[1], pending[2]>>
        /\ pending[1] \in at..Len(doc.text)
        /\ pending[2] \in pending[1]..(Len(doc.text) + 1)
        /\ Silent(Rec, doc.text, at, pending[1] - 1)
        /\ \A p \in (pending[1] + 1)..(pending[2] - 1) : doc.text[p] \in Inner
        /\ \A e \in AcceptedIn(Rec, doc.text, pending[1]) : e < pending[2]

ScanInv == PlaceInv /\ TurnsInv /\ RunsInv /\ PendingInv

LEMMA AcceptedIs == \A rec, i : Accepted(rec, i) = AcceptedIn(rec, doc.text, i)
BY DEF Accepted, AcceptedIn, Slice

LEMMA FieldText ==
    ASSUME doc \in Documents \cup Later
    PROVE  doc.text \in Text /\ Len(doc.text) \in Nat /\ DOMAIN doc.text = 1..Len(doc.text)
BY DocumentsAssumption DEF Text

\* An allowance that is used up stays so.
LEMMA StaysExhausted == ASSUME [Next]_vars, IsExhausted PROVE IsExhausted'
<1>1. [BudgetNext]_budgetVars
    BY ScanStepCharges
<1> QED BY <1>1 DEF BudgetNext, budgetVars, IsExhausted

\* A span that begins no earlier than the last run covers itself once it has joined the
\* runs, and they cover what they did.
LEMMA JoinsRuns ==
    ASSUME runs \in Seq(Nat \X Nat), NEW i \in Nat, NEW m \in Nat,
           runs # <<>> => Last(runs)[1] <= i,
           NEW rs, rs = Coalesced(<<i, m>>)
    PROVE  /\ rs \in Seq(Nat \X Nat)
           /\ rs # <<>> /\ Last(rs)[1] <= i
           /\ Inside(rs, i, m)
           /\ \A a, b : Inside(runs, a, b) => Inside(rs, a, b)
<1>1. PICK n, X : n = Len(runs) /\ X = Nat \X Nat
    OBVIOUS
<1>5. runs \in Seq(X)
    BY <1>1
<1>2. n \in Nat /\ DOMAIN runs = 1..n /\ \A k \in 1..n : runs[k] \in Nat \X Nat
    BY <1>1
<1>3. CASE runs # <<>> /\ i < Last(runs)[2]
    <2>1. n \in 1..n
        BY <1>1, <1>2, <1>3
    <2>2. PICK last \in Nat \X Nat : last = runs[n] /\ last = Last(runs)
        BY <1>1, <1>2, <2>1 DEF Last
    <2>3. PICK f, t : f = last[1] /\ t = (IF m > last[2] THEN m ELSE last[2])
        OBVIOUS
    <2>4. f \in Nat /\ t \in Nat /\ last[2] <= t /\ m <= t /\ f <= i /\ i < last[2]
        BY <1>3, <2>2, <2>3
    <2>13. PICK join : join = <<f, t>>
        OBVIOUS
    <2>5. join \in X /\ join = <<f, t>> /\ join[1] = f /\ join[2] = t
        BY <1>1, <2>4, <2>13
    <2>6. rs = [runs EXCEPT ![n] = join]
        BY <1>1, <1>3, <2>2, <2>3, <2>5 DEF Coalesced
    <2>7. rs \in Seq(Nat \X Nat) /\ Len(rs) = n
        <3>1. n \in 1..Len(runs)
            BY <1>1, <2>1
        <3>2. [runs EXCEPT ![n] = join] \in Seq(X) /\ Len([runs EXCEPT ![n] = join]) = Len(runs)
            BY <1>5, <2>5, <3>1, ExceptSeq
        <3> QED BY <1>1, <2>6, <3>2
    <2>8. DOMAIN rs = 1..n /\ rs[n] = join /\ \A k \in 1..n : k # n => rs[k] = runs[k]
        BY <1>2, <2>1, <2>6
    <2>9. rs # <<>> /\ Last(rs)[1] <= i
        BY <2>1, <2>4, <2>5, <2>7, <2>8 DEF Last
    <2>10. rs[n][1] = f /\ rs[n][2] = t
        BY <2>5, <2>8
    <2>11. Inside(rs, i, m)
        BY <2>1, <2>4, <2>8, <2>10 DEF Inside
    <2>12. ASSUME NEW a, NEW b, Inside(runs, a, b) PROVE Inside(rs, a, b)
        <3>1. ASSUME NEW p \in Nat, a <= p, p < b
              PROVE  \E k \in DOMAIN rs : rs[k][1] <= p /\ p < rs[k][2]
            <4>1. PICK k \in 1..n : runs[k][1] <= p /\ p < runs[k][2]
                BY <1>2, <2>12, <3>1 DEF Inside
            <4>2. CASE k = n
                <5>1. last[1] <= p /\ p < last[2]
                    BY <2>2, <4>1, <4>2
                <5>2. rs[n][1] <= p /\ p < rs[n][2]
                    BY <2>3, <2>4, <2>10, <5>1
                <5> QED BY <2>1, <2>8, <5>2
            <4>3. CASE k # n
                BY <2>8, <4>1, <4>3
            <4> QED BY <4>2, <4>3
        <3> QED BY <3>1 DEF Inside
    <2> QED BY <2>7, <2>9, <2>11, <2>12
<1>4. CASE ~(runs # <<>> /\ i < Last(runs)[2])
    <2>1. PICK span \in Nat \X Nat : span = <<i, m>> /\ span[1] = i /\ span[2] = m
        OBVIOUS
    <2>2. rs = Append(runs, span)
        BY <1>4, <2>1 DEF Coalesced
    <2>3. rs \in Seq(Nat \X Nat) /\ Len(rs) = n + 1 /\ DOMAIN rs = 1..(n + 1)
          /\ rs[n + 1] = span /\ \A k \in 1..n : rs[k] = runs[k]
        <3>1. span \in X
            BY <1>1, <2>1
        <3>2. Append(runs, span) \in Seq(X) /\ Len(Append(runs, span)) = Len(runs) + 1
              /\ Append(runs, span)[Len(runs) + 1] = span
              /\ \A k \in 1..Len(runs) : Append(runs, span)[k] = runs[k]
            BY <1>5, <3>1, AppendProperties
        <3>3. rs \in Seq(X) /\ Len(rs) = n + 1 /\ rs[n + 1] = span
              /\ \A k \in 1..n : rs[k] = runs[k]
            BY <1>1, <2>2, <3>2
        <3>4. DOMAIN rs = 1..(n + 1)
            BY <3>3, LenProperties
        <3> QED BY <1>1, <3>3, <3>4
    <2>4. rs # <<>> /\ Last(rs)[1] <= i
        BY <1>2, <2>1, <2>3 DEF Last
    <2>5. Inside(rs, i, m)
        <3>1. n + 1 \in DOMAIN rs /\ rs[n + 1][1] = i /\ rs[n + 1][2] = m
            BY <1>2, <2>1, <2>3
        <3> QED BY <3>1 DEF Inside
    <2>6. ASSUME NEW a, NEW b, Inside(runs, a, b) PROVE Inside(rs, a, b)
        <3>1. ASSUME NEW k \in DOMAIN runs PROVE k \in DOMAIN rs /\ rs[k] = runs[k]
            <4>1. k \in 1..n /\ k \in 1..(n + 1)
                BY <1>2
            <4> QED BY <2>3, <4>1
        <3> QED BY <2>6, <3>1 DEF Inside
    <2> QED BY <2>3, <2>4, <2>5, <2>6
<1> QED BY <1>3, <1>4


\* A span is accepted that lies where nothing has been found before, and in which all
\* that is accepted at its first position lies.
LEMMA AcceptsSpan ==
    ASSUME PlaceInv, TurnsInv, RunsInv, turn \in DOMAIN Shipped,
           NEW i \in at..Len(doc.text), NEW m \in i..(Len(doc.text) + 1),
           Silent(Rec, doc.text, at, i - 1),
           \A e \in AcceptedIn(Rec, doc.text, i) : e <= m,
           Accept(<<i, m>>), pending' = NoSpan,
           UNCHANGED <<doc, phase, turn, found>>, IsExhausted => IsExhausted'
    PROVE  ScanInv'
<1>1. at \in Nat /\ i \in Nat /\ m \in Nat /\ i >= 1 /\ at <= i /\ i <= m
      /\ DOMAIN doc.text = 1..Len(doc.text) /\ Len(doc.text) \in Nat
    BY FieldText DEF PlaceInv
<1>2. /\ runs' = Coalesced(<<i, m>>)
      /\ at' = IF Rec.scan = "Overlapping" THEN i + 1 ELSE m
    BY DEF Accept, Resume
<1>3. at' \in Nat \ {0}
    BY <1>1, <1>2
<1>4. PlaceInv'
    BY <1>3 DEF PlaceInv
<1>5. TurnsInv'
    BY DEF TurnsInv
<1>6. PendingInv'
    BY DEF PendingInv, NoSpan
<1>7. ASSUME Rec.scan = "Overlapping" PROVE RunsInv'
    <2>1. runs \in Seq(Nat \X Nat) /\ (runs # <<>> => Last(runs)[1] < at)
          /\ (~IsExhausted => \A k \in DOMAIN doc.text : k < at =>
                 \A e \in AcceptedIn(Rec, doc.text, k) : Inside(runs, k, e))
        BY <1>7 DEF RunsInv
    <2>2. PICK rs : rs = Coalesced(<<i, m>>)
        OBVIOUS
    <2>3. /\ rs \in Seq(Nat \X Nat) /\ rs # <<>> /\ Last(rs)[1] <= i /\ Inside(rs, i, m)
          /\ \A a, b : Inside(runs, a, b) => Inside(rs, a, b)
        <3>1. runs # <<>> => Last(runs)[1] <= i
            <4>1. runs # <<>> => Last(runs) \in Nat \X Nat
                BY <2>1 DEF Last
            <4> QED BY <1>1, <2>1, <4>1
        <3> QED BY <1>1, <2>1, <2>2, <3>1, JoinsRuns
    <2>4. ASSUME ~IsExhausted, NEW k \in DOMAIN doc.text, k < i + 1,
                 NEW e \in AcceptedIn(Rec, doc.text, k)
          PROVE  Inside(rs, k, e)
        <3>1. CASE k < at
            BY <2>1, <2>3, <2>4, <3>1
        <3>2. CASE at <= k /\ k < i
            <4>1. k \in at..(i - 1)
                BY <1>1, <3>2
            <4> QED BY <2>4, <4>1 DEF Silent, AcceptedIn
        <3>3. CASE k = i
            <4>1. e <= m
                BY <2>4, <3>3
            <4>2. e \in Int
                <5>1. WellShaped(Rec) /\ k \in 1..(Len(doc.text) + 1) /\ doc.text \in Text
                    BY <1>1, <3>3, ShippedFits, FieldText DEF Rec, PlaceInv
                <5>2. MatchesFrom(Rec, doc.text, k) \subseteq k..(Len(doc.text) + 1)
                    BY <5>1, MatchesWithin
                <5> QED BY <2>4, <5>2 DEF AcceptedIn
            <4>3. \A p \in Nat : p < e => p < m
                BY <1>1, <4>1, <4>2
            <4> QED BY <2>3, <3>3, <4>3 DEF Inside
        <3> QED BY <1>1, <2>4, <3>1, <3>2, <3>3
    <2>5. runs' = rs /\ at' = i + 1 /\ turn' = turn /\ Rec' = Rec /\ doc' = doc
        BY <1>2, <1>7, <2>2 DEF Rec
    <2>6. Last(rs)[1] < i + 1
        <3>1. Last(rs) \in Nat \X Nat
            BY <2>3 DEF Last
        <3> QED BY <1>1, <2>3, <3>1
    <2> QED BY <2>3, <2>4, <2>5, <2>6 DEF RunsInv
<1>8. Rec.scan # "Overlapping" => RunsInv'
    BY DEF RunsInv, Rec
<1> QED BY <1>4, <1>5, <1>6, <1>7, <1>8 DEF ScanInv

\* A match is passed over of which nothing is accepted, or for want of allowance.
LEMMA PassesOver ==
    ASSUME PlaceInv, TurnsInv, RunsInv, turn \in DOMAIN Shipped,
           NEW i \in at..Len(doc.text), NEW m \in i..(Len(doc.text) + 1),
           Silent(Rec, doc.text, at, i - 1),
           IsExhausted' \/ AcceptedIn(Rec, doc.text, i) = {},
           at' = Resume(<<i, m>>), pending' = NoSpan,
           UNCHANGED <<doc, phase, turn, found, runs>>, IsExhausted => IsExhausted'
    PROVE  ScanInv'
<1>1. at \in Nat /\ i \in Nat /\ m \in Nat /\ i >= 1 /\ at <= i /\ i <= m
      /\ DOMAIN doc.text = 1..Len(doc.text) /\ Len(doc.text) \in Nat
    BY FieldText DEF PlaceInv
<1>2. at' = IF Rec.scan = "Overlapping" THEN i + 1 ELSE m
    BY DEF Resume
<1>3. at' \in Nat \ {0}
    BY <1>1, <1>2
<1>4. PlaceInv'
    BY <1>3 DEF PlaceInv
<1>5. TurnsInv'
    BY DEF TurnsInv
<1>6. PendingInv'
    BY DEF PendingInv, NoSpan
<1>7. ASSUME Rec.scan = "Overlapping" PROVE RunsInv'
    <2>1. runs \in Seq(Nat \X Nat) /\ (runs # <<>> => Last(runs)[1] < at)
          /\ (~IsExhausted => \A k \in DOMAIN doc.text : k < at =>
                 \A e \in AcceptedIn(Rec, doc.text, k) : Inside(runs, k, e))
        BY <1>7 DEF RunsInv
    <2>2. ASSUME ~IsExhausted', NEW k \in DOMAIN doc.text, k < i + 1,
                 NEW e \in AcceptedIn(Rec, doc.text, k)
          PROVE  Inside(runs, k, e)
        <3>1. CASE k < at
            BY <2>1, <2>2, <3>1
        <3>2. CASE at <= k /\ k < i
            <4>1. k \in at..(i - 1)
                BY <1>1, <3>2
            <4> QED BY <2>2, <4>1 DEF Silent, AcceptedIn
        <3>3. CASE k = i
            BY <2>2, <3>3
        <3> QED BY <1>1, <2>2, <3>1, <3>2, <3>3
    <2>3. runs' = runs /\ at' = i + 1 /\ turn' = turn /\ Rec' = Rec /\ doc' = doc
        BY <1>2, <1>7 DEF Rec
    <2>4. runs # <<>> => Last(runs)[1] < i + 1
        <3>1. runs # <<>> => Last(runs) \in Nat \X Nat
            BY <2>1 DEF Last
        <3> QED BY <1>1, <2>1, <3>1
    <2> QED BY <2>1, <2>2, <2>3, <2>4 DEF RunsInv
<1>8. Rec.scan # "Overlapping" => RunsInv'
    BY DEF RunsInv, Rec
<1> QED BY <1>4, <1>5, <1>6, <1>7, <1>8 DEF ScanInv

\* What the search from `at` comes to.
LEMMA FoundIs ==
    ASSUME PlaceInv, turn \in DOMAIN Shipped
    PROVE  /\ Found = NoSpan => Silent(Rec, doc.text, at, Len(doc.text))
           /\ Found # NoSpan =>
                /\ Found = <<Found[1], Found[2]>>
                /\ Found[1] \in at..Len(doc.text) /\ Found[1] >= 1
                /\ Found[2] \in Found[1]..(Len(doc.text) + 1)
                /\ Silent(Rec, doc.text, at, Found[1] - 1)
                /\ Found[2] \in MatchesFrom(Rec, doc.text, Found[1])
                /\ Found[2] = Max(MatchesFrom(Rec, doc.text, Found[1]))
                /\ \A e \in AcceptedIn(Rec, doc.text, Found[1]) : e <= Found[2]
<1>1. doc.text \in Text /\ Len(doc.text) \in Nat /\ WellShaped(Rec) /\ at \in Nat \ {0}
    BY FieldText, ShippedFits DEF PlaceInv, Rec
<1>2. PICK f, t : f = Found /\ t = doc.text
    OBVIOUS
<1>3. /\ f = NoSpan => \A i \in at..Len(t) : MatchesFrom(Rec, t, i) = {}
      /\ f # NoSpan => /\ f[1] \in at..Len(t) /\ f[1] >= 1 /\ f = <<f[1], f[2]>>
                       /\ \A i \in at..(f[1] - 1) : MatchesFrom(Rec, t, i) = {}
                       /\ f[2] = Max(MatchesFrom(Rec, t, f[1]))
                       /\ MatchesFrom(Rec, t, f[1]) # {}
    BY <1>1, <1>2, FindsFirst DEF Found
<1>4. CASE f = NoSpan
    BY <1>2, <1>3, <1>4 DEF Silent
<1>5. CASE f # NoSpan
    <2>1. f[1] \in 1..(Len(t) + 1)
        BY <1>1, <1>2, <1>3, <1>5
    <2>2. /\ f[2] \in MatchesFrom(Rec, t, f[1]) /\ f[2] \in f[1]..(Len(t) + 1)
          /\ \A e \in MatchesFrom(Rec, t, f[1]) : e <= f[2]
        BY <1>1, <1>2, <1>3, <1>5, <2>1, LongestMatch
    <2>3. \A e \in AcceptedIn(Rec, t, f[1]) : e <= f[2]
        BY <2>2 DEF AcceptedIn
    <2> QED BY <1>2, <1>3, <1>5, <2>2, <2>3 DEF Silent
<1> QED BY <1>4, <1>5

\* A match that is accepted unseen.
LEMMA TakeInv == ASSUME ScanInv, TakeUnchecked PROVE ScanInv'
<1>1. /\ turn \in DOMAIN Shipped /\ Found # NoSpan /\ pending' = NoSpan /\ Accept(Found)
      /\ UNCHANGED <<doc, phase, turn, found, left>>
    BY DEF TakeUnchecked, Scanning, budgetVars
<1>2. PICK i, m : i = Found[1] /\ m = Found[2]
    OBVIOUS
<1>3. /\ Found = <<i, m>> /\ i \in at..Len(doc.text) /\ m \in i..(Len(doc.text) + 1)
      /\ Silent(Rec, doc.text, at, i - 1) /\ \A e \in AcceptedIn(Rec, doc.text, i) : e <= m
    BY <1>1, <1>2, FoundIs DEF ScanInv
<1>4. IsExhausted => IsExhausted'
    BY <1>1 DEF IsExhausted
<1> QED BY <1>1, <1>3, <1>4, AcceptsSpan DEF ScanInv

\* A match that is judged.
LEMMA JudgeInv == ASSUME ScanInv, Judge, IsExhausted => IsExhausted' PROVE ScanInv'
<1>1. /\ turn \in DOMAIN Shipped /\ Found # NoSpan /\ pending = NoSpan /\ IsValidated(Rec)
      /\ UNCHANGED <<doc, phase, turn, found>>
    BY DEF Judge, Scanning
<1>2. PICK i, m : i = Found[1] /\ m = Found[2]
    OBVIOUS
<1>3. /\ Found = <<i, m>> /\ i \in at..Len(doc.text) /\ m \in i..(Len(doc.text) + 1) /\ i >= 1
      /\ Silent(Rec, doc.text, at, i - 1) /\ \A e \in AcceptedIn(Rec, doc.text, i) : e <= m
      /\ m \in MatchesFrom(Rec, doc.text, i) /\ m = Max(MatchesFrom(Rec, doc.text, i))
    BY <1>1, <1>2, FoundIs DEF ScanInv
<1>4. Slice(Found) = SubSeq(doc.text, i, m - 1)
    BY <1>3 DEF Slice
<1>5. CASE Verdict(Rec, Slice(Found))
    <2>1. Accept(<<i, m>>) /\ pending' = NoSpan
        BY <1>1, <1>3, <1>5 DEF Judge
    <2> QED BY <1>1, <1>3, <2>1, AcceptsSpan DEF ScanInv
<1>6. CASE ~Verdict(Rec, Slice(Found)) /\ Rec.shrink
    <2>1. pending' = <<i, m>> /\ UNCHANGED <<runs, at>>
        BY <1>3, <1>6 DEF Judge
    <2>2. Rec' = Rec
        BY <1>1 DEF Rec
    <2>3. PlaceInv'
        BY <1>1, <2>1 DEF ScanInv, PlaceInv, Judge, Scanning
    <2>4. TurnsInv' /\ RunsInv'
        BY <1>1, <2>1, <2>2 DEF ScanInv, TurnsInv, RunsInv
    <2>5. \A p \in (i + 1)..(m - 1) : doc.text[p] \in Inner
        <3>1. doc.text \in Text /\ WellShaped(Rec) /\ i \in 1..Len(doc.text)
            BY <1>1, <1>3, FieldText, ShippedFits DEF ScanInv, PlaceInv, Rec
        <3> QED BY <1>3, <1>6, <3>1, MatchClosed
    <2>6. ASSUME NEW e \in AcceptedIn(Rec, doc.text, i) PROVE e < m
        <3>1. e # m
            BY <1>1, <1>4, <1>6 DEF AcceptedIn
        <3>2. e \in Int /\ m \in Int
            <4>1. doc.text \in Text /\ WellShaped(Rec) /\ i \in 1..(Len(doc.text) + 1)
                BY <1>1, <1>3, FieldText, ShippedFits DEF ScanInv, PlaceInv, Rec
            <4>2. MatchesFrom(Rec, doc.text, i) \subseteq i..(Len(doc.text) + 1)
                BY <4>1, MatchesWithin
            <4> QED BY <1>3, <4>2 DEF AcceptedIn
        <3> QED BY <1>3, <3>1, <3>2
    <2>7. PendingInv'
        BY <1>1, <1>3, <1>6, <2>1, <2>2, <2>5, <2>6 DEF PendingInv
    <2> QED BY <2>3, <2>4, <2>7 DEF ScanInv
<1>7. CASE ~Verdict(Rec, Slice(Found)) /\ ~Rec.shrink
    <2>1. at' = Resume(<<i, m>>) /\ UNCHANGED <<runs, pending>>
        BY <1>3, <1>7 DEF Judge
    <2>2. AcceptedIn(Rec, doc.text, i) = {}
        BY <1>1, <1>3, <1>4, <1>7 DEF AcceptedIn
    <2> QED BY <1>1, <1>3, <2>1, <2>2, PassesOver DEF ScanInv
<1> QED BY <1>5, <1>6, <1>7

\* Whatever is still accepted of a match that is being cut back ends at its last
\* separator or before.
LEMMA CutsAtSeparator ==
    ASSUME ScanInv, pending # NoSpan
    PROVE  /\ LastSeparator \in Nat /\ LastSeparator < pending[2]
           /\ \A e \in AcceptedIn(Rec, doc.text, pending[1]) : pending[1] < e /\ e <= LastSeparator
<1>1. PICK i, m, t : i = pending[1] /\ m = pending[2] /\ t = doc.text
    OBVIOUS
<1>2. /\ turn \in DOMAIN Shipped /\ Rec.shrink /\ i \in at..Len(t) /\ m \in i..(Len(t) + 1)
      /\ \A p \in (i + 1)..(m - 1) : t[p] \in Inner
      /\ \A e \in AcceptedIn(Rec, t, i) : e < m
    BY <1>1 DEF ScanInv, PendingInv
<1>3. t \in Text /\ Len(t) \in Nat /\ WellShaped(Rec) /\ i \in 1..Len(t) /\ i \in Nat /\ m \in Nat
    BY <1>1, <1>2, FieldText, ShippedFits DEF ScanInv, PlaceInv, Rec
<1> DEFINE cuts == {p \in i..(m - 1) : IsSeparator(t[p])}
<1>4. LastSeparator = IF cuts = {} THEN 0 ELSE Max(cuts)
    BY <1>1 DEF LastSeparator
<1>5. cuts # {} => Max(cuts) \in cuts /\ \A p \in cuts : p <= Max(cuts)
    <2>1. cuts \in SUBSET Int /\ m \in Int /\ \A p \in cuts : p <= m
        BY <1>3
    <2> HIDE DEF cuts
    <2> QED BY <2>1, MaxIsGreatest
<1>6. LastSeparator \in Nat /\ LastSeparator < m
    <2>1. CASE cuts = {}
        BY <1>2, <1>3, <1>4, <2>1
    <2>2. CASE cuts # {}
        <3>1. PICK c \in cuts : c = LastSeparator
            <4> HIDE DEF cuts
            <4> QED BY <1>4, <1>5, <2>2
        <3> QED BY <1>3, <3>1
    <2> QED BY <2>1, <2>2
<1>7. ASSUME NEW e \in AcceptedIn(Rec, t, i) PROVE i < e /\ e <= LastSeparator
    <2>1. e \in MatchesFrom(Rec, t, i) /\ e < m
        BY <1>2 DEF AcceptedIn
    <2>2. i < e /\ e <= Len(t) + 1 /\ (e <= Len(t) => t[e] \notin AN)
        BY <1>2, <1>3, <2>1, MatchClosed
    <2>3. e \in Int
        <3>1. i \in 1..(Len(t) + 1)
            BY <1>3
        <3> QED BY <1>3, <2>1, <3>1, MatchesWithin
    <2>4. t[e] \in Inner /\ t[e] \notin AN
        BY <1>2, <1>3, <2>1, <2>2, <2>3
    <2>5. IsSeparator(t[e])
        BY <2>4 DEF Inner, Space, Dash, Dot, IsSeparator
    <2>6. e \in cuts
        BY <1>3, <2>1, <2>2, <2>3, <2>5
    <2> HIDE DEF cuts
    <2> QED BY <1>4, <1>5, <2>2, <2>6
<1> QED BY <1>1, <1>6, <1>7

\* One group is cut off.
LEMMA CutBackInv == ASSUME ScanInv, CutBack, IsExhausted => IsExhausted' PROVE ScanInv'
<1>1. /\ turn \in DOMAIN Shipped /\ pending # NoSpan /\ phase = "scanning"
      /\ UNCHANGED <<doc, phase, turn, found>>
    BY DEF CutBack, Scanning
<1>2. PICK i, m, c : i = pending[1] /\ m = pending[2] /\ c = LastSeparator
    OBVIOUS
<1>3. /\ Rec.shrink /\ IsValidated(Rec) /\ pending = <<i, m>>
      /\ i \in at..Len(doc.text) /\ m \in i..(Len(doc.text) + 1)
      /\ Silent(Rec, doc.text, at, i - 1)
      /\ \A p \in (i + 1)..(m - 1) : doc.text[p] \in Inner
    BY <1>1, <1>2 DEF ScanInv, PendingInv
<1>4. c \in Nat /\ c < m /\ \A e \in AcceptedIn(Rec, doc.text, i) : i < e /\ e <= c
    BY <1>1, <1>2, CutsAtSeparator
<1>5. doc.text \in Text /\ Len(doc.text) \in Nat /\ WellShaped(Rec)
      /\ i \in 1..Len(doc.text) /\ i \in Nat /\ m \in Nat /\ Rec' = Rec
    BY <1>1, <1>3, FieldText, ShippedFits DEF ScanInv, PlaceInv, Rec
<1>6. PICK v : v = Slice(<<i, c>>) /\ v = SubSeq(doc.text, i, c - 1)
    BY DEF Slice
<1>7. \A e \in AcceptedIn(Rec, doc.text, i) : e \in Int
    <2>1. i \in 1..(Len(doc.text) + 1)
        BY <1>5
    <2>2. MatchesFrom(Rec, doc.text, i) \subseteq i..(Len(doc.text) + 1)
        BY <1>5, <2>1, MatchesWithin
    <2> QED BY <1>5, <2>2 DEF AcceptedIn
<1>8. ASSUME GiveUp, IsExhausted' \/ AcceptedIn(Rec, doc.text, i) = {} PROVE ScanInv'
    <2>1. at' = Resume(<<i, m>>) /\ pending' = NoSpan /\ UNCHANGED runs
        BY <1>3, <1>8 DEF GiveUp
    <2> QED BY <1>1, <1>3, <1>8, <2>1, PassesOver DEF ScanInv
<1>9. ASSUME pending' = <<i, c>>, UNCHANGED <<runs, at>>, c > i,
             c \notin AcceptedIn(Rec, doc.text, i)
      PROVE  ScanInv'
    <2>1. PlaceInv'
        BY <1>1, <1>9 DEF ScanInv, PlaceInv
    <2>2. TurnsInv' /\ RunsInv'
        BY <1>1, <1>5, <1>9 DEF ScanInv, TurnsInv, RunsInv
    <2>3. \A e \in AcceptedIn(Rec, doc.text, i) : e < c
        BY <1>4, <1>7, <1>9
    <2>4. c \in i..(Len(doc.text) + 1)
        BY <1>3, <1>4, <1>5, <1>9
    <2>5. \A p \in (i + 1)..(c - 1) : doc.text[p] \in Inner
        BY <1>3, <1>4, <1>5
    <2>6. PendingInv'
        BY <1>1, <1>3, <1>5, <1>9, <2>3, <2>4, <2>5 DEF PendingInv
    <2> QED BY <2>1, <2>2, <2>6 DEF ScanInv
<1>10. CASE c <= i
    <2>1. GiveUp
        BY <1>2, <1>10 DEF CutBack
    <2>2. AcceptedIn(Rec, doc.text, i) = {}
        BY <1>4, <1>5, <1>7, <1>10
    <2> QED BY <1>8, <2>1, <2>2
<1>11. CASE c > i
    <2>1. IF ~IsMatch(Rec, v) THEN pending' = <<i, c>> /\ UNCHANGED <<runs, at>>
          ELSE IF ~MayAsk(v) THEN GiveUp
          ELSE IF Verdict(Rec, v) THEN Accept(<<i, c>>) /\ pending' = NoSpan
          ELSE pending' = <<i, c>> /\ UNCHANGED <<runs, at>>
        <3>1. ~(c <= i)
            BY <1>4, <1>5, <1>11
        <3> QED BY <1>2, <1>6, <3>1 DEF CutBack
    <2>2. CASE ~IsMatch(Rec, v)
        <3>1. c \notin AcceptedIn(Rec, doc.text, i)
            BY <1>3, <1>5, <1>6, <2>2, MatchLocal DEF AcceptedIn
        <3> QED BY <1>9, <1>11, <2>1, <2>2, <3>1
    <2>3. CASE IsMatch(Rec, v) /\ ~MayAsk(v)
        <3>1. GiveUp /\ IsExhausted
            BY <2>1, <2>3 DEF MayAsk
        <3> QED BY <1>8, <3>1
    <2>4. CASE IsMatch(Rec, v) /\ MayAsk(v) /\ Verdict(Rec, v)
        <3>1. Accept(<<i, c>>) /\ pending' = NoSpan
            BY <2>1, <2>4
        <3>2. c \in i..(Len(doc.text) + 1)
            BY <1>3, <1>4, <1>5, <1>11
        <3> QED BY <1>1, <1>3, <1>4, <3>1, <3>2, AcceptsSpan DEF ScanInv
    <2>5. CASE IsMatch(Rec, v) /\ MayAsk(v) /\ ~Verdict(Rec, v)
        <3>1. c \notin AcceptedIn(Rec, doc.text, i)
            BY <1>3, <1>6, <2>5 DEF AcceptedIn
        <3> QED BY <1>9, <1>11, <2>1, <2>5, <3>1
    <2> QED BY <2>2, <2>3, <2>4, <2>5
<1> QED BY <1>4, <1>5, <1>10, <1>11

\* A recognizer hands on what its runs cover.
LEMMA NextRecognizerInv == ASSUME ScanInv, NextRecognizer PROVE ScanInv'
<1>1. /\ turn \in DOMAIN Shipped /\ pending = NoSpan /\ (OutOfAllowance \/ Found = NoSpan)
      /\ found' = found \cup {Candidate(Rec, runs[k]) : k \in DOMAIN runs}
      /\ turn' = turn + 1 /\ at' = 1 /\ runs' = <<>> /\ pending' = NoSpan /\ phase = "scanning"
      /\ UNCHANGED <<doc, phase, left>>
    BY DEF NextRecognizer, Scanning, budgetVars
<1>2. turn \in 1..Len(Shipped) /\ Len(Shipped) \in Nat /\ at \in Nat
    BY <1>1, ShippedFits DEF ScanInv, PlaceInv
<1>3. IsExhausted' = IsExhausted
    BY <1>1 DEF IsExhausted
<1>4. PlaceInv'
    <2>1. turn' \in 1..(Len(Shipped) + 1) /\ at' \in Nat \ {0}
        BY <1>1, <1>2
    <2> QED BY <1>1, <2>1 DEF ScanInv, PlaceInv
<1>5. PendingInv'
    BY <1>1 DEF PendingInv
<1>6. RunsInv'
    <2>1. \A k \in DOMAIN doc.text : ~(k < 1)
        BY FieldText DEF ScanInv, PlaceInv
    <2>2. <<>> \in Seq(Nat \X Nat)
        OBVIOUS
    <2> QED BY <1>1, <2>1, <2>2 DEF RunsInv
<1>7. ASSUME ~IsExhausted, NEW r \in 1..turn, Shipped[r].scan = "Overlapping"
      PROVE  KnownTo(found', Shipped[r], doc.text)
    <2>1. CASE r # turn
        <3>1. r \in 1..(turn - 1)
            BY <1>2, <2>1
        <3>2. KnownTo(found, Shipped[r], doc.text)
            BY <1>7, <3>1 DEF ScanInv, TurnsInv
        <3> QED BY <1>1, <3>2 DEF KnownTo, CoveredBy
    <2>2. CASE r = turn
        <3>1. Found = NoSpan /\ Rec = Shipped[r]
            BY <1>1, <1>7, <2>2 DEF OutOfAllowance, Rec
        <3>2. Silent(Rec, doc.text, at, Len(doc.text))
            BY <1>1, <3>1, FoundIs DEF ScanInv
        <3>3. ASSUME NEW i \in DOMAIN doc.text, NEW e \in AcceptedIn(Rec, doc.text, i)
              PROVE  Inside(runs, i, e)
            <4>1. CASE i < at
                BY <1>1, <1>7, <3>1, <3>3, <4>1 DEF ScanInv, RunsInv
            <4>2. CASE ~(i < at)
                <5>1. i \in at..Len(doc.text)
                    BY <1>2, <4>2, FieldText DEF ScanInv, PlaceInv
                <5> QED BY <3>2, <3>3, <5>1 DEF Silent, AcceptedIn
            <4> QED BY <4>1, <4>2
        <3>4. ASSUME NEW i, NEW e, Inside(runs, i, e) PROVE CoveredBy(found', i, e)
            <4>1. ASSUME NEW p \in Nat, i <= p, p < e
                  PROVE  \E x \in found' : x.from <= p /\ p < x.to
                <5>1. PICK k \in DOMAIN runs : runs[k][1] <= p /\ p < runs[k][2]
                    BY <3>4, <4>1 DEF Inside
                <5>2. PICK x : x = Candidate(Rec, runs[k])
                    OBVIOUS
                <5>3. x \in found' /\ x.from = runs[k][1] /\ x.to = runs[k][2]
                    BY <1>1, <5>2 DEF Candidate
                <5> QED BY <5>1, <5>3
            <4> QED BY <4>1 DEF CoveredBy
        <3> QED BY <3>1, <3>3, <3>4 DEF KnownTo
    <2> QED BY <2>1, <2>2
<1>8. TurnsInv'
    <2>1. turn' - 1 = turn
        BY <1>1, <1>2
    <2> QED BY <1>1, <1>3, <1>7, <2>1 DEF TurnsInv
<1> QED BY <1>4, <1>5, <1>6, <1>8 DEF ScanInv

\* A field ends, and the next one begins.
LEMMA EndOfFieldInv == ASSUME ScanInv, EndOfField PROVE ScanInv'
<1>1. /\ turn \notin DOMAIN Shipped /\ phase' = Outcome
      /\ UNCHANGED <<doc, turn, at, runs, pending, found, left>>
    BY DEF EndOfField, budgetVars
<1>2. IsExhausted' = IsExhausted /\ Rec' = Rec
    BY <1>1 DEF IsExhausted, Rec
<1>3. PlaceInv'
    BY <1>1, <1>2 DEF ScanInv, PlaceInv, Outcome
<1>4. TurnsInv' /\ RunsInv' /\ PendingInv'
    BY <1>1, <1>2 DEF ScanInv, PlaceInv, TurnsInv, RunsInv, PendingInv
<1> QED BY <1>3, <1>4 DEF ScanInv

LEMMA NextFieldInv == ASSUME ScanInv, NEW d \in Later, NextField(d) PROVE ScanInv'
<1>1. /\ phase = "scanned" /\ phase' = "scanning" /\ doc' = d /\ turn' = 1 /\ found' = {}
      /\ UNCHANGED <<at, runs, pending, left>>
    BY DEF NextField, budgetVars
<1>2. at = 1 /\ runs = <<>> /\ pending = NoSpan
    BY <1>1 DEF ScanInv, PlaceInv
<1>3. 1 \in 1..(Len(Shipped) + 1)
    BY ShippedFits
<1>4. PlaceInv'
    BY <1>1, <1>2, <1>3 DEF PlaceInv
<1>5. TurnsInv'
    <2>1. 1..(turn' - 1) = {}
        BY <1>1
    <2> QED BY <2>1 DEF TurnsInv
<1>6. RunsInv'
    <2>1. \A k \in DOMAIN d.text : ~(k < 1)
        BY DocumentsAssumption
    <2>2. <<>> \in Seq(Nat \X Nat)
        OBVIOUS
    <2> QED BY <1>1, <1>2, <2>1, <2>2 DEF RunsInv
<1>7. PendingInv'
    BY <1>1, <1>2 DEF PendingInv
<1> QED BY <1>4, <1>5, <1>6, <1>7 DEF ScanInv

LEMMA ScanInitInv == ASSUME Init PROVE ScanInv
<1>1. /\ doc \in Documents /\ phase = "scanning" /\ turn = 1 /\ at = 1 /\ runs = <<>>
      /\ pending = NoSpan
    BY DEF Init
<1>2. PlaceInv
    BY <1>1, ShippedFits DEF PlaceInv
<1>3. TurnsInv
    <2>1. 1..(turn - 1) = {}
        BY <1>1
    <2> QED BY <2>1 DEF TurnsInv
<1>4. RunsInv
    <2>1. \A k \in DOMAIN doc.text : ~(k < 1)
        BY <1>1, DocumentsAssumption
    <2>2. <<>> \in Seq(Nat \X Nat)
        OBVIOUS
    <2> QED BY <1>1, <2>1, <2>2 DEF RunsInv
<1> QED BY <1>1, <1>2, <1>3, <1>4 DEF ScanInv, PendingInv

LEMMA ScanStutterInv ==
    ASSUME ScanInv, UNCHANGED <<scanVars, left>>
    PROVE  ScanInv'
<1>1. IsExhausted' = IsExhausted /\ Rec' = Rec /\ NoSpan' = NoSpan
    BY DEF IsExhausted, Rec, scanVars
<1> QED BY <1>1 DEF ScanInv, PlaceInv, TurnsInv, RunsInv, PendingInv, scanVars

LEMMA ScanStepInv == ASSUME ScanInv, [Next]_vars PROVE ScanInv'
<1>1. IsExhausted => IsExhausted'
    BY StaysExhausted
<1>2. CASE TakeUnchecked
    BY <1>2, TakeInv
<1>3. CASE Judge
    BY <1>1, <1>3, JudgeInv
<1>4. CASE CutBack
    BY <1>1, <1>4, CutBackInv
<1>5. CASE NextRecognizer
    BY <1>5, NextRecognizerInv
<1>6. CASE EndOfField
    BY <1>6, EndOfFieldInv
<1>7. CASE \E d \in Later : NextField(d)
    BY <1>7, NextFieldInv
<1>8. CASE Done \/ UNCHANGED vars
    BY <1>8, ScanStutterInv DEF Done, vars, budgetVars
<1> QED BY <1>2, <1>3, <1>4, <1>5, <1>6, <1>7, <1>8 DEF Next

LEMMA InvHidesNothing == ASSUME ScanInv PROVE NothingHidden
<1> SUFFICES ASSUME phase = "scanned", NEW r \in DOMAIN Shipped, Shipped[r].scan = "Overlapping",
                    NEW i \in DOMAIN doc.text, NEW e \in Accepted(Shipped[r], i)
             PROVE  Covered(i, e)
    BY DEF NothingHidden
<1>1. ~IsExhausted /\ turn \notin DOMAIN Shipped /\ turn \in 1..(Len(Shipped) + 1)
    BY DEF ScanInv, PlaceInv
<1>2. r \in 1..(turn - 1)
    BY <1>1, ShippedFits
<1>3. CoveredBy(found, i, e)
    BY <1>1, <1>2, AcceptedIs DEF ScanInv, TurnsInv, KnownTo
<1>4. i \in Nat
    BY FieldText DEF ScanInv, PlaceInv
<1>5. ASSUME NEW p \in i..(e - 1) PROVE \E c \in found : c.from <= p /\ p < c.to
    <2>1. e \in Int
        <3>1. /\ WellShaped(Shipped[r]) /\ doc.text \in Text /\ i \in 1..(Len(doc.text) + 1)
              /\ e \in MatchesFrom(Shipped[r], doc.text, i)
            BY ShippedFits, FieldText DEF ScanInv, PlaceInv, Accepted
        <3> QED BY <3>1, MatchesWithin
    <2>2. p \in Nat /\ i <= p /\ p < e
        BY <1>4, <2>1
    <2> QED BY <1>3, <2>2 DEF CoveredBy
<1> QED BY <1>5 DEF Covered

\* A scan that is handed on has left out no value that a recognizer accepts, wherever it
\* starts, inside another match or behind a rejected one, and however it has to be cut
\* back: for every text, every set of locales and of numbering plans, and every allowance
\* (push_candidates, shrink_to_a_valid_prefix, try_detect).
THEOREM ScanHidesNothing == Spec => []NothingHidden
<1>1. Init => ScanInv
    BY ScanInitInv
<1>2. ScanInv /\ [Next]_vars => ScanInv'
    BY ScanStepInv
<1>3. ScanInv => NothingHidden
    BY InvHidesNothing
<1> QED BY <1>1, <1>2, <1>3, PTL DEF Spec
=============================================================================
