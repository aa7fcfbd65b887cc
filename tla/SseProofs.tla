----------------------------- MODULE SseProofs -----------------------------
(***************************************************************************)
(* Proofs about the streaming de-masker (SseDemasker).                     *)
(*                                                                         *)
(* The model's operators are recursive functions over texts and lines.     *)
(* What they compute is established by induction in the form of a least    *)
(* counterexample (LeastNat) and of the uniqueness of what a recursion     *)
(* defines (Iterates, SameIterates).  On that rest, in this order: that    *)
(* de-masking a text in two parts gives the same unless a placeholder      *)
(* reaches across the cut (DemaskJoins); that the place where the demasker *)
(* cuts is such a place (SplitIsSafe); what a client makes of the lines it *)
(* reads (ReadNext, BlankAfterOne, BlankAfterTwo); and what it makes of    *)
(* the frames made up for what was held back (FramesRead, FlushReads).     *)
(* The inductive invariant, SseInv, then says where in a frame the         *)
(* provider, the demasker and the client are, and that what is held back   *)
(* is the end of what has been handled, and what has been told the rest.   *)
(***************************************************************************)
EXTENDS SseDemasker, SequenceTheorems, FiniteSetTheorems, WellFoundedInduction, TLAPS

(***************************************************************************)
(* Induction and recursion over the naturals.                              *)
(***************************************************************************)

\* A set of natural numbers has a least one.
LEMMA LeastNat ==
    ASSUME NEW T \in SUBSET Nat, T # {}
    PROVE  \E x \in T : \A y \in T : x <= y
<1> DEFINE R == OpToRel(<, Nat)
<1>1. \A x, y \in Nat : <<x, y>> \in R <=> x < y
    BY DEF OpToRel
<1>2. IsWellFoundedOn(R, Nat)
    BY NatLessThanWellFounded
<1> HIDE DEF R
<1>3. PICK x \in T : \A y \in T : ~ (<<y, x>> \in R)
    BY <1>2, WFMin
<1>4. \A y \in T : ~ (y < x)
    BY <1>1, <1>3
<1> QED BY <1>4

\* A function defined by recursion up to n exists.
LEMMA Iterates ==
    ASSUME NEW S, NEW c \in S, NEW n \in Nat, NEW F \in [1..n -> [S -> S]]
    PROVE  \E g \in [0..n -> S] : g[0] = c /\ \A i \in 1..n : g[i] = F[i][g[i - 1]]
<1> DEFINE Upto(m, g) == g \in [0..m -> S] /\ g[0] = c /\ \A i \in 1..m : g[i] = F[i][g[i - 1]]
           T == {m \in 0..n : ~ \E g : Upto(m, g)}
<1>1. SUFFICES T = {}
    <2>1. n \notin T
        BY <1>1
    <2> QED BY <2>1
<1>2. SUFFICES ASSUME T # {} PROVE FALSE
    OBVIOUS
<1>3. PICK m \in T : \A y \in T : m <= y
    <2>1. T \in SUBSET Nat
        OBVIOUS
    <2> HIDE DEF T
    <2> QED BY <1>2, <2>1, LeastNat
<1>4. m # 0
    <2>1. Upto(0, [i \in 0..0 |-> c])
        OBVIOUS
    <2> QED BY <2>1
<1>5. PICK g : Upto(m - 1, g)
    <2>1. m - 1 \in 0..n /\ ~ (m <= m - 1)
        BY <1>3, <1>4
    <2>2. m - 1 \notin T
        BY <1>3, <2>1
    <2> QED BY <2>1, <2>2
<1>6. Upto(m, [i \in 0..m |-> IF i = m THEN F[m][g[m - 1]] ELSE g[i]])
    <2> DEFINE h == [i \in 0..m |-> IF i = m THEN F[m][g[m - 1]] ELSE g[i]]
    <2>1. m \in 1..n /\ m - 1 \in 0..(m - 1)
        BY <1>3, <1>4
    <2>2. F[m][g[m - 1]] \in S
        BY <1>5, <2>1
    <2>3. h \in [0..m -> S] /\ h[0] = c
        BY <1>5, <2>1, <2>2
    <2>4. ASSUME NEW i \in 1..m PROVE h[i] = F[i][h[i - 1]]
        <3>1. i - 1 \in 0..m /\ i - 1 # m /\ h[i - 1] = g[i - 1]
            BY <2>1
        <3>2. CASE i = m
            BY <3>1, <3>2
        <3>3. CASE i # m
            BY <1>5, <2>1, <3>1, <3>3
        <3> QED BY <3>2, <3>3
    <2> QED BY <2>3, <2>4
<1> QED BY <1>3, <1>6
\* Two functions that agree at 0 and agree at i if they do at i - 1 are equal.
LEMMA SameIterates ==
    ASSUME NEW n \in Nat, NEW f, NEW g, DOMAIN f = 0..n, DOMAIN g = 0..n,
           f[0] = g[0],
           \A i \in 1..n : f[i - 1] = g[i - 1] => f[i] = g[i]
    PROVE  \A i \in 0..n : f[i] = g[i]
<1> DEFINE T == {i \in 0..n : f[i] # g[i]}
<1> SUFFICES ASSUME T # {} PROVE FALSE
    OBVIOUS
<1>1. PICK m \in T : \A y \in T : m <= y
    <2>1. T \in SUBSET Nat
        OBVIOUS
    <2> HIDE DEF T
    <2> QED BY <2>1, LeastNat
<1>2. m \in 1..n
    BY <1>1
<1>3. m - 1 \notin T
    BY <1>1, <1>2
<1> QED BY <1>1, <1>2, <1>3

(***************************************************************************)
(* De-masking a text.                                                      *)
(***************************************************************************)
Text == Seq(Symbols)
Readable == Seq(Symbols \cup {"V"})

\* What becomes of the symbol at position k.
Piece(t, k) ==
    IF Starts(t, k) THEN <<"V">> ELSE IF Within(t, k) THEN <<>> ELSE <<t[k]>>

LEMMA ReadableAssociates ==
    ASSUME NEW u \in Readable, NEW v \in Readable, NEW w \in Readable
    PROVE  (u \o v) \o w = u \o (v \o w)
BY ConcatAssociative DEF Readable

Pieces(t, g) ==
    /\ g \in [0..Len(t) -> Readable]
    /\ g[0] = <<>>
    /\ \A k \in 1..Len(t) : g[k] = g[k - 1] \o Piece(t, k)

LEMMA PieceReadable ==
    ASSUME NEW t \in Text, NEW k \in 1..Len(t)
    PROVE  Piece(t, k) \in Readable
<1>1. t[k] \in Symbols
    BY DEF Text
<1>2. <<>> \in Readable /\ <<"V">> \in Readable /\ <<t[k]>> \in Readable
    BY <1>1 DEF Readable
<1> QED BY <1>2 DEF Piece

\* Demask puts the pieces of a text together.
LEMMA DemaskIsPieces ==
    ASSUME NEW t \in Text
    PROVE  \E g : Pieces(t, g) /\ Demask(t) = g[Len(t)]
<1> DEFINE n == Len(t)
           Step(v, k) == IF Starts(t, k) THEN Append(v, "V")
                         ELSE IF Within(t, k) THEN v ELSE Append(v, t[k])
           G(g) == [k \in 0..n |-> IF k = 0 THEN <<>> ELSE Step(g[k - 1], k)]
           F == [k \in 1..n |-> [v \in Readable |-> Step(v, k)]]
           nil == <<>>
<1>1. n \in Nat /\ \A k \in 1..n : t[k] \in Symbols
    BY DEF Text
<1>2. \A k \in 1..n, v \in Readable : Step(v, k) \in Readable
    BY <1>1 DEF Readable
<1>3. nil \in Readable
    BY DEF Readable
<1>4. ASSUME NEW k \in 1..n, NEW v \in Readable PROVE Step(v, k) = v \o Piece(t, k)
    <2>1. Append(v, "V") = v \o <<"V">> /\ v \o <<>> = v /\ Append(v, t[k]) = v \o <<t[k]>>
        BY <1>1, AppendIsConcat, ConcatEmptySeq DEF Readable
    <2>2. CASE Starts(t, k)
        BY <2>1, <2>2 DEF Piece
    <2>3. CASE ~Starts(t, k) /\ Within(t, k)
        BY <2>1, <2>3 DEF Piece
    <2>4. CASE ~Starts(t, k) /\ ~Within(t, k)
        BY <2>1, <2>4 DEF Piece
    <2> QED BY <2>2, <2>3, <2>4
<1>5. PICK d : Demask(t) = d[n] /\ ((\E g : g = G(g)) => d = G(d))
    <2>1. Demask(t) = (CHOOSE g : g = G(g))[n]
        BY DEF Demask
    <2> HIDE DEF G
    <2> QED BY <2>1
<1> HIDE DEF n, Step, nil
<1>6. F \in [1..n -> [Readable -> Readable]]
    BY <1>2
<1>7. PICK g \in [0..n -> Readable] : g[0] = nil /\ \A i \in 1..n : g[i] = F[i][g[i - 1]]
    <2> HIDE DEF F
    <2> QED BY <1>1, <1>3, <1>6, Iterates
<1>8. ASSUME NEW i \in 1..n PROVE g[i] = Step(g[i - 1], i)
    <2>1. g[i - 1] \in Readable
        BY <1>1, <1>7
    <2> QED BY <1>7, <2>1
<1>9. \E h : h = G(h)
    <2>1. ASSUME NEW k \in 0..n PROVE g[k] = IF k = 0 THEN <<>> ELSE Step(g[k - 1], k)
        <3>1. CASE k = 0
            BY <1>7, <3>1 DEF nil
        <3>2. CASE k # 0
            <4>1. k \in 1..n
                BY <1>1, <3>2
            <4>2. g[k] = Step(g[k - 1], k)
                BY <1>8, <4>1
            <4> QED BY <3>2, <4>2
        <3> QED BY <3>1, <3>2
    <2>2. g = [k \in 0..n |-> g[k]]
        BY <1>7
    <2> QED BY <2>1, <2>2
<1>10. DOMAIN d = 0..n /\ d[0] = nil /\ \A i \in 1..n : d[i] = Step(d[i - 1], i)
    BY <1>1, <1>5, <1>9 DEF nil
<1>11. \A i \in 0..n : d[i] = g[i]
    <2>1. DOMAIN d = 0..n /\ DOMAIN g = 0..n /\ d[0] = g[0]
        BY <1>7, <1>10
    <2>2. \A i \in 1..n : d[i - 1] = g[i - 1] => d[i] = g[i]
        BY <1>8, <1>10
    <2> QED BY <1>1, <2>1, <2>2, SameIterates
<1>12. ASSUME NEW k \in 1..n PROVE g[k] = g[k - 1] \o Piece(t, k)
    <2>1. g[k - 1] \in Readable
        BY <1>1, <1>7
    <2> QED BY <1>4, <1>8, <2>1
<1>13. Pieces(t, g)
    BY <1>7, <1>12 DEF Pieces, n, nil
<1>14. Demask(t) = g[n]
    BY <1>1, <1>5, <1>11
<1> QED BY <1>13, <1>14 DEF n

\* And so does any function that puts them together.
LEMMA DemaskOf ==
    ASSUME NEW t \in Text, NEW g, Pieces(t, g)
    PROVE  Demask(t) = g[Len(t)]
<1>1. PICK h : Pieces(t, h) /\ Demask(t) = h[Len(t)]
    BY DemaskIsPieces
<1>2. Len(t) \in Nat
    BY DEF Text
<1>3. DOMAIN g = 0..Len(t) /\ DOMAIN h = 0..Len(t) /\ g[0] = h[0]
      /\ \A i \in 1..Len(t) : g[i - 1] = h[i - 1] => g[i] = h[i]
    BY <1>1 DEF Pieces
<1>4. \A i \in 0..Len(t) : g[i] = h[i]
    BY <1>2, <1>3, SameIterates
<1> QED BY <1>1, <1>2, <1>4

\* No placeholder of t reaches across position c.
Safe(t, c) == ~ \E i \in 1..c, j \in (c + 1)..Len(t) : IsToken(t, i, j)


LEMMA DemaskReadable == ASSUME NEW t \in Text PROVE Demask(t) \in Readable
<1>1. Len(t) \in Nat
    BY DEF Text
<1> QED BY <1>1, DemaskIsPieces DEF Pieces

\* A placeholder is one wherever in a text it stands.
LEMMA TokenShift ==
    ASSUME NEW t, NEW s \in Text, NEW c \in Nat, \A k \in 1..Len(s) : s[k] = t[c + k],
           NEW i \in 1..Len(s), NEW j \in 1..Len(s)
    PROVE  IsToken(s, i, j) <=> IsToken(t, c + i, c + j)
<1> DEFINE Shape(u, x, y, l, m) ==
        /\ l < m /\ u[l] = "L" /\ u[m] = "1"
        /\ \A k \in (x + 1)..(l - 1) \cup (m + 1)..(y - 1) : u[k] \in Padding
        /\ \A k \in (l + 1)..(m - 1) : u[k] = "s"
<1>1. Len(s) \in Nat
    BY DEF Text
<1>2. s[i] = t[c + i] /\ s[j] = t[c + j]
    OBVIOUS
<1>3. ASSUME NEW l \in (i + 1)..(j - 1), NEW m \in (i + 1)..(j - 1)
      PROVE  Shape(s, i, j, l, m) <=> Shape(t, c + i, c + j, c + l, c + m)
    <2>1. \A k \in (i + 1)..(j - 1) : s[k] = t[c + k]
        BY <1>1
    <2>2. \A k \in (i + 1)..(l - 1) \cup (m + 1)..(j - 1) \cup (l + 1)..(m - 1) : s[k] = t[c + k]
        BY <2>1
    <2>3. ASSUME Shape(s, i, j, l, m) PROVE Shape(t, c + i, c + j, c + l, c + m)
        <3>1. c + l < c + m /\ t[c + l] = "L" /\ t[c + m] = "1"
            BY <1>1, <2>1, <2>3
        <3>2. ASSUME NEW k \in (c + i + 1)..(c + l - 1) \cup (c + m + 1)..(c + j - 1) PROVE t[k] \in Padding
            <4>1. k - c \in (i + 1)..(l - 1) \cup (m + 1)..(j - 1) /\ c + (k - c) = k
                BY <1>1
            <4> QED BY <2>2, <2>3, <4>1
        <3>3. ASSUME NEW k \in (c + l + 1)..(c + m - 1) PROVE t[k] = "s"
            <4>1. k - c \in (l + 1)..(m - 1) /\ c + (k - c) = k
                BY <1>1
            <4> QED BY <2>2, <2>3, <4>1
        <3> QED BY <3>1, <3>2, <3>3
    <2>4. ASSUME Shape(t, c + i, c + j, c + l, c + m) PROVE Shape(s, i, j, l, m)
        <3>1. l < m /\ s[l] = "L" /\ s[m] = "1"
            BY <1>1, <2>1, <2>4
        <3>2. ASSUME NEW k \in (i + 1)..(l - 1) \cup (m + 1)..(j - 1) PROVE s[k] \in Padding
            <4>1. c + k \in (c + i + 1)..(c + l - 1) \cup (c + m + 1)..(c + j - 1)
                BY <1>1
            <4>2. t[c + k] \in Padding
                BY <2>4, <4>1
            <4>3. s[k] = t[c + k]
                BY <2>2
            <4> QED BY <4>2, <4>3
        <3>3. ASSUME NEW k \in (l + 1)..(m - 1) PROVE s[k] = "s"
            <4>1. c + k \in (c + l + 1)..(c + m - 1)
                BY <1>1
            <4> QED BY <2>2, <2>4, <4>1
        <3> QED BY <3>1, <3>2, <3>3
    <2> QED BY <2>3, <2>4
<1>4. \A l, m \in (c + i + 1)..(c + j - 1) :
          /\ l - c \in (i + 1)..(j - 1) /\ m - c \in (i + 1)..(j - 1)
          /\ c + (l - c) = l /\ c + (m - c) = m
    BY <1>1
<1>5. \A l \in (i + 1)..(j - 1) : c + l \in (c + i + 1)..(c + j - 1)
    BY <1>1
<1> HIDE DEF Shape
<1>6. (\E l, m \in (i + 1)..(j - 1) : Shape(s, i, j, l, m))
        <=> (\E l, m \in (c + i + 1)..(c + j - 1) : Shape(t, c + i, c + j, l, m))
    <2>1. ASSUME NEW l \in (i + 1)..(j - 1), NEW m \in (i + 1)..(j - 1), Shape(s, i, j, l, m)
          PROVE  \E x, y \in (c + i + 1)..(c + j - 1) : Shape(t, c + i, c + j, x, y)
        BY <1>3, <1>5, <2>1
    <2>2. ASSUME NEW l \in (c + i + 1)..(c + j - 1), NEW m \in (c + i + 1)..(c + j - 1),
                 Shape(t, c + i, c + j, l, m)
          PROVE  \E x, y \in (i + 1)..(j - 1) : Shape(s, i, j, x, y)
        <3>1. Shape(t, c + i, c + j, c + (l - c), c + (m - c))
            BY <1>4, <2>2
        <3> QED BY <1>3, <1>4, <3>1
    <2> QED BY <2>1, <2>2
<1>7. IsToken(s, i, j) <=> /\ s[i] = "[" /\ s[j] = "]"
                           /\ \E l, m \in (i + 1)..(j - 1) : Shape(s, i, j, l, m)
    BY DEF IsToken, Shape
<1>8. IsToken(t, c + i, c + j)
          <=> /\ t[c + i] = "[" /\ t[c + j] = "]"
              /\ \E l, m \in (c + i + 1)..(c + j - 1) : Shape(t, c + i, c + j, l, m)
    BY DEF IsToken, Shape
<1> QED BY <1>2, <1>6, <1>7, <1>8

\* What becomes of a symbol depends on the stretch of text around it that no
\* placeholder reaches across.
LEMMA PieceShift ==
    ASSUME NEW t \in Text, NEW s \in Text, NEW c \in Nat, c + Len(s) <= Len(t),
           \A k \in 1..Len(s) : s[k] = t[c + k],
           Safe(t, c), Safe(t, c + Len(s)), NEW k \in 1..Len(s)
    PROVE  Piece(t, c + k) = Piece(s, k)
<1>1. Len(s) \in Nat /\ Len(t) \in Nat
    BY DEF Text
<1>2. \A i, j \in 1..Len(s) : IsToken(s, i, j) <=> IsToken(t, c + i, c + j)
    BY TokenShift
<1>3. s[k] = t[c + k]
    OBVIOUS
<1>4. ASSUME NEW i \in 1..Len(t), NEW j \in 1..Len(t), IsToken(t, i, j), i <= c + k, c + k <= j
      PROVE  /\ i - c \in 1..Len(s) /\ j - c \in 1..Len(s)
             /\ i = c + (i - c) /\ j = c + (j - c)
             /\ IsToken(s, i - c, j - c)
    <2>1. ~ (i <= c)
        <3>1. i \in 1..c /\ j \in (c + 1)..Len(t) => FALSE
            BY <1>4 DEF Safe
        <3> QED BY <1>1, <1>4, <3>1
    <2>2. j <= c + Len(s)
        <3>1. i \in 1..(c + Len(s)) /\ j \in (c + Len(s) + 1)..Len(t) => FALSE
            BY <1>4 DEF Safe
        <3> QED BY <1>1, <1>4, <3>1
    <2>3. i - c \in 1..Len(s) /\ j - c \in 1..Len(s) /\ i = c + (i - c) /\ j = c + (j - c)
        BY <1>1, <1>4, <2>1, <2>2
    <2> QED BY <1>2, <1>4, <2>3
<1>5. Starts(t, c + k) <=> Starts(s, k)
    <2>1. ASSUME Starts(t, c + k) PROVE Starts(s, k)
        <3>1. PICK j \in (c + k + 1)..Len(t) : IsToken(t, c + k, j)
            BY <2>1 DEF Starts
        <3>2. j - c \in (k + 1)..Len(s) /\ IsToken(s, (c + k) - c, j - c) /\ (c + k) - c = k
            BY <1>1, <1>4, <3>1
        <3> QED BY <1>3, <2>1, <3>2 DEF Starts
    <2>2. ASSUME Starts(s, k) PROVE Starts(t, c + k)
        <3>1. PICK j \in (k + 1)..Len(s) : IsToken(s, k, j)
            BY <2>2 DEF Starts
        <3>2. c + j \in (c + k + 1)..Len(t) /\ IsToken(t, c + k, c + j)
            BY <1>1, <1>2, <3>1
        <3> QED BY <1>3, <2>2, <3>2 DEF Starts
    <2> QED BY <2>1, <2>2
<1>6. Within(t, c + k) <=> Within(s, k)
    <2>1. ASSUME Within(t, c + k) PROVE Within(s, k)
        <3>1. PICK i \in 1..(c + k - 1) : t[i] = "[" /\ \E j \in (c + k)..Len(t) : IsToken(t, i, j)
            BY <2>1 DEF Within
        <3>2. PICK j \in (c + k)..Len(t) : IsToken(t, i, j)
            BY <3>1
        <3>3. i - c \in 1..Len(s) /\ i = c + (i - c) /\ j - c \in 1..Len(s) /\ IsToken(s, i - c, j - c)
            BY <1>1, <1>4, <3>1, <3>2
        <3>4. i - c \in 1..(k - 1) /\ j - c \in k..Len(s) /\ s[i - c] = "["
            BY <1>1, <3>1, <3>2, <3>3
        <3> QED BY <3>3, <3>4 DEF Within
    <2>2. ASSUME Within(s, k) PROVE Within(t, c + k)
        <3>1. PICK i \in 1..(k - 1) : s[i] = "[" /\ \E j \in k..Len(s) : IsToken(s, i, j)
            BY <2>2 DEF Within
        <3>2. PICK j \in k..Len(s) : IsToken(s, i, j)
            BY <3>1
        <3>3. i \in 1..Len(s) /\ j \in 1..Len(s)
            BY <1>1
        <3>4. c + i \in 1..(c + k - 1) /\ c + j \in (c + k)..Len(t)
            BY <1>1
        <3>5. IsToken(t, c + i, c + j) /\ t[c + i] = "["
            BY <1>2, <3>1, <3>2, <3>3
        <3> QED BY <3>4, <3>5 DEF Within
    <2> QED BY <2>1, <2>2
<1> QED BY <1>3, <1>5, <1>6 DEF Piece

\* De-masking the two parts of a text gives what de-masking all of it gives,
\* if no placeholder reaches across the cut.
LEMMA DemaskSplits ==
    ASSUME NEW p \in Text, NEW s \in Text, Safe(p \o s, Len(p))
    PROVE  Demask(p \o s) = Demask(p) \o Demask(s)
<1> DEFINE t == p \o s
           c == Len(p)
<1>1. /\ t \in Text /\ c \in Nat /\ Len(s) \in Nat /\ Len(t) = c + Len(s)
      /\ \A k \in 1..c : p[k] = t[0 + k]
      /\ \A k \in 1..Len(s) : s[k] = t[c + k]
    <2>1. /\ t \in Text /\ Len(t) = c + Len(s) /\ c \in Nat /\ Len(s) \in Nat
          /\ \A k \in 1..(c + Len(s)) : t[k] = IF k <= c THEN p[k] ELSE s[k - c]
        BY ConcatProperties, LenProperties DEF Text
    <2> HIDE DEF t, c
    <2>2. ASSUME NEW k \in 1..c PROVE p[k] = t[0 + k]
        BY <2>1
    <2>3. ASSUME NEW k \in 1..Len(s) PROVE s[k] = t[c + k]
        BY <2>1
    <2> QED BY <2>1, <2>2, <2>3
<1>2. Safe(t, 0) /\ Safe(t, c) /\ Safe(t, c + Len(s))
    <2>1. ~ \E i \in 1..0 : TRUE
        OBVIOUS
    <2>2. ~ \E j \in (c + Len(s) + 1)..Len(t) : TRUE
        BY <1>1
    <2> QED BY <2>1, <2>2 DEF Safe
<1>3. PICK g : Pieces(p, g) /\ Demask(p) = g[c]
    BY DemaskIsPieces
<1>4. PICK h : Pieces(s, h) /\ Demask(s) = h[Len(s)]
    BY DemaskIsPieces
<1> HIDE DEF t, c
<1>5. c <= Len(t) /\ c = 0 + Len(p)
    BY <1>1 DEF c
<1>6. \A k \in 1..c : Piece(t, 0 + k) = Piece(p, k)
    <2>1. Safe(t, 0 + Len(p)) /\ 0 + Len(p) <= Len(t) /\ \A k \in 1..Len(p) : p[k] = t[0 + k]
        BY <1>1, <1>2, <1>5 DEF c
    <2> QED BY <1>1, <1>2, <2>1, PieceShift DEF c
<1>7. \A k \in 1..Len(s) : Piece(t, c + k) = Piece(s, k)
    <2>1. c + Len(s) <= Len(t)
        BY <1>1
    <2> QED BY <1>1, <1>2, <2>1, PieceShift
<1> DEFINE f == [k \in 0..Len(t) |-> IF k <= c THEN g[k] ELSE g[c] \o h[k - c]]
<1>8. /\ \A k \in 0..c : g[k] \in Readable
      /\ \A k \in 0..Len(s) : h[k] \in Readable
    BY <1>3, <1>4 DEF Pieces, c
<1>9. f \in [0..Len(t) -> Readable] /\ f[0] = <<>>
    <2>1. ASSUME NEW k \in 0..Len(t), ~ (k <= c) PROVE g[c] \o h[k - c] \in Readable
        <3>1. k - c \in 0..Len(s) /\ c \in 0..c
            BY <1>1, <2>1
        <3> QED BY <1>8, <3>1, ConcatProperties DEF Readable
    <2>2. \A k \in 0..Len(t) : k <= c => g[k] \in Readable
        BY <1>1, <1>8
    <2>3. f[0] = g[0] /\ g[0] = <<>>
        BY <1>1, <1>3 DEF Pieces
    <2> QED BY <2>1, <2>2, <2>3
<1>10. ASSUME NEW k \in 1..Len(t) PROVE f[k] = f[k - 1] \o Piece(t, k)
    <2>1. CASE k <= c
        <3>1. k \in 1..c /\ 0 + k = k /\ k - 1 \in 0..Len(t) /\ k - 1 <= c
            BY <1>1, <2>1
        <3>2. f[k] = g[k] /\ f[k - 1] = g[k - 1]
            BY <2>1, <3>1
        <3>3. g[k] = g[k - 1] \o Piece(p, k)
            BY <1>3, <3>1 DEF Pieces, c
        <3> HIDE DEF f
        <3> QED BY <1>6, <3>1, <3>2, <3>3
    <2>2. CASE ~ (k <= c)
        <3>1. k - c \in 1..Len(s) /\ c + (k - c) = k /\ k - 1 \in 0..Len(t) /\ (k - c) - 1 \in 0..Len(s)
              /\ c \in 0..c
            BY <1>1, <2>2
        <3>2. h[k - c] = h[(k - c) - 1] \o Piece(s, k - c)
            BY <1>4, <3>1 DEF Pieces
        <3>3. Piece(t, k) = Piece(s, k - c)
            BY <1>7, <3>1
        <3>4. f[k] = g[c] \o h[k - c]
            <4>1. k \in 0..Len(t)
                BY <1>1
            <4> QED BY <2>2, <4>1
        <3>5. f[k - 1] = g[c] \o h[(k - c) - 1]
            <4>1. CASE k - 1 <= c
                <5>1. k - 1 = c /\ (k - c) - 1 = 0
                    BY <1>1, <2>2, <4>1
                <5>2. h[0] = <<>>
                    BY <1>4 DEF Pieces
                <5>3. f[k - 1] = g[c]
                    BY <1>5, <3>1, <5>1
                <5>4. g[c] \o <<>> = g[c]
                    BY <1>8, <3>1, ConcatEmptySeq DEF Readable
                <5> HIDE DEF f
                <5> QED BY <5>1, <5>2, <5>3, <5>4
            <4>2. CASE ~ (k - 1 <= c)
                <5>1. (k - c) - 1 = (k - 1) - c
                    BY <1>1
                <5> QED BY <3>1, <4>2, <5>1
            <4> QED BY <4>1, <4>2
        <3>6. Piece(s, k - c) \in Readable
            BY <3>1, PieceReadable
        <3>7. (g[c] \o h[(k - c) - 1]) \o Piece(s, k - c) = g[c] \o (h[(k - c) - 1] \o Piece(s, k - c))
            <4>1. g[c] \in Readable /\ h[(k - c) - 1] \in Readable
                BY <1>8, <3>1
            <4> QED BY <3>6, <4>1, ReadableAssociates
        <3> HIDE DEF f
        <3> QED BY <3>2, <3>3, <3>4, <3>5, <3>7
    <2> QED BY <2>1, <2>2
<1>11. f[Len(t)] = g[c] \o h[Len(s)]
    <2>1. CASE Len(s) = 0
        <3>1. h[0] = <<>>
            BY <1>4 DEF Pieces
        <3>2. Len(t) = c /\ f[c] = g[c]
            BY <1>1, <2>1
        <3>3. g[c] \o <<>> = g[c]
            BY <1>1, <1>8, ConcatEmptySeq DEF Readable
        <3> HIDE DEF f
        <3> QED BY <2>1, <3>1, <3>2, <3>3
    <2>2. CASE Len(s) # 0
        <3>1. ~ (Len(t) <= c) /\ Len(t) - c = Len(s) /\ Len(t) \in 0..Len(t)
            BY <1>1, <2>2
        <3> QED BY <3>1
    <2> QED BY <2>1, <2>2
<1> HIDE DEF f
<1>12. Pieces(t, f)
    BY <1>9, <1>10 DEF Pieces
<1>13. Demask(t) = f[Len(t)]
    BY <1>1, <1>12, DemaskOf
<1> QED BY <1>3, <1>4, <1>11, <1>13 DEF t

LEMMA DemaskNothing == Demask(<<>>) = <<>>
<1>1. <<>> \in Text /\ Len(<<>>) = 0
    BY EmptySeq DEF Text
<1>2. PICK g : Pieces(<<>>, g) /\ Demask(<<>>) = g[0]
    BY <1>1, DemaskIsPieces
<1> QED BY <1>2 DEF Pieces

LEMMA TextParts ==
    ASSUME NEW t \in Text, NEW m \in 1..(Len(t) + 1), NEW n \in (m - 1)..Len(t)
    PROVE  /\ SubSeq(t, m, n) \in Text
           /\ Len(SubSeq(t, m, n)) = n - m + 1
           /\ \A k \in 1..(n - m + 1) : SubSeq(t, m, n)[k] = t[(m - 1) + k]
<1>1. Len(t) \in Nat /\ \A k \in 1..Len(t) : t[k] \in Symbols
    BY ElementOfSeq DEF Text
<1>2. m \in Int /\ n \in Int /\ \A k \in m..n : t[k] \in Symbols
    BY <1>1
<1>3. /\ SubSeq(t, m, n) \in Seq(Symbols)
      /\ Len(SubSeq(t, m, n)) = IF m <= n THEN n - m + 1 ELSE 0
      /\ \A k \in 1..(n - m + 1) : SubSeq(t, m, n)[k] = t[m + k - 1]
    BY <1>2, SubSeqProperties
<1>4. \A k \in 1..(n - m + 1) : m + k - 1 = (m - 1) + k
    BY <1>2
<1>5. m <= n \/ n - m + 1 = 0
    BY <1>2
<1> QED BY <1>3, <1>4, <1>5 DEF Text

\* The same for the first n symbols of a text.
LEMMA DemaskJoins ==
    ASSUME NEW t \in Text, NEW n \in 0..Len(t), NEW e \in 0..n, Safe(t, e)
    PROVE  Demask(SubSeq(t, 1, n)) = Demask(SubSeq(t, 1, e)) \o Demask(SubSeq(t, e + 1, n))
<1> DEFINE p == SubSeq(t, 1, e)
           s == SubSeq(t, e + 1, n)
           u == SubSeq(t, 1, n)
<1>1. Len(t) \in Nat /\ n \in Nat /\ e \in Nat
    BY DEF Text
<1>2. /\ 1 \in 1..(Len(t) + 1) /\ e + 1 \in 1..(Len(t) + 1)
      /\ e \in (1 - 1)..Len(t) /\ n \in (1 - 1)..Len(t) /\ n \in ((e + 1) - 1)..Len(t)
    BY <1>1
<1>3. p \in Text /\ s \in Text /\ u \in Text /\ Len(p) = e /\ Len(u) = n
      /\ \A k \in 1..n : u[k] = t[0 + k]
    <2>1. p \in Text /\ Len(p) = e - 1 + 1
        BY <1>2, TextParts
    <2>2. s \in Text
        BY <1>2, TextParts
    <2>3. u \in Text /\ Len(u) = n - 1 + 1 /\ \A k \in 1..(n - 1 + 1) : u[k] = t[(1 - 1) + k]
        BY <1>2, TextParts
    <2> QED BY <1>1, <2>1, <2>2, <2>3
<1>4. p \o s = u
    BY <1>1, <1>2, ConcatAdjacentSubSeq DEF Text
<1> HIDE DEF p, s, u
<1>5. Safe(u, e)
    <2>1. \A i, j \in 1..Len(u) : IsToken(u, i, j) <=> IsToken(t, 0 + i, 0 + j)
        BY <1>3, TokenShift
    <2>2. ASSUME NEW i \in 1..e, NEW j \in (e + 1)..Len(u), IsToken(u, i, j) PROVE FALSE
        <3>1. i \in 1..Len(u) /\ j \in 1..Len(u) /\ 0 + i = i /\ 0 + j = j /\ j \in (e + 1)..Len(t)
            BY <1>1, <1>3
        <3>2. IsToken(t, i, j)
            BY <2>1, <2>2, <3>1
        <3> QED BY <3>1, <3>2 DEF Safe
    <2> QED BY <2>2 DEF Safe
<1>6. Demask(p \o s) = Demask(p) \o Demask(s)
    BY <1>3, <1>4, <1>5, DemaskSplits
<1> QED BY <1>4, <1>6 DEF p, s, u

(***************************************************************************)
(* Holding text back.                                                      *)
(***************************************************************************)

\* Every placeholder is short enough to be held back whole, and padded with
\* spaces only.
PlainText(t) ==
    \A i, j \in 1..Len(t) :
        IsToken(t, i, j) => /\ j - i - 1 <= MaxHold
                            /\ \A m \in (i + 1)..(j - 1) : t[m] # "t"

PlainScripts == \A s \in Scripts, k \in Keys : PlainText(s[k])

LEMMA InsideToken ==
    ASSUME NEW t \in Text, NEW i \in 1..Len(t), NEW j \in 1..Len(t), IsToken(t, i, j)
    PROVE  /\ i < j /\ t[i] = "[" /\ t[j] = "]"
           /\ \A k \in (i + 1)..(j - 1) : t[k] \in Body \cup {"t"}
<1>1. Len(t) \in Nat
    BY DEF Text
<1>2. PICK l \in (i + 1)..(j - 1), m \in (i + 1)..(j - 1) :
          /\ l < m /\ t[l] = "L" /\ t[m] = "1"
          /\ \A k \in (i + 1)..(l - 1) \cup (m + 1)..(j - 1) : t[k] \in Padding
          /\ \A k \in (l + 1)..(m - 1) : t[k] = "s"
    BY DEF IsToken
<1>3. ASSUME NEW k \in (i + 1)..(j - 1) PROVE t[k] \in Body \cup {"t"}
    <2>1. \/ k = l \/ k = m \/ k \in (i + 1)..(l - 1) \cup (m + 1)..(j - 1) \/ k \in (l + 1)..(m - 1)
        BY <1>1, <1>2
    <2> QED BY <1>2, <2>1 DEF Body, Padding
<1>4. i < j
    BY <1>1, <1>2
<1> QED BY <1>3, <1>4 DEF IsToken

\* What Split holds back is an open bracket and a few placeholder symbols.
LEMMA SplitHolds ==
    ASSUME NEW u \in Text
    PROVE  /\ Split(u) \in 0..Len(u)
           /\ \/ /\ Split(u) = Len(u)
                 /\ ~ \E o \in Opens(u) : /\ Len(u) - o <= MaxHold
                                         /\ \A i \in (o + 1)..Len(u) : u[i] \in Body
              \/ /\ Split(u) < Len(u) /\ u[Split(u) + 1] = "["
                 /\ Len(u) - Split(u) <= MaxHold + 1
                 /\ \A i \in (Split(u) + 2)..Len(u) : u[i] \in Body
<1>1. Len(u) \in Nat /\ MaxHold \in Nat
    BY SseAssumption DEF Text
<1> DEFINE Held(o) == /\ Len(u) - o <= MaxHold
                      /\ \A i \in (o + 1)..Len(u) : u[i] \in Body
<1>2. CASE \E o \in Opens(u) : Held(o)
    <2>1. PICK o \in Opens(u) : Held(o)
        BY <1>2
    <2>2. o \in 1..Len(u) /\ u[o] = "["
        BY DEF Opens
    <2>3. \A i \in Opens(u) : i <= o
        <3>1. ASSUME NEW i \in Opens(u), ~ (i <= o) PROVE FALSE
            <4>1. i \in (o + 1)..Len(u) /\ u[i] = "["
                BY <1>1, <2>2, <3>1 DEF Opens
            <4> QED BY <2>1, <4>1 DEF Body
        <3> QED BY <3>1
    <2>4. ASSUME NEW x \in Opens(u), \A i \in Opens(u) : i <= x PROVE x = o
        BY <1>1, <2>2, <2>3, <2>4 DEF Opens
    <2>5. (CHOOSE x \in Opens(u) : \A i \in Opens(u) : i <= x) = o
        BY <2>3, <2>4
    <2>6. Split(u) = o - 1
        BY <1>2, <2>5 DEF Split
    <2>7. o - 1 \in 0..Len(u) /\ o - 1 < Len(u) /\ (o - 1) + 1 = o /\ (o - 1) + 2 = o + 1
          /\ Len(u) - (o - 1) <= MaxHold + 1
        BY <1>1, <2>1, <2>2
    <2> QED BY <2>1, <2>2, <2>6, <2>7
<1>3. CASE ~ \E o \in Opens(u) : Held(o)
    <2>1. Split(u) = Len(u)
        BY <1>3 DEF Split
    <2> QED BY <1>1, <1>3, <2>1
<1> QED BY <1>2, <1>3

\* No placeholder of a plain text reaches across the place where what has come of
\* it is split.
LEMMA SplitIsSafe ==
    ASSUME NEW t \in Text, PlainText(t), NEW n \in 0..Len(t), NEW e \in 0..n, Safe(t, e),
           NEW u, u = SubSeq(t, e + 1, n)
    PROVE  Safe(t, e + Split(u))
<1>1. Len(t) \in Nat /\ n \in Nat /\ e \in Nat /\ MaxHold \in Nat
    BY SseAssumption DEF Text
<1>2. e + 1 \in 1..(Len(t) + 1) /\ n \in ((e + 1) - 1)..Len(t)
    BY <1>1
<1>3. u \in Text /\ Len(u) = n - e /\ \A k \in 1..(n - e) : u[k] = t[e + k]
    <2>1. /\ u \in Text /\ Len(u) = n - (e + 1) + 1
          /\ \A k \in 1..(n - (e + 1) + 1) : u[k] = t[((e + 1) - 1) + k]
        BY <1>2, TextParts
    <2>2. n - (e + 1) + 1 = n - e /\ (e + 1) - 1 = e
        BY <1>1
    <2> QED BY <2>1, <2>2
<1> SUFFICES ASSUME NEW i \in 1..(e + Split(u)), NEW j \in (e + Split(u) + 1)..Len(t), IsToken(t, i, j)
             PROVE  FALSE
    BY DEF Safe
<1>4. Split(u) \in 0..(n - e)
    BY <1>3, SplitHolds
<1>5. i \in 1..Len(t) /\ j \in 1..Len(t) /\ j > e
    BY <1>1, <1>4
<1>6. /\ i < j /\ t[i] = "[" /\ t[j] = "]"
      /\ \A k \in (i + 1)..(j - 1) : t[k] \in Body \cup {"t"}
    BY <1>5, InsideToken
<1>7. j - i - 1 <= MaxHold /\ \A k \in (i + 1)..(j - 1) : t[k] # "t"
    BY <1>5 DEF PlainText
<1>8. i > e
    <2>1. i \in 1..e /\ j \in (e + 1)..Len(t) => FALSE
        BY DEF Safe
    <2> QED BY <1>1, <1>5, <2>1
<1>9. i - e \in 1..Split(u) /\ i - e \in 1..(n - e) /\ e + (i - e) = i
    BY <1>1, <1>4, <1>5, <1>8
<1>10. i - e \in Opens(u)
    BY <1>3, <1>6, <1>9 DEF Opens
<1>11. CASE /\ Split(u) = Len(u)
            /\ ~ \E o \in Opens(u) : /\ Len(u) - o <= MaxHold
                                    /\ \A k \in (o + 1)..Len(u) : u[k] \in Body
    <2>1. Len(u) - (i - e) <= MaxHold
        BY <1>1, <1>3, <1>5, <1>7, <1>11
    <2>2. ASSUME NEW k \in ((i - e) + 1)..Len(u) PROVE u[k] \in Body
        <3>1. k \in 1..(n - e) /\ e + k \in (i + 1)..(j - 1)
            BY <1>1, <1>3, <1>5, <1>8, <1>9, <1>11
        <3>2. t[e + k] \in Body
            BY <1>6, <1>7, <3>1
        <3> QED BY <1>3, <3>1, <3>2
    <2> QED BY <1>10, <1>11, <2>1, <2>2
<1>12. CASE Split(u) < Len(u) /\ u[Split(u) + 1] = "["
    <2>1. Split(u) + 1 \in 1..(n - e) /\ e + (Split(u) + 1) = e + Split(u) + 1
        BY <1>1, <1>3, <1>4, <1>12
    <2>2. t[e + Split(u) + 1] = "["
        BY <1>3, <1>12, <2>1
    <2>3. j # e + Split(u) + 1
        BY <1>6, <2>2
    <2>4. e + Split(u) + 1 \in (i + 1)..(j - 1)
        <3>1. ASSUME NEW c \in Nat, i <= e + c, j >= e + c + 1, j # e + c + 1
              PROVE  e + c + 1 \in (i + 1)..(j - 1)
            BY <1>1, <1>5, <3>1
        <3>2. Split(u) \in Nat /\ i <= e + Split(u) /\ j >= e + Split(u) + 1
            BY <1>1, <1>4, <1>5
        <3> QED BY <2>3, <3>1, <3>2
    <2>5. t[e + Split(u) + 1] \in Body \cup {"t"}
        BY <1>6, <2>4
    <2> QED BY <2>2, <2>5 DEF Body
<1> QED BY <1>3, <1>11, <1>12, SplitHolds

\* The symbols of a text behind the first a, up to the b-th.
Slice(t, a, b) == SubSeq(t, a + 1, b)

\* The first n symbols of v are those of t behind the first a.
SameFrom(v, t, a, n) == \A i \in 1..n : v[i] = t[a + i]

LEMMA SliceOf ==
    ASSUME NEW t, NEW a, NEW b, t \in Text, a \in Nat, b \in Nat, a <= b, b <= Len(t)
    PROVE  /\ Slice(t, a, b) \in Text /\ Len(Slice(t, a, b)) = b - a
           /\ SameFrom(Slice(t, a, b), t, a, b - a)
<1>1. Len(t) \in Nat
    BY DEF Text
<1>2. a + 1 \in 1..(Len(t) + 1) /\ b \in ((a + 1) - 1)..Len(t)
    BY <1>1
<1>3. b - (a + 1) + 1 = b - a /\ (a + 1) - 1 = a
    OBVIOUS
<1>4. /\ SubSeq(t, a + 1, b) \in Text
      /\ Len(SubSeq(t, a + 1, b)) = b - (a + 1) + 1
      /\ \A k \in 1..(b - (a + 1) + 1) : SubSeq(t, a + 1, b)[k] = t[((a + 1) - 1) + k]
    BY <1>2, TextParts
<1> QED BY <1>3, <1>4 DEF Slice, SameFrom

LEMMA SliceFirst ==
    ASSUME NEW t, NEW n
    PROVE  Slice(t, 0, n) = SubSeq(t, 1, n)
<1>1. 0 + 1 = 1
    OBVIOUS
<1> QED BY <1>1 DEF Slice

LEMMA SliceFull ==
    ASSUME NEW t, t \in Text
    PROVE  /\ Slice(t, 0, Len(t)) = t
           /\ \A n \in Nat : n <= Len(t) => Slice(t, n, n) = <<>>
<1>1. Slice(t, 0, Len(t)) = t
    BY SliceFirst, SubSeqFull DEF Text
<1>2. ASSUME NEW n \in Nat, n <= Len(t) PROVE Slice(t, n, n) = <<>>
    <2>1. Slice(t, n, n) \in Text /\ Len(Slice(t, n, n)) = n - n
        BY <1>2, SliceOf
    <2>2. n - n = 0
        OBVIOUS
    <2> QED BY <2>1, <2>2, EmptySeq DEF Text
<1> QED BY <1>1, <1>2

LEMMA SliceJoin ==
    ASSUME NEW t, NEW a, NEW b, NEW c, t \in Text, a \in Nat, b \in Nat, c \in Nat,
           a <= b, b <= c, c <= Len(t)
    PROVE  Slice(t, a, b) \o Slice(t, b, c) = Slice(t, a, c)
<1>1. Len(t) \in Nat
    BY DEF Text
<1>2. a + 1 \in 1..(Len(t) + 1) /\ b \in ((a + 1) - 1)..Len(t) /\ c \in b..Len(t)
    BY <1>1
<1>3. SubSeq(t, a + 1, b) \o SubSeq(t, b + 1, c) = SubSeq(t, a + 1, c)
    BY <1>2, ConcatAdjacentSubSeq DEF Text
<1> QED BY <1>3 DEF Slice

LEMMA SliceSlice ==
    ASSUME NEW t, NEW a, NEW b, NEW c, NEW d, t \in Text,
           a \in Nat, b \in Nat, c \in Nat, d \in Nat,
           a <= b, b <= Len(t), c <= d, a + d <= b
    PROVE  Slice(Slice(t, a, b), c, d) = Slice(t, a + c, a + d)
<1>1. PICK u : u = Slice(t, a, b)
    OBVIOUS
<1>2. u \in Text /\ Len(u) = b - a /\ \A i \in 1..(b - a) : u[i] = t[a + i]
    <2>1. u \in Text /\ Len(u) = b - a /\ SameFrom(u, t, a, b - a)
        BY <1>1, SliceOf
    <2> QED BY <2>1 DEF SameFrom
<1>3. PICK v, w : v = Slice(u, c, d) /\ w = Slice(t, a + c, a + d)
    OBVIOUS
<1>4. Len(t) \in Nat /\ d <= Len(u) /\ a + c \in Nat /\ a + d \in Nat /\ a + c <= a + d /\ a + d <= Len(t)
    BY <1>2 DEF Text
<1>5. v \in Text /\ Len(v) = d - c /\ \A i \in 1..(d - c) : v[i] = u[c + i]
    <2>1. v \in Text /\ Len(v) = d - c /\ SameFrom(v, u, c, d - c)
        BY <1>2, <1>3, <1>4, SliceOf
    <2> QED BY <2>1 DEF SameFrom
<1>6. w \in Text /\ Len(w) = (a + d) - (a + c) /\ \A i \in 1..((a + d) - (a + c)) : w[i] = t[(a + c) + i]
    <2>1. w \in Text /\ Len(w) = (a + d) - (a + c) /\ SameFrom(w, t, a + c, (a + d) - (a + c))
        BY <1>3, <1>4, SliceOf
    <2> QED BY <2>1 DEF SameFrom
<1>7. (a + d) - (a + c) = d - c
    OBVIOUS
<1>8. ASSUME NEW i \in 1..(d - c) PROVE v[i] = w[i]
    <2>1. c + i \in 1..(b - a) /\ a + (c + i) = (a + c) + i
        OBVIOUS
    <2>2. v[i] = u[c + i] /\ w[i] = t[(a + c) + i] /\ u[c + i] = t[a + (c + i)]
        BY <1>2, <1>5, <1>6, <1>7, <2>1
    <2> QED BY <2>1, <2>2
<1>9. Len(v) = d - c /\ Len(w) = d - c
    BY <1>5, <1>6, <1>7
<1>10. v = w
    BY <1>5, <1>6, <1>8, <1>9, SeqEqual DEF Text
<1> QED BY <1>1, <1>3, <1>10

LEMMA DemaskSlices ==
    ASSUME NEW t, NEW e, NEW n, t \in Text, e \in Nat, n \in Nat, e <= n, n <= Len(t), Safe(t, e)
    PROVE  Demask(Slice(t, 0, n)) = Demask(Slice(t, 0, e)) \o Demask(Slice(t, e, n))
<1>1. n \in 0..Len(t) /\ e \in 0..n
    <2>1. Len(t) \in Nat
        BY DEF Text
    <2> QED BY <2>1
<1>2. Demask(SubSeq(t, 1, n)) = Demask(SubSeq(t, 1, e)) \o Demask(SubSeq(t, e + 1, n))
    BY <1>1, DemaskJoins
<1>3. Slice(t, e, n) = SubSeq(t, e + 1, n)
    BY DEF Slice
<1> QED BY <1>2, <1>3, SliceFirst

\* Text that may still become a placeholder.
Brief(held) ==
    held # <<>> => held[1] = "[" /\ Len(held) <= MaxHold + 1 /\ "]" \notin ToSet(held)

\* What is held back of a text, and what is told of it.
Rest(u) == SubSeq(u, Split(u) + 1, Len(u))
SafePart(u) == Demask(SubSeq(u, 1, Split(u)))

\* Of what has come of a text a part is told and the rest is held back.
LEMMA SplitParts ==
    ASSUME NEW t, NEW e, NEW m, NEW u, t \in Text, e \in Nat, m \in Nat, e <= m,
           m <= Len(t), u = Slice(t, e, m)
    PROVE  /\ Split(u) \in Nat /\ e + Split(u) \in Nat /\ e <= e + Split(u) /\ e + Split(u) <= m
           /\ Rest(u) = Slice(t, e + Split(u), m)
           /\ SafePart(u) = Demask(Slice(t, e, e + Split(u)))
           /\ Brief(Rest(u))
<1>0. PICK cut : cut = Split(u)
    OBVIOUS
<1>1. u \in Text /\ Len(u) = m - e
    BY SliceOf
<1>2. Split(u) \in 0..Len(u)
    BY <1>1, SplitHolds
<1>3. cut \in Nat /\ e + cut \in Nat /\ e <= e + cut /\ e + cut <= m /\ 0 \in Nat /\ 0 <= cut
      /\ Len(u) \in Nat /\ cut <= Len(u) /\ e + Len(u) = m /\ e + 0 = e
    BY <1>0, <1>1, <1>2
<1>4. Rest(u) = Slice(u, cut, Len(u)) /\ SafePart(u) = Demask(Slice(u, 0, cut))
    BY <1>0, SliceFirst DEF Rest, SafePart, Slice
<1>5. Slice(u, cut, Len(u)) = Slice(t, e + cut, m)
    <2>1. PICK n : n = Len(u)
        OBVIOUS
    <2>2. n \in Nat /\ cut <= n /\ e + n <= m /\ e + n = m
        BY <1>3, <2>1
    <2>3. Slice(u, cut, n) = Slice(t, e + cut, e + n)
        BY <1>3, <2>2, SliceSlice
    <2> QED BY <2>1, <2>2, <2>3
<1>6. Slice(u, 0, cut) = Slice(t, e, e + cut)
    <2>1. Slice(u, 0, cut) = Slice(t, e + 0, e + cut)
        BY <1>3, SliceSlice
    <2> QED BY <1>3, <2>1
<1>7. Brief(Rest(u))
    <2>1. PICK rest, n : rest = Rest(u) /\ n = Len(u)
        OBVIOUS
    <2>2. n \in Nat /\ rest = Slice(u, cut, n)
        BY <1>3, <1>4, <2>1
    <2>3. rest \in Text /\ Len(rest) = n - cut /\ \A i \in 1..(n - cut) : rest[i] = u[cut + i]
        <3>1. rest \in Text /\ Len(rest) = n - cut /\ SameFrom(rest, u, cut, n - cut)
            BY <1>1, <1>3, <2>1, <2>2, SliceOf
        <3> QED BY <3>1 DEF SameFrom
    <2>4. SUFFICES ASSUME rest # <<>>
                   PROVE  rest[1] = "[" /\ Len(rest) <= MaxHold + 1 /\ "]" \notin ToSet(rest)
        BY <2>1 DEF Brief
    <2>5. cut < n /\ 1 \in 1..(n - cut)
        <3>1. Len(rest) # 0
            BY <2>3, <2>4, EmptySeq DEF Text
        <3> QED BY <1>3, <2>1, <2>2, <2>3, <3>1
    <2>6. /\ u[cut + 1] = "[" /\ n - cut <= MaxHold + 1
          /\ \A i \in (cut + 2)..n : u[i] \in Body
        <3>1. ~ (Split(u) = Len(u))
            BY <1>0, <1>3, <2>1, <2>5
        <3>2. /\ u[Split(u) + 1] = "[" /\ Len(u) - Split(u) <= MaxHold + 1
              /\ \A i \in (Split(u) + 2)..Len(u) : u[i] \in Body
            BY <1>1, <3>1, SplitHolds
        <3> QED BY <1>0, <2>1, <3>2
    <2>7. ASSUME NEW i \in 1..Len(rest) PROVE rest[i] # "]"
        <3>1. i \in 1..(n - cut) /\ (i = 1 \/ cut + i \in (cut + 2)..n)
            BY <1>3, <2>2, <2>3
        <3>2. rest[i] = u[cut + i]
            BY <2>3, <3>1
        <3> QED BY <2>6, <3>1, <3>2 DEF Body
    <2>8. "]" \notin ToSet(rest)
        BY <2>7 DEF ToSet
    <2>9. rest[1] = "["
        BY <2>3, <2>5, <2>6
    <2> QED BY <2>3, <2>6, <2>8, <2>9
<1> QED BY <1>0, <1>3, <1>4, <1>5, <1>6, <1>7

(***************************************************************************)
(* Sequences.                                                              *)
(***************************************************************************)

LEMMA FunctionIsSeq ==
    ASSUME NEW X, NEW n \in Nat, NEW f \in [1..n -> X]
    PROVE  f \in Seq(X) /\ Len(f) = n
OBVIOUS

Parts(X) == Seq(Seq(X))

\* FlattenSeq joins the parts one by one.
LEMMA Flattened ==
    ASSUME NEW X, NEW ss \in Parts(X)
    PROVE  \E g \in [0..Len(ss) -> Seq(X)] :
              /\ g[0] = <<>>
              /\ \A i \in 1..Len(ss) : g[i] = g[i - 1] \o ss[i]
              /\ FlattenSeq(ss) = g[Len(ss)]
<1> DEFINE n == Len(ss)
           nil == <<>>
           Step(f, i) == IF i = 1 THEN ss[i] ELSE f[i - 1] \o ss[i]
           G(f) == [i \in 1..n |-> Step(f, i)]
<1>1. n \in Nat /\ \A i \in 1..n : ss[i] \in Seq(X)
    BY LenProperties, ElementOfSeq DEF Parts
<1>2. nil \in Seq(X) /\ \A v \in Seq(X) : nil \o v = v
    BY EmptySeq, ConcatEmptySeq
<1>4. PICK d : (n # 0 => FlattenSeq(ss) = d[n]) /\ ((\E f : f = G(f)) => d = G(d))
    <2>1. n # 0 => FlattenSeq(ss) = (CHOOSE f : f = G(f))[n]
        BY DEF FlattenSeq
    <2> HIDE DEF G, n
    <2> QED BY <2>1
<1>5. n = 0 => FlattenSeq(ss) = nil
    <2>1. n = 0 => ss = <<>>
        BY EmptySeq DEF Parts
    <2> QED BY <2>1 DEF FlattenSeq
<1> HIDE DEF n, nil
<1>7. \A i \in 1..n, v \in Seq(X) : v \o ss[i] \in Seq(X)
    BY <1>1, ConcatProperties
<1>6. PICK g : /\ g \in [0..n -> Seq(X)]
               /\ g[0] = nil /\ \A i \in 1..n : g[i] = g[i - 1] \o ss[i]
    <2> DEFINE Y == Seq(X)
               F == [i \in 1..n |-> [v \in Y |-> v \o ss[i]]]
    <2>1. n \in Nat /\ nil \in Y /\ F \in [1..n -> [Y -> Y]]
        BY <1>1, <1>2, <1>7
    <2>2. \A i \in 1..n, v \in Y : F[i][v] = v \o ss[i]
        OBVIOUS
    <2> HIDE DEF F, Y
    <2>3. PICK g \in [0..n -> Y] : g[0] = nil /\ \A i \in 1..n : g[i] = F[i][g[i - 1]]
        BY <2>1, Iterates
    <2>4. \A i \in 1..n : g[i - 1] \in Y
        BY <2>1, <2>3
    <2>5. \A i \in 1..n : g[i] = g[i - 1] \o ss[i]
        BY <2>2, <2>3, <2>4
    <2> QED BY <2>3, <2>5 DEF Y
<1>9. ASSUME NEW i \in 1..n PROVE g[i] = Step(g, i)
    <2>1. CASE i = 1
        <3>1. nil \o ss[i] = ss[i]
            BY <1>1, <1>2
        <3>2. g[i] = g[0] \o ss[i]
            <4>1. 1 - 1 = 0
                OBVIOUS
            <4> QED BY <1>6, <2>1, <4>1, Zenon
        <3> QED BY <1>6, <2>1, <3>1, <3>2
    <2>2. CASE i # 1
        BY <1>6, <2>2
    <2> QED BY <2>1, <2>2
<1>10. \E f : f = G(f)
    <2> DEFINE f == [i \in 1..n |-> g[i]]
    <2>1. ASSUME NEW i \in 1..n PROVE f[i] = Step(f, i)
        <3>1. f[i] = Step(g, i)
            BY <1>9
        <3>2. i # 1 => i - 1 \in 1..n
            BY <1>1
        <3> QED BY <3>1, <3>2
    <2>2. f = G(f)
        <3> HIDE DEF Step
        <3>1. f = [i \in 1..n |-> f[i]]
            OBVIOUS
        <3> HIDE DEF f
        <3> QED BY <2>1, <3>1
    <2> QED BY <2>2
<1>11. d = G(d)
    BY <1>4, <1>10
<1>12. \A i \in 1..n : d[i] = Step(d, i)
    <2> HIDE DEF Step
    <2> QED BY <1>11
<1>13. \A i \in 0..n : i # 0 => d[i] = g[i]
    <2> DEFINE e == [i \in 0..n |-> IF i = 0 THEN nil ELSE d[i]]
    <2>1. DOMAIN e = 0..n /\ DOMAIN g = 0..n /\ e[0] = g[0]
        BY <1>1, <1>6
    <2>2. ASSUME NEW i \in 1..n, e[i - 1] = g[i - 1] PROVE e[i] = g[i]
        <3>1. e[i] = Step(d, i) /\ g[i] = Step(g, i)
            BY <1>1, <1>9, <1>12
        <3>2. CASE i = 1
            BY <3>1, <3>2
        <3>3. CASE i # 1
            <4>1. i - 1 \in 0..n /\ i - 1 # 0
                BY <1>1, <3>3
            <4>2. d[i - 1] = g[i - 1]
                BY <2>2, <4>1
            <4> HIDE DEF e
            <4> QED BY <3>1, <3>3, <4>2
        <3> QED BY <3>2, <3>3
    <2>3. \A i \in 0..n : e[i] = g[i]
        <3> HIDE DEF e
        <3>1. \A i \in 1..n : e[i - 1] = g[i - 1] => e[i] = g[i]
            BY <2>2
        <3> QED BY <1>1, <2>1, <3>1, SameIterates
    <2> QED BY <2>3
<1>14. FlattenSeq(ss) = g[n]
    <2>1. CASE n = 0
        BY <1>5, <1>6, <2>1
    <2>2. CASE n # 0
        <3>1. n \in 0..n
            BY <1>1
        <3> QED BY <1>4, <1>13, <2>2, <3>1
    <2> QED BY <2>1, <2>2
<1> QED BY <1>6, <1>14 DEF n, nil

LEMMA FlattenedFew ==
    ASSUME NEW X, NEW v \in Seq(X)
    PROVE  FlattenSeq(<<>>) = <<>> /\ FlattenSeq(<<v>>) = v
<1>1. FlattenSeq(<<>>) = <<>>
    BY EmptySeq DEF FlattenSeq
<1>2. <<v>> \in Seq(Seq(X)) /\ Len(<<v>>) = 1 /\ <<v>>[1] = v
    OBVIOUS
<1>3. PICK g \in [0..1 -> Seq(X)] :
          /\ g[0] = <<>> /\ \A i \in 1..1 : g[i] = g[i - 1] \o <<v>>[i]
          /\ FlattenSeq(<<v>>) = g[1]
    BY <1>2, Flattened DEF Parts
<1>4. g[1] = <<>> \o v
    BY <1>2, <1>3
<1> QED BY <1>1, <1>3, <1>4, ConcatEmptySeq

(***************************************************************************)
(* Reading lines.                                                          *)
(***************************************************************************)

Lines ==
    {Line(type) : type \in {"blank", "comment", "done", "bad", "error", "none"}}
    \cup {Delta(texts) : texts \in [Keys -> Readable]}
    \cup {Event(name) : name \in {"delta", "stop", "error"}}
    \cup {Stop(k) : k \in Keys}

Output == Seq(Lines)

Reads(c, ls, g) ==
    /\ DOMAIN g = 0..Len(ls)
    /\ g[0] = c
    /\ \A i \in 1..Len(ls) : g[i] = Read(g[i - 1], ls[i])

LEMMA ReadSteps ==
    ASSUME NEW c, NEW ls \in Output
    PROVE  \E g : Reads(c, ls, g) /\ ReadFrom(c, ls) = g[Len(ls)]
<1> DEFINE n == Len(ls)
           Step(g, i) == IF i = 0 THEN c ELSE Read(g[i - 1], ls[i])
           G(g) == [i \in 0..n |-> Step(g, i)]
           Upto(m, g) == DOMAIN g = 0..m /\ \A i \in 0..m : g[i] = Step(g, i)
           T == {m \in 0..n : ~ \E g : Upto(m, g)}
<1>1. n \in Nat
    BY LenProperties DEF Output
<1>2. PICK d : ReadFrom(c, ls) = d[n] /\ ((\E g : g = G(g)) => d = G(d))
    <2>1. ReadFrom(c, ls) = (CHOOSE g : g = G(g))[n]
        BY DEF ReadFrom
    <2> HIDE DEF G
    <2> QED BY <2>1
<1> HIDE DEF n
<1>3. ASSUME T # {} PROVE FALSE
    <2>1. PICK m \in T : \A y \in T : m <= y
        <3>1. T \in SUBSET Nat
            OBVIOUS
        <3> HIDE DEF T
        <3> QED BY <1>3, <3>1, LeastNat
    <2>2. m # 0
        <3>1. Upto(0, [i \in 0..0 |-> c])
            OBVIOUS
        <3> QED BY <3>1
    <2>3. PICK g : Upto(m - 1, g)
        <3>1. m - 1 \in 0..n /\ ~ (m <= m - 1)
            BY <1>1, <2>1, <2>2
        <3>2. m - 1 \notin T
            BY <2>1, <3>1
        <3> QED BY <3>1, <3>2
    <2> DEFINE h == [i \in 0..m |-> IF i = m THEN Read(g[m - 1], ls[m]) ELSE g[i]]
    <2>4. ASSUME NEW i \in 0..m PROVE h[i] = Step(h, i)
        <3>1. m \in 1..n
            BY <1>1, <2>1, <2>2
        <3>2. CASE i = 0
            <4>1. 0 \in 0..(m - 1) /\ i # m
                BY <3>1, <3>2
            <4>2. g[0] = c
                BY <2>3, <4>1
            <4> QED BY <3>2, <4>1, <4>2
        <3>3. CASE i # 0
            <4>1. i - 1 \in 0..m /\ i - 1 # m
                BY <3>1, <3>3
            <4>2. h[i - 1] = g[i - 1]
                BY <4>1
            <4>3. CASE i = m
                BY <3>3, <4>2, <4>3
            <4>4. CASE i # m
                <5>1. i \in 0..(m - 1)
                    BY <3>1, <4>4
                <5>2. g[i] = Step(g, i)
                    BY <2>3, <5>1
                <5> QED BY <3>3, <4>2, <4>4, <5>2
            <4> QED BY <4>3, <4>4
        <3> QED BY <3>2, <3>3
    <2>5. Upto(m, h)
        <3> HIDE DEF Step
        <3>1. DOMAIN h = 0..m
            OBVIOUS
        <3> HIDE DEF h
        <3> QED BY <2>4, <3>1
    <2> HIDE DEF h, Upto
    <2> QED BY <2>1, <2>5
<1>4. PICK g : Upto(n, g)
    BY <1>1, <1>3
<1>5. \E f : f = G(f)
    <2> DEFINE f == [i \in 0..n |-> g[i]]
    <2>1. ASSUME NEW i \in 0..n PROVE f[i] = Step(f, i)
        <3>1. i # 0 => i - 1 \in 0..n
            BY <1>1
        <3>2. f[i] = Step(g, i)
            BY <1>4
        <3> QED BY <3>1, <3>2
    <2>2. f = G(f)
        <3> HIDE DEF Step
        <3>1. f = [i \in 0..n |-> f[i]]
            OBVIOUS
        <3> HIDE DEF f
        <3> QED BY <2>1, <3>1
    <2> QED BY <2>2
<1>6. DOMAIN d = 0..n /\ \A i \in 0..n : d[i] = Step(d, i)
    <2> HIDE DEF Step
    <2> QED BY <1>2, <1>5
<1>7. d[0] = c /\ \A i \in 1..n : d[i] = Read(d[i - 1], ls[i])
    <2>1. 0 \in 0..n /\ \A i \in 1..n : i \in 0..n /\ i # 0
        BY <1>1
    <2> QED BY <1>6, <2>1
<1> QED BY <1>2, <1>6, <1>7 DEF Reads, n

LEMMA ReadOf ==
    ASSUME NEW c, NEW ls \in Output, NEW g, Reads(c, ls, g)
    PROVE  ReadFrom(c, ls) = g[Len(ls)]
<1>1. PICK h : Reads(c, ls, h) /\ ReadFrom(c, ls) = h[Len(ls)]
    BY ReadSteps
<1>2. Len(ls) \in Nat
    BY LenProperties DEF Output
<1>3. DOMAIN g = 0..Len(ls) /\ DOMAIN h = 0..Len(ls) /\ g[0] = h[0]
      /\ \A i \in 1..Len(ls) : g[i - 1] = h[i - 1] => g[i] = h[i]
    BY <1>1 DEF Reads
<1>4. \A i \in 0..Len(ls) : g[i] = h[i]
    BY <1>2, <1>3, SameIterates
<1> QED BY <1>1, <1>2, <1>4

LEMMA ReadNothing == ASSUME NEW c PROVE ReadFrom(c, <<>>) = c
<1>1. <<>> \in Output /\ Len(<<>>) = 0
    BY EmptySeq DEF Output
<1>2. PICK g : Reads(c, <<>>, g) /\ ReadFrom(c, <<>>) = g[0]
    BY <1>1, ReadSteps
<1> QED BY <1>2 DEF Reads

\* A client reads one line after the other.
LEMMA ReadNext ==
    ASSUME NEW c, NEW ls \in Output, NEW line \in Lines
    PROVE  /\ Append(ls, line) \in Output
           /\ ReadFrom(c, Append(ls, line)) = Read(ReadFrom(c, ls), line)
<1> DEFINE n == Len(ls)
           all == Append(ls, line)
<1>1. /\ all \in Output /\ n \in Nat /\ Len(all) = n + 1
      /\ \A i \in 1..n : all[i] = ls[i]
      /\ all[n + 1] = line
    BY AppendProperties, LenProperties DEF Output
<1>2. PICK g : Reads(c, ls, g) /\ ReadFrom(c, ls) = g[n]
    BY ReadSteps
<1> HIDE DEF all, n
<1> DEFINE h == [i \in 0..(n + 1) |-> IF i = n + 1 THEN Read(g[n], line) ELSE g[i]]
<1>3. DOMAIN h = 0..Len(all) /\ h[0] = c
    BY <1>1, <1>2 DEF Reads, n
<1>4. ASSUME NEW i \in 1..Len(all) PROVE h[i] = Read(h[i - 1], all[i])
    <2>1. i \in 0..(n + 1) /\ i - 1 \in 0..(n + 1) /\ i - 1 # n + 1
        BY <1>1
    <2>2. h[i - 1] = g[i - 1]
        BY <2>1
    <2>3. CASE i = n + 1
        <3>1. i - 1 = n
            BY <1>1, <2>3
        <3> QED BY <1>1, <2>1, <2>2, <2>3, <3>1
    <2>4. CASE i # n + 1
        <3>1. i \in 1..n
            BY <1>1, <2>4
        <3>2. g[i] = Read(g[i - 1], ls[i]) /\ all[i] = ls[i]
            BY <1>1, <1>2, <3>1 DEF Reads, n
        <3> QED BY <2>1, <2>2, <2>4, <3>2
    <2> QED BY <2>3, <2>4
<1>5. h[Len(all)] = Read(g[n], line)
    BY <1>1
<1> HIDE DEF h
<1>6. Reads(c, all, h)
    BY <1>3, <1>4 DEF Reads
<1>7. ReadFrom(c, all) = h[Len(all)]
    BY <1>1, <1>6, ReadOf
<1> QED BY <1>1, <1>2, <1>5, <1>7 DEF all

\* A client's record, and the truth values in it.
Yes == TRUE
No == FALSE

Reader(data, name, shown, over, late, broken, told) ==
    [data |-> data, name |-> name, shown |-> shown, over |-> over,
     late |-> late, broken |-> broken, told |-> told]

LEMMA ReadLine ==
    ASSUME NEW ds, NEW nm, NEW sh, NEW ov, NEW lt, NEW br, NEW tl
    PROVE  /\ \A x : Read(Reader(ds, nm, sh, ov, lt, br, tl), Event(x))
                       = Reader(ds, x, sh, ov, lt, br, tl)
           /\ Read(Reader(ds, nm, sh, ov, lt, br, tl), Line("comment"))
                  = Reader(ds, nm, sh, ov, lt, br, tl)
           /\ \A line : line.type \notin {"blank", "event", "comment"} =>
                  Read(Reader(ds, nm, sh, ov, lt, br, tl), line)
                      = Reader(Append(ds, line), nm, sh, ov, lt, br, tl)
           /\ Read(Reader(ds, nm, sh, ov, lt, br, tl), Line("blank"))
                  = Dispatch(Reader(ds, nm, sh, ov, lt, br, tl))
<1>1. \A x : Read(Reader(ds, nm, sh, ov, lt, br, tl), Event(x))
                       = Reader(ds, x, sh, ov, lt, br, tl)
    BY DEF Read, Reader, Event
<1>2. Read(Reader(ds, nm, sh, ov, lt, br, tl), Line("comment"))
                  = Reader(ds, nm, sh, ov, lt, br, tl)
    BY DEF Read, Line
<1>3. ASSUME NEW line, line.type \notin {"blank", "event", "comment"}
      PROVE  Read(Reader(ds, nm, sh, ov, lt, br, tl), line)
                      = Reader(Append(ds, line), nm, sh, ov, lt, br, tl)
    BY <1>3 DEF Read, Reader
<1>4. Read(Reader(ds, nm, sh, ov, lt, br, tl), Line("blank"))
                  = Dispatch(Reader(ds, nm, sh, ov, lt, br, tl))
    BY DEF Read, Line
<1> QED BY <1>1, <1>2, <1>3, <1>4

\* The data lines of a frame that has one.
Only(line) == <<line>>

\* What such a frame does to a client.
ShownBy(line, sh) == IF line.type = "delta" THEN [k \in Keys |-> sh[k] \o line.texts[k]] ELSE sh
OverBy(line, ov) ==
    IF line.type = "stop" THEN ov \cup {line.key} ELSE IF line.type = "done" THEN Keys ELSE ov
LateBy(line, ov, lt) ==
    IF line.type = "delta" THEN lt \/ \E k \in ov : line.texts[k] # <<>> ELSE lt
ToldBy(line, tl) == IF line.type \in {"delta", "stop", "done"} THEN tl ELSE Yes

LEMMA BlankAfterOne ==
    ASSUME NEW line, NEW nm, NEW sh, NEW ov, NEW lt, NEW br, NEW tl,
           line.type # "bad", anthropic => nm = line.type
    PROVE  Dispatch(Reader(Only(line), nm, sh, ov, lt, br, tl))
               = Reader(<<>>, "none", ShownBy(line, sh), OverBy(line, ov), LateBy(line, ov, lt), br,
                        ToldBy(line, tl))
<1> DEFINE ds == Only(line)
           c == Reader(ds, nm, sh, ov, lt, br, tl)
<1>0. PICK seen : seen = Reader(<<>>, "none", sh, ov, lt, br, tl)
    OBVIOUS
<1>1. ds # <<>> /\ ~ (Len(ds) > 1) /\ ds[1] = line
    BY DEF Only
<1> HIDE DEF ds
<1>2. /\ c.data = ds /\ c.name = nm /\ c.over = ov
      /\ [c EXCEPT !.data = <<>>, !.name = "none"] = seen
    <2>1. c.data = ds /\ c.name = nm /\ c.over = ov
        BY DEF Reader
    <2>2. PICK r : r = c
        OBVIOUS
    <2>3. PICK q : q = [r EXCEPT !.data = <<>>]
        OBVIOUS
    <2>4. q = Reader(<<>>, nm, sh, ov, lt, br, tl)
        BY <2>2, <2>3 DEF Reader
    <2>5. [q EXCEPT !.name = "none"] = Reader(<<>>, "none", sh, ov, lt, br, tl)
        BY <2>4 DEF Reader
    <2>6. [c EXCEPT !.data = <<>>, !.name = "none"] = seen
        BY <1>0, <2>2, <2>3, <2>5
    <2> HIDE DEF c
    <2> QED BY <2>1, <2>6
<1> HIDE DEF c
<1>3. Dispatch(c) =
          IF line.type = "delta"
             THEN [seen EXCEPT !.shown = [k \in Keys |-> @[k] \o line.texts[k]],
                               !.late = @ \/ \E k \in ov : line.texts[k] # <<>>]
          ELSE IF line.type = "stop" THEN [seen EXCEPT !.over = @ \cup {line.key}]
          ELSE IF line.type = "done" THEN [seen EXCEPT !.over = Keys]
          ELSE [seen EXCEPT !.told = TRUE]
    BY <1>1, <1>2 DEF Dispatch
<1>4. CASE line.type = "delta"
    <2>1. PICK more : more = [k \in Keys |-> sh[k] \o line.texts[k]]
        OBVIOUS
    <2>2. PICK late : late = (lt \/ \E k \in ov : line.texts[k] # <<>>)
        OBVIOUS
    <2>3. seen.late = lt /\ seen.shown = sh
        BY <1>0 DEF Reader
    <2>4. Dispatch(c) = [seen EXCEPT !.shown = more, !.late = late]
        BY <1>3, <1>4, <2>1, <2>2, <2>3
    <2>5. PICK q : q = [seen EXCEPT !.shown = more]
        OBVIOUS
    <2>6. q = Reader(<<>>, "none", more, ov, lt, br, tl)
        BY <1>0, <2>5 DEF Reader
    <2>7. [q EXCEPT !.late = late] = Reader(<<>>, "none", more, ov, late, br, tl)
        BY <2>6 DEF Reader
    <2>8. /\ ShownBy(line, sh) = more /\ OverBy(line, ov) = ov
          /\ LateBy(line, ov, lt) = late /\ ToldBy(line, tl) = tl
        BY <1>4, <2>1, <2>2 DEF ShownBy, OverBy, LateBy, ToldBy
    <2> QED BY <2>4, <2>5, <2>7, <2>8 DEF c, ds
<1>5. CASE line.type = "stop"
    <2>1. Dispatch(c) = Reader(<<>>, "none", sh, ov \cup {line.key}, lt, br, tl)
        BY <1>0, <1>3, <1>5 DEF Reader
    <2>2. /\ ShownBy(line, sh) = sh /\ OverBy(line, ov) = ov \cup {line.key}
          /\ LateBy(line, ov, lt) = lt /\ ToldBy(line, tl) = tl
        BY <1>5 DEF ShownBy, OverBy, LateBy, ToldBy
    <2> QED BY <2>1, <2>2 DEF c, ds
<1>6. CASE line.type = "done"
    <2>1. Dispatch(c) = Reader(<<>>, "none", sh, Keys, lt, br, tl)
        BY <1>0, <1>3, <1>6 DEF Reader
    <2>2. /\ ShownBy(line, sh) = sh /\ OverBy(line, ov) = Keys
          /\ LateBy(line, ov, lt) = lt /\ ToldBy(line, tl) = tl
        BY <1>6 DEF ShownBy, OverBy, LateBy, ToldBy
    <2> QED BY <2>1, <2>2 DEF c, ds
<1>7. CASE line.type \notin {"delta", "stop", "done"}
    <2>1. Dispatch(c) = Reader(<<>>, "none", sh, ov, lt, br, Yes)
        BY <1>0, <1>3, <1>7 DEF Reader, Yes
    <2>2. /\ ShownBy(line, sh) = sh /\ OverBy(line, ov) = ov
          /\ LateBy(line, ov, lt) = lt /\ ToldBy(line, tl) = Yes
        BY <1>7 DEF ShownBy, OverBy, LateBy, ToldBy
    <2> QED BY <2>1, <2>2 DEF c, ds
<1> QED BY <1>4, <1>5, <1>6, <1>7

\* Two data lines make a frame that cannot be read.
LEMMA BlankAfterTwo ==
    ASSUME NEW ds \in Output, ds # <<>>, NEW line \in Lines,
           NEW nm, NEW sh, NEW ov, NEW lt, NEW br, NEW tl
    PROVE  Dispatch(Reader(Append(ds, line), nm, sh, ov, lt, br, tl))
               = Reader(<<>>, "none", sh, ov, lt, Yes, tl)
<1>1. Len(Append(ds, line)) > 1 /\ Append(ds, line) # <<>>
    <2>1. Len(ds) \in Nat \ {0} /\ Len(Append(ds, line)) = Len(ds) + 1 /\ Append(ds, line) # <<>>
        BY EmptySeq, AppendProperties DEF Output
    <2> QED BY <2>1
<1> DEFINE two == Append(ds, line)
<1> HIDE DEF two
<1>2. Len(two) > 1 /\ two # <<>>
    BY <1>1 DEF two
<1>3. Dispatch(Reader(two, nm, sh, ov, lt, br, tl))
          = Reader(<<>>, "none", sh, ov, lt, Yes, tl)
    BY <1>2 DEF Dispatch, Reader, Yes
<1> QED BY <1>3 DEF two

(***************************************************************************)
(* Frames made up for text that was held back.                             *)
(***************************************************************************)

LEMMA EveryMember ==
    ASSUME NEW S, IsFiniteSet(S), NEW h, h = SetToSeq(S)
    PROVE  /\ Cardinality(S) \in Nat /\ Len(h) = Cardinality(S)
           /\ h \in [1..Cardinality(S) -> S]
           /\ \A i, j \in 1..Cardinality(S) : h[i] = h[j] => i = j
           /\ \A x \in S : \E i \in 1..Cardinality(S) : h[i] = x
<1> DEFINE n == Cardinality(S)
<1>1. n \in Nat /\ ExistsBijection(1..n, S)
    BY FS_CardinalityType
<1>2. \E f \in [1..n -> S] : IsInjective(f)
    BY <1>1 DEF ExistsBijection, Bijection, Injection
<1>3. h \in [1..n -> S] /\ IsInjective(h)
    BY <1>2 DEF SetToSeq
<1>4. h \in Injection(1..n, S)
    BY <1>3 DEF Injection
<1>5. Cardinality(1..n) = n
    BY <1>1, FS_Interval
<1>6. h \in Surjection(1..n, S)
    BY <1>4, <1>5, FS_Injection
<1>7. Len(h) = n
    BY <1>1, <1>3, FunctionIsSeq
<1>8. \A i, j \in 1..n : h[i] = h[j] => i = j
    BY <1>3 DEF IsInjective
<1>9. \A x \in S : \E i \in 1..n : h[i] = x
    BY <1>6 DEF Surjection
<1> QED BY <1>1, <1>3, <1>7, <1>8, <1>9

LEMMA OneAndTwo ==
    ASSUME NEW x \in Lines, NEW y \in Lines, NEW z \in Lines
    PROVE  <<x>> \o <<y, z>> = <<x, y, z>>
<1>1. /\ <<x>> \in Seq(Lines) /\ <<y, z>> \in Seq(Lines) /\ <<x, y, z>> \in Seq(Lines)
      /\ Len(<<x>>) = 1 /\ Len(<<y, z>>) = 2 /\ Len(<<x, y, z>>) = 3
    OBVIOUS
<1>2. /\ <<x>> \o <<y, z>> \in Seq(Lines) /\ Len(<<x>> \o <<y, z>>) = 3
      /\ \A i \in 1..3 : (<<x>> \o <<y, z>>)[i] = IF i <= 1 THEN <<x>>[i] ELSE <<y, z>>[i - 1]
    BY <1>1, ConcatProperties
<1>3. \A i \in 1..3 : (<<x>> \o <<y, z>>)[i] = <<x, y, z>>[i]
    BY <1>2
<1> QED BY <1>1, <1>2, <1>3, SeqEqual

LEMMA LinesAre ==
    /\ \A x \in {"blank", "comment", "done", "bad", "error", "none"} :
          Line(x) \in Lines /\ Line(x).type = x
    /\ \A x \in [Keys -> Readable] :
          Delta(x) \in Lines /\ Delta(x).type = "delta" /\ Delta(x).texts = x
    /\ \A x \in {"delta", "stop", "error"} :
          Event(x) \in Lines /\ Event(x).type = "event" /\ Event(x).name = x
    /\ \A x \in Keys : Stop(x) \in Lines /\ Stop(x).type = "stop" /\ Stop(x).key = x
BY DEF Lines, Line, Delta, Event, Stop

LEMMA SynthesizedLines ==
    ASSUME NEW k \in Keys, NEW text \in Readable
    PROVE  /\ [Silent EXCEPT ![k] = text] \in [Keys -> Readable]
           /\ anthropic => Synthesized(k, text)
                  = <<Event("delta"), Delta([Silent EXCEPT ![k] = text]), Line("blank")>>
           /\ ~anthropic => Synthesized(k, text) = <<Delta([Silent EXCEPT ![k] = text]), Line("blank")>>
           /\ Synthesized(k, text) \in Output
<1> DEFINE delta == Delta([Silent EXCEPT ![k] = text])
           blank == Line("blank")
<1>1. [Silent EXCEPT ![k] = text] \in [Keys -> Readable]
    BY EmptySeq DEF Silent, Readable
<1>2. delta \in Lines /\ blank \in Lines /\ Event("delta") \in Lines
    BY <1>1, LinesAre
<1>3. ASSUME anthropic PROVE Synthesized(k, text) = <<Event("delta"), delta, blank>>
    <2>1. Synthesized(k, text) = <<Event("delta")>> \o <<delta, blank>>
        BY <1>3 DEF Synthesized
    <2> HIDE DEF delta, blank
    <2>2. <<Event("delta")>> \o <<delta, blank>> = <<Event("delta"), delta, blank>>
        BY <1>2, OneAndTwo
    <2> QED BY <2>1, <2>2
<1>4. ASSUME ~anthropic PROVE Synthesized(k, text) = <<delta, blank>>
    BY <1>4 DEF Synthesized
<1>5. <<Event("delta"), delta, blank>> \in Output /\ <<delta, blank>> \in Output
    <2> HIDE DEF delta, blank
    <2> QED BY <1>2 DEF Output
<1>6. Synthesized(k, text) \in Output
    BY <1>3, <1>4, <1>5
<1> QED BY <1>1, <1>3, <1>4, <1>6

LEMMA OutputAssociates ==
    ASSUME NEW u \in Output, NEW v \in Output, NEW w \in Output
    PROVE  u \o v \in Output /\ (u \o v) \o w = u \o (v \o w)
BY ConcatProperties, ConcatAssociative DEF Output

\* One frame more, and one text extended.
Then(ls, k, text) == ls \o Synthesized(k, text)

Extended(more, sh, k, text) ==
    /\ more \in [Keys -> Readable]
    /\ more[k] = sh[k] \o text
    /\ \A y \in Keys : y # k => more[y] = sh[y]

\* One frame shows one text, unless it runs into a frame that is still open.
LEMMA ReadThen ==
    ASSUME NEW c, NEW ls, NEW k, NEW text, NEW ds, NEW nm, NEW sh, NEW ov, NEW br, NEW tl, NEW more,
           ls \in Output, k \in Keys, text \in Readable, ds \in Output, k \notin ov,
           sh \in [Keys -> Readable], ov \in SUBSET Keys, Extended(more, sh, k, text),
           ReadFrom(c, ls) = Reader(ds, nm, sh, ov, No, br, tl)
    PROVE  /\ Then(ls, k, text) \in Output
           /\ ds = <<>> => ReadFrom(c, Then(ls, k, text)) = Reader(<<>>, "none", more, ov, No, br, tl)
           /\ ds # <<>> => ReadFrom(c, Then(ls, k, text)) = Reader(<<>>, "none", sh, ov, No, Yes, tl)
<1>0. more \in [Keys -> Readable] /\ more[k] = sh[k] \o text /\ \A y \in Keys : y # k => more[y] = sh[y]
    BY DEF Extended
<1> HIDE DEF Extended
<1> DEFINE texts == [Silent EXCEPT ![k] = text]
           delta == Delta(texts)
           blank == Line("blank")
<1>1. /\ texts \in [Keys -> Readable] /\ texts[k] = text
      /\ \A x \in Keys : x # k => texts[x] = <<>>
    BY SynthesizedLines DEF Silent
<1> HIDE DEF texts
<1>2. delta \in Lines /\ delta.type = "delta" /\ delta.texts = texts
    BY <1>1, LinesAre
<1>3. blank \in Lines /\ Event("delta") \in Lines
    BY LinesAre
<1> HIDE DEF delta, blank
<1>4. PICK start, x :
          /\ start \in Output
          /\ ls \o Synthesized(k, text) = Append(Append(start, delta), blank)
          /\ ReadFrom(c, start) = Reader(ds, x, sh, ov, No, br, tl)
          /\ anthropic => x = "delta"
    <2>1. CASE anthropic
        <3>1. Synthesized(k, text) = <<Event("delta"), delta, blank>>
            BY <2>1, SynthesizedLines DEF delta, blank, texts
        <3>2. ls \o <<Event("delta"), delta, blank>>
                  = Append(Append(Append(ls, Event("delta")), delta), blank)
            BY <1>2, <1>3 DEF Output
        <3>3. /\ Append(ls, Event("delta")) \in Output
              /\ ReadFrom(c, Append(ls, Event("delta"))) = Read(ReadFrom(c, ls), Event("delta"))
            BY <1>3, ReadNext
        <3>4. ReadFrom(c, Append(ls, Event("delta"))) = Reader(ds, "delta", sh, ov, No, br, tl)
            BY <3>3, ReadLine
        <3> QED BY <3>1, <3>2, <3>3, <3>4
    <2>2. CASE ~anthropic
        <3>1. Synthesized(k, text) = <<delta, blank>>
            BY <2>2, SynthesizedLines DEF delta, blank, texts
        <3>2. ls \o <<delta, blank>> = Append(Append(ls, delta), blank)
            BY <1>2, <1>3 DEF Output
        <3> QED BY <2>2, <3>1, <3>2
    <2> QED BY <2>1, <2>2
<1>5. ReadFrom(c, start) = Reader(ds, x, sh, ov, No, br, tl) /\ (anthropic => x = "delta")
    BY <1>4
<1>6. /\ Append(start, delta) \in Output
      /\ ReadFrom(c, Append(start, delta)) = Reader(Append(ds, delta), x, sh, ov, No, br, tl)
    <2>1. ReadFrom(c, Append(start, delta)) = Read(Reader(ds, x, sh, ov, No, br, tl), delta)
        BY <1>2, <1>4, <1>5, ReadNext
    <2>2. delta.type \notin {"blank", "event", "comment"}
        BY <1>2
    <2>3. Read(Reader(ds, x, sh, ov, No, br, tl), delta) = Reader(Append(ds, delta), x, sh, ov, No, br, tl)
        BY <2>2, ReadLine
    <2> QED BY <1>2, <1>4, <2>1, <2>3, ReadNext
<1>7. /\ Append(Append(start, delta), blank) \in Output
      /\ ReadFrom(c, Append(Append(start, delta), blank))
            = Dispatch(Reader(Append(ds, delta), x, sh, ov, No, br, tl))
    <2>1. ReadFrom(c, Append(Append(start, delta), blank))
              = Read(Reader(Append(ds, delta), x, sh, ov, No, br, tl), blank)
        BY <1>3, <1>6, ReadNext
    <2>2. Read(Reader(Append(ds, delta), x, sh, ov, No, br, tl), blank)
              = Dispatch(Reader(Append(ds, delta), x, sh, ov, No, br, tl))
        BY ReadLine DEF blank
    <2> QED BY <1>3, <1>6, <2>1, <2>2, ReadNext
<1>8. ASSUME ds = <<>>
      PROVE  Dispatch(Reader(Append(ds, delta), x, sh, ov, No, br, tl))
                 = Reader(<<>>, "none", more, ov, No, br, tl)
    <2>1. Append(ds, delta) = Only(delta)
        BY <1>8 DEF Only
    <2>2. \A y \in ov : delta.texts[y] = <<>>
        BY <1>1, <1>2
    <2>3. delta.type = "delta" /\ delta.type # "bad" /\ (anthropic => x = delta.type)
        BY <1>2, <1>5
    <2>4. ASSUME NEW y \in Keys PROVE more[y] = sh[y] \o delta.texts[y]
        <3>1. CASE y = k
            BY <1>0, <1>1, <1>2, <3>1
        <3>2. CASE y # k
            <4>1. delta.texts[y] = <<>> /\ more[y] = sh[y]
                BY <1>0, <1>1, <1>2, <3>2
            <4>2. sh[y] \o <<>> = sh[y]
                BY ConcatEmptySeq DEF Readable
            <4> QED BY <4>1, <4>2
        <3> QED BY <3>1, <3>2
    <2>5. Dispatch(Reader(Only(delta), x, sh, ov, No, br, tl)) = Reader(<<>>, "none", more, ov, No, br, tl)
        <3>1. ShownBy(delta, sh) = more
            <4>1. more = [y \in Keys |-> sh[y] \o delta.texts[y]]
                BY <1>0, <2>4
            <4> QED BY <2>3, <4>1 DEF ShownBy
        <3>2. LateBy(delta, ov, No) = No
            BY <2>2, <2>3 DEF LateBy, No
        <3>3. OverBy(delta, ov) = ov /\ ToldBy(delta, tl) = tl
            BY <2>3 DEF OverBy, ToldBy
        <3> QED BY <2>3, <3>1, <3>2, <3>3, BlankAfterOne
    <2> QED BY <2>1, <2>5
<1>9. ASSUME ds # <<>>
      PROVE  Dispatch(Reader(Append(ds, delta), x, sh, ov, No, br, tl))
                 = Reader(<<>>, "none", sh, ov, No, Yes, tl)
    BY <1>2, <1>9, BlankAfterTwo
<1> QED BY <1>4, <1>7, <1>8, <1>9 DEF Then

\* What a client shows after the frames for the first i keys of h.
ShownAfter(h, tx, sh, i) ==
    [k \in Keys |-> IF \E m \in 1..i : h[m] = k THEN sh[k] \o tx[k] ELSE sh[k]]

\* Frames for n different keys, those of ks for which something is held, behind
\* the lines O; and what a client shows after each of them.
Keyed(n, h, ks, P) ==
    /\ n \in Nat /\ h \in [1..n -> Keys]
    /\ \A i, j \in 1..n : h[i] = h[j] => i = j
    /\ \A i \in 1..n : h[i] \in ks /\ P[h[i]] # <<>>
    /\ \A k \in ks : P[k] # <<>> => \E i \in 1..n : h[i] = k

Framed(o, n, h, tx, O) ==
    /\ o \in [0..n -> Output]
    /\ o[0] = O
    /\ \A i \in 1..n : o[i] = Then(o[i - 1], h[i], tx[h[i]])

Grown(s, n, h, tx, sh) ==
    /\ s \in [0..n -> [Keys -> Readable]]
    /\ s[0] = sh
    /\ \A i \in 1..n : Extended(s[i], s[i - 1], h[i], tx[h[i]])
    /\ \A k \in Keys : s[n][k] = IF \E m \in 1..n : h[m] = k THEN sh[k] \o tx[k] ELSE sh[k]

LEMMA GrownExists ==
    ASSUME NEW n, NEW h, NEW ks, NEW P, Keyed(n, h, ks, P), NEW tx, NEW sh,
           tx \in [Keys -> Readable], sh \in [Keys -> Readable]
    PROVE  \E s : Grown(s, n, h, tx, sh)
<1>0. n \in Nat /\ h \in [1..n -> Keys] /\ \A i, j \in 1..n : h[i] = h[j] => i = j
    BY DEF Keyed
<1>1. ShownAfter(h, tx, sh, 0) = sh
    <2>1. \A k \in Keys : ~ \E m \in 1..0 : h[m] = k
        OBVIOUS
    <2> QED BY <2>1 DEF ShownAfter
<1>2. \A k \in Keys : sh[k] \o tx[k] \in Readable
    BY ConcatProperties DEF Readable
<1>3. \A i \in 0..n : ShownAfter(h, tx, sh, i) \in [Keys -> Readable]
    BY <1>2 DEF ShownAfter
<1>4. ASSUME NEW i \in 1..n
      PROVE  /\ ShownAfter(h, tx, sh, i)[h[i]] = ShownAfter(h, tx, sh, i - 1)[h[i]] \o tx[h[i]]
             /\ \A k \in Keys :
                   k # h[i] => ShownAfter(h, tx, sh, i)[k] = ShownAfter(h, tx, sh, i - 1)[k]
    <2>1. ShownAfter(h, tx, sh, i - 1)[h[i]] = sh[h[i]]
        <3>1. ~ \E m \in 1..(i - 1) : h[m] = h[i]
            BY <1>0
        <3> QED BY <1>0, <3>1 DEF ShownAfter
    <2>2. ASSUME NEW k \in Keys, k # h[i]
          PROVE  ShownAfter(h, tx, sh, i)[k] = ShownAfter(h, tx, sh, i - 1)[k]
        <3>1. (\E m \in 1..i : h[m] = k) <=> (\E m \in 1..(i - 1) : h[m] = k)
            <4>1. \A m \in 1..i : m = i \/ m \in 1..(i - 1)
                BY <1>0
            <4>2. \A m \in 1..(i - 1) : m \in 1..i
                BY <1>0
            <4> QED BY <2>2, <4>1, <4>2
        <3> QED BY <3>1 DEF ShownAfter
    <2>3. ShownAfter(h, tx, sh, i)[h[i]] = sh[h[i]] \o tx[h[i]]
        <3>1. i \in 1..i /\ h[i] \in Keys
            BY <1>0
        <3> QED BY <3>1 DEF ShownAfter
    <2> QED BY <2>1, <2>2, <2>3
<1> DEFINE s == [i \in 0..n |-> ShownAfter(h, tx, sh, i)]
<1>5. s \in [0..n -> [Keys -> Readable]] /\ s[0] = sh
    BY <1>0, <1>1, <1>3
<1>6. ASSUME NEW i \in 1..n PROVE Extended(s[i], s[i - 1], h[i], tx[h[i]])
    <2>1. i \in 0..n /\ i - 1 \in 0..n
        BY <1>0
    <2>2. s[i] = ShownAfter(h, tx, sh, i) /\ s[i - 1] = ShownAfter(h, tx, sh, i - 1)
        BY <2>1
    <2> HIDE DEF s
    <2> QED BY <1>3, <1>4, <2>1, <2>2 DEF Extended
<1>7. ASSUME NEW k \in Keys
      PROVE  s[n][k] = IF \E m \in 1..n : h[m] = k THEN sh[k] \o tx[k] ELSE sh[k]
    <2>1. s[n] = ShownAfter(h, tx, sh, n)
        BY <1>0
    <2> HIDE DEF s
    <2> QED BY <2>1 DEF ShownAfter
<1> HIDE DEF s
<1> QED BY <1>5, <1>6, <1>7 DEF Grown

LEMMA ExtendedExists ==
    ASSUME NEW k \in Keys, NEW text \in Readable, NEW sh \in [Keys -> Readable]
    PROVE  \E more \in [Keys -> Readable] : Extended(more, sh, k, text)
<1>1. PICK q : q = [sh EXCEPT ![k] = sh[k] \o text]
    OBVIOUS
<1>2. q \in [Keys -> Readable]
    BY <1>1, ConcatProperties DEF Readable
<1>3. q[k] = sh[k] \o text /\ \A y \in Keys : y # k => q[y] = sh[y]
    BY <1>1
<1> QED BY <1>2, <1>3 DEF Extended

\* Frames for different keys, read one after the other by a client that is
\* between two frames, or in the middle of one.
LEMMA FramesRead ==
    ASSUME NEW c, NEW n, NEW h, NEW ks, NEW P, NEW tx, NEW o, NEW O, NEW s, NEW first,
           Keyed(n, h, ks, P), Framed(o, n, h, tx, O), Grown(s, n, h, tx, first),
           tx \in [Keys -> Readable],
           NEW ds, NEW nm, NEW ov, NEW br, NEW tl, ds \in Output, ov \in SUBSET Keys,
           \A i \in 1..n : h[i] \notin ov,
           ReadFrom(c, O) = Reader(ds, nm, first, ov, No, br, tl)
    PROVE  /\ ds = <<>> /\ nm = "none" => ReadFrom(c, o[n]) = Reader(<<>>, "none", s[n], ov, No, br, tl)
           /\ ds # <<>> /\ n # 0 =>
                 \E sh \in [Keys -> Readable] :
                    ReadFrom(c, o[n]) = Reader(<<>>, "none", sh, ov, No, Yes, tl)
<1>0. /\ n \in Nat /\ h \in [1..n -> Keys]
      /\ o \in [0..n -> Output] /\ \A i \in 1..n : o[i] = Then(o[i - 1], h[i], tx[h[i]])
      /\ s \in [0..n -> [Keys -> Readable]]
      /\ \A i \in 1..n : Extended(s[i], s[i - 1], h[i], tx[h[i]])
      /\ ReadFrom(c, o[0]) = Reader(ds, nm, s[0], ov, No, br, tl)
    BY DEF Keyed, Framed, Grown
<1> DEFINE Intact(i) == ReadFrom(c, o[i]) = Reader(<<>>, "none", s[i], ov, No, br, tl)
           Broken(i) == \E sh \in [Keys -> Readable] :
                            ReadFrom(c, o[i]) = Reader(<<>>, "none", sh, ov, No, Yes, tl)
<1>1. <<>> \in Output
    BY EmptySeq DEF Output
<1>2. ASSUME ds = <<>>, nm = "none" PROVE Intact(n)
    <2> DEFINE T == {i \in 0..n : ~Intact(i)}
    <2>1. SUFFICES ASSUME T # {} PROVE FALSE
        <3>1. n \in 0..n
            BY <1>0
        <3> QED BY <2>1, <3>1
    <2>2. PICK m \in T : \A y \in T : m <= y
        <3>1. T \in SUBSET Nat
            BY <1>0
        <3> HIDE DEF T
        <3> QED BY <2>1, <3>1, LeastNat
    <2>3. Intact(0)
        BY <1>0, <1>2
    <2>4. m \in 1..n /\ ~Intact(m) /\ m - 1 \in 0..n /\ m - 1 \notin T
        <3>1. m # 0
            BY <2>3
        <3>2. m \in 1..n /\ m - 1 \in 0..n /\ ~ (m <= m - 1)
            BY <1>0, <3>1
        <3> QED BY <2>2, <3>2
    <2>5. Intact(m - 1)
        BY <2>4
    <2>6. PICK u, k, text, sh, more :
              /\ u = o[m - 1] /\ k = h[m] /\ text = tx[k] /\ sh = s[m - 1] /\ more = s[m]
        OBVIOUS
    <2>7. u \in Output /\ k \in Keys /\ text \in Readable /\ sh \in [Keys -> Readable] /\ k \notin ov
        BY <1>0, <2>4, <2>6
    <2>8. Extended(more, sh, k, text) /\ ReadFrom(c, u) = Reader(<<>>, "none", sh, ov, No, br, tl)
        BY <1>0, <2>4, <2>5, <2>6
    <2>9. o[m] = Then(u, k, text)
        BY <1>0, <2>4, <2>6
    <2>10. ReadFrom(c, Then(u, k, text)) = Reader(<<>>, "none", more, ov, No, br, tl)
        BY <1>1, <2>7, <2>8, ReadThen
    <2> QED BY <2>4, <2>6, <2>9, <2>10
<1>3. ASSUME ds # <<>>, n # 0 PROVE Broken(n)
    <2> DEFINE T == {i \in 1..n : ~Broken(i)}
    <2>1. SUFFICES ASSUME T # {} PROVE FALSE
        <3>1. n \in 1..n /\ (n \notin T => Broken(n))
            BY <1>0, <1>3
        <3> QED BY <2>1, <3>1
    <2>2. PICK m \in T : \A y \in T : m <= y
        <3>1. T \in SUBSET Nat
            BY <1>0
        <3> HIDE DEF T
        <3> QED BY <2>1, <3>1, LeastNat
    <2>3. m \in 1..n /\ ~Broken(m) /\ m - 1 \in 0..n
        BY <1>0
    <2>4. PICK u, k, text : u = o[m - 1] /\ k = h[m] /\ text = tx[k]
        OBVIOUS
    <2>5. u \in Output /\ k \in Keys /\ text \in Readable /\ k \notin ov /\ o[m] = Then(u, k, text)
        BY <1>0, <2>3, <2>4
    <2>6. CASE m = 1
        <3>1. PICK sh \in [Keys -> Readable] : sh = s[0]
            <4>1. 0 \in 0..n
                BY <1>0
            <4> QED BY <1>0, <4>1
        <3>2. ReadFrom(c, u) = Reader(ds, nm, sh, ov, No, br, tl)
            <4>1. m - 1 = 0
                BY <2>6
            <4> QED BY <1>0, <2>4, <3>1, <4>1
        <3>3. PICK more \in [Keys -> Readable] : Extended(more, sh, k, text)
            BY <2>5, ExtendedExists
        <3>4. ReadFrom(c, Then(u, k, text)) = Reader(<<>>, "none", sh, ov, No, Yes, tl)
            BY <1>3, <2>5, <3>2, <3>3, ReadThen
        <3> QED BY <2>3, <2>5, <3>4
    <2>7. CASE m # 1
        <3>1. m - 1 \in 1..n /\ m - 1 \notin T
            <4>1. m - 1 \in 1..n /\ ~ (m <= m - 1)
                BY <1>0, <2>3, <2>7
            <4> QED BY <2>2, <4>1
        <3>2. Broken(m - 1)
            BY <3>1
        <3>3. PICK sh \in [Keys -> Readable] :
                  ReadFrom(c, u) = Reader(<<>>, "none", sh, ov, No, Yes, tl)
            BY <2>4, <3>2
        <3>4. PICK more \in [Keys -> Readable] : Extended(more, sh, k, text)
            BY <2>5, ExtendedExists
        <3>5. ReadFrom(c, Then(u, k, text)) = Reader(<<>>, "none", more, ov, No, Yes, tl)
            BY <1>1, <2>5, <3>3, <3>4, ReadThen
        <3> QED BY <2>3, <2>5, <3>4, <3>5
    <2> QED BY <2>6, <2>7
<1> QED BY <1>2, <1>3

\* The demasker's record.
Holding(held, name, lines) == [pending |-> held, event |-> name, out |-> lines]

\* What is held back after some keys have been flushed.
Released(P, ks) == [k \in Keys |-> IF k \in ks THEN <<>> ELSE P[k]]

LEMMA FlushedLines ==
    ASSUME NEW P, NEW E, NEW O, NEW ks, NEW tx,
           P \in [Keys -> Text], O \in Output, ks \in SUBSET Keys,
           tx \in [Keys -> Readable], \A k \in Keys : tx[k] = Demask(P[k])
    PROVE  \E n, h, o :
              /\ FlushKeys(Holding(P, E, O), ks) = Holding(Released(P, ks), E, o[n])
              /\ Keyed(n, h, ks, P) /\ Framed(o, n, h, tx, O)
<1> DEFINE S == {k \in ks : P[k] # <<>>}
           held == SetToSeq(S)
           n == Cardinality(S)
           parts == [i \in 1..Len(held) |-> Synthesized(held[i], Demask(P[held[i]]))]
<1>1. IsFiniteSet(S)
    <2>1. IsFiniteSet(Keys) /\ S \subseteq Keys
        BY SseAssumption
    <2> QED BY <2>1, FS_Subset
<1>2. PICK h : h = held
    OBVIOUS
<1>3. /\ n \in Nat /\ Len(h) = n /\ h \in [1..n -> S]
      /\ \A i, j \in 1..n : h[i] = h[j] => i = j
      /\ \A x \in S : \E i \in 1..n : h[i] = x
    <2> HIDE DEF S
    <2> QED BY <1>1, <1>2, EveryMember
<1>4. /\ \A i \in 1..n : /\ h[i] \in Keys /\ h[i] \in ks /\ P[h[i]] # <<>>
                         /\ tx[h[i]] = Demask(P[h[i]])
    <2>1. \A i \in 1..n : h[i] \in S
        BY <1>3
    <2> HIDE DEF n
    <2> QED BY <2>1
<1>5. FlushKeys(Holding(P, E, O), ks) = Holding(Released(P, ks), E, O \o FlattenSeq(parts))
    <2>1. PICK d : d = Holding(P, E, O)
        OBVIOUS
    <2>2. d.pending = P /\ d.out = O
        BY <2>1 DEF Holding
    <2>3. PICK Q, lines : Q = Released(P, ks) /\ lines = O \o FlattenSeq(parts)
        OBVIOUS
    <2>4. FlushKeys(d, ks) = [d EXCEPT !.pending = Q, !.out = lines]
        BY <2>2, <2>3 DEF FlushKeys, Released
    <2> HIDE DEF parts
    <2>5. PICK e : e = [d EXCEPT !.pending = Q]
        OBVIOUS
    <2>6. [d EXCEPT !.pending = Q, !.out = lines] = [e EXCEPT !.out = lines]
        BY <2>5
    <2>7. e = Holding(Q, E, O)
        BY <2>1, <2>5 DEF Holding
    <2>8. [e EXCEPT !.out = lines] = Holding(Q, E, lines)
        BY <2>7 DEF Holding
    <2> QED BY <2>1, <2>3, <2>4, <2>6, <2>8
<1>6. parts = [i \in 1..n |-> Synthesized(h[i], tx[h[i]])]
    <2>1. parts = [i \in 1..n |-> Synthesized(h[i], Demask(P[h[i]]))]
        BY <1>2, <1>3
    <2> HIDE DEF parts, n
    <2> QED BY <1>4, <2>1
<1> HIDE DEF S, held, n, parts
<1>7. \A i \in 1..n : Synthesized(h[i], tx[h[i]]) \in Output
    BY <1>4, SynthesizedLines
<1>8. parts \in Parts(Lines) /\ Len(parts) = n /\ \A i \in 1..n : parts[i] = Synthesized(h[i], tx[h[i]])
    <2>1. parts \in [1..n -> Seq(Lines)]
        BY <1>6, <1>7 DEF Output
    <2>2. parts \in Seq(Seq(Lines)) /\ Len(parts) = n
        BY <1>3, <2>1, FunctionIsSeq
    <2> QED BY <1>6, <2>2 DEF Parts
<1>9. PICK g \in [0..n -> Output] :
          /\ g[0] = <<>> /\ FlattenSeq(parts) = g[n]
          /\ \A i \in 1..n : g[i] = g[i - 1] \o Synthesized(h[i], tx[h[i]])
    <2>1. PICK g \in [0..Len(parts) -> Seq(Lines)] :
              /\ g[0] = <<>>
              /\ \A i \in 1..Len(parts) : g[i] = g[i - 1] \o parts[i]
              /\ FlattenSeq(parts) = g[Len(parts)]
        BY <1>8, Flattened
    <2> QED BY <1>8, <2>1 DEF Output
<1> DEFINE o == [i \in 0..n |-> O \o g[i]]
<1>10. \A i \in 0..n : O \o g[i] \in Output
    BY OutputAssociates
<1>11. o \in [0..n -> Output]
    BY <1>10
<1>12. o[0] = O
    <2>1. O \o <<>> = O
        BY ConcatEmptySeq DEF Output
    <2>2. 0 \in 0..n /\ g[0] = <<>>
        BY <1>3, <1>9
    <2> QED BY <2>1, <2>2
<1>13. ASSUME NEW i \in 1..n PROVE o[i] = Then(o[i - 1], h[i], tx[h[i]])
    <2>1. i \in 0..n /\ i - 1 \in 0..n
        BY <1>3
    <2>2. PICK u, v : u = g[i - 1] /\ v = Synthesized(h[i], tx[h[i]])
        OBVIOUS
    <2>3. u \in Output /\ v \in Output /\ g[i] = u \o v
        BY <1>7, <1>9, <2>1, <2>2
    <2>4. (O \o u) \o v = O \o (u \o v)
        BY <2>3, OutputAssociates
    <2>5. o[i] = O \o g[i] /\ o[i - 1] = O \o u
        BY <2>1, <2>2
    <2> HIDE DEF o
    <2> QED BY <2>2, <2>3, <2>4, <2>5 DEF Then
<1>14. O \o FlattenSeq(parts) = o[n]
    BY <1>3, <1>9
<1> HIDE DEF o
<1>15. h \in [1..n -> Keys]
    BY <1>3, <1>4
<1>16. \A k \in ks : P[k] # <<>> => \E i \in 1..n : h[i] = k
    BY <1>3 DEF S
<1>17. FlushKeys(Holding(P, E, O), ks) = Holding(Released(P, ks), E, o[n])
    BY <1>5, <1>14
<1>18. Keyed(n, h, ks, P)
    BY <1>3, <1>4, <1>15, <1>16 DEF Keyed
<1>19. Framed(o, n, h, tx, O)
    BY <1>11, <1>12, <1>13 DEF Framed
<1> QED BY <1>17, <1>18, <1>19

\* A client that is between two frames sees all that was held back; one that is
\* in the middle of a frame may lose it.
FlushedTo(r, P, ks, ds, nm, sh, ov, br, tl) ==
    \E s \in [Keys -> Readable] :
        \/ /\ r = Reader(ds, nm, s, ov, No, br, tl)
           /\ \A k \in Keys : s[k] = IF k \in ks THEN sh[k] \o Demask(P[k]) ELSE sh[k]
           /\ ds # <<>> => \A k \in ks : P[k] = <<>>
        \/ ds # <<>> /\ r = Reader(<<>>, "none", s, ov, No, Yes, tl)

\* The keys of ks for which something is held are not over.
HeldAreOpen(P, ks, ov) == \A k \in ks : P[k] # <<>> => k \notin ov

LEMMA FlushReads ==
    ASSUME NEW c, NEW P, NEW E, NEW O, NEW ks, NEW ds, NEW nm, NEW sh, NEW ov, NEW br, NEW tl,
           P \in [Keys -> Text], O \in Output, ks \in SUBSET Keys, ds \in Output,
           ds = <<>> => nm = "none", sh \in [Keys -> Readable], ov \in SUBSET Keys,
           HeldAreOpen(P, ks, ov),
           ReadFrom(c, O) = Reader(ds, nm, sh, ov, No, br, tl)
    PROVE  \E o : /\ o \in Output
                  /\ FlushKeys(Holding(P, E, O), ks) = Holding(Released(P, ks), E, o)
                  /\ FlushedTo(ReadFrom(c, o), P, ks, ds, nm, sh, ov, br, tl)
<1>1. PICK tx : tx = [k \in Keys |-> Demask(P[k])]
    OBVIOUS
<1>2. \A k \in Keys : Demask(P[k]) \in Readable /\ (P[k] = <<>> => Demask(P[k]) = <<>>)
    BY DemaskReadable, DemaskNothing
<1>3. tx \in [Keys -> Readable] /\ \A k \in Keys : tx[k] = Demask(P[k])
    BY <1>1, <1>2
<1>4. PICK n, h, o : /\ FlushKeys(Holding(P, E, O), ks) = Holding(Released(P, ks), E, o[n])
                     /\ Keyed(n, h, ks, P) /\ Framed(o, n, h, tx, O)
    BY <1>3, FlushedLines
<1>5. PICK s : Grown(s, n, h, tx, sh)
    BY <1>3, <1>4, GrownExists
<1>6. /\ n \in Nat
      /\ \A i \in 1..n : h[i] \in ks /\ P[h[i]] # <<>>
      /\ \A k \in ks : P[k] # <<>> => \E i \in 1..n : h[i] = k
    BY <1>4 DEF Keyed
<1>7. o[n] \in Output /\ s[n] \in [Keys -> Readable] /\ (n = 0 => o[n] = O /\ s[n] = sh)
    BY <1>4, <1>5, <1>6 DEF Framed, Grown
<1>8. ASSUME NEW k \in Keys PROVE s[n][k] = IF k \in ks THEN sh[k] \o Demask(P[k]) ELSE sh[k]
    <2>1. s[n][k] = IF \E m \in 1..n : h[m] = k THEN sh[k] \o tx[k] ELSE sh[k]
        BY <1>5 DEF Grown
    <2>2. CASE \E m \in 1..n : h[m] = k
        BY <1>3, <1>6, <2>1, <2>2
    <2>3. CASE ~ \E m \in 1..n : h[m] = k
        <3>1. k \in ks => Demask(P[k]) = <<>>
            BY <1>2, <1>6, <2>3
        <3>2. sh[k] \o <<>> = sh[k]
            BY ConcatEmptySeq DEF Readable
        <3> QED BY <2>1, <2>3, <3>1, <3>2
    <2> QED BY <2>2, <2>3
<1>9. \A i \in 1..n : h[i] \notin ov
    BY <1>6 DEF HeldAreOpen
<1>10. /\ ds = <<>> /\ nm = "none" => ReadFrom(c, o[n]) = Reader(<<>>, "none", s[n], ov, No, br, tl)
       /\ ds # <<>> /\ n # 0 =>
             \E s1 \in [Keys -> Readable] :
                ReadFrom(c, o[n]) = Reader(<<>>, "none", s1, ov, No, Yes, tl)
    BY <1>3, <1>4, <1>5, <1>9, FramesRead
<1>11. FlushedTo(ReadFrom(c, o[n]), P, ks, ds, nm, sh, ov, br, tl)
    <2>1. CASE ds = <<>>
        BY <1>7, <1>8, <1>10, <2>1 DEF FlushedTo
    <2>2. CASE ds # <<>> /\ n = 0
        <3>1. \A k \in ks : P[k] = <<>>
            BY <1>6, <2>2
        <3> QED BY <1>7, <1>8, <2>2, <3>1 DEF FlushedTo
    <2>3. CASE ds # <<>> /\ n # 0
        BY <1>10, <2>3 DEF FlushedTo
    <2> QED BY <2>1, <2>2, <2>3
<1> QED BY <1>4, <1>7, <1>11

(***************************************************************************)
(* The inductive invariant.                                                *)
(***************************************************************************)

\* Of the first n symbols of k's text the last are held, and the others have
\* been told de-masked.
Matched(k, held, told, n) ==
    /\ Len(held) <= n /\ n <= Len(script[k])
    /\ held = Slice(script[k], n - Len(held), n)
    /\ PlainScripts => /\ Safe(script[k], n - Len(held))
                       /\ told = Demask(Slice(script[k], 0, n - Len(held)))

\* The text of k in the data lines of a frame that has at most one.
TextIn(data, k) ==
    IF data # <<>> /\ data[1].type = "delta" THEN data[1].texts[k] ELSE <<>>

\* A frame that has at most one data line.
OneLine(data) == data # <<>> => data = Only(data[1]) /\ data[1] \in Lines

\* A client that has read whole frames and perhaps the lines of one more, and what
\* is held back from it of the texts that have been handled.
Told(c, P, n) ==
    /\ c = Reader(c.data, c.name, c.shown, c.over, No, No, No)
    /\ OneLine(c.data)
    /\ c.shown \in [Keys -> Readable]
    /\ c.over \in SUBSET Keys
    /\ P \in [Keys -> Text]
    /\ \A k \in Keys :
          /\ Matched(k, P[k], c.shown[k] \o TextIn(c.data, k), n[k])
          /\ Brief(P[k])
          /\ k \in c.over => TextIn(c.data, k) = <<>> /\ P[k] = <<>> /\ n[k] = Len(script[k])

\* A data line of the provider's.
Datum(line, over, st) ==
    \/ /\ line.type = "delta" /\ line = Delta(line.texts) /\ line.texts \in [Keys -> Readable]
       /\ \A k \in over : line.texts[k] = <<>>
    \/ line.type = "stop" /\ line = Stop(line.key) /\ line.key \in st
    \/ line.type = "done" /\ line = Line("done") /\ st = Keys

\* Where in a frame the provider, the demasker and the client are.
InStep(f, E, c, st) ==
    \/ f = "none" /\ c.data = <<>> /\ c.name = "none" /\ E = "none"
    \/ f \in {"delta", "stop"} /\ anthropic /\ E = f /\ c.data = <<>> /\ c.name = "none"
    \/ /\ f = "data" /\ E = "none" /\ c.data # <<>> /\ Datum(c.data[1], c.over, st)
       /\ anthropic => c.name = c.data[1].type

Between(f, E, c, P, n, st) ==
    /\ InStep(f, E, c, st)
    /\ Told(c, P, n)
    /\ c.over \subseteq st
    /\ \A k \in st : P[k] = <<>> /\ n[k] = Len(script[k])

\* The line that has arrived in part is one the provider may send here.
LineInProgress ==
    \/ lineBuf = NoLine
    \/ /\ frame = "none" /\ anthropic
       /\ lineBuf = Event("delta") \/ lineBuf = Event("stop")
    \/ frame = "none" /\ lineBuf = Line("comment")
    \/ /\ Named("delta")
       /\ lineBuf.type = "delta" /\ lineBuf = Delta(lineBuf.texts)
       /\ lineBuf.texts \in [Keys -> Text]
       /\ \A k \in Keys :
             /\ k \in stopped => lineBuf.texts[k] = <<>>
             /\ handled[k] + Len(lineBuf.texts[k]) <= Len(script[k])
             /\ lineBuf.texts[k] = Following(k, Len(lineBuf.texts[k]))
    \/ /\ anthropic /\ Named("stop")
       /\ lineBuf.type = "stop" /\ lineBuf = Stop(lineBuf.key) /\ lineBuf.key \in Keys
       /\ handled[lineBuf.key] = Len(script[lineBuf.key])
    \/ /\ ~anthropic /\ frame = "none" /\ lineBuf = Line("done")
       /\ \A k \in Keys : handled[k] = Len(script[k])

Running == LineInProgress /\ Between(frame, eventHeld, client, pending, handled, stopped)

Final ==
    /\ upstream # "open"
    /\ FramesIntact
    /\ ~client.late
    /\ PlainScripts => ShownIsDemasked /\ EndsAreFinal

SseInv ==
    /\ script \in Scripts
    /\ stopped \subseteq Keys
    /\ handled \in [Keys -> Nat]
    /\ HeldBackBriefly
    /\ IF ended THEN Final ELSE Running

(***************************************************************************)
(* What is held back, and what has been told.                              *)
(***************************************************************************)

LEMMA ScriptText ==
    ASSUME script \in Scripts, NEW k \in Keys
    PROVE  script[k] \in Text /\ Len(script[k]) \in Nat
BY SseAssumption DEF Text

\* With what is held back de-masked, all that has been handled has been told.
LEMMA MatchedFlushed ==
    ASSUME script \in Scripts, NEW k, NEW n, NEW held, NEW told,
           k \in Keys, n \in Nat, held \in Text, told \in Readable, Matched(k, held, told, n)
    PROVE  /\ PlainScripts => told \o Demask(held) = Demask(Slice(script[k], 0, n))
           /\ n = Len(script[k]) => Matched(k, <<>>, told \o Demask(held), n)
<1>1. PICK t, e : t = script[k] /\ e = n - Len(held)
    OBVIOUS
<1>2. t \in Text /\ Len(t) \in Nat /\ Len(held) \in Nat
    BY <1>1, ScriptText DEF Text
<1>3. /\ Len(held) <= n /\ n <= Len(t) /\ held = Slice(t, e, n)
      /\ PlainScripts => Safe(t, e) /\ told = Demask(Slice(t, 0, e))
    BY <1>1 DEF Matched
<1>4. e \in Nat /\ e <= n
    BY <1>1, <1>2, <1>3
<1>5. PlainScripts => told \o Demask(held) = Demask(Slice(t, 0, n))
    BY <1>2, <1>3, <1>4, DemaskSlices
<1>6. ASSUME n = Len(t) PROVE Matched(k, <<>>, told \o Demask(held), n)
    <2>1. PICK nil : nil = <<>>
        OBVIOUS
    <2>2. Len(nil) = 0 /\ n - Len(nil) = n
        BY <2>1
    <2>3. Slice(t, n, n) = nil
        BY <1>2, <1>3, <2>1, SliceFull
    <2>4. Safe(t, n)
        BY <1>2, <1>6 DEF Safe
    <2>5. Matched(k, nil, told \o Demask(held), n)
        BY <1>1, <1>3, <1>5, <2>2, <2>3, <2>4 DEF Matched
    <2> QED BY <2>1, <2>5
<1> QED BY <1>1, <1>5, <1>6

\* push_buffered: of the text that is held back and the text that comes, what is
\* safe is told and the rest is held back.
LEMMA MatchedMore ==
    ASSUME script \in Scripts, NEW k, NEW n, NEW held, NEW told, NEW more, NEW m,
           k \in Keys, n \in Nat, held \in Text, told \in Readable, Matched(k, held, told, n),
           more \in Text, m \in Nat, n <= m, m <= Len(script[k]), more = Slice(script[k], n, m)
    PROVE  /\ Rest(held \o more) \in Text /\ SafePart(held \o more) \in Readable
           /\ Brief(Rest(held \o more))
           /\ Matched(k, Rest(held \o more), told \o SafePart(held \o more), m)
<1>1. PICK t, e, u, cut : t = script[k] /\ e = n - Len(held) /\ u = held \o more /\ cut = Split(u)
    OBVIOUS
<1>2. t \in Text /\ Len(t) \in Nat /\ Len(held) \in Nat
    BY <1>1, ScriptText DEF Text
<1>3. /\ Len(held) <= n /\ n <= Len(t) /\ held = Slice(t, e, n)
      /\ PlainScripts => Safe(t, e) /\ told = Demask(Slice(t, 0, e))
    BY <1>1 DEF Matched
<1>4. e \in Nat /\ e <= n /\ e <= m /\ m <= Len(t) /\ more = Slice(t, n, m)
    BY <1>1, <1>2, <1>3
<1>5. u = Slice(t, e, m)
    <2>1. Slice(t, e, n) \o Slice(t, n, m) = Slice(t, e, m)
        BY <1>2, <1>4, SliceJoin
    <2> QED BY <1>1, <1>3, <1>4, <2>1
<1>6. /\ cut \in Nat /\ e + cut \in Nat /\ e <= e + cut /\ e + cut <= m
      /\ Rest(u) = Slice(t, e + cut, m)
      /\ SafePart(u) = Demask(Slice(t, e, e + cut))
      /\ Brief(Rest(u))
    <2>1. /\ Split(u) \in Nat /\ e + Split(u) \in Nat /\ e <= e + Split(u) /\ e + Split(u) <= m
          /\ Rest(u) = Slice(t, e + Split(u), m)
          /\ SafePart(u) = Demask(Slice(t, e, e + Split(u)))
          /\ Brief(Rest(u))
        BY <1>2, <1>4, <1>5, SplitParts
    <2> QED BY <1>1, <2>1
<1>7. PICK c, rest, safe : c = e + cut /\ rest = Rest(u) /\ safe = SafePart(u)
    OBVIOUS
<1>8. /\ c \in Nat /\ e <= c /\ c <= m /\ c <= Len(t) /\ rest = Slice(t, c, m)
      /\ safe = Demask(Slice(t, e, c))
    BY <1>2, <1>4, <1>6, <1>7
<1>9. rest \in Text /\ Len(rest) = m - c /\ safe \in Readable
    <2>1. Slice(t, e, c) \in Text
        BY <1>2, <1>4, <1>8, SliceOf
    <2>2. rest \in Text /\ Len(rest) = m - c
        BY <1>2, <1>4, <1>8, SliceOf
    <2> QED BY <1>8, <2>1, <2>2, DemaskReadable
<1>10. ASSUME PlainScripts PROVE Safe(t, c) /\ told \o safe = Demask(Slice(t, 0, c))
    <2>1. PlainText(t)
        BY <1>1, <1>10 DEF PlainScripts
    <2>2. Safe(t, e) /\ told = Demask(Slice(t, 0, e))
        BY <1>3, <1>10
    <2>3. Safe(t, c)
        <3>1. m \in 0..Len(t) /\ e \in 0..m /\ u = SubSeq(t, e + 1, m)
            BY <1>2, <1>4, <1>5 DEF Slice
        <3>2. Safe(t, e + Split(u))
            BY <1>2, <2>1, <2>2, <3>1, SplitIsSafe
        <3> QED BY <1>1, <1>7, <3>2
    <2>4. Demask(Slice(t, 0, c)) = Demask(Slice(t, 0, e)) \o Demask(Slice(t, e, c))
        BY <1>2, <1>4, <1>8, <2>2, DemaskSlices
    <2> QED BY <1>8, <2>2, <2>3, <2>4
<1>11. m - Len(rest) = c /\ Len(rest) <= m
    BY <1>8, <1>9
<1>12. Matched(k, rest, told \o safe, m)
    BY <1>1, <1>4, <1>8, <1>10, <1>11 DEF Matched
<1> QED BY <1>1, <1>6, <1>7, <1>9, <1>12

(***************************************************************************)
(* What the demasker does to one line.                                     *)
(***************************************************************************)

LEMMA HoldingParts ==
    ASSUME NEW P, NEW E, NEW O
    PROVE  /\ Holding(P, E, O).pending = P
           /\ Holding(P, E, O).event = E
           /\ Holding(P, E, O).out = O
           /\ \A line : Emit(Holding(P, E, O), line) = Holding(P, E, Append(O, line))
           /\ \A x : [Holding(P, E, O) EXCEPT !.event = x] = Holding(P, x, O)
           /\ \A o : [Holding(P, E, O) EXCEPT !.out = o] = Holding(P, E, o)
<1>1. /\ Holding(P, E, O).pending = P
      /\ Holding(P, E, O).event = E
      /\ Holding(P, E, O).out = O
    BY DEF Holding
<1>2. PICK d : d = Holding(P, E, O)
    OBVIOUS
<1>3. ASSUME NEW line PROVE Emit(d, line) = Holding(P, E, Append(O, line))
    <2>1. PICK o : o = Append(O, line)
        OBVIOUS
    <2>2. Emit(d, line) = [d EXCEPT !.out = o]
        BY <1>1, <1>2, <2>1 DEF Emit
    <2>3. [d EXCEPT !.out = o] = Holding(P, E, o)
        BY <1>2 DEF Holding
    <2> QED BY <2>1, <2>2, <2>3
<1>4. ASSUME NEW x PROVE [d EXCEPT !.event = x] = Holding(P, x, O)
    BY <1>2 DEF Holding
<1>5. ASSUME NEW o PROVE [d EXCEPT !.out = o] = Holding(P, E, o)
    BY <1>2 DEF Holding
<1> QED BY <1>1, <1>2, <1>3, <1>4, <1>5

LEMMA EventFlushed ==
    ASSUME NEW P, NEW E, NEW O
    PROVE  /\ E = "none" => FlushEvent(Holding(P, E, O)) = Holding(P, E, O)
           /\ E # "none" => FlushEvent(Holding(P, E, O)) = Holding(P, "none", Append(O, Event(E)))
<1>1. Holding(P, E, O).event = E
    BY HoldingParts
<1>2. [Holding(P, E, O) EXCEPT !.event = "none"] = Holding(P, "none", O)
    BY HoldingParts
<1>3. Emit(Holding(P, "none", O), Event(E)) = Holding(P, "none", Append(O, Event(E)))
    BY HoldingParts
<1> HIDE DEF Holding
<1> QED BY <1>1, <1>2, <1>3 DEF FlushEvent

Rests(P, texts) == [k \in Keys |-> Rest(P[k] \o texts[k])]
SafeParts(P, texts) == [k \in Keys |-> SafePart(P[k] \o texts[k])]

LEMMA Rewritten ==
    ASSUME NEW P, NEW E, NEW O, NEW texts
    PROVE  Rewrite(Holding(P, E, O), texts)
               = Holding(Rests(P, texts), E, Append(O, Delta(SafeParts(P, texts))))
<1>0. PICK Q, R : Q = Rests(P, texts) /\ R = SafeParts(P, texts)
    OBVIOUS
<1>1. PICK d : d = Holding(P, E, O)
    OBVIOUS
<1>2. d.pending = P
    BY <1>1, HoldingParts
<1>3. Rewrite(d, texts) = Emit([d EXCEPT !.pending = Q], Delta(R))
    BY <1>0, <1>2 DEF Rewrite, Rest, SafePart, Rests, SafeParts
<1>4. [d EXCEPT !.pending = Q] = Holding(Q, E, O)
    BY <1>1 DEF Holding
<1> QED BY <1>0, <1>1, <1>3, <1>4, HoldingParts

\* handle_line, line by line.
LEMMA Handles ==
    ASSUME NEW d
    PROVE  /\ \A x : HandleLine(d, Event(x)) = [FlushEvent(d) EXCEPT !.event = x]
           /\ \A x : HandleLine(d, Delta(x)) = Rewrite(FlushEvent(d), x)
           /\ \A x : HandleLine(d, Stop(x)) = Emit(FlushEvent(FlushKeys(d, {x})), Stop(x))
           /\ HandleLine(d, Line("done")) = Emit(FlushEvent(FlushKeys(d, Keys)), Line("done"))
           /\ \A x \in {"blank", "comment", "bad"} :
                 HandleLine(d, Line(x)) = Emit(FlushEvent(d), Line(x))
<1>1. ASSUME NEW x PROVE HandleLine(d, Event(x)) = [FlushEvent(d) EXCEPT !.event = x]
    <2>1. Event(x).type = "event" /\ Event(x).name = x
        BY DEF Event
    <2> QED BY <2>1 DEF HandleLine
<1>2. ASSUME NEW x PROVE HandleLine(d, Delta(x)) = Rewrite(FlushEvent(d), x)
    <2>1. Delta(x).type = "delta" /\ Delta(x).texts = x
        BY DEF Delta
    <2> QED BY <2>1 DEF HandleLine
<1>3. ASSUME NEW x PROVE HandleLine(d, Stop(x)) = Emit(FlushEvent(FlushKeys(d, {x})), Stop(x))
    <2>1. Stop(x).type = "stop" /\ Stop(x).key = x
        BY DEF Stop
    <2> QED BY <2>1 DEF HandleLine
<1>4. HandleLine(d, Line("done")) = Emit(FlushEvent(FlushKeys(d, Keys)), Line("done"))
    <2>1. Line("done").type = "done"
        BY DEF Line
    <2> QED BY <2>1 DEF HandleLine
<1>5. ASSUME NEW x \in {"blank", "comment", "bad"}
      PROVE  HandleLine(d, Line(x)) = Emit(FlushEvent(d), Line(x))
    <2>1. Line(x).type = x
        BY DEF Line
    <2> QED BY <2>1 DEF HandleLine
<1> QED BY <1>1, <1>2, <1>3, <1>4, <1>5

\* A held `event:` line that is written renames the frame the client reads.
NameBy(E, nm) == IF E = "none" THEN nm ELSE E

LEMMA EventRead ==
    ASSUME NEW c, NEW P, NEW E, NEW O, NEW ds, NEW nm, NEW sh, NEW ov, NEW lt, NEW br, NEW tl,
           E \in {"none", "delta", "stop"}, O \in Output,
           ReadFrom(c, O) = Reader(ds, nm, sh, ov, lt, br, tl)
    PROVE  \E o : /\ o \in Output
                  /\ FlushEvent(Holding(P, E, O)) = Holding(P, "none", o)
                  /\ ReadFrom(c, o) = Reader(ds, NameBy(E, nm), sh, ov, lt, br, tl)
<1>1. CASE E = "none"
    BY <1>1, EventFlushed DEF NameBy
<1>2. CASE E # "none"
    <2>1. Event(E) \in Lines
        BY <1>2, LinesAre
    <2>2. /\ Append(O, Event(E)) \in Output
          /\ ReadFrom(c, Append(O, Event(E))) = Read(Reader(ds, nm, sh, ov, lt, br, tl), Event(E))
        BY <2>1, ReadNext
    <2>3. ReadFrom(c, Append(O, Event(E))) = Reader(ds, E, sh, ov, lt, br, tl)
        BY <2>2, ReadLine
    <2>4. FlushEvent(Holding(P, E, O)) = Holding(P, "none", Append(O, Event(E)))
        BY <1>2, EventFlushed
    <2> QED BY <1>2, <2>2, <2>3, <2>4 DEF NameBy
<1> QED BY <1>1, <1>2

\* A data line is read into the frame.
LEMMA LineRead ==
    ASSUME NEW c, NEW P, NEW E, NEW O, NEW line, NEW ds, NEW nm, NEW sh, NEW ov, NEW lt, NEW br, NEW tl,
           O \in Output, line \in Lines, line.type \notin {"blank", "event", "comment"},
           ReadFrom(c, O) = Reader(ds, nm, sh, ov, lt, br, tl)
    PROVE  /\ Append(O, line) \in Output
           /\ Emit(Holding(P, E, O), line) = Holding(P, E, Append(O, line))
           /\ ReadFrom(c, Append(O, line)) = Reader(Append(ds, line), nm, sh, ov, lt, br, tl)
<1>1. /\ Append(O, line) \in Output
      /\ ReadFrom(c, Append(O, line)) = Read(Reader(ds, nm, sh, ov, lt, br, tl), line)
    BY ReadNext
<1>2. ReadFrom(c, Append(O, line)) = Reader(Append(ds, line), nm, sh, ov, lt, br, tl)
    BY <1>1, ReadLine
<1>3. Emit(Holding(P, E, O), line) = Holding(P, E, Append(O, line))
    BY HoldingParts
<1> QED BY <1>1, <1>2, <1>3

LEMMA NothingWritten ==
    /\ <<>> \in Output
    /\ \A c : ReadFrom(c, <<>>) = c
    /\ \A line : Append(<<>>, line) = Only(line)
BY EmptySeq, ReadNothing DEF Output, Only

\* What the demasker and the client are after a line.
After(d, c, f, n, st) ==
    \E Q, E : \E o \in Output :
        d = Holding(Q, E, o) /\ Between(f, E, ReadFrom(c, o), Q, n, st)

LEMMA HandlesEvent ==
    ASSUME anthropic, NEW x \in {"delta", "stop"},
           NEW P, NEW E, NEW c, NEW n, NEW st, Between("none", E, c, P, n, st)
    PROVE  After(HandleLine(Holding(P, E, <<>>), Event(x)), c, x, n, st)
<1>1. E = "none" /\ c.data = <<>> /\ c.name = "none"
    BY DEF Between, InStep
<1>2. HandleLine(Holding(P, E, <<>>), Event(x)) = Holding(P, x, <<>>)
    <2>1. FlushEvent(Holding(P, E, <<>>)) = Holding(P, E, <<>>)
        BY <1>1, EventFlushed
    <2>2. [Holding(P, E, <<>>) EXCEPT !.event = x] = Holding(P, x, <<>>)
        BY HoldingParts
    <2> QED BY <2>1, <2>2, Handles
<1>3. InStep(x, x, c, st)
    BY <1>1 DEF InStep
<1>4. Between(x, x, c, P, n, st)
    BY <1>3 DEF Between
<1> QED BY <1>2, <1>4, NothingWritten DEF After

LEMMA HandlesComment ==
    ASSUME NEW P, NEW E, NEW c, NEW n, NEW st, Between("none", E, c, P, n, st)
    PROVE  After(HandleLine(Holding(P, E, <<>>), Line("comment")), c, "none", n, st)
<1>1. E = "none" /\ c = Reader(c.data, c.name, c.shown, c.over, No, No, No)
    BY DEF Between, InStep, Told
<1>2. Line("comment") \in Lines
    BY LinesAre
<1>3. PICK o : o = Append(<<>>, Line("comment"))
    OBVIOUS
<1>4. HandleLine(Holding(P, E, <<>>), Line("comment")) = Holding(P, E, o)
    <2>1. FlushEvent(Holding(P, E, <<>>)) = Holding(P, E, <<>>)
        BY <1>1, EventFlushed
    <2>2. HandleLine(Holding(P, E, <<>>), Line("comment"))
              = Emit(FlushEvent(Holding(P, E, <<>>)), Line("comment"))
        BY Handles
    <2>3. Emit(Holding(P, E, <<>>), Line("comment")) = Holding(P, E, Append(<<>>, Line("comment")))
        <3>1. PICK nil : nil = <<>>
            OBVIOUS
        <3>2. Emit(Holding(P, E, nil), Line("comment")) = Holding(P, E, Append(nil, Line("comment")))
            BY HoldingParts
        <3> QED BY <3>1, <3>2
    <2> QED BY <1>3, <2>1, <2>2, <2>3
<1>5. o \in Output /\ ReadFrom(c, o) = Read(c, Line("comment"))
    <2>1. PICK nil : nil = <<>>
        OBVIOUS
    <2>2. nil \in Output /\ ReadFrom(c, nil) = c
        BY <2>1, NothingWritten
    <2>3. Append(nil, Line("comment")) \in Output
          /\ ReadFrom(c, Append(nil, Line("comment"))) = Read(ReadFrom(c, nil), Line("comment"))
        BY <1>2, <2>2, ReadNext
    <2> QED BY <1>3, <2>1, <2>2, <2>3
<1>6. Read(c, Line("comment")) = c
    BY <1>1, ReadLine
<1> QED BY <1>4, <1>5, <1>6 DEF After

LEMMA ReaderParts ==
    ASSUME NEW ds, NEW nm, NEW sh, NEW ov, NEW lt, NEW br, NEW tl,
           NEW c, c = Reader(ds, nm, sh, ov, lt, br, tl)
    PROVE  /\ c.data = ds /\ c.name = nm /\ c.shown = sh /\ c.over = ov
           /\ c.late = lt /\ c.broken = br /\ c.told = tl
BY DEF Reader

\* A delta line, behind its `event:` line.
\* texts are the next ones behind the first n, and bring them to m.
NextTexts(texts, n, m, st) ==
    /\ texts \in [Keys -> Text]
    /\ \A k \in Keys : /\ k \in st => texts[k] = <<>>
                       /\ m[k] = n[k] + Len(texts[k])
                       /\ n[k] + Len(texts[k]) <= Len(script[k])
                       /\ texts[k] = Slice(script[k], n[k], n[k] + Len(texts[k]))

LEMMA HandlesDelta ==
    ASSUME NEW f, NEW P, NEW E, NEW c, NEW n, NEW st, NEW texts, NEW m,
           script \in Scripts, f = IF anthropic THEN "delta" ELSE "none",
           n \in [Keys -> Nat], st \in SUBSET Keys, Between(f, E, c, P, n, st),
           NextTexts(texts, n, m, st)
    PROVE  After(HandleLine(Holding(P, E, <<>>), Delta(texts)), c, "data", m, st)
<1>0. /\ texts \in [Keys -> Text]
      /\ \A k \in Keys : /\ k \in st => texts[k] = <<>>
                         /\ m[k] = n[k] + Len(texts[k])
                         /\ n[k] + Len(texts[k]) <= Len(script[k])
                         /\ texts[k] = Slice(script[k], n[k], n[k] + Len(texts[k]))
    BY DEF NextTexts
<1> DEFINE Q == Rests(P, texts)
           R == SafeParts(P, texts)
           sh == c.shown
           ov == c.over
<1>1. c.data = <<>> /\ c.name = "none" /\ E = (IF anthropic THEN "delta" ELSE "none")
    BY DEF Between, InStep
<1>2. /\ c = Reader(<<>>, "none", sh, ov, No, No, No)
      /\ sh \in [Keys -> Readable] /\ ov \in SUBSET Keys /\ ov \subseteq st
      /\ P \in [Keys -> Text]
      /\ \A k \in Keys : Matched(k, P[k], sh[k] \o TextIn(<<>>, k), n[k])
      /\ \A k \in ov : P[k] = <<>> /\ n[k] = Len(script[k]) /\ texts[k] = <<>>
      /\ \A k \in st : P[k] = <<>> /\ n[k] = Len(script[k]) /\ texts[k] = <<>>
    BY <1>0, <1>1 DEF Between, Told
<1>3. ASSUME NEW k \in Keys
      PROVE  /\ Q[k] \in Text /\ R[k] \in Readable /\ Brief(Q[k])
             /\ Matched(k, Q[k], sh[k] \o R[k], m[k])
    <2>1. PICK held, more, told, u :
              held = P[k] /\ more = texts[k] /\ told = sh[k] /\ u = held \o more
        OBVIOUS
    <2>2. /\ held \in Text /\ more \in Text /\ told \in Readable
          /\ n[k] \in Nat /\ n[k] + Len(more) <= Len(script[k])
          /\ more = Slice(script[k], n[k], n[k] + Len(more))
        BY <1>0, <1>2, <2>1
    <2>3. Matched(k, held, told, n[k])
        <3>1. told \o TextIn(<<>>, k) = told
            BY <2>2, ConcatEmptySeq DEF TextIn, Readable
        <3> QED BY <1>2, <2>1, <3>1
    <2>4. Q[k] = Rest(u) /\ R[k] = SafePart(u)
        BY <2>1 DEF Rests, SafeParts
    <2>5. m[k] = n[k] + Len(more)
        BY <1>0, <2>1
    <2> HIDE DEF Q, R
    <2>6. PICK rest, safe : rest = Q[k] /\ safe = R[k]
        OBVIOUS
    <2>7. /\ rest \in Text /\ safe \in Readable /\ Brief(rest)
          /\ Matched(k, rest, told \o safe, n[k] + Len(more))
        <3>1. PICK i, j : i = n[k] /\ j = n[k] + Len(more)
            OBVIOUS
        <3>2. i \in Nat /\ j \in Nat /\ i <= j /\ j <= Len(script[k]) /\ more = Slice(script[k], i, j)
              /\ Matched(k, held, told, i)
            <4>1. Len(more) \in Nat
                BY <2>2 DEF Text
            <4> QED BY <2>2, <2>3, <3>1, <4>1
        <3>3. /\ Rest(held \o more) \in Text /\ SafePart(held \o more) \in Readable
              /\ Brief(Rest(held \o more))
              /\ Matched(k, Rest(held \o more), told \o SafePart(held \o more), j)
            BY <2>2, <3>2, MatchedMore
        <3> QED BY <2>1, <2>4, <2>6, <3>1, <3>3
    <2> QED BY <2>1, <2>5, <2>6, <2>7
<1>4. ASSUME NEW k \in st, k \in Keys PROVE Q[k] = <<>> /\ R[k] = <<>> /\ m[k] = n[k]
    <2>1. P[k] \o texts[k] = <<>> /\ Len(texts[k]) = 0 /\ n[k] \in Nat
        BY <1>0, <1>2, <1>4
    <2>2. Split(<<>>) = 0
        <3>1. <<>> \in Text /\ Len(<<>>) = 0
            BY EmptySeq DEF Text
        <3> QED BY <3>1, SplitHolds
    <2>3. Rest(<<>>) = <<>> /\ SafePart(<<>>) = <<>>
        <3>1. SubSeq(<<>>, 1, 0) = <<>> /\ Len(<<>>) = 0 /\ 0 + 1 = 1
            OBVIOUS
        <3> QED BY <2>2, <3>1, DemaskNothing DEF Rest, SafePart
    <2>4. Q[k] = Rest(P[k] \o texts[k]) /\ R[k] = SafePart(P[k] \o texts[k]) /\ m[k] = n[k] + Len(texts[k])
        BY <1>0, <1>4 DEF Rests, SafeParts
    <2> HIDE DEF Q, R
    <2> QED BY <2>1, <2>3, <2>4
<1>5. Q \in [Keys -> Text] /\ R \in [Keys -> Readable]
    <2>1. Q = [k \in Keys |-> Q[k]] /\ R = [k \in Keys |-> R[k]]
        BY DEF Rests, SafeParts
    <2> HIDE DEF Q, R
    <2> QED BY <1>3, <2>1
<1>6. E \in {"none", "delta", "stop"}
    BY <1>1
<1>7. PICK d : d = Holding(P, E, <<>>)
    OBVIOUS
<1>8. PICK o : /\ o \in Output
               /\ FlushEvent(d) = Holding(P, "none", o)
               /\ ReadFrom(c, o) = Reader(<<>>, NameBy(E, "none"), sh, ov, No, No, No)
    <2>1. PICK nil, a, b : nil = <<>> /\ a = sh /\ b = ov
        OBVIOUS
    <2>2. nil \in Output /\ ReadFrom(c, nil) = Reader(nil, "none", a, b, No, No, No)
        BY <1>2, <2>1, NothingWritten
    <2>3. \E o : /\ o \in Output
                 /\ FlushEvent(Holding(P, E, nil)) = Holding(P, "none", o)
                 /\ ReadFrom(c, o) = Reader(nil, NameBy(E, "none"), a, b, No, No, No)
        BY <1>6, <2>2, EventRead
    <2> QED BY <1>7, <2>1, <2>3
<1>9. PICK delta : delta = Delta(R)
    OBVIOUS
<1>10. delta \in Lines /\ delta.type = "delta" /\ delta.texts = R
    BY <1>5, <1>9, LinesAre
<1>11. HandleLine(d, Delta(texts)) = Holding(Q, "none", Append(o, delta))
    <2>1. HandleLine(d, Delta(texts)) = Rewrite(Holding(P, "none", o), texts)
        BY <1>8, Handles
    <2>2. Rewrite(Holding(P, "none", o), texts) = Holding(Q, "none", Append(o, Delta(R)))
        BY Rewritten
    <2> QED BY <1>9, <2>1, <2>2
<1> HIDE DEF Q, R, sh, ov
<1>12. PICK c2, nm : c2 = Reader(Only(delta), nm, sh, ov, No, No, No)
                     /\ (anthropic => nm = "delta")
                     /\ Append(o, delta) \in Output /\ ReadFrom(c, Append(o, delta)) = c2
    <2>1. PICK nm : nm = NameBy(E, "none")
        OBVIOUS
    <2>5. anthropic => nm = "delta"
        BY <1>1, <2>1 DEF NameBy
    <2>2. ReadFrom(c, o) = Reader(<<>>, nm, sh, ov, No, No, No)
        BY <1>8, <2>1
    <2>3. /\ Append(o, delta) \in Output
          /\ ReadFrom(c, Append(o, delta)) = Reader(Append(<<>>, delta), nm, sh, ov, No, No, No)
        <3>1. PICK nil : nil = <<>>
            OBVIOUS
        <3>2. o \in Output /\ ReadFrom(c, o) = Reader(nil, nm, sh, ov, No, No, No)
            BY <1>8, <2>2, <3>1
        <3>3. delta.type \notin {"blank", "event", "comment"}
            BY <1>10
        <3>4. /\ Append(o, delta) \in Output
              /\ ReadFrom(c, Append(o, delta)) = Reader(Append(nil, delta), nm, sh, ov, No, No, No)
            BY <1>10, <3>2, <3>3, LineRead
        <3> QED BY <3>1, <3>4
    <2>4. Append(<<>>, delta) = Only(delta)
        BY NothingWritten
    <2> QED BY <2>3, <2>4, <2>5
<1>13. c2.data = Only(delta) /\ c2.name = nm /\ c2.shown = sh /\ c2.over = ov
    BY <1>12, ReaderParts
<1>14. Only(delta) # <<>> /\ Only(delta)[1] = delta
    BY DEF Only
<1>15. \A k \in Keys : TextIn(c2.data, k) = R[k]
    BY <1>10, <1>13, <1>14 DEF TextIn
<1>16. InStep("data", "none", c2, st)
    <2>1. \A k \in ov : R[k] = <<>>
        BY <1>2, <1>4
    <2>2. Datum(delta, ov, st)
        BY <1>5, <1>9, <1>10, <2>1 DEF Datum
    <2> QED BY <1>10, <1>12, <1>13, <1>14, <2>2 DEF InStep
<1>17. Told(c2, Q, m)
    <2>1. c2 = Reader(c2.data, c2.name, c2.shown, c2.over, No, No, No)
        BY <1>12, <1>13
    <2>2. c2.data = Only(c2.data[1]) /\ c2.data[1] \in Lines
        BY <1>10, <1>13, <1>14
    <2>3. ASSUME NEW k \in Keys
          PROVE  /\ Matched(k, Q[k], c2.shown[k] \o TextIn(c2.data, k), m[k])
                 /\ Brief(Q[k])
                 /\ k \in c2.over => TextIn(c2.data, k) = <<>> /\ Q[k] = <<>> /\ m[k] = Len(script[k])
        <3>1. k \in ov => R[k] = <<>> /\ Q[k] = <<>> /\ m[k] = Len(script[k])
            BY <1>2, <1>4
        <3> QED BY <1>3, <1>13, <1>15, <3>1
    <2> QED BY <1>2, <1>5, <1>13, <2>1, <2>2, <2>3 DEF Told, OneLine
<1>18. \A k \in st : Q[k] = <<>> /\ m[k] = Len(script[k])
    BY <1>2, <1>4
<1>19. Between("data", "none", c2, Q, m, st)
    BY <1>2, <1>13, <1>16, <1>17, <1>18 DEF Between
<1> QED BY <1>7, <1>11, <1>12, <1>19 DEF After

\* The end of one block or of all: its line comes behind what was held back.
LEMMA HandlesEnd ==
    ASSUME NEW f, NEW P, NEW E, NEW c, NEW n, NEW st, NEW ks, NEW line,
           script \in Scripts, f = IF anthropic THEN "stop" ELSE "none",
           n \in [Keys -> Nat], st \in SUBSET Keys, Between(f, E, c, P, n, st),
           ks \in SUBSET Keys, \A k \in ks : n[k] = Len(script[k]),
           line \in Lines, line.type \in {"stop", "done"}, anthropic => line.type = "stop",
           Datum(line, c.over, st \cup ks)
    PROVE  After(Emit(FlushEvent(FlushKeys(Holding(P, E, <<>>), ks)), line), c, "data", n, st \cup ks)
<1> DEFINE Q == Released(P, ks)
           sh == c.shown
           ov == c.over
<1>1. c.data = <<>> /\ c.name = "none" /\ E = (IF anthropic THEN "stop" ELSE "none")
    BY DEF Between, InStep
<1>2. /\ c = Reader(<<>>, "none", sh, ov, No, No, No)
      /\ sh \in [Keys -> Readable] /\ ov \in SUBSET Keys /\ ov \subseteq st
      /\ P \in [Keys -> Text]
      /\ \A k \in Keys : Matched(k, P[k], sh[k] \o TextIn(<<>>, k), n[k]) /\ Brief(P[k])
      /\ \A k \in ov : P[k] = <<>> /\ n[k] = Len(script[k])
      /\ \A k \in st : P[k] = <<>> /\ n[k] = Len(script[k])
    BY <1>1 DEF Between, Told
<1> HIDE DEF sh, ov
<1>3. PICK nil : nil = <<>>
    OBVIOUS
<1>4. nil \in Output /\ ReadFrom(c, nil) = Reader(nil, "none", sh, ov, No, No, No)
    BY <1>2, <1>3, NothingWritten
<1>5. PICK o : /\ o \in Output
               /\ FlushKeys(Holding(P, E, nil), ks) = Holding(Q, E, o)
               /\ FlushedTo(ReadFrom(c, o), P, ks, nil, "none", sh, ov, No, No)
    <2>1. HeldAreOpen(P, ks, ov)
        BY <1>2 DEF HeldAreOpen
    <2> QED BY <1>2, <1>4, <2>1, FlushReads
<1>6. PICK s \in [Keys -> Readable] :
          /\ ReadFrom(c, o) = Reader(nil, "none", s, ov, No, No, No)
          /\ \A k \in Keys : s[k] = IF k \in ks THEN sh[k] \o Demask(P[k]) ELSE sh[k]
    BY <1>3, <1>5 DEF FlushedTo
<1>7. Q \in [Keys -> Text] /\ \A k \in Keys : Q[k] = IF k \in ks THEN <<>> ELSE P[k]
    <2>1. <<>> \in Text
        BY EmptySeq DEF Text
    <2> QED BY <1>2, <2>1 DEF Released
<1> HIDE DEF Q
<1>8. E \in {"none", "delta", "stop"}
    BY <1>1
<1>9. PICK nm : nm = NameBy(E, "none")
    OBVIOUS
<1>10. PICK o2 : /\ o2 \in Output
                 /\ FlushEvent(Holding(Q, E, o)) = Holding(Q, "none", o2)
                 /\ ReadFrom(c, o2) = Reader(nil, nm, s, ov, No, No, No)
    BY <1>5, <1>6, <1>8, <1>9, EventRead
<1>11. PICK o3 \in Output :
          /\ Emit(Holding(Q, "none", o2), line) = Holding(Q, "none", o3)
          /\ ReadFrom(c, o3) = Reader(Only(line), nm, s, ov, No, No, No)
    <2>1. /\ Append(o2, line) \in Output
          /\ Emit(Holding(Q, "none", o2), line) = Holding(Q, "none", Append(o2, line))
          /\ ReadFrom(c, Append(o2, line)) = Reader(Append(nil, line), nm, s, ov, No, No, No)
        <3>1. line.type \notin {"blank", "event", "comment"}
            OBVIOUS
        <3> QED BY <1>10, <3>1, LineRead
    <2>2. Append(nil, line) = Only(line)
        BY <1>3, NothingWritten
    <2> QED BY <2>1, <2>2
<1>12. PICK c2 : c2 = ReadFrom(c, o3)
    OBVIOUS
<1>13. c2.data = Only(line) /\ c2.name = nm /\ c2.shown = s /\ c2.over = ov
    BY <1>11, <1>12, ReaderParts
<1>14. Only(line) # <<>> /\ Only(line)[1] = line
    BY DEF Only
<1>15. \A k \in Keys : TextIn(c2.data, k) = <<>> /\ TextIn(<<>>, k) = <<>>
    BY <1>13, <1>14 DEF TextIn
<1>16. InStep("data", "none", c2, st \cup ks)
    <2>1. anthropic => nm = line.type
        BY <1>1, <1>9 DEF NameBy
    <2> QED BY <1>13, <1>14, <2>1 DEF InStep, ov
<1>17. ASSUME NEW k \in Keys
       PROVE  Matched(k, Q[k], s[k] \o <<>>, n[k]) /\ Brief(Q[k])
    <2>1. s[k] \o <<>> = s[k] /\ sh[k] \o <<>> = sh[k]
        BY <1>2, <1>6, ConcatEmptySeq DEF Readable
    <2>2. Matched(k, P[k], sh[k], n[k])
        BY <1>2, <1>15, <2>1
    <2>3. CASE k \in ks
        <3>1. Q[k] = <<>> /\ s[k] = sh[k] \o Demask(P[k]) /\ n[k] = Len(script[k])
            BY <1>6, <1>7, <2>3
        <3>2. Brief(<<>>)
            BY DEF Brief
        <3>3. PICK held, told : held = P[k] /\ told = sh[k]
            OBVIOUS
        <3>4. held \in Text /\ told \in Readable /\ n[k] \in Nat
            BY <1>2, <3>3
        <3>5. Matched(k, <<>>, told \o Demask(held), n[k])
            BY <2>2, <3>1, <3>3, <3>4, MatchedFlushed
        <3> QED BY <2>1, <3>1, <3>2, <3>3, <3>5
    <2>4. CASE k \notin ks
        BY <1>2, <1>6, <1>7, <2>1, <2>2, <2>4
    <2> QED BY <2>3, <2>4
<1>18. Told(c2, Q, n)
    <2>1. c2 = Reader(c2.data, c2.name, c2.shown, c2.over, No, No, No)
        BY <1>11, <1>12, <1>13
    <2>2. c2.data = Only(c2.data[1]) /\ c2.data[1] \in Lines
        BY <1>13, <1>14
    <2>3. ASSUME NEW k \in Keys
          PROVE  /\ Matched(k, Q[k], c2.shown[k] \o TextIn(c2.data, k), n[k])
                 /\ Brief(Q[k])
                 /\ k \in c2.over => TextIn(c2.data, k) = <<>> /\ Q[k] = <<>> /\ n[k] = Len(script[k])
        <3>1. k \in ov => Q[k] = <<>> /\ n[k] = Len(script[k])
            BY <1>2, <1>7
        <3> QED BY <1>13, <1>15, <1>17, <3>1
    <2>4. c2.shown \in [Keys -> Readable] /\ c2.over \in SUBSET Keys /\ Q \in [Keys -> Text]
        BY <1>2, <1>6, <1>7, <1>13
    <2> QED BY <2>1, <2>2, <2>3, <2>4 DEF Told, OneLine
<1>19. \A k \in st \cup ks : Q[k] = <<>> /\ n[k] = Len(script[k])
    BY <1>2, <1>7
<1>20. Between("data", "none", c2, Q, n, st \cup ks)
    BY <1>2, <1>13, <1>16, <1>18, <1>19 DEF Between
<1>21. Emit(FlushEvent(FlushKeys(Holding(P, E, <<>>), ks)), line) = Holding(Q, "none", o3)
    BY <1>3, <1>5, <1>10, <1>11
<1> QED BY <1>12, <1>20, <1>21 DEF After

\* What a line makes of what has been handled, of the frame and of the texts that
\* have ended.
HandledBy(line) ==
    IF line.type = "delta" THEN [k \in Keys |-> handled[k] + Len(line.texts[k])] ELSE handled
FrameBy(line) ==
    IF line.type = "comment" THEN frame ELSE IF line.type = "event" THEN line.name ELSE "data"
StoppedBy(line) ==
    IF line.type = "stop" THEN stopped \cup {line.key}
    ELSE IF line.type = "done" THEN Keys ELSE stopped

\* The line in progress is completed.
LEMMA HandlesLine ==
    ASSUME SseInv, ~ended, lineBuf # NoLine
    PROVE  /\ HandledBy(lineBuf) \in [Keys -> Nat]
           /\ After(HandleLine(Demasker, lineBuf), client, FrameBy(lineBuf), HandledBy(lineBuf),
                    StoppedBy(lineBuf))
<1> SUFFICES ASSUME NEW n, n = HandledBy(lineBuf)
             PROVE  /\ n \in [Keys -> Nat]
                    /\ After(HandleLine(Demasker, lineBuf), client, FrameBy(lineBuf), n,
                             StoppedBy(lineBuf))
    OBVIOUS
<1>1. /\ script \in Scripts /\ stopped \in SUBSET Keys /\ handled \in [Keys -> Nat]
      /\ LineInProgress /\ Between(frame, eventHeld, client, pending, handled, stopped)
    BY DEF SseInv, Running
<1>2. Demasker = Holding(pending, eventHeld, <<>>)
    BY DEF Demasker, Holding
<1>3. CASE frame = "none" /\ anthropic /\ (lineBuf = Event("delta") \/ lineBuf = Event("stop"))
    <2>1. PICK x \in {"delta", "stop"} : lineBuf = Event(x)
        BY <1>3
    <2>2. lineBuf.type = "event" /\ lineBuf.name = x
        BY <2>1, LinesAre
    <2>3. After(HandleLine(Demasker, lineBuf), client, x, handled, stopped)
        BY <1>1, <1>2, <1>3, <2>1, HandlesEvent
    <2> QED BY <1>1, <2>2, <2>3 DEF HandledBy, FrameBy, StoppedBy
<1>4. CASE frame = "none" /\ lineBuf = Line("comment")
    <2>1. lineBuf.type = "comment"
        BY <1>4, LinesAre
    <2>2. After(HandleLine(Demasker, lineBuf), client, "none", handled, stopped)
        BY <1>1, <1>2, <1>4, HandlesComment
    <2> QED BY <1>1, <1>4, <2>1, <2>2 DEF HandledBy, FrameBy, StoppedBy
<1>5. CASE /\ Named("delta")
           /\ lineBuf.type = "delta" /\ lineBuf = Delta(lineBuf.texts)
           /\ lineBuf.texts \in [Keys -> Text]
           /\ \A k \in Keys :
                 /\ k \in stopped => lineBuf.texts[k] = <<>>
                 /\ handled[k] + Len(lineBuf.texts[k]) <= Len(script[k])
                 /\ lineBuf.texts[k] = Following(k, Len(lineBuf.texts[k]))
    <2>1. PICK texts \in [Keys -> Text] : texts = lineBuf.texts
        BY <1>5
    <2>2. /\ frame = IF anthropic THEN "delta" ELSE "none"
          /\ lineBuf = Delta(texts)
          /\ \A k \in Keys :
                 /\ k \in stopped => texts[k] = <<>>
                 /\ handled[k] + Len(texts[k]) <= Len(script[k])
                 /\ texts[k] = Slice(script[k], handled[k], handled[k] + Len(texts[k]))
        BY <1>5, <2>1 DEF Named, Following, Slice
    <2>3. n = [k \in Keys |-> handled[k] + Len(texts[k])]
        BY <1>5, <2>1 DEF HandledBy
    <2>4. n \in [Keys -> Nat]
        <3>1. \A k \in Keys : Len(texts[k]) \in Nat
            BY DEF Text
        <3> QED BY <1>1, <2>3, <3>1
    <2>6. NextTexts(texts, handled, n, stopped)
        BY <2>2, <2>3 DEF NextTexts
    <2>5. After(HandleLine(Demasker, Delta(texts)), client, "data", n, stopped)
        BY <1>1, <1>2, <2>2, <2>6, HandlesDelta
    <2> QED BY <1>5, <2>2, <2>4, <2>5 DEF FrameBy, StoppedBy
<1>6. CASE /\ anthropic /\ Named("stop")
           /\ lineBuf.type = "stop" /\ lineBuf = Stop(lineBuf.key) /\ lineBuf.key \in Keys
           /\ handled[lineBuf.key] = Len(script[lineBuf.key])
    <2>1. PICK k \in Keys : k = lineBuf.key
        BY <1>6
    <2>2. PICK line : line = lineBuf
        OBVIOUS
    <2>3. line \in Lines /\ line.type = "stop" /\ line.key = k /\ line = Stop(k)
        BY <1>6, <2>1, <2>2, LinesAre
    <2>4. /\ frame = IF anthropic THEN "stop" ELSE "none"
          /\ {k} \in SUBSET Keys /\ \A y \in {k} : handled[y] = Len(script[y])
        BY <1>6, <2>1 DEF Named
    <2>5. Datum(line, client.over, stopped \cup {k})
        BY <2>3 DEF Datum
    <2>6. HandleLine(Demasker, line) = Emit(FlushEvent(FlushKeys(Demasker, {k})), line)
        <3>1. HandleLine(Demasker, Stop(k)) = Emit(FlushEvent(FlushKeys(Demasker, {k})), Stop(k))
            BY Handles
        <3> QED BY <2>3, <3>1
    <2>7. After(HandleLine(Demasker, line), client, "data", handled, stopped \cup {k})
        BY <1>1, <1>2, <2>3, <2>4, <2>5, <2>6, HandlesEnd
    <2> QED BY <1>1, <2>1, <2>2, <2>3, <2>7 DEF HandledBy, FrameBy, StoppedBy
<1>7. CASE /\ ~anthropic /\ frame = "none" /\ lineBuf = Line("done")
           /\ \A k \in Keys : handled[k] = Len(script[k])
    <2>1. PICK line : line = lineBuf
        OBVIOUS
    <2>2. line \in Lines /\ line.type = "done" /\ line = Line("done")
        BY <1>7, <2>1, LinesAre
    <2>3. frame = (IF anthropic THEN "stop" ELSE "none") /\ stopped \cup Keys = Keys
        BY <1>1, <1>7
    <2>4. Datum(line, client.over, stopped \cup Keys)
        BY <2>2, <2>3 DEF Datum
    <2>5. HandleLine(Demasker, line) = Emit(FlushEvent(FlushKeys(Demasker, Keys)), line)
        BY <2>2, Handles
    <2>6. After(HandleLine(Demasker, line), client, "data", handled, stopped \cup Keys)
        BY <1>1, <1>2, <1>7, <2>2, <2>3, <2>4, <2>5, HandlesEnd
    <2> QED BY <1>1, <2>1, <2>2, <2>3, <2>6 DEF HandledBy, FrameBy, StoppedBy
<1> QED BY <1>1, <1>3, <1>4, <1>5, <1>6, <1>7 DEF LineInProgress

(***************************************************************************)
(* The steps.                                                              *)
(***************************************************************************)

LEMMA BetweenNext ==
    ASSUME script' = script, anthropic' = anthropic,
           Between(frame', eventHeld', client', pending', handled', stopped')
    PROVE  /\ Between(frame, eventHeld, client, pending, handled, stopped)'
           /\ HeldBackBriefly'
<1>1. InStep(frame, eventHeld, client, stopped)'
    BY DEF Between, InStep, Datum
<1>2. ASSUME NEW k \in Keys, NEW told, Matched(k, pending'[k], told, handled'[k])
      PROVE  Matched(k, pending[k], told, handled[k])'
    BY <1>2 DEF Matched
<1>3. Told(client, pending, handled)'
    BY <1>2 DEF Between, Told, TextIn, Brief, Matched
<1>4. HeldBackBriefly'
    BY DEF Between, Told, Brief, HeldBackBriefly
<1> QED BY <1>1, <1>3, <1>4 DEF Between

LEMMA RunningIs ==
    ASSUME SseInv, upstream = "open"
    PROVE  /\ ~ended /\ script \in Scripts /\ stopped \in SUBSET Keys /\ handled \in [Keys -> Nat]
           /\ HeldBackBriefly
           /\ LineInProgress /\ Between(frame, eventHeld, client, pending, handled, stopped)
BY DEF SseInv, Running, Final

\* The provider sends the bytes of a line.
LEMMA BytesKeep ==
    ASSUME SseInv, NEW line, BytesArrive(line), LineInProgress'
    PROVE  SseInv'
<1>1. /\ ~ended /\ script \in Scripts /\ stopped \in SUBSET Keys /\ handled \in [Keys -> Nat]
      /\ Between(frame, eventHeld, client, pending, handled, stopped)
    BY RunningIs DEF BytesArrive
<1>2. /\ anthropic' = anthropic /\ script' = script /\ upstream' = upstream /\ frame' = frame
      /\ stopped' = stopped /\ handled' = handled /\ pending' = pending
      /\ eventHeld' = eventHeld /\ ended' = ended /\ client' = client
    BY DEF BytesArrive
<1>3. Between(frame, eventHeld, client, pending, handled, stopped)' /\ HeldBackBriefly'
    BY <1>1, <1>2, BetweenNext
<1> QED BY <1>1, <1>2, <1>3 DEF SseInv, Running

LEMMA EventLineKeeps == ASSUME SseInv, EventLineArrives PROVE SseInv'
<1>1. PICK x \in {"delta", "stop"} : BytesArrive(Event(x))
    BY DEF EventLineArrives
<1>2. frame' = "none" /\ anthropic' /\ (lineBuf' = Event("delta") \/ lineBuf' = Event("stop"))
    BY <1>1 DEF EventLineArrives, BytesArrive
<1> QED BY <1>1, <1>2, BytesKeep DEF LineInProgress

LEMMA CommentKeeps == ASSUME SseInv, CommentArrives PROVE SseInv'
<1>1. BytesArrive(Line("comment")) /\ frame' = "none" /\ lineBuf' = Line("comment")
    BY DEF CommentArrives, BytesArrive
<1> QED BY <1>1, BytesKeep DEF LineInProgress

LEMMA DeltaKeeps == ASSUME SseInv, DeltaArrives PROVE SseInv'
<1>1. PICK ks \in SUBSET (Keys \ stopped), n \in 1..MaxDelta :
          /\ \A k \in ks : handled[k] + n <= Len(script[k])
          /\ BytesArrive(Delta([k \in Keys |-> IF k \in ks THEN Following(k, n) ELSE <<>>]))
    BY DEF DeltaArrives
<1>2. PICK texts : texts = [k \in Keys |-> IF k \in ks THEN Following(k, n) ELSE <<>>]
    OBVIOUS
<1>3. upstream = "open" /\ Named("delta") /\ lineBuf' = Delta(texts)
    BY <1>1, <1>2 DEF DeltaArrives, BytesArrive
<1>4. script \in Scripts /\ handled \in [Keys -> Nat]
    BY <1>3, RunningIs
<1>5. ASSUME NEW k \in Keys
      PROVE  /\ texts[k] \in Text
             /\ k \in stopped => texts[k] = <<>>
             /\ handled[k] + Len(texts[k]) <= Len(script[k])
             /\ texts[k] = Slice(script[k], handled[k], handled[k] + Len(texts[k]))
    <2>1. script[k] \in Text /\ Len(script[k]) \in Nat /\ handled[k] \in Nat /\ n \in Nat
        BY <1>4, ScriptText
    <2>2. CASE k \in ks
        <3>1. texts[k] = Slice(script[k], handled[k], handled[k] + n)
            BY <1>2, <2>2 DEF Following, Slice
        <3>2. PICK a, b : a = handled[k] /\ b = handled[k] + n
            OBVIOUS
        <3>3. texts[k] \in Text /\ Len(texts[k]) = (handled[k] + n) - handled[k]
            <4>1. a \in Nat /\ b \in Nat /\ a <= b /\ b <= Len(script[k]) /\ texts[k] = Slice(script[k], a, b)
                BY <1>1, <2>1, <2>2, <3>1, <3>2
            <4>2. Slice(script[k], a, b) \in Text /\ Len(Slice(script[k], a, b)) = b - a
                BY <2>1, <4>1, SliceOf
            <4> QED BY <3>2, <4>1, <4>2
        <3>4. Len(texts[k]) = n
            BY <2>1, <3>3
        <3> QED BY <1>1, <2>2, <3>1, <3>3, <3>4
    <2>3. CASE k \notin ks
        <3>1. texts[k] = <<>> /\ <<>> \in Text /\ Len(<<>>) = 0
            BY <1>2, <2>3, EmptySeq DEF Text
        <3>2. handled[k] <= Len(script[k])
            BY <1>3, <2>1, RunningIs DEF Between, Told, Matched
        <3>3. handled[k] + 0 = handled[k]
            BY <2>1
        <3>4. Slice(script[k], handled[k], handled[k]) = <<>>
            BY <2>1, <3>2, SliceFull
        <3>5. handled[k] + Len(texts[k]) = handled[k]
            BY <3>1, <3>3
        <3> QED BY <3>1, <3>2, <3>4, <3>5
    <2> QED BY <2>2, <2>3
<1>6. texts \in [Keys -> Text]
    BY <1>2, <1>5
<1>7. Delta(texts).type = "delta" /\ Delta(texts).texts = texts
    BY DEF Delta
<1>8. LineInProgress'
    <2>1. /\ script' = script /\ handled' = handled /\ stopped' = stopped /\ Named("delta")'
        BY <1>1, <1>3 DEF BytesArrive, Named
    <2>2. /\ lineBuf'.type = "delta" /\ lineBuf' = Delta(lineBuf'.texts)
          /\ lineBuf'.texts = texts
        BY <1>3, <1>7
    <2> QED BY <1>5, <1>6, <2>1, <2>2 DEF LineInProgress, Following, Slice
<1> QED BY <1>1, <1>8, BytesKeep

LEMMA StopKeeps == ASSUME SseInv, NEW k \in Keys, StopArrives(k) PROVE SseInv'
<1>1. /\ BytesArrive(Stop(k)) /\ lineBuf' = Stop(k) /\ anthropic' /\ Named("stop")'
      /\ handled'[k] = Len(script'[k])
    BY DEF StopArrives, BytesArrive, Named
<1>2. lineBuf'.type = "stop" /\ lineBuf'.key = k
    BY <1>1 DEF Stop
<1>3. LineInProgress'
    BY <1>1, <1>2 DEF LineInProgress
<1> QED BY <1>1, <1>3, BytesKeep

LEMMA DoneKeeps == ASSUME SseInv, DoneArrives PROVE SseInv'
<1>1. /\ BytesArrive(Line("done")) /\ lineBuf' = Line("done") /\ ~anthropic' /\ frame' = "none"
      /\ \A k \in Keys : handled'[k] = Len(script'[k])
    BY DEF DoneArrives, BytesArrive
<1>2. LineInProgress'
    BY <1>1 DEF LineInProgress
<1> QED BY <1>1, <1>2, BytesKeep

LEMMA UpstreamKeeps == ASSUME SseInv, NEW how, UpstreamCloses(how) PROVE SseInv'
<1>1. /\ ~ended /\ script \in Scripts /\ stopped \in SUBSET Keys /\ handled \in [Keys -> Nat]
      /\ LineInProgress /\ Between(frame, eventHeld, client, pending, handled, stopped)
    BY RunningIs DEF UpstreamCloses
<1>2. /\ anthropic' = anthropic /\ script' = script /\ frame' = frame /\ lineBuf' = lineBuf
      /\ stopped' = stopped /\ handled' = handled /\ pending' = pending
      /\ eventHeld' = eventHeld /\ ended' = ended /\ client' = client
    BY DEF UpstreamCloses
<1>3. Between(frame, eventHeld, client, pending, handled, stopped)' /\ HeldBackBriefly'
    BY <1>1, <1>2, BetweenNext
<1>4. LineInProgress'
    BY <1>1, <1>2 DEF LineInProgress, Named, Following
<1> QED BY <1>1, <1>2, <1>3, <1>4 DEF SseInv, Running

\* A line is completed.
LEMMA NewlineKeeps == ASSUME SseInv, NewlineArrives PROVE SseInv'
<1>1. upstream = "open" /\ lineBuf # NoLine /\ lineBuf' = NoLine /\ ended' = ended
      /\ anthropic' = anthropic /\ script' = script
    BY DEF NewlineArrives
<1>2. ~ended /\ script \in Scripts /\ stopped \in SUBSET Keys /\ LineInProgress
    BY <1>1, RunningIs
<1>3. PICK n : n = HandledBy(lineBuf)
    OBVIOUS
<1>4. handled' = n
    BY <1>3 DEF NewlineArrives, Took, HandledBy
<1>5. n \in [Keys -> Nat] /\ After(HandleLine(Demasker, lineBuf), client, frame', n, stopped')
    <2>1. frame' = FrameBy(lineBuf) /\ stopped' = StoppedBy(lineBuf)
        BY DEF NewlineArrives, FrameBy, StoppedBy
    <2> QED BY <1>1, <1>2, <1>3, <2>1, HandlesLine
<1>6. PICK Q, E : \E o \in Output :
          /\ HandleLine(Demasker, lineBuf) = Holding(Q, E, o)
          /\ Between(frame', E, ReadFrom(client, o), Q, n, stopped')
    BY <1>5 DEF After
<1>7. PICK o \in Output :
          /\ HandleLine(Demasker, lineBuf) = Holding(Q, E, o)
          /\ Between(frame', E, ReadFrom(client, o), Q, n, stopped')
    BY <1>6
<1>8. pending' = Q /\ eventHeld' = E /\ client' = ReadFrom(client, o)
    BY <1>7, HoldingParts DEF NewlineArrives, Becomes
<1>9. Between(frame, eventHeld, client, pending, handled, stopped)' /\ HeldBackBriefly'
    BY <1>1, <1>4, <1>7, <1>8, BetweenNext
<1>10. stopped' \subseteq Keys
    <2>1. lineBuf.type = "stop" => lineBuf.key \in Keys
        BY <1>1, <1>2, LinesAre DEF LineInProgress
    <2> QED BY <1>2, <2>1 DEF NewlineArrives
<1> QED BY <1>1, <1>2, <1>4, <1>5, <1>9, <1>10 DEF SseInv, Running, LineInProgress

\* A blank line makes the client act on the frame.
LEMMA BlankKeeps == ASSUME SseInv, BlankArrives PROVE SseInv'
<1>1. /\ upstream = "open" /\ lineBuf = NoLine /\ frame = "data" /\ frame' = "none"
      /\ anthropic' = anthropic /\ script' = script /\ stopped' = stopped
      /\ lineBuf' = lineBuf /\ handled' = handled /\ ended' = ended
    BY DEF BlankArrives
<1>2. /\ ~ended /\ script \in Scripts /\ stopped \in SUBSET Keys /\ handled \in [Keys -> Nat]
      /\ Between(frame, eventHeld, client, pending, handled, stopped)
    BY <1>1, RunningIs
<1>3. PICK line, nm, sh, ov :
          line = client.data[1] /\ nm = client.name /\ sh = client.shown /\ ov = client.over
    OBVIOUS
<1>4. /\ eventHeld = "none" /\ client.data # <<>> /\ Datum(line, ov, stopped)
      /\ anthropic => nm = line.type
    BY <1>1, <1>2, <1>3 DEF Between, InStep
<1>5. /\ client = Reader(Only(line), nm, sh, ov, No, No, No)
      /\ client.data = Only(line)
      /\ sh \in [Keys -> Readable] /\ ov \in SUBSET Keys /\ ov \subseteq stopped
      /\ pending \in [Keys -> Text]
      /\ \A k \in Keys :
            /\ Matched(k, pending[k], sh[k] \o TextIn(Only(line), k), handled[k])
            /\ Brief(pending[k])
            /\ k \in stopped => pending[k] = <<>> /\ handled[k] = Len(script[k])
    BY <1>2, <1>3, <1>4 DEF Between, Told, OneLine
<1>6. line.type \in {"delta", "stop", "done"}
    BY <1>4 DEF Datum
<1>7. PICK sh2, ov2 : sh2 = ShownBy(line, sh) /\ ov2 = OverBy(line, ov)
    OBVIOUS
<1>8. LateBy(line, ov, No) = No /\ ToldBy(line, No) = No
    <2>1. line.type = "delta" => \A k \in ov : line.texts[k] = <<>>
        BY <1>4 DEF Datum
    <2> QED BY <1>6, <2>1 DEF LateBy, ToldBy, No
<1>9. PICK c2 : c2 = Reader(<<>>, "none", sh2, ov2, No, No, No)
    OBVIOUS
<1>10. Dispatch(client) = c2
    <2>1. line.type # "bad"
        BY <1>6
    <2>2. Dispatch(Reader(Only(line), nm, sh, ov, No, No, No))
              = Reader(<<>>, "none", ShownBy(line, sh), OverBy(line, ov), LateBy(line, ov, No), No,
                       ToldBy(line, No))
        BY <1>4, <2>1, BlankAfterOne
    <2> QED BY <1>5, <1>7, <1>8, <1>9, <2>2
<1>11. pending' = pending /\ eventHeld' = "none" /\ client' = c2
    <2>0. PICK nil : nil = <<>>
        OBVIOUS
    <2>1. Demasker = Holding(pending, eventHeld, nil)
        BY <2>0 DEF Demasker, Holding
    <2>2. PICK o : o = Append(nil, Line("blank"))
        OBVIOUS
    <2>3. HandleLine(Demasker, Line("blank")) = Holding(pending, "none", o)
        <3>1. FlushEvent(Demasker) = Demasker
            BY <1>4, <2>1, EventFlushed
        <3>2. HandleLine(Demasker, Line("blank")) = Emit(FlushEvent(Demasker), Line("blank"))
            BY Handles
        <3>3. Emit(Holding(pending, "none", nil), Line("blank"))
                  = Holding(pending, "none", Append(nil, Line("blank")))
            BY HoldingParts
        <3> QED BY <1>4, <2>1, <2>2, <3>1, <3>2, <3>3
    <2>4. ReadFrom(client, o) = Read(client, Line("blank"))
        <3>1. Line("blank") \in Lines
            BY LinesAre
        <3>2. nil \in Output /\ ReadFrom(client, nil) = client
            BY <2>0, NothingWritten
        <3>3. ReadFrom(client, Append(nil, Line("blank"))) = Read(ReadFrom(client, nil), Line("blank"))
            BY <3>1, <3>2, ReadNext
        <3> QED BY <2>2, <3>2, <3>3
    <2>5. Read(client, Line("blank")) = c2
        BY <1>5, <1>10, ReadLine
    <2> QED BY <2>3, <2>4, <2>5, HoldingParts DEF BlankArrives, Becomes
<1>12. c2.data = <<>> /\ c2.name = "none" /\ c2.shown = sh2 /\ c2.over = ov2
    BY <1>9, ReaderParts
<1>13. ov2 \subseteq stopped
    BY <1>2, <1>4, <1>5, <1>7, LinesAre DEF OverBy, Datum
<1>14. ASSUME NEW k \in Keys PROVE sh2[k] = sh[k] \o TextIn(Only(line), k) /\ sh2[k] \in Readable
    <2>1. Only(line) # <<>> /\ Only(line)[1] = line
        BY DEF Only
    <2>2. CASE line.type = "delta"
        <3>1. TextIn(Only(line), k) = line.texts[k] /\ sh2[k] = sh[k] \o line.texts[k]
            BY <1>7, <2>1, <2>2 DEF TextIn, ShownBy
        <3>2. line.texts[k] \in Readable /\ sh[k] \in Readable
            BY <1>4, <1>5, <2>2 DEF Datum
        <3> QED BY <3>1, <3>2, ConcatProperties DEF Readable
    <2>3. CASE line.type # "delta"
        <3>1. TextIn(Only(line), k) = <<>> /\ sh2[k] = sh[k]
            BY <1>7, <2>1, <2>3 DEF TextIn, ShownBy
        <3>2. sh[k] \o <<>> = sh[k]
            BY <1>5, ConcatEmptySeq DEF Readable
        <3> QED BY <1>5, <3>1, <3>2
    <2> QED BY <2>2, <2>3
<1>15. sh2 \in [Keys -> Readable]
    <2>1. sh2 = [k \in Keys |-> sh2[k]]
        BY <1>5, <1>7 DEF ShownBy
    <2> QED BY <1>14, <2>1
<1>16. Told(c2, pending, handled)
    <2>1. c2 = Reader(c2.data, c2.name, c2.shown, c2.over, No, No, No)
        BY <1>9, <1>12
    <2>2. ASSUME NEW k \in Keys
          PROVE  /\ Matched(k, pending[k], c2.shown[k] \o TextIn(c2.data, k), handled[k])
                 /\ Brief(pending[k])
                 /\ k \in c2.over => /\ TextIn(c2.data, k) = <<>> /\ pending[k] = <<>>
                                     /\ handled[k] = Len(script[k])
        <3>1. TextIn(c2.data, k) = <<>>
            BY <1>12 DEF TextIn
        <3>2. sh2[k] \o <<>> = sh2[k]
            BY <1>14, ConcatEmptySeq DEF Readable
        <3> QED BY <1>5, <1>12, <1>13, <1>14, <3>1, <3>2
    <2>3. c2.over \in SUBSET Keys
        BY <1>2, <1>12, <1>13
    <2>4. c2.data = <<>> /\ c2.shown \in [Keys -> Readable] /\ pending \in [Keys -> Text]
        BY <1>5, <1>12, <1>15
    <2> QED BY <2>1, <2>2, <2>3, <2>4 DEF Told, OneLine
<1>17. InStep("none", "none", c2, stopped)
    BY <1>12 DEF InStep
<1>18. Between("none", "none", c2, pending, handled, stopped)
    BY <1>5, <1>12, <1>13, <1>16, <1>17, <1>2 DEF Between
<1>19. Between(frame, eventHeld, client, pending, handled, stopped)' /\ HeldBackBriefly'
    BY <1>1, <1>11, <1>18, BetweenNext
<1>20. lineBuf' = NoLine
    BY <1>1
<1> QED BY <1>1, <1>2, <1>19, <1>20 DEF SseInv, Running, LineInProgress

(***************************************************************************)
(* The end of the stream.                                                  *)
(***************************************************************************)

\* A client that has all of what was handled, unless its last frame was cut.
Finished(r, cut, n) ==
    /\ r = Reader(r.data, r.name, r.shown, r.over, No, r.broken, r.told)
    /\ OneLine(r.data)
    /\ r.shown \in [Keys -> Readable] /\ r.over \in SUBSET Keys
    /\ r.data # <<>> \/ r.broken => cut
    /\ ~r.broken => \A k \in Keys :
          /\ PlainScripts => r.shown[k] \o TextIn(r.data, k) = Demask(Slice(script[k], 0, n[k]))
          /\ k \in r.over => TextIn(r.data, k) = <<>> /\ n[k] = Len(script[k])

\* Only a stream that was cut leaves a frame in progress.
CutOnly(r, cut) == /\ r.data = <<>> => r.name = "none"
                   /\ r.data # <<>> => cut

\* All that is held back is written, and the `event:` line behind it.
LEMMA FlushFinishes ==
    ASSUME NEW c, NEW P, NEW E, NEW O, NEW n, NEW r, NEW cut,
           script \in Scripts, E \in {"none", "delta", "stop"}, O \in Output,
           n \in [Keys -> Nat], r = ReadFrom(c, O), Told(r, P, n),
           CutOnly(r, cut)
    PROVE  \E o : /\ o \in Output
                  /\ FlushEvent(FlushKeys(Holding(P, E, O), Keys)) = Holding(Silent, "none", o)
                  /\ Finished(ReadFrom(c, o), cut, n)
<1> DEFINE ds == r.data
           nm == r.name
           sh == r.shown
           ov == r.over
<1>1. /\ r = Reader(ds, nm, sh, ov, No, No, No)
      /\ OneLine(ds)
      /\ sh \in [Keys -> Readable] /\ ov \in SUBSET Keys /\ P \in [Keys -> Text]
      /\ \A k \in Keys :
            /\ Matched(k, P[k], sh[k] \o TextIn(ds, k), n[k])
            /\ k \in ov => TextIn(ds, k) = <<>> /\ P[k] = <<>> /\ n[k] = Len(script[k])
    BY DEF Told
<1>2. ds \in Output
    <2>1. \A line \in Lines : Only(line) \in Output
        BY DEF Only, Output
    <2> QED BY <1>1, <2>1, NothingWritten DEF OneLine
<1> HIDE DEF ds, nm, sh, ov
<1>3. Released(P, Keys) = Silent
    BY DEF Released, Silent
<1>4. PICK o :
          /\ o \in Output
          /\ FlushKeys(Holding(P, E, O), Keys) = Holding(Silent, E, o)
          /\ FlushedTo(ReadFrom(c, o), P, Keys, ds, nm, sh, ov, No, No)
    <2>1. HeldAreOpen(P, Keys, ov)
        BY <1>1 DEF HeldAreOpen
    <2>2. ds = <<>> => nm = "none"
        BY DEF ds, nm, CutOnly
    <2>3. PICK b, l, ks : b = No /\ l = No /\ ks = Keys
        OBVIOUS
    <2>4. /\ P \in [Keys -> Text] /\ ks \in SUBSET Keys /\ ds \in Output /\ HeldAreOpen(P, ks, ov)
          /\ sh \in [Keys -> Readable] /\ ov \in SUBSET Keys
          /\ ReadFrom(c, O) = Reader(ds, nm, sh, ov, No, b, l)
        BY <1>1, <1>2, <2>1, <2>3
    <2>5. \E o : /\ o \in Output
                 /\ FlushKeys(Holding(P, E, O), ks) = Holding(Released(P, ks), E, o)
                 /\ FlushedTo(ReadFrom(c, o), P, ks, ds, nm, sh, ov, b, l)
        <3>1. PICK h : h = FlushKeys(Holding(P, E, O), ks)
            OBVIOUS
        <3> QED BY <2>2, <2>4, <3>1, FlushReads
    <2> QED BY <1>3, <2>3, <2>5
<1>5. PICK s \in [Keys -> Readable] :
          \/ /\ ReadFrom(c, o) = Reader(ds, nm, s, ov, No, No, No)
             /\ \A k \in Keys : s[k] = sh[k] \o Demask(P[k])
             /\ ds # <<>> => \A k \in Keys : P[k] = <<>>
          \/ ds # <<>> /\ ReadFrom(c, o) = Reader(<<>>, "none", s, ov, No, Yes, No)
    BY <1>4 DEF FlushedTo
<1>6. CASE /\ ReadFrom(c, o) = Reader(ds, nm, s, ov, No, No, No)
           /\ \A k \in Keys : s[k] = sh[k] \o Demask(P[k])
           /\ ds # <<>> => \A k \in Keys : P[k] = <<>>
    <2>1. PICK o2, x :
              /\ o2 \in Output
              /\ FlushEvent(Holding(Silent, E, o)) = Holding(Silent, "none", o2)
              /\ ReadFrom(c, o2) = Reader(ds, x, s, ov, No, No, No)
        <3>1. PICK b : b = No
            OBVIOUS
        <3>2. o \in Output /\ ReadFrom(c, o) = Reader(ds, nm, s, ov, b, b, b)
            BY <1>4, <1>6, <3>1
        <3>3. \E o2 : /\ o2 \in Output
                      /\ FlushEvent(Holding(Silent, E, o)) = Holding(Silent, "none", o2)
                      /\ ReadFrom(c, o2) = Reader(ds, NameBy(E, nm), s, ov, b, b, b)
            BY <3>2, EventRead
        <3> QED BY <3>1, <3>3
    <2>2. PICK r2 : r2 = ReadFrom(c, o2)
        OBVIOUS
    <2>3. /\ r2.data = ds /\ r2.name = x /\ r2.shown = s /\ r2.over = ov
          /\ r2.broken = No /\ r2.told = No
        BY <2>1, <2>2, ReaderParts
    <2>4. ASSUME NEW k \in Keys, PlainScripts
          PROVE  s[k] \o TextIn(ds, k) = Demask(Slice(script[k], 0, n[k]))
        <3>1. PICK held, told : held = P[k] /\ told = sh[k] \o TextIn(ds, k)
            OBVIOUS
        <3>2. sh[k] \in Readable /\ s[k] \in Readable /\ s[k] \o <<>> = s[k] /\ sh[k] \o <<>> = sh[k]
            BY <1>1, ConcatEmptySeq DEF Readable
        <3>3. CASE ds = <<>>
            <4>1. TextIn(ds, k) = <<>>
                BY <3>3 DEF TextIn
            <4>2. told = sh[k] /\ held \in Text /\ n[k] \in Nat /\ told \in Readable
                BY <1>1, <3>1, <3>2, <4>1
            <4>3. told \o Demask(held) = Demask(Slice(script[k], 0, n[k]))
                <5>1. PICK i : i = n[k]
                    OBVIOUS
                <5>2. Matched(k, held, told, i) /\ i \in Nat
                    BY <1>1, <3>1, <4>2, <5>1
                <5>3. told \o Demask(held) = Demask(Slice(script[k], 0, i))
                    BY <2>4, <4>2, <5>2, MatchedFlushed
                <5> QED BY <5>1, <5>3
            <4> QED BY <1>6, <3>1, <3>2, <4>1, <4>2, <4>3
        <3>4. CASE ds # <<>>
            <4>1. P[k] = <<>> /\ s[k] = sh[k] /\ Len(<<>>) = 0 /\ n[k] \in Nat
                BY <1>6, <3>2, <3>4, DemaskNothing
            <4>2. Matched(k, <<>>, told, n[k])
                BY <1>1, <3>1, <4>1
            <4>3. told = Demask(Slice(script[k], 0, n[k]))
                BY <2>4, <4>1, <4>2 DEF Matched
            <4> QED BY <3>1, <4>1, <4>3
        <3> QED BY <3>3, <3>4
    <2>5. Finished(r2, cut, n)
        <3>1. r2 = Reader(r2.data, r2.name, r2.shown, r2.over, No, r2.broken, r2.told)
            BY <2>1, <2>2, <2>3
        <3>2. r2.data # <<>> \/ r2.broken => cut
            <4>1. ~No
                BY DEF No
            <4>2. ds # <<>> => cut
                BY DEF ds, CutOnly
            <4> QED BY <2>3, <4>1, <4>2
        <3>3. OneLine(r2.data)
            BY <1>1, <2>3
        <3>4. ASSUME NEW k \in Keys
              PROVE  /\ PlainScripts =>
                            r2.shown[k] \o TextIn(r2.data, k) = Demask(Slice(script[k], 0, n[k]))
                     /\ k \in r2.over => TextIn(r2.data, k) = <<>> /\ n[k] = Len(script[k])
            BY <1>1, <2>3, <2>4
        <3> QED BY <1>1, <2>3, <3>1, <3>2, <3>3, <3>4 DEF Finished
    <2> QED BY <1>4, <2>1, <2>2, <2>5
<1>7. CASE ds # <<>> /\ ReadFrom(c, o) = Reader(<<>>, "none", s, ov, No, Yes, No)
    <2>1. PICK o2, x :
              /\ o2 \in Output
              /\ FlushEvent(Holding(Silent, E, o)) = Holding(Silent, "none", o2)
              /\ ReadFrom(c, o2) = Reader(<<>>, x, s, ov, No, Yes, No)
        <3>1. PICK nil, y, x : nil = <<>> /\ y = Yes /\ x = NameBy(E, "none")
            OBVIOUS
        <3>2. o \in Output /\ ReadFrom(c, o) = Reader(nil, "none", s, ov, No, y, No)
            BY <1>4, <1>7, <3>1
        <3>3. \E o2 : /\ o2 \in Output
                      /\ FlushEvent(Holding(Silent, E, o)) = Holding(Silent, "none", o2)
                      /\ ReadFrom(c, o2) = Reader(nil, NameBy(E, "none"), s, ov, No, y, No)
            BY <3>2, EventRead
        <3> QED BY <3>1, <3>3
    <2>2. PICK r2 : r2 = ReadFrom(c, o2)
        OBVIOUS
    <2>3. /\ r2.data = <<>> /\ r2.name = x /\ r2.shown = s /\ r2.over = ov
          /\ r2.broken = Yes /\ r2.told = No
        BY <2>1, <2>2, ReaderParts
    <2>4. Finished(r2, cut, n)
        <3>1. r2 = Reader(r2.data, r2.name, r2.shown, r2.over, No, r2.broken, r2.told)
            BY <2>1, <2>2, <2>3
        <3>2. cut /\ r2.broken
            <4>1. Yes
                BY DEF Yes
            <4>2. ds # <<>> => cut
                BY DEF ds, CutOnly
            <4> QED BY <1>7, <2>3, <4>1, <4>2
        <3> QED BY <1>1, <2>3, <3>1, <3>2 DEF Finished, OneLine
    <2> QED BY <1>4, <2>1, <2>2, <2>4
<1> QED BY <1>5, <1>6, <1>7

\* The error event ends a frame that is open, and tells of the failure otherwise.
LEMMA ErrorFinishes ==
    ASSUME NEW c, NEW o, NEW cut, NEW n, o \in Output, Finished(ReadFrom(c, o), cut, n)
    PROVE  Finished(ReadFrom(c, o \o ErrorEvent), cut, n)
<1>1. PICK r : r = ReadFrom(c, o)
    OBVIOUS
<1> DEFINE ds == r.data
           sh == r.shown
           ov == r.over
           br == r.broken
           tl == r.told
<1>2. /\ r = Reader(ds, r.name, sh, ov, No, br, tl)
      /\ OneLine(ds)
      /\ sh \in [Keys -> Readable] /\ ov \in SUBSET Keys
      /\ ds # <<>> \/ br => cut
      /\ ~br => \A k \in Keys :
            /\ PlainScripts => sh[k] \o TextIn(ds, k) = Demask(Slice(script[k], 0, n[k]))
            /\ k \in ov => TextIn(ds, k) = <<>> /\ n[k] = Len(script[k])
    BY <1>1 DEF Finished
<1> HIDE DEF ds, sh, ov, br, tl
<1>3. PICK event, error, blank : event = Event("error") /\ error = Line("error") /\ blank = Line("blank")
    OBVIOUS
<1>4. event \in Lines /\ error \in Lines /\ blank \in Lines /\ error.type = "error"
    BY <1>3, LinesAre
<1>5. o \o ErrorEvent = Append(Append(Append(o, event), error), blank)
    <2>1. ErrorEvent = <<event, error, blank>>
        BY <1>3 DEF ErrorEvent
    <2>2. o \o <<event, error, blank>> = Append(Append(Append(o, event), error), blank)
        BY <1>4 DEF Output
    <2> QED BY <2>1, <2>2
<1>6. /\ Append(o, event) \in Output
      /\ ReadFrom(c, Append(o, event)) = Reader(ds, "error", sh, ov, No, br, tl)
    <2>1. Append(o, event) \in Output /\ ReadFrom(c, Append(o, event)) = Read(r, event)
        BY <1>1, <1>4, ReadNext
    <2> QED BY <1>2, <1>3, <2>1, ReadLine
<1>7. /\ Append(Append(o, event), error) \in Output
      /\ ReadFrom(c, Append(Append(o, event), error))
             = Reader(Append(ds, error), "error", sh, ov, No, br, tl)
    <2>1. /\ Append(Append(o, event), error) \in Output
          /\ ReadFrom(c, Append(Append(o, event), error))
                 = Read(Reader(ds, "error", sh, ov, No, br, tl), error)
        BY <1>4, <1>6, ReadNext
    <2>2. error.type \notin {"blank", "event", "comment"}
        BY <1>4
    <2> QED BY <2>1, <2>2, ReadLine
<1>8. ReadFrom(c, o \o ErrorEvent) = Dispatch(Reader(Append(ds, error), "error", sh, ov, No, br, tl))
    <2>1. ReadFrom(c, o \o ErrorEvent) = Read(Reader(Append(ds, error), "error", sh, ov, No, br, tl), blank)
        BY <1>4, <1>5, <1>7, ReadNext
    <2> QED BY <1>3, <2>1, ReadLine
<1>9. PICK r2 : r2 = ReadFrom(c, o \o ErrorEvent)
    OBVIOUS
<1>10. CASE ds = <<>>
    <2>1. Append(ds, error) = Only(error)
        BY <1>10, NothingWritten
    <2>2. r2 = Reader(<<>>, "none", ShownBy(error, sh), OverBy(error, ov), LateBy(error, ov, No), br,
                      ToldBy(error, tl))
        BY <1>4, <1>8, <1>9, <2>1, BlankAfterOne
    <2>3. /\ ShownBy(error, sh) = sh /\ OverBy(error, ov) = ov
          /\ LateBy(error, ov, No) = No /\ ToldBy(error, tl) = Yes
        BY <1>4 DEF ShownBy, OverBy, LateBy, ToldBy
    <2>4. r2 = Reader(<<>>, "none", sh, ov, No, br, Yes)
        BY <2>2, <2>3
    <2>5. r2.data = ds /\ r2.shown = sh /\ r2.over = ov /\ r2.broken = br
        BY <1>10, <2>4, ReaderParts
    <2>6. r2 = Reader(r2.data, r2.name, r2.shown, r2.over, No, r2.broken, r2.told)
        BY <2>4, ReaderParts
    <2> QED BY <1>2, <1>9, <2>5, <2>6 DEF Finished
<1>11. CASE ds # <<>>
    <2>1. ds \in Output
        <3>1. \A line \in Lines : Only(line) \in Output
            BY DEF Only, Output
        <3> QED BY <1>2, <1>11, <3>1 DEF OneLine
    <2>2. r2 = Reader(<<>>, "none", sh, ov, No, Yes, tl)
        BY <1>4, <1>8, <1>9, <1>11, <2>1, BlankAfterTwo
    <2>3. r2.data = <<>> /\ r2.shown = sh /\ r2.over = ov /\ r2.broken
        <3>1. PICK nil, y, nm, l : nil = <<>> /\ y = Yes /\ nm = "none" /\ l = No
            OBVIOUS
        <3>2. r2 = Reader(nil, nm, sh, ov, l, y, tl)
            BY <2>2, <3>1
        <3>3. r2.data = nil /\ r2.shown = sh /\ r2.over = ov /\ r2.broken = y
            BY <3>2, ReaderParts
        <3>4. Yes
            BY DEF Yes
        <3> QED BY <3>1, <3>3, <3>4
    <2>4. r2 = Reader(r2.data, r2.name, r2.shown, r2.over, No, r2.broken, r2.told)
        BY <2>2, ReaderParts
    <2> QED BY <1>2, <1>9, <1>11, <2>3, <2>4 DEF Finished, OneLine
<1> QED BY <1>9, <1>10, <1>11

\* A data line cut short is passed on as it is.
LEMMA HandlesBad ==
    ASSUME NEW f, NEW P, NEW E, NEW c, NEW n, NEW st, f # "data", Between(f, E, c, P, n, st)
    PROVE  \E o :
              /\ o \in Output
              /\ HandleLine(Holding(P, E, <<>>), Line("bad")) = Holding(P, "none", o)
              /\ Told(ReadFrom(c, o), P, n) /\ ReadFrom(c, o).data # <<>>
<1> DEFINE sh == c.shown
           ov == c.over
<1>1. c.data = <<>> /\ c.name = "none" /\ E \in {"none", "delta", "stop"}
    BY DEF Between, InStep
<1>2. /\ c = Reader(<<>>, "none", sh, ov, No, No, No)
      /\ sh \in [Keys -> Readable] /\ ov \in SUBSET Keys /\ P \in [Keys -> Text]
      /\ \A k \in Keys :
            /\ Matched(k, P[k], sh[k] \o TextIn(<<>>, k), n[k])
            /\ Brief(P[k])
            /\ k \in ov => P[k] = <<>> /\ n[k] = Len(script[k])
    BY <1>1 DEF Between, Told
<1> HIDE DEF sh, ov
<1>3. PICK bad : bad = Line("bad")
    OBVIOUS
<1>4. bad \in Lines /\ bad.type = "bad"
    BY <1>3, LinesAre
<1>5. PICK nm, nil : nm = NameBy(E, "none") /\ nil = <<>>
    OBVIOUS
<1>6. PICK o : /\ o \in Output
               /\ FlushEvent(Holding(P, E, nil)) = Holding(P, "none", o)
               /\ ReadFrom(c, o) = Reader(nil, nm, sh, ov, No, No, No)
    <2>1. nil \in Output /\ ReadFrom(c, nil) = Reader(nil, "none", sh, ov, No, No, No)
        BY <1>2, <1>5, NothingWritten
    <2> QED BY <1>1, <1>5, <2>1, EventRead
<1>7. PICK o2 \in Output :
          /\ Emit(Holding(P, "none", o), bad) = Holding(P, "none", o2)
          /\ ReadFrom(c, o2) = Reader(Only(bad), nm, sh, ov, No, No, No)
    <2>1. bad.type \notin {"blank", "event", "comment"}
        BY <1>4
    <2>2. /\ Append(o, bad) \in Output
          /\ Emit(Holding(P, "none", o), bad) = Holding(P, "none", Append(o, bad))
          /\ ReadFrom(c, Append(o, bad)) = Reader(Append(nil, bad), nm, sh, ov, No, No, No)
        <3>1. PICK e, b : e = "none" /\ b = No
            OBVIOUS
        <3>2. o \in Output /\ bad \in Lines /\ ReadFrom(c, o) = Reader(nil, nm, sh, ov, b, b, b)
            BY <1>4, <1>6, <3>1
        <3>3. /\ Append(o, bad) \in Output
              /\ Emit(Holding(P, e, o), bad) = Holding(P, e, Append(o, bad))
              /\ ReadFrom(c, Append(o, bad)) = Reader(Append(nil, bad), nm, sh, ov, b, b, b)
            BY <2>1, <3>2, LineRead
        <3> QED BY <3>1, <3>3
    <2>3. Append(nil, bad) = Only(bad)
        BY <1>5, NothingWritten
    <2> QED BY <2>2, <2>3
<1>8. HandleLine(Holding(P, E, <<>>), bad) = Holding(P, "none", o2)
    <2>1. HandleLine(Holding(P, E, <<>>), bad) = Emit(FlushEvent(Holding(P, E, <<>>)), bad)
        BY <1>3, Handles
    <2> QED BY <1>5, <1>6, <1>7, <2>1
<1>9. PICK r : r = ReadFrom(c, o2)
    OBVIOUS
<1>10. r.data = Only(bad) /\ r.name = nm /\ r.shown = sh /\ r.over = ov
    BY <1>7, <1>9, ReaderParts
<1>11. Only(bad) # <<>> /\ Only(bad)[1] = bad
    BY DEF Only
<1>12. Told(r, P, n)
    <2>1. r = Reader(r.data, r.name, r.shown, r.over, No, No, No)
        BY <1>7, <1>9, <1>10
    <2>2. \A k \in Keys : TextIn(r.data, k) = <<>> /\ TextIn(<<>>, k) = <<>>
        BY <1>4, <1>10, <1>11 DEF TextIn
    <2>3. r.data = Only(r.data[1]) /\ r.data[1] \in Lines
        BY <1>4, <1>10, <1>11
    <2> QED BY <1>2, <1>10, <2>1, <2>2, <2>3 DEF Told, OneLine
<1> QED BY <1>3, <1>8, <1>9, <1>10, <1>11, <1>12

\* What the demasker and the client are when the last line has been handled.
Handled(d, P, E, O, n) ==
    /\ d = Holding(P, E, O) /\ E \in {"none", "delta", "stop"} /\ O \in Output
    /\ Told(ReadFrom(client, O), P, n)
    /\ ReadFrom(client, O).data = <<>> => ReadFrom(client, O).name = "none"
    /\ ReadFrom(client, O).data # <<>> => lineBuf # NoLine \/ frame # "none"

LEMMA AfterIsHandled ==
    ASSUME NEW d, NEW f, NEW n, NEW st, lineBuf # NoLine, After(d, client, f, n, st)
    PROVE  \E P, E, O : Handled(d, P, E, O, n)
<1>1. PICK P, E : \E O \in Output : d = Holding(P, E, O) /\ Between(f, E, ReadFrom(client, O), P, n, st)
    BY DEF After
<1>2. PICK O \in Output : d = Holding(P, E, O) /\ Between(f, E, ReadFrom(client, O), P, n, st)
    BY <1>1
<1>3. PICK r : r = ReadFrom(client, O)
    OBVIOUS
<1>4. Between(f, E, r, P, n, st)
    BY <1>2, <1>3
<1>5. E \in {"none", "delta", "stop"} /\ (r.data = <<>> => r.name = "none") /\ Told(r, P, n)
    BY <1>4 DEF Between, InStep
<1>6. Handled(d, P, E, O, n)
    BY <1>2, <1>3, <1>5 DEF Handled
<1> QED BY <1>6

LEMMA LastLine ==
    ASSUME SseInv, ~ended, NEW line, line \in Remains
    PROVE  /\ HandledBy(line) \in [Keys -> Nat]
           /\ line = NoLine => \E P, E, O : Handled(Demasker, P, E, O, HandledBy(line))
           /\ line # NoLine =>
                 \E P, E, O : Handled(HandleLine(Demasker, line), P, E, O, HandledBy(line))
<1>1. /\ script \in Scripts /\ stopped \in SUBSET Keys /\ handled \in [Keys -> Nat]
      /\ LineInProgress /\ Between(frame, eventHeld, client, pending, handled, stopped)
    BY DEF SseInv, Running
<1>2. Demasker = Holding(pending, eventHeld, <<>>)
    BY DEF Demasker, Holding
<1>3. CASE line = NoLine /\ lineBuf = NoLine
    <2>1. line.type # "delta"
        BY <1>3, LinesAre DEF NoLine
    <2>2. HandledBy(line) = handled
        BY <2>1 DEF HandledBy
    <2>3. eventHeld \in {"none", "delta", "stop"}
          /\ (client.data = <<>> => client.name = "none") /\ (client.data # <<>> => frame # "none")
        BY <1>1 DEF Between, InStep
    <2>4. Told(client, pending, handled)
        BY <1>1 DEF Between
    <2>5. PICK nil : nil = <<>>
        OBVIOUS
    <2>6. nil \in Output /\ ReadFrom(client, nil) = client
        BY <2>5, NothingWritten
    <2>7. Demasker = Holding(pending, eventHeld, nil)
        BY <1>2, <2>5
    <2>8. Handled(Demasker, pending, eventHeld, nil, handled)
        BY <2>3, <2>4, <2>6, <2>7 DEF Handled
    <2> QED BY <1>1, <1>3, <2>2, <2>8
<1>4. CASE lineBuf # NoLine /\ line = lineBuf
    <2>1. PICK n : n = HandledBy(line)
        OBVIOUS
    <2>2. PICK d : d = HandleLine(Demasker, line)
        OBVIOUS
    <2>3. PICK f, st : n \in [Keys -> Nat] /\ After(d, client, f, n, st)
        BY <1>4, <2>1, <2>2, HandlesLine
    <2>4. \E P, E, O : Handled(d, P, E, O, n)
        BY <1>4, <2>3, AfterIsHandled
    <2> QED BY <1>4, <2>1, <2>2, <2>3, <2>4
<1>5. CASE lineBuf # NoLine /\ line = CutShort(lineBuf)
    <2>1. /\ line \in {Line("comment"), Line("bad")}
          /\ line = Line("comment") => lineBuf.type \in {"event", "comment"}
        <3>1. Line("bad") # Line("comment")
            BY LinesAre
        <3> QED BY <1>5, <3>1 DEF CutShort
    <2>2. line.type # "delta" /\ line # NoLine
        BY <2>1, LinesAre DEF NoLine
    <2>3. HandledBy(line) = handled
        BY <2>2 DEF HandledBy
    <2>4. frame # "data"
        BY <1>1, <1>5 DEF LineInProgress, Named
    <2>5. PICK d : d = HandleLine(Demasker, line)
        OBVIOUS
    <2>6. CASE line = Line("comment")
        <3>1. frame = "none"
            <4>1. lineBuf.type \in {"event", "comment"}
                BY <2>1, <2>6
            <4>2. Line("done").type \notin {"event", "comment"}
                BY LinesAre
            <4> QED BY <1>1, <1>5, <4>1, <4>2 DEF LineInProgress
        <3>2. After(HandleLine(Holding(pending, eventHeld, <<>>), Line("comment")), client, "none",
                    handled, stopped)
            BY <1>1, <3>1, HandlesComment
        <3>3. PICK f : f = "none"
            OBVIOUS
        <3>4. After(d, client, f, handled, stopped)
            BY <1>2, <2>5, <2>6, <3>2, <3>3
        <3>5. \E P, E, O : Handled(d, P, E, O, handled)
            BY <1>5, <3>4, AfterIsHandled
        <3> QED BY <1>1, <2>2, <2>3, <2>5, <3>5
    <2>7. CASE line = Line("bad")
        <3>1. PICK O : /\ O \in Output
                       /\ HandleLine(Holding(pending, eventHeld, <<>>), Line("bad"))
                              = Holding(pending, "none", O)
                       /\ Told(ReadFrom(client, O), pending, handled) /\ ReadFrom(client, O).data # <<>>
            BY <1>1, <2>4, HandlesBad
        <3>2. PICK e : e = "none"
            OBVIOUS
        <3>3. d = Holding(pending, e, O)
            BY <1>2, <2>5, <2>7, <3>1, <3>2
        <3>4. Handled(d, pending, e, O, handled)
            BY <1>5, <3>1, <3>2, <3>3 DEF Handled
        <3> QED BY <1>1, <2>2, <2>3, <2>5, <3>4
    <2> QED BY <2>1, <2>6, <2>7
<1> QED BY <1>3, <1>4, <1>5 DEF Remains

\* The text of the frame in progress.
TextOf(data, k) ==
    FlattenSeq([i \in 1..Len(data) |-> IF data[i].type = "delta" THEN data[i].texts[k] ELSE <<>>])

LEMMA InFrameIs ==
    ASSUME NEW k, NEW data, k \in Keys, OneLine(data)
    PROVE  TextOf(data, k) = TextIn(data, k)
<1>1. CASE data = <<>>
    <2>1. Len(data) = 0
        BY <1>1
    <2>2. TextOf(data, k) = FlattenSeq(<<>>)
        BY <1>1, <2>1 DEF TextOf
    <2>3. <<>> \in Readable
        BY EmptySeq DEF Readable
    <2> QED BY <1>1, <2>2, <2>3, FlattenedFew DEF TextIn, Readable
<1>2. CASE data # <<>>
    <2>0. data = Only(data[1]) /\ data[1] \in Lines
        BY <1>2 DEF OneLine
    <2>1. PICK line : line = data[1]
        OBVIOUS
    <2>2. PICK v : v = IF line.type = "delta" THEN line.texts[k] ELSE <<>>
        OBVIOUS
    <2>3. v \in Readable
        <3>1. line.type = "delta" => line.texts \in [Keys -> Readable]
            BY <2>0, <2>1 DEF Lines, Line, Delta, Event, Stop
        <3> QED BY <2>2, <3>1, EmptySeq DEF Readable
    <2>4. Len(data) = 1
        BY <2>0 DEF Only
    <2>5. [i \in 1..Len(data) |->
              IF data[i].type = "delta" THEN data[i].texts[k] ELSE <<>>] = <<v>>
        <3>1. \A i \in 1..Len(data) :
                  (IF data[i].type = "delta" THEN data[i].texts[k] ELSE <<>>) = v
            BY <2>1, <2>2, <2>4
        <3>2. \A i \in 1..1 : i = 1
            OBVIOUS
        <3> QED BY <2>4, <3>1
    <2>6. FlattenSeq(<<v>>) = v
        BY <2>3, FlattenedFew DEF Readable
    <2>7. TextOf(data, k) = v
        BY <2>5, <2>6 DEF TextOf
    <2> QED BY <1>2, <2>1, <2>2, <2>7 DEF TextIn
<1> QED BY <1>1, <1>2

\* The body stream ends.
LEMMA CloseKeeps ==
    ASSUME SseInv, NEW how \in {"ended", "failed"}, NEW lastWords \in {<<>>, ErrorEvent},
           StreamCloses(how, lastWords)
    PROVE  SseInv'
<1>1. ~ended /\ script \in Scripts /\ stopped \in SUBSET Keys /\ upstream = how
    BY DEF StreamCloses, SseInv
<1>2. /\ anthropic' = anthropic /\ script' = script /\ upstream' = how /\ stopped' = stopped /\ ended'
      /\ frame' = IF lineBuf = NoLine THEN frame ELSE "cut"
    BY DEF StreamCloses
<1>3. PICK line : /\ line \in Remains /\ Took(line)
                  /\ Becomes([Flush(Demasker, line) EXCEPT !.out = Flush(Demasker, line).out \o lastWords])
    BY DEF StreamCloses
<1>4. PICK n, d : n = HandledBy(line) /\ d = IF line = NoLine THEN Demasker ELSE HandleLine(Demasker, line)
    OBVIOUS
<1>5. handled' = n
    BY <1>3, <1>4 DEF Took, HandledBy
<1>6. n \in [Keys -> Nat] /\ \E P, E, O : Handled(d, P, E, O, n)
    BY <1>1, <1>3, <1>4, LastLine
<1>7. PICK P, E, O : Handled(d, P, E, O, n)
    BY <1>6
<1>8. PICK r : r = ReadFrom(client, O)
    OBVIOUS
<1>9. /\ d = Holding(P, E, O) /\ E \in {"none", "delta", "stop"} /\ O \in Output
      /\ Told(r, P, n)
      /\ r.data = <<>> => r.name = "none"
      /\ r.data # <<>> => lineBuf # NoLine \/ frame # "none"
    BY <1>7, <1>8 DEF Handled
<1>10. PICK cut : cut = (lineBuf # NoLine \/ frame # "none")
    OBVIOUS
<1>11. PICK o : /\ o \in Output
                /\ FlushEvent(FlushKeys(d, Keys)) = Holding(Silent, "none", o)
                /\ Finished(ReadFrom(client, o), cut, n)
    <2>1. PICK c : c = client
        OBVIOUS
    <2>2. /\ r = ReadFrom(c, O) /\ script \in Scripts /\ E \in {"none", "delta", "stop"} /\ O \in Output
          /\ n \in [Keys -> Nat] /\ Told(r, P, n)
        BY <1>1, <1>6, <1>8, <1>9, <2>1
    <2>3. CutOnly(r, cut)
        BY <1>9, <1>10 DEF CutOnly
    <2>4. PICK h : h = Holding(P, E, O)
        OBVIOUS
    <2>5. \E o : /\ o \in Output
                 /\ FlushEvent(FlushKeys(Holding(P, E, O), Keys)) = Holding(Silent, "none", o)
                 /\ Finished(ReadFrom(c, o), cut, n)
        BY <2>2, <2>3, <2>4, FlushFinishes
    <2> QED BY <1>9, <2>1, <2>5
<1>12. Flush(Demasker, line) = Holding(Silent, "none", o)
    BY <1>4, <1>11 DEF Flush
<1>13. /\ pending' = Silent /\ eventHeld' = "none"
       /\ client' = ReadFrom(client, o \o lastWords)
    <2>1. PICK words : words = o \o lastWords
        OBVIOUS
    <2>2. PICK h : h = Flush(Demasker, line)
        OBVIOUS
    <2>3. h.out = o /\ [h EXCEPT !.out = words] = Holding(Silent, "none", words)
        BY <1>12, <2>2, HoldingParts
    <2>4. Becomes(Holding(Silent, "none", words))
        BY <1>3, <2>1, <2>2, <2>3
    <2> QED BY <2>1, <2>4, HoldingParts DEF Becomes
<1>14. Finished(client', cut, n)
    <2>1. CASE lastWords = <<>>
        <3>1. o \o <<>> = o
            BY ConcatEmptySeq DEF Output
        <3> QED BY <1>11, <1>13, <2>1, <3>1
    <2>2. CASE lastWords = ErrorEvent
        BY <1>11, <1>13, <2>2, ErrorFinishes
    <2> QED BY <2>1, <2>2
<1>15. cut => frame' # "none"
    BY <1>2, <1>10
<1>16. HeldBackBriefly'
    BY <1>13 DEF HeldBackBriefly, Silent
<1>17. FramesIntact'
    BY <1>2, <1>14, <1>15 DEF Finished, FramesIntact
<1>18. ~client'.late
    <2>1. client'.late = No
        BY <1>14, ReaderParts DEF Finished
    <2> QED BY <2>1 DEF No
<1>19. ASSUME NEW k \in Keys PROVE InFrame(k)' = TextIn(client'.data, k)
    <2>1. OneLine(client'.data)
        BY <1>14 DEF Finished
    <2> QED BY <2>1, InFrameIs DEF InFrame, TextOf
<1>20. ASSUME PlainScripts PROVE ShownIsDemasked' /\ EndsAreFinal'
    <2>1. ASSUME NEW k \in Keys, ~client'.broken
          PROVE  /\ client'.shown[k] \o InFrame(k)' \o Demask(pending'[k]) = Demask(Slice(script[k], 0, n[k]))
                 /\ k \in client'.over => client'.shown[k] = Demask(script[k])
        <3>1. /\ client'.shown[k] \o TextIn(client'.data, k) = Demask(Slice(script[k], 0, n[k]))
              /\ k \in client'.over => TextIn(client'.data, k) = <<>> /\ n[k] = Len(script[k])
              /\ client'.shown[k] \in Readable
            BY <1>14, <1>20, <2>1 DEF Finished
        <3>2. script[k] \in Text /\ n[k] \in Nat
            BY <1>1, <1>6, ScriptText
        <3>3. Demask(pending'[k]) = <<>>
            BY <1>13, DemaskNothing DEF Silent
        <3>4. n[k] <= Len(script[k])
            <4>1. Matched(k, P[k], r.shown[k] \o TextIn(r.data, k), n[k])
                BY <1>9 DEF Told
            <4> QED BY <4>1 DEF Matched
        <3>5. Demask(Slice(script[k], 0, n[k])) \in Readable
            <4>1. Len(script[k]) \in Nat
                BY <1>1, ScriptText
            <4>2. PICK t, i : t = script[k] /\ i = n[k]
                OBVIOUS
            <4>3. Slice(t, 0, i) \in Text
                BY <3>2, <3>4, <4>1, <4>2, SliceOf
            <4> QED BY <4>2, <4>3, DemaskReadable
        <3>6. Demask(Slice(script[k], 0, n[k])) \o <<>> = Demask(Slice(script[k], 0, n[k]))
              /\ client'.shown[k] \o <<>> = client'.shown[k]
            BY <3>1, <3>5, ConcatEmptySeq DEF Readable
        <3>7. client'.shown[k] \o InFrame(k)' \o Demask(pending'[k]) = Demask(Slice(script[k], 0, n[k]))
            BY <1>19, <3>1, <3>3, <3>6
        <3>8. Slice(script[k], 0, Len(script[k])) = script[k]
            BY <3>2, SliceFull
        <3> QED BY <3>1, <3>6, <3>7, <3>8
    <2>2. ShownIsDemasked'
        <3>1. \A k \in Keys : Received(k)' = Slice(script[k], 0, n[k])
            BY <1>2, <1>5, SliceFirst DEF Received
        <3> QED BY <2>1, <3>1 DEF ShownIsDemasked
    <2>3. EndsAreFinal'
        <3>1. client'.over \in SUBSET Keys
            BY <1>14 DEF Finished
        <3> QED BY <1>2, <1>18, <2>1, <3>1 DEF EndsAreFinal
    <2> QED BY <2>2, <2>3
<1>21. upstream' # "open"
    BY <1>2
<1>22. Final'
    BY <1>17, <1>18, <1>20, <1>21 DEF Final
<1> QED BY <1>1, <1>2, <1>5, <1>6, <1>16, <1>22 DEF SseInv

(***************************************************************************)
(* The theorems.                                                           *)
(***************************************************************************)

LEMMA SseInit == ASSUME Init PROVE SseInv
<1>1. /\ script \in Scripts /\ upstream = "open" /\ frame = "none" /\ stopped = {}
      /\ lineBuf = NoLine /\ handled = [k \in Keys |-> 0] /\ pending = Silent
      /\ eventHeld = "none" /\ ended = FALSE /\ client = NewClient
    BY DEF Init
<1>2. client = Reader(<<>>, "none", Silent, {}, No, No, No)
    BY <1>1 DEF NewClient, Reader, No
<1>3. /\ client.data = <<>> /\ client.name = "none" /\ client.shown = Silent /\ client.over = {}
    BY <1>2, ReaderParts
<1>4. Silent \in [Keys -> Readable] /\ Silent \in [Keys -> Text] /\ \A k \in Keys : Silent[k] = <<>>
    BY EmptySeq DEF Silent, Readable, Text
<1>5. ASSUME NEW k \in Keys PROVE Matched(k, <<>>, <<>> \o <<>>, 0)
    <2>1. script[k] \in Text /\ Len(script[k]) \in Nat
        BY <1>1, ScriptText
    <2>2. Slice(script[k], 0, 0) = <<>> /\ Len(<<>>) = 0 /\ <<>> \o <<>> = <<>>
        BY <2>1, SliceFull
    <2>3. Safe(script[k], 0)
        BY DEF Safe
    <2>4. 0 - 0 = 0 /\ 0 + 1 = 1
        OBVIOUS
    <2> QED BY <2>1, <2>2, <2>3, <2>4, DemaskNothing DEF Matched
<1>6. Told(client, pending, handled)
    <2>1. client = Reader(client.data, client.name, client.shown, client.over, No, No, No)
        BY <1>2, <1>3
    <2>2. ASSUME NEW k \in Keys
          PROVE  /\ Matched(k, pending[k], client.shown[k] \o TextIn(client.data, k), handled[k])
                 /\ Brief(pending[k])
                 /\ k \notin client.over
        <3>1. pending[k] = <<>> /\ client.shown[k] = <<>> /\ handled[k] = 0 /\ TextIn(client.data, k) = <<>>
            BY <1>1, <1>3, <1>4 DEF TextIn
        <3> QED BY <1>3, <1>5, <3>1 DEF Brief
    <2> QED BY <1>1, <1>3, <1>4, <2>1, <2>2 DEF Told, OneLine
<1>7. Between(frame, eventHeld, client, pending, handled, stopped)
    BY <1>1, <1>3, <1>6 DEF Between, InStep
<1>8. HeldBackBriefly
    BY <1>1, <1>4 DEF HeldBackBriefly
<1>9. handled \in [Keys -> Nat]
    BY <1>1
<1> QED BY <1>1, <1>7, <1>8, <1>9 DEF SseInv, Running, LineInProgress

LEMMA SseNext == ASSUME SseInv, [Next]_sseVars PROVE SseInv'
<1>1. CASE EventLineArrives BY <1>1, EventLineKeeps
<1>2. CASE CommentArrives BY <1>2, CommentKeeps
<1>3. CASE DeltaArrives BY <1>3, DeltaKeeps
<1>4. CASE DoneArrives BY <1>4, DoneKeeps
<1>5. CASE \E k \in Keys : StopArrives(k) BY <1>5, StopKeeps
<1>6. CASE NewlineArrives BY <1>6, NewlineKeeps
<1>7. CASE BlankArrives BY <1>7, BlankKeeps
<1>8. CASE UpstreamCloses("ended") \/ UpstreamCloses("failed") BY <1>8, UpstreamKeeps
<1>9. CASE Close
    <2>1. CASE StreamCloses("ended", <<>>) BY <2>1, CloseKeeps
    <2>2. CASE StreamCloses("failed", ErrorEvent) BY <2>2, CloseKeeps
    <2> QED BY <1>9, <2>1, <2>2 DEF Close
<1>10. CASE UNCHANGED sseVars
    <2>1. /\ anthropic' = anthropic /\ script' = script /\ upstream' = upstream /\ frame' = frame
          /\ stopped' = stopped /\ lineBuf' = lineBuf /\ handled' = handled /\ pending' = pending
          /\ eventHeld' = eventHeld /\ ended' = ended /\ client' = client
        BY <1>10 DEF sseVars
    <2>2. CASE ended
        <3>1. /\ Final /\ script \in Scripts /\ stopped \subseteq Keys /\ handled \in [Keys -> Nat]
              /\ HeldBackBriefly
            BY <2>2 DEF SseInv
        <3>2. Final'
            BY <2>1, <3>1 DEF Final, FramesIntact, ShownIsDemasked, EndsAreFinal, InFrame, Received
        <3> QED BY <2>1, <2>2, <3>1, <3>2 DEF SseInv, HeldBackBriefly
    <2>3. CASE ~ended
        <3>1. /\ script \in Scripts /\ stopped \subseteq Keys /\ handled \in [Keys -> Nat]
              /\ LineInProgress /\ Between(frame, eventHeld, client, pending, handled, stopped)
            BY <2>3 DEF SseInv, Running
        <3>2. Between(frame, eventHeld, client, pending, handled, stopped)' /\ HeldBackBriefly'
            BY <2>1, <3>1, BetweenNext
        <3>3. LineInProgress'
            BY <2>1, <3>1 DEF LineInProgress, Named, Following
        <3> QED BY <2>1, <2>3, <3>1, <3>2, <3>3 DEF SseInv, Running
    <2> QED BY <2>2, <2>3
<1> QED BY <1>1, <1>2, <1>3, <1>4, <1>5, <1>6, <1>7, <1>8, <1>9, <1>10 DEF Next

\* The invariant: where the provider, the demasker and the client are in a frame,
\* and how what is held back and what has been told make up what was handled
\* (handle_line, push_buffered, flush).
THEOREM SseInvHolds == Spec => []SseInv
<1>1. Init => SseInv
    BY SseInit
<1>2. SseInv /\ [Next]_sseVars => SseInv'
    BY SseNext
<1> QED BY <1>1, <1>2, PTL DEF Spec

\* What the demasker inserts never runs into a frame of the provider's, unless
\* the provider broke off inside one (flush_block, flush_pending, flush).
THEOREM SseFramesIntact == Spec => []FramesIntact
<1>1. SseInv => FramesIntact
    <2> SUFFICES ASSUME SseInv PROVE FramesIntact
        OBVIOUS
    <2>1. CASE ended
        BY <2>1 DEF SseInv, Final
    <2>2. CASE ~ended
        <3>1. client.broken = No
            BY <2>2, ReaderParts DEF SseInv, Running, Between, Told
        <3> QED BY <3>1 DEF FramesIntact, No
    <2> QED BY <2>1, <2>2
<1> QED BY <1>1, SseInvHolds, PTL

\* Only what may still become a placeholder is held back, and no more than
\* MaxHold symbols behind a bracket (split_demaskable).
THEOREM SseHeldBackBriefly == Spec => []HeldBackBriefly
<1>1. SseInv => HeldBackBriefly
    BY DEF SseInv
<1> QED BY <1>1, SseInvHolds, PTL

\* While the stream is open, and of a frame that has ended, nothing is missing.
LEMMA RunningShows ==
    ASSUME PlainScripts, SseInv, ~ended, NEW k \in Keys
    PROVE  /\ client.late = No
           /\ client.shown[k] \o InFrame(k) \o Demask(pending[k]) = Demask(Received(k))
           /\ k \in client.over => client.shown[k] = Demask(script[k])
<1>1. script \in Scripts /\ handled \in [Keys -> Nat] /\ Told(client, pending, handled)
    BY DEF SseInv, Running, Between
<1>2. PICK held, told, n : held = pending[k] /\ told = client.shown[k] \o TextIn(client.data, k)
                           /\ n = handled[k]
    OBVIOUS
<1>3. InFrame(k) = TextIn(client.data, k)
    <2>1. OneLine(client.data)
        BY <1>1 DEF Told
    <2> QED BY <2>1, InFrameIs DEF InFrame, TextOf
<1>4. /\ Matched(k, held, told, n) /\ held \in Text /\ n \in Nat /\ client.shown[k] \in Readable
      /\ k \in client.over => TextIn(client.data, k) = <<>> /\ held = <<>> /\ n = Len(script[k])
    BY <1>1, <1>2 DEF Told
<1>5. told \in Readable
    <2>1. client.data # <<>> => client.data[1] \in Lines
        BY <1>1 DEF Told, OneLine
    <2>2. client.data # <<>> /\ client.data[1].type = "delta" => client.data[1].texts \in [Keys -> Readable]
        BY <2>1 DEF Lines, Line, Delta, Event, Stop
    <2>3. TextIn(client.data, k) \in Readable
        BY <2>2, EmptySeq DEF TextIn, Readable
    <2> QED BY <1>2, <1>4, <2>3, ConcatProperties DEF Readable
<1>6. told \o Demask(held) = Demask(Slice(script[k], 0, n))
    BY <1>1, <1>4, <1>5, MatchedFlushed
<1>7. ASSUME k \in client.over PROVE client.shown[k] = Demask(script[k])
    <2>1. TextIn(client.data, k) = <<>> /\ Demask(held) = <<>> /\ n = Len(script[k])
        BY <1>4, <1>7, DemaskNothing
    <2>2. client.shown[k] \o <<>> = client.shown[k]
        BY <1>4, ConcatEmptySeq DEF Readable
    <2>3. Slice(script[k], 0, Len(script[k])) = script[k]
        <3>1. script[k] \in Text
            BY <1>1, ScriptText
        <3> QED BY <3>1, SliceFull
    <2> QED BY <1>2, <1>6, <2>1, <2>2, <2>3
<1>8. client.late = No
    BY <1>1, ReaderParts DEF Told
<1>9. Received(k) = Slice(script[k], 0, n)
    BY <1>2, SliceFirst DEF Received
<1> QED BY <1>2, <1>3, <1>6, <1>7, <1>8, <1>9

\* At every moment what the client has of a text, followed by what is held back
\* of it, is what de-masking all of it at once would give, if every placeholder
\* is short enough to be held back whole and padded with spaces only
\* (push_buffered, split_demaskable, flush_key).
THEOREM SseShowsDemasked == ASSUME PlainScripts PROVE Spec => []ShownIsDemasked
<1>1. SseInv => ShownIsDemasked
    <2> SUFFICES ASSUME SseInv PROVE ShownIsDemasked
        OBVIOUS
    <2>1. CASE ended
        BY <2>1 DEF SseInv, Final
    <2>2. CASE ~ended
        BY <2>2, RunningShows DEF ShownIsDemasked
    <2> QED BY <2>1, <2>2
<1> QED BY <1>1, SseInvHolds, PTL

\* No text comes after the stop of its block or after [DONE], and by then all of
\* it has come, of texts with such placeholders (flush_block, flush_pending).
THEOREM SseEndsAreFinal == ASSUME PlainScripts PROVE Spec => []EndsAreFinal
<1>1. SseInv => EndsAreFinal
    <2> SUFFICES ASSUME SseInv PROVE EndsAreFinal
        OBVIOUS
    <2>1. CASE ended
        BY <2>1 DEF SseInv, Final
    <2>2. CASE ~ended
        <3>1. client.over \in SUBSET Keys
            BY <2>2 DEF SseInv, Running, Between, Told
        <3>2. ~client.late
            <4>1. client.late = No
                BY <2>2, ReaderParts DEF SseInv, Running, Between, Told
            <4> QED BY <4>1 DEF No
        <3> QED BY <2>2, <3>1, <3>2, RunningShows DEF EndsAreFinal
    <2> QED BY <2>1, <2>2
<1> QED BY <1>1, SseInvHolds, PTL

=============================================================================
