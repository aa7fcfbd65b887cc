----------------------------- MODULE Checksums -----------------------------
(***************************************************************************)
(* The check digits the structured recognizers verify                      *)
(* (src/pii/recognizers.rs, the *_valid functions).                        *)
(*                                                                         *)
(* A value is a sequence of characters. A digit is its number 0..9, an     *)
(* uppercase letter 10..35, a lowercase letter 110..135 and a separator    *)
(* 200 or more.                                                            *)
(***************************************************************************)
EXTENDS Naturals, Sequences, FiniteSets, SequencesExt

IsDigit(c)     == c < 10
IsLower(c)     == c \in 110..135
IsLetter(c)    == c \in 10..35 \/ IsLower(c)
IsSeparator(c) == c >= 200
Upper(c)       == IF IsLower(c) THEN c - 100 ELSE c
Letter(n)      == n + 9     \* the n-th letter of the alphabet

Digits(s) == SelectSeq(s, IsDigit)
Uppercase(s) == [i \in DOMAIN s |-> Upper(s[i])]

Weighted(s, weights) ==
  FoldLeftDomain(LAMBDA sum, i : sum + s[i] * weights[i], 0, weights)
Remainder(s, m) == FoldLeft(LAMBDA r, d : (10 * r + d) % m, 0, s)

\* Digits doubled in the places where Doubled holds, counted from 1.
Luhn(s, Doubled(_)) ==
  FoldLeftDomain(LAMBDA sum, i :
     sum + (IF ~Doubled(i) THEN s[i] ELSE IF 2 * s[i] > 9 THEN 2 * s[i] - 9 ELSE 2 * s[i]), 0, s)

-----------------------------------------------------------------------------
LuhnValid(s) ==
  LET d == Digits(s) IN d # <<>> /\ (Luhn(d, LAMBDA i : (Len(d) - i) % 2 = 1) % 10) = 0

CreditCardValid(s) == Len(Digits(s)) \in 13..19 /\ LuhnValid(s)

\* Mutant: an off-by-one in the places that are doubled.
ItPivaValidShifted(s) ==
  LET d == Digits(s) IN
  Len(d) = 11 /\ (10 - (Luhn(SubSeq(d, 1, 10), LAMBDA i : i % 2 = 1) % 10)) % 10 = d[11]

ItPivaValid(s) ==
  LET d == Digits(s) IN
  Len(d) = 11 /\ (10 - (Luhn(SubSeq(d, 1, 10), LAMBDA i : i % 2 = 0) % 10)) % 10 = d[11]

\* The country code and the check digits move behind the rest; a letter counts
\* for two digits.
IbanMod97(s) ==
  LET v == SelectSeq(Uppercase(s), LAMBDA c : ~IsSeparator(c))
      moved == SubSeq(v, 5, Len(v)) \o SubSeq(v, 1, 4)
  IN Len(v) >= 4 /\ FoldLeft(LAMBDA r, c : (r * (IF c >= 10 THEN 100 ELSE 10) + c) % 97, 0, moved) = 1

\* The length ISO 13616 gives a country's IBANs.
IbanCountryLength ==
  {<<10, 13, 24>>, <<10, 14, 23>>, <<10, 29, 20>>, <<11, 14, 16>>, <<11, 16, 22>>,
   <<12, 17, 21>>, <<12, 34, 28>>, <<12, 35, 24>>, <<13, 14, 22>>, <<13, 20, 18>>,
   <<14, 14, 20>>, <<14, 28, 24>>, <<15, 18, 18>>, <<15, 27, 27>>, <<16, 11, 22>>,
   <<16, 27, 27>>, <<17, 27, 21>>, <<17, 30, 28>>, <<18, 14, 22>>, <<18, 28, 26>>,
   <<18, 29, 27>>, <<21, 18, 21>>, <<21, 29, 20>>, <<21, 30, 20>>, <<21, 31, 21>>,
   <<22, 12, 27>>, <<22, 29, 31>>, <<23, 21, 18>>, <<23, 24, 15>>, <<25, 21, 28>>,
   <<25, 29, 25>>, <<27, 24, 24>>, <<28, 14, 24>>, <<28, 18, 19>>, <<28, 20, 24>>,
   <<28, 22, 27>>}

IbanLengthOk(s) ==
  LET v == SelectSeq(Uppercase(s), LAMBDA c : ~IsSeparator(c)) IN
  \/ Len(v) < 2
  \/ ~IsLetter(v[1]) \/ ~IsLetter(v[2])
  \/ \A e \in IbanCountryLength : <<e[1], e[2]>> = SubSeq(v, 1, 2) => e[3] = Len(v)

-----------------------------------------------------------------------------
\* TRWAGMYFPDXBNJZSQVHLCKE
EsControl == <<29, 27, 32, 10, 16, 22, 34, 15, 25, 13, 33, 11, 23, 19, 35, 28, 26, 31, 17, 21, 12,
               20, 14>>

EsDniNieValid(s) ==
  LET v == Uppercase(s)
      number == IF v[1] \in 33..35 THEN [v EXCEPT ![1] = v[1] - 33] ELSE v
  IN /\ Len(v) = 9
     /\ \A i \in 1..8 : IsDigit(number[i])
     /\ EsControl[Remainder(SubSeq(number, 1, 8), 23) + 1] = v[9]

FrNirValid(s) ==
  LET d == Digits(s) IN
  Len(d) = 15 /\ 97 - Remainder(SubSeq(d, 1, 13), 97) = 10 * d[14] + d[15]

CfOdd == <<1, 0, 5, 7, 9, 13, 15, 17, 19, 21, 2, 4, 18, 20, 11, 3, 6, 8, 12, 14, 16, 10, 22, 25, 24,
           23>>
CfEven(c) == IF IsDigit(c) THEN c ELSE c - 10

CfCheckValid(s) ==
  LET v == Uppercase(s) IN
  /\ Len(v) = 16
  /\ v[16] = 10 + (FoldLeftDomain(LAMBDA sum, i :
                     sum + (IF i % 2 = 1 THEN CfOdd[CfEven(v[i]) + 1] ELSE CfEven(v[i])), 0,
                     SubSeq(v, 1, 15)) % 26)

\* The weights are taken modulo 11: -1 is 10.
NlBsnValid(s) ==
  LET d == Digits(s) IN
  /\ Len(d) = 9
  /\ Weighted(d, <<9, 8, 7, 6, 5, 4, 3, 2>>) # d[9]
  /\ Weighted(d, <<9, 8, 7, 6, 5, 4, 3, 2, 10>>) % 11 = 0

PtNifValid(s) ==
  LET d == Digits(s)
      r == Weighted(d, <<9, 8, 7, 6, 5, 4, 3, 2>>) % 11
  IN Len(d) = 9 /\ d[9] = IF r < 2 THEN 0 ELSE 11 - r

NineDigitIdValid(s) == NlBsnValid(s) \/ PtNifValid(s)

\* ISO 7064 Mod 11,10 over all but the last digit.
Iso7064(d) ==
  LET product == FoldLeft(LAMBDA p, x : ((IF (x + p) % 10 = 0 THEN 10 ELSE (x + p) % 10) * 2) % 11,
                          10, Front(d))
  IN (11 - product) % 10 = Last(d)

DeVatValid(s) == LET d == Digits(s) IN Len(d) = 9 /\ Iso7064(d)

\* Exactly one digit is repeated among the first ten, at most three times and not
\* three times in a row.
DeSteueridValid(s) ==
  LET d == Digits(s)
      places(x) == {i \in 1..10 : d[i] = x}
      repeated == {x \in 0..9 : Cardinality(places(x)) >= 2}
  IN /\ Len(d) = 11 /\ d[1] # 0
     /\ Cardinality(repeated) = 1
     /\ \A x \in repeated : /\ Cardinality(places(x)) <= 3
                            /\ ~\E i \in 1..8 : {i, i + 1, i + 2} \subseteq places(x)
     /\ Iso7064(d)

\* The randomized form starts with 32 and has no check digit.
LvCodeValid(s) ==
  LET d == Digits(s) IN
  /\ Len(d) = 11
  /\ \/ d[1] = 3 /\ d[2] = 2
     \/ ((1 + 11 * 99 - Weighted(d, <<1, 6, 3, 7, 9, 10, 5, 8, 4, 2>>)) % 11) % 10 = d[11]

ElevenDigitIdValid(s) == DeSteueridValid(s) \/ LvCodeValid(s)

\* Two eras of the scheme, 55 apart.
GbVatValid(s) ==
  LET d == Digits(s)
      sum == Weighted(d, <<8, 7, 6, 5, 4, 3, 2>>)
  IN Len(d) = 9 /\ \E offset \in {0, 55} : 10 * d[8] + d[9] = (97 - ((sum + offset) % 97)) % 97

\* 10X98765432, where X is ten.
ZhResidentIdValid(s) ==
  LET v == Uppercase(s)
      table == <<1, 0, 33, 9, 8, 7, 6, 5, 4, 3, 2>>
  IN /\ Len(v) = 18
     /\ \A i \in 1..17 : IsDigit(v[i])
     /\ table[(Weighted(v, <<7, 9, 10, 5, 8, 4, 2, 1, 6, 3, 7, 9, 10, 5, 8, 4, 2>>) % 11) + 1] = v[18]

NinoPrefixValid(s) ==
  LET l == SelectSeq(Uppercase(s), IsLetter)
      DFIQUV == {13, 15, 18, 26, 30, 31}
  IN /\ Len(l) >= 2
     /\ l[1] \notin DFIQUV
     /\ l[2] \notin DFIQUV \cup {24}
     /\ SubSeq(l, 1, 2) \notin {<<11, 16>>, <<16, 11>>, <<20, 23>>, <<23, 20>>, <<23, 29>>,
                                <<29, 23>>, <<35, 35>>}

VatBody(s) == SubSeq(s, 3, Len(s))
=============================================================================
