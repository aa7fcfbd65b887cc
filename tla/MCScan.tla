------------------------------- MODULE MCScan -------------------------------
(***************************************************************************)
(* The published numbers of the tests in recognizers.rs, each by itself,   *)
(* between other groups and with every digit changed in turn, and the      *)
(* texts in which one value hides another.                                 *)
(***************************************************************************)
EXTENDS CandidateScan

\* The digits of n, k of them; a capital letter by its name.
Num(n, k) == [i \in 1..k |-> (n \div (10 ^ (k - i))) % 10]
Cap == [A |-> 10, B |-> 11, D |-> 13, E |-> 14, G |-> 16, I |-> 18, L |-> 21, M |-> 22, N |-> 23,
        P |-> 25, R |-> 27, S |-> 28, T |-> 29, X |-> 33, Z |-> 35]
Low(s) == [i \in DOMAIN s |-> IF s[i] \in 10..35 THEN s[i] + 100 ELSE s[i]]

Known ==
  {<<"card", Num(41111111, 8) \o Num(11111111, 8)>>,
   <<"card", Num(4111, 4) \o <<Space>> \o Num(1111, 4) \o <<Dash>> \o Num(1111, 4) \o <<Space>>
             \o Num(1111, 4)>>,
   <<"iban", <<Cap.D, Cap.E>> \o Num(89, 2) \o <<Space>> \o Num(3704, 4) \o <<Space>> \o Num(44, 4)
             \o <<Space>> \o Num(532, 4) \o <<Space>> \o Num(130, 4) \o <<Space>> \o Num(0, 2)>>,
   <<"iban", Low(<<Cap.I, Cap.T, 6, 0, Cap.X, 0, 5>>) \o Num(42811101, 8) \o Num(0, 6)
             \o Num(123456, 6)>>,
   <<"cf", <<Cap.R, Cap.S, Cap.S, Cap.M, Cap.R, Cap.A, 8, 5, Cap.T, 1, 0, Cap.A, 5, 6, 2, Cap.S>>>>,
   <<"dni", Num(12345678, 8) \o <<Cap.Z>>>>,
   <<"dni", <<Cap.X>> \o Num(1234567, 7) \o <<Cap.L>>>>,
   <<"nir", Num(18512751, 8) \o Num(1600174, 7)>>,
   <<"nine", Num(111222333, 9)>>,
   <<"resident", Num(11010519, 8) \o Num(49123100, 8) \o <<2, Cap.X>>>>,
   <<"piva", Num(9058, 6) \o Num(11006, 5)>>,
   <<"itVat", Low(<<Cap.I, Cap.T>>) \o Num(1595, 6) \o Num(60366, 5)>>,
   <<"deVat", <<Cap.D, Cap.E>> \o Num(136695976, 9)>>,
   <<"gbVat", <<Cap.G, Cap.B>> \o Num(220430231, 9)>>,
   <<"ptVat", <<Cap.P, Cap.T>> \o Num(524287244, 9)>>,
   <<"nlVat", <<Cap.N, Cap.L>> \o Num(111222333, 9) \o <<Cap.B, 0, 1>>>>}

Doc(before, k, after, genuine) ==
  [text |-> before \o k[2] \o after, from |-> Len(before) + 1, to |-> Len(before) + Len(k[2]) + 1,
   name |-> k[1], genuine |-> genuine]
Text(s) == [text |-> s, from |-> 0, to |-> 0, name |-> "none", genuine |-> FALSE]

\* One digit of a number changed. The national numbers whose check digits share a
\* value, and the dutch ending, are left as they are.
Changed(k, i) == <<k[1], [k[2] EXCEPT ![i] = (k[2][i] + 1) % 10]>>
Mistypes ==
  UNION {{Doc(<<>>, Changed(k, i), <<>>, FALSE) :
            i \in {i \in DOMAIN k[2] : IsDigit(k[2][i]) /\ (k[1] = "nlVat" => i < 12)}} :
         k \in {k \in Known : k[1] # "nine"}}

Digit(s) == <<Space>> \o s
Portuguese == Num(912, 3) \o Digit(Num(345, 3)) \o Digit(Num(678, 3))
Twins == Text(Portuguese \o Digit(Num(913, 3)) \o Digit(Num(456, 3)) \o Digit(Num(789, 3)))
Dump == Text(Low(<<Cap.A, Cap.B, 1, 2>>) \o Times(3, Digit(Low(<<Cap.A, Cap.B, 1, 2>>))))
Hidden ==
  {\* two Portuguese numbers, one space apart
   Twins,
   \* a card that starts inside a shifted window which is one too
   Text(Num(4111, 4) \o Digit(Num(1111, 4)) \o Digit(Num(1111, 4)) \o Digit(Num(1111, 4)) \o <<Dash>>
        \o Num(123, 3) \o <<Dash>> \o Num(45, 2) \o <<Dash>> \o Num(6789, 4) \o <<Dash>>
        \o Num(4111, 4) \o Digit(Num(1111, 4)) \o Digit(Num(1111, 4)) \o Digit(Num(1111, 4))),
   \* a hex dump, two groups of which look like the start of an account number
   Dump,
   \* a secret inside a secret, and a British and an international number
   Text(<<128, 120, Dash>> \o Num(123, 3) \o <<128, 120, Dash>> \o Num(456789, 6)),
   Text(Num(20, 3) \o Digit(Num(7946, 4)) \o Digit(Num(958, 4)) \o Digit(Num(161, 3))),
   Text(<<Plus>> \o Num(39, 2) \o Digit(Num(333, 3)) \o Digit(Num(1234, 4)) \o Digit(Num(12, 2))),
   Text(Num(123, 3) \o <<Dash>> \o Num(45, 2) \o <<Dash>> \o Num(6789, 4))}

MCDocuments ==
  Hidden \cup Mistypes
  \cup {Doc(before, k, after, TRUE) :
          k \in Known, before \in {<<>>, <<1, 2, Space>>}, after \in {<<>>, <<Space, 7>>}}

MCLater == {Twins, Dump}

\* Two codes that are no region's among them.
MCLocales == {"gb", "es", "pt", "zh", "us", "uk"}
MCAssigned == [gb |-> {Num(20, 3) \o Num(79460958, 8)}, es |-> {Num(345678913, 9)},
               pt |-> {Digits(Portuguese), Num(913456789, 9)}, cn |-> {},
               world |-> {Num(39333, 5) \o Num(1234, 4)}]
=============================================================================
