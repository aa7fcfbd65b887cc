---------------------------- MODULE Recognizers ----------------------------
(***************************************************************************)
(* The structured recognizers (src/pii/recognizers.rs): the shape of what  *)
(* each can match and what each verifies. A shape is a sequence of         *)
(* segments, each a set of characters and how many of them.                *)
(***************************************************************************)
EXTENDS Checksums

CONSTANTS
    Locales,    \* the codes in PII_LOCALES, or Unset
    Unset,
    Assigned    \* plan |-> the numbers that are valid in it (phonenumber, external)

Space == 200
Dash  == 201
Dot   == 202
Plus  == 190

D  == 0..9
L  == 10..35 \cup 110..135
AN == D \cup L
Either(n) == {n, n + 100}       \* a letter in either case

Seg(chars, lo, hi) == <<[chars |-> chars, lo |-> lo, hi |-> hi]>>
Few(chars, n) == Seg(chars, n, n)
Times(n, shape) ==
  LET repeated[i \in 0..n] == IF i = 0 THEN <<>> ELSE repeated[i - 1] \o shape
  IN  repeated[n]

SeparatorRunMax == 4
Gap  == Seg({Space}, 1, SeparatorRunMax)
CGap == Seg({Space, Dash}, 1, SeparatorRunMax)
PGap == Seg({Space, Dash, Dot}, 1, SeparatorRunMax)

-----------------------------------------------------------------------------
Recognizer(name, kind, shapes, scan, shrink) ==
  [name |-> name, kind |-> kind, shapes |-> shapes, scan |-> scan, shrink |-> shrink]
Bounded(name, kind, shapes) == Recognizer(name, kind, shapes, "Overlapping", FALSE)

UniversalRecognizers ==
  <<Recognizer("secret", "Secret",
      {Few({128}, 1) \o Few({120}, 1) \o Few({Dash}, 1) \o Seg(AN \cup {Dash}, 6, 40),
       Few({10}, 1) \o Few({20}, 1) \o Few({18}, 1) \o Few({10}, 1) \o Few(0..35, 16)},
      "Sequential", FALSE),
    Recognizer("iban", "Iban",
      {Few(L, 2) \o Few(D, 2) \o Seg(AN, 11, 30)}
      \cup {Few(L, 2) \o Few(D, 2) \o Times(n, Gap \o Few(AN, 4)) : n \in 2..7}
      \cup {Few(L, 2) \o Few(D, 2) \o Times(n, Gap \o Few(AN, 4)) \o Gap \o Seg(AN, 1, 4) :
            n \in 2..7},
      "Overlapping", TRUE),
    Recognizer("card", "CreditCard",
      {Few(D, 4) \o Times(3, CGap \o Few(D, 4)),
       Few(D, 4) \o Times(3, CGap \o Few(D, 4)) \o CGap \o Seg(D, 1, 3),
       Few(D, 4) \o CGap \o Few(D, 6) \o CGap \o Seg(D, 4, 5),
       Seg(D, 13, 19)},
      "Overlapping", TRUE),
    Recognizer("international", "Phone",
      {Few({Plus}, 1) \o Seg(D, 1, 3) \o Times(n, PGap \o Seg(D, 1, 8)) : n \in 1..6}
      \cup {Few({Plus}, 1) \o Seg(D, 8, 15)},
      "Overlapping", TRUE)>>

NationalIdRecognizers ==
  <<Bounded("ssn", "Ssn", {Few(D, 3) \o Few({Dash}, 1) \o Few(D, 2) \o Few({Dash}, 1) \o Few(D, 4)}),
    Bounded("cf", "NationalId", {Few(L, 6) \o Few(D, 2) \o Few(L, 1) \o Few(D, 2) \o Few(L, 1)
                                 \o Few(D, 3) \o Few(L, 1)}),
    Bounded("nino", "NationalId",
      {Few(L, 2) \o Few(D, 6) \o Few(10..13 \cup 110..113, 1),
       Few(L, 2) \o Times(3, Gap \o Few(D, 2)) \o Gap \o Few(10..13 \cup 110..113, 1)}),
    Bounded("dni", "NationalId", {Few(33..35 \cup 133..135, 1) \o Few(D, 7) \o Few(L, 1),
                                  Few(D, 8) \o Few(L, 1)}),
    Bounded("nir", "NationalId",
      {Few({1, 2}, 1) \o Few(D, 2) \o month \o Few(D, 10) :
         month \in {Few({0}, 1) \o Few(1..9, 1), Few({1}, 1) \o Few(0..2, 1),
                    Few({2}, 1) \o Few({0}, 1), Few({3}, 1) \o Few(D, 1),
                    Few({4}, 1) \o Few(0..2, 1), Few(5..9, 1) \o Few(D, 1)}}),
    Bounded("nine", "NationalId", {Few(D, 9)}),
    Bounded("eleven", "NationalId", {Few(D, 11)}),
    Bounded("latvian", "NationalId", {Few(D, 6) \o Few({Dash}, 1) \o Few(D, 5)}),
    Bounded("resident", "NationalId", {Few(D, 17) \o Few(D \cup Either(33), 1)})>>

Vat(name, a, b) == Bounded(name, "TaxId", {Few(Either(a), 1) \o Few(Either(b), 1) \o Few(D, 9)})
VatRecognizers ==
  <<Bounded("piva", "TaxId", {Few(D, 11)}),
    Bounded("itVat", "TaxId", {Few(Either(18), 1) \o Few(Either(29), 1) \o Few(D, 11)}),
    Vat("deVat", 13, 14), Vat("gbVat", 16, 11), Vat("ptVat", 25, 29),
    Bounded("nlVat", "TaxId",
      {Few(Either(23), 1) \o Few(Either(21), 1) \o Few(D, 9) \o Few(Either(11), 1) \o Few(D, 2)})>>

PhoneShapeTemplates ==
  <<Recognizer("Trunk", "Phone",
      {Few({0}, 1) \o Seg(D, 1, 4) \o Times(2, PGap \o Seg(D, 3, 4)),
       Few({0}, 1) \o Seg(D, 1, 4) \o PGap \o Seg(D, 4, 8),
       Few({0}, 1) \o Seg(D, 6, 11)}, "Overlapping", FALSE),
    Recognizer("TrunkPairs", "Phone",
      {Few({0}, 1) \o Few(D, 1) \o Times(4, PGap \o Few(D, 2))}, "Overlapping", FALSE),
    Recognizer("Groups", "Phone",
      {Few(1..9, 1) \o Seg(D, 1, 2) \o Times(n, PGap \o Seg(D, 2, 4)) : n \in 1..3},
      "Overlapping", TRUE),
    Recognizer("LongBlock", "Phone",
      {Few(1..9, 1) \o Few(D, 2) \o PGap \o Seg(D, 6, 8)}, "Overlapping", TRUE)>>

Region(code, shapes) == [code |-> code, shapes |-> shapes]
PhoneRegions ==
  <<Region("de", {"Trunk"}), Region("es", {"Groups"}), Region("fr", {"Trunk", "TrunkPairs"}),
    Region("gb", {"Trunk"}), Region("it", {"Trunk", "Groups", "LongBlock"}),
    Region("lv", {"Groups"}), Region("nl", {"Trunk"}), Region("pt", {"Groups"}),
    Region("cn", {"Trunk", "Groups"})>>

\* A code no region of the table has selects none; china goes by its language too.
PhoneRegionForLocale(code) == IF code = "zh" THEN "cn" ELSE code

\* Without PII_LOCALES every region is in use; an empty list switches all of them off.
RegionsInUse ==
  IF Locales = Unset THEN PhoneRegions
  ELSE SelectSeq(PhoneRegions, LAMBDA r : \E code \in Locales : PhoneRegionForLocale(code) = r.code)

\* The numbering plans a number is tried against: for a domestic shape those of the
\* regions in use that are written in it, in the order of the table.
PlansOf(shape) ==
  LET rs == SelectSeq(RegionsInUse, LAMBDA r : shape \in r.shapes)
  IN [i \in DOMAIN rs |-> rs[i].code]
PhoneShape == {"Trunk", "TrunkPairs", "Groups", "LongBlock"}
Plans == [name \in PhoneShape \cup {"international"} |->
            IF name = "international" THEN <<"world">> ELSE PlansOf(name)]

\* One recognizer for each shape some region in use has.
Needed(template) == IF Plans[template.name] = <<>> THEN <<>> ELSE <<template>>
NationalPhoneRecognizers ==
  Needed(PhoneShapeTemplates[1]) \o Needed(PhoneShapeTemplates[2])
  \o Needed(PhoneShapeTemplates[3]) \o Needed(PhoneShapeTemplates[4])

Shipped == UniversalRecognizers \o NationalIdRecognizers \o VatRecognizers
           \o NationalPhoneRecognizers

-----------------------------------------------------------------------------
(* What a pattern matches. A match is the positions from its first up to   *)
(* the one behind its last character.                                      *)

IsWord(text, i) == i \in DOMAIN text /\ text[i] \in AN
Boundary(text, i) == IsWord(text, i - 1) # IsWord(text, i)

\* Where a segment may end that starts at e.
SegmentEnds(text, e, s) ==
  {x \in (e + s.lo)..(e + s.hi) : /\ x <= Len(text) + 1
                                 /\ \A k \in e..(x - 1) : text[k] \in s.chars}

Ends(text, i, shape) ==
  LET ends[k \in 0..Len(shape)] ==
        IF k = 0 THEN {i} ELSE UNION {SegmentEnds(text, e, shape[k]) : e \in ends[k - 1]}
  IN  ends[Len(shape)]

\* Every shape begins and ends on a word boundary, but for the + in front of an
\* international number.
MatchesFrom(rec, text, i) ==
  IF rec.name # "international" /\ ~Boundary(text, i) THEN {}
  ELSE {e \in UNION {Ends(text, i, s) : s \in rec.shapes} : Boundary(text, e)}

\* Regex::find_at: the leftmost match from at, as long as it can be; <<0, 0>> is none.
FindAt(rec, text, at) ==
  LET starts == {i \in at..Len(text) : MatchesFrom(rec, text, i) # {}} IN
  IF starts = {} THEN <<0, 0>>
  ELSE LET i == Min(starts) IN <<i, Max(MatchesFrom(rec, text, i))>>

IsMatch(rec, value) == FindAt(rec, value, 1) = <<1, Len(value) + 1>>

-----------------------------------------------------------------------------
(* What a recognizer verifies of a match.                                  *)

IsValidated(rec) == rec.name \notin {"secret", "ssn", "nlVat"}

HasLower(value) == \E i \in DOMAIN value : IsLower(value[i])

\* A canonical rendering of an IBAN passes as it is, any other only if it verifies.
IbanCaseGateVerdict(value) == HasLower(value) => IbanMod97(value) /\ IbanLengthOk(value)

NationalPhoneValid(plan, value) == Digits(value) \in Assigned[plan]

\* The plans a phone is tried against, up to the first in which it is valid.
PlansTried(rec, value) ==
  LET plans == Plans[rec.name]
      valid == {i \in DOMAIN plans : NationalPhoneValid(plans[i], value)}
  IN IF valid = {} THEN Len(plans) ELSE Min(valid)

Verdict(rec, value) ==
  CASE rec.name = "iban"     -> IbanCaseGateVerdict(value)
    [] rec.name = "card"     -> CreditCardValid(value)
    [] rec.kind = "Phone"    -> \E i \in DOMAIN Plans[rec.name] :
                                   NationalPhoneValid(Plans[rec.name][i], value)
    [] rec.name = "cf"       -> CfCheckValid(value)
    [] rec.name = "nino"     -> NinoPrefixValid(value)
    [] rec.name = "dni"      -> EsDniNieValid(value)
    [] rec.name = "nir"      -> FrNirValid(value)
    [] rec.name = "nine"     -> NineDigitIdValid(value)
    [] rec.name = "eleven"   -> ElevenDigitIdValid(value)
    [] rec.name = "latvian"  -> LvCodeValid(value)
    [] rec.name = "resident" -> ZhResidentIdValid(value)
    [] rec.name = "piva"     -> ItPivaValid(value)
    [] rec.name = "itVat"    -> ItPivaValid(VatBody(value))
    [] rec.name = "deVat"    -> DeVatValid(VatBody(value))
    [] rec.name = "gbVat"    -> GbVatValid(VatBody(value))
    [] rec.name = "ptVat"    -> PtNifValid(VatBody(value))
    [] OTHER                 -> TRUE

ConfidenceOf(rec, value) ==
  CASE rec.kind = "Iban"     -> IF IbanMod97(value) /\ IbanLengthOk(value)
                                THEN "Verified" ELSE "Structural"
    [] rec.name = "nlVat"    -> IF NlBsnValid(SubSeq(value, 3, 11)) THEN "Verified" ELSE "Structural"
    [] OTHER                 -> "Verified"
=============================================================================
