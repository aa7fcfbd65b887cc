--------------------------- MODULE MCPrivacyStage ---------------------------
(***************************************************************************)
(* Ten occurrences: a nest of five values, each hidden in the token run of *)
(* the one before (one more than the passes reach), a name, a name that a  *)
(* phone number overlaps, the phone number's value once more as another    *)
(* kind, a rejected phone candidate, and a placeholder the client echoes.  *)
(***************************************************************************)
EXTENDS PrivacyStage

CONSTANTS v1, v2, v3, v4, v5, n1, n2, j1    \* the texts that occur

MCItems == 1..10
MCKinds == {"Phone", "Card", "Iban", "Person"}
MCClass == <<"structured", "structured", "structured", "structured", "structured",
             "ner", "ner", "structured", "junk", "token">>
MCKindOf == <<"Phone", "Card", "Iban", "Card", "Iban",
              "Person", "Person", "Card", "Phone", "Phone">>
MCValueOf == <<v1, v2, v3, v4, v5,
               n1, n2, v1, j1, <<"Phone", 1>>>>
MCValues == {v1, v2, v3, v4, v5, n1, n2, j1}
MCCover == <<0, 1, 2, 3, 4, 0, 1, 0, 0, 0>>
MCMeter == <<"phone", "free", "gate", "free", "gate",
             "free", "free", "gate", "phone", "free">>
MCRegions == <<2, 1, 1, 1, 1, 1, 1, 1, 3, 1>>

Txt(S) == [shape |-> "text", items |-> S]
Bad == [shape |-> "unrecognised", items |-> {}]

\* The fields a request is put together from.
MCFields == {Txt({1, 2}), Txt({1, 2, 3, 4}), Txt({1, 6, 7}), Txt({8, 9}), Txt({1, 9}), Bad}
Deep == Txt({1, 2, 3, 4, 5})
Echo == Txt({1, 6, 10})

\* One to three fields; with literal placeholders only where asked for.
UpTo(n, S) == UNION {[1..m -> S] : m \in 0..n}
PlainRequests == UpTo(2, MCFields) \cup {<<f, g, h>> : f, g, h \in {Txt({1, 6, 7}), Txt({8, 9})}}
                   \cup {<<Deep>>, <<Deep, Txt({8, 9})>>, <<Txt({1, 9}), Deep>>}
EchoRequests == {<<Echo>>, <<Txt({8, 9}), Echo>>, <<Echo, Txt({1, 2})>>}
AllRequests == PlainRequests \cup EchoRequests
=============================================================================
