----------------------------- MODULE MCOverlap -----------------------------
(* Up to four candidates on five positions: structured ones of three        *)
(* priorities and e-mail addresses, which overlap in chains, nest, touch     *)
(* and coincide; names of two kinds.                                         *)
EXTENDS Overlap

MCKinds == {"Secret", "Card", "Phone", "Email", "Person", "Location"}
MCNerKinds == {"Person", "Location"}
MCPriority == [k \in MCKinds |->
    CASE k = "Secret" -> 7 [] k = "Card" -> 5 [] k = "Phone" -> 3 [] k = "Email" -> 1 [] OTHER -> 0]

Span(i, j, k) == [start |-> i, end |-> j, kind |-> k, verified |-> k # "Phone"]

Spans(S, ks) == {Span(p[1], p[2], k) : p \in {q \in S \X S : q[1] < q[2]}, k \in ks}

UpTo2(S) == {{a, b} : a, b \in S}
UpTo3(S) == {{a, b, c} : a, b, c \in S}
UpTo4(S) == {{a, b, c, d} : a, b, c, d \in S}

\* Two candidates anywhere, three on four positions, and four that an e-mail
\* address may join.
MCInputs ==
    {{}} \cup UpTo2(Spans(0..4, {"Card", "Phone", "Email", "Person"}))
         \cup UpTo3(Spans(0..3, {"Secret", "Phone", "Email", "Person", "Location"}))
         \cup UpTo4(Spans(0..4, {"Phone"}) \cup {Span(0, 4, "Email"), Span(1, 3, "Email")})
=============================================================================
