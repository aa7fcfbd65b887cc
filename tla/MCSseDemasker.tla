--------------------------- MODULE MCSseDemasker ---------------------------
(* Two texts streamed side by side: every pair of a few texts with whole,   *)
(* nested, unfinished, padded and over-long placeholders, in deltas of one  *)
(* to three symbols.                                                        *)
EXTENDS SseDemasker

CONSTANTS a, b

MCKeys == {a, b}

Whole == <<"x", "[", "L", "1", "]">>
Padded == <<"[", "s", "L", "s", "1", "]", "x">>
Nested == <<"[", "[", "L", "1", "]", "]">>
Unfinished == <<"x", "[", "L", "1">>
OverLong == <<"[", "L", "L", "L", "L", "L", "1", "]">>
Twice == <<"[", "L", "1", "]", "[", "L", "1", "]">>
Bracket == <<"[", "x", "[">>

First == {Whole, Padded, Nested, Unfinished, OverLong, Twice, Bracket}
Second == {Whole, Unfinished, <<"x">>}

MCScripts == {[k \in MCKeys |-> IF k = a THEN s ELSE t] : s \in First, t \in Second}
=============================================================================
