----------------------------- MODULE MaskedText -----------------------------
(***************************************************************************)
(* What the properties can tell apart in the text of a request.            *)
(*                                                                         *)
(* A text is abstracted to the occurrences in it that can matter.  An      *)
(* occurrence is a number, its place in reading order, and is one of       *)
(*   "structured"  a value a deterministic recognizer accepts              *)
(*   "ner"         a value the ML detector accepts                         *)
(*   "token"       text spelled like one of our placeholders, sent by the  *)
(*                 client                                                  *)
(*   "junk"        a candidate a validator is asked about and rejects      *)
(* An occurrence may lie inside the token run of another one, its Cover:   *)
(* it cannot be recognized until the cover has been replaced (a card       *)
(* number inside a longer digit run that a phone number splits).           *)
(***************************************************************************)
EXTENDS Naturals, Sequences

CONSTANTS
    Items,      \* the occurrences, numbered in reading order
    Class,      \* Class[i]: what occurrence i is
    ValueOf,    \* ValueOf[i]: the text that stands there
    Cover,      \* Cover[i]: the occurrence that hides i, 0 for none
    Requests,   \* the requests a client may send
    Raw         \* what stands at an occurrence nothing has replaced

Classes == {"structured", "ner", "token", "junk"}
\* What the walk finds where it looks for text.
Shapes == {"text", "unrecognised"}
Field == [shape : Shapes, items : SUBSET Items]

ASSUME TextAssumption ==
    /\ Items \subseteq Nat \ {0}
    /\ Class \in [Items -> Classes]
    /\ Cover \in [Items -> Items \cup {0}]
    /\ \A r \in Requests : Len(r) \in Nat /\ r \in [1..Len(r) -> Field]

\* A text maps each occurrence to the placeholder that replaced it, or to Raw.
RawText == [i \in Items |-> Raw]

OfClass(c, S) == {i \in S : Class[i] = c}

\* The occurrences of a field that can be recognized in text t.
Exposed(field, t) ==
    {i \in field.items : /\ t[i] = Raw
                         /\ \/ Cover[i] \notin field.items
                            \/ t[Cover[i]] # Raw}

\* What the structured recognizers accept in text t, and what the ML detector
\* does: among the latter only what no accepted value overlaps.
Structured(field, t) == OfClass("structured", Exposed(field, t))
Named(field, t) == OfClass("ner", Exposed(field, t))
=============================================================================
