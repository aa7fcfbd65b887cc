---------------------------- MODULE TextWindows ----------------------------
(***************************************************************************)
(* How the two model-backed detectors cut a long field into windows, and   *)
(* how they turn what the model says of one window into entities           *)
(* (onnx.rs, gliner.rs, ner_decode.rs, gliner_decode.rs).                  *)
(*                                                                         *)
(* A field is a record:                                                    *)
(*   n     its length: the number of content tokens (tagger) or of words   *)
(*         (gliner).  Position i covers the text between cuts i-1 and i,   *)
(*         so a span is a pair of cuts start < end, as byte ranges are in  *)
(*         the code;                                                       *)
(*   mass  cut |-> number of sub-tokens before it: word i costs            *)
(*         mass[i] - mass[i-1] tokens of the model's sequence.             *)
(* Char-boundary widening and the trimming of blanks are below this level. *)
(***************************************************************************)
EXTENDS Integers, Sequences, FiniteSets

CONSTANTS Window,      \* MAX_WINDOW_TOKENS: tokens one tagger window plans
          Overlap,     \* CHUNK_OVERLAP_TOKENS: tokens two windows share
          WordOverlap, \* WINDOW_OVERLAP_WORDS: words two windows share
          MaxWidth,    \* max_width: words in the widest span gliner scores
          Threshold    \* GLINER_THRESHOLD, on the scale of the scores

\* The code pins Overlap < Window at compile time.
ASSUME WindowAssumption ==
    /\ Window \in Nat /\ Overlap \in Nat \ {0} /\ Overlap < Window
    /\ WordOverlap \in Nat /\ MaxWidth \in Nat
    /\ Threshold \in Int

AtMost(a, b) == IF a <= b THEN a ELSE b
AtLeast(a, b) == IF a >= b THEN a ELSE b

----------------------------------------------------------------------------
(* chunk_char_ranges: the tagger's windows, in the offsets of the one      *)
(* encoding of the whole field.                                            *)

\* The tokens of n positions of text, 0 .. n+1: the first and the last are
\* the special tokens, whose offset is the sentinel (0, 0).
Encoded(n) == n + 2
Offset(n, t) == IF t \in {0, n + 1} THEN <<0, 0>> ELSE <<t - 1, t>>

Stride == AtLeast(Window - Overlap, 1)
TokenEnd(n, t) == AtMost(t + Window, Encoded(n))

CharStart(n, t) == Offset(n, t)[1]

\* Mutant: the sentinel of the closing token is taken for the text's end.
CharEndAtSentinel(n, t) ==
    AtLeast(Offset(n, TokenEnd(n, t) - 1)[2], CharStart(n, t))

\* The text a window starting at token t covers ends with its last token;
\* the last window reaches the end of the text, not the closing sentinel.
CharEnd(n, t) ==
    IF TokenEnd(n, t) = Encoded(n)
      THEN n
      ELSE AtLeast(Offset(n, TokenEnd(n, t) - 1)[2], CharStart(n, t))

----------------------------------------------------------------------------
(* plan_word_windows: the greedy cut of gliner.                            *)

\* The words from cut s to cut e fit a budget of sub-tokens; a first word
\* over the budget still has a window of its own.
FitsBudget(field, budget, s, e) ==
    \/ e = s + 1
    \/ field.mass[e] - field.mass[s] <= AtLeast(budget, 1)

\* The greedy loop stops at e: it took every word up to e and the next one
\* would overflow.  As mass grows along the field, e is unique.
IsWordEnd(field, budget, s, e) ==
    /\ FitsBudget(field, budget, s, e)
    /\ e = field.n \/ ~FitsBudget(field, budget, s, e + 1)

\* Mutant: a window no longer than the overlap is started over.
WordNextInPlace(s, e) == e - AtMost(WordOverlap, e - s)

\* The next window starts WordOverlap words back, but past this one's start.
WordNext(s, e) == e - AtMost(WordOverlap, e - s - 1)

----------------------------------------------------------------------------
(* decode_entities: the model's label for every token of a window of len   *)
(* positions, 0 .. len+1, sentinels included, to spans of the window.      *)

\* label_to_kind and is_begin: the kind is what follows the prefix.
LabelKind(label) == label.kind
IsBegin(label) == label.begin

\* Mutant: a token of the same kind extends the entity, B- or not.
ExtendsAny(reading, t) ==
    t > 0 /\ LabelKind(reading[t]) = LabelKind(reading[t - 1])

\* Token t goes on with the entity token t-1 is in.
Extends(reading, t) ==
    /\ t > 0 /\ LabelKind(reading[t]) = LabelKind(reading[t - 1])
    /\ ~IsBegin(reading[t])

\* Tokens s .. e are one turn of the loop: opened at s, extended up to e and
\* flushed there.
IsRun(len, reading, s, e) ==
    /\ s <= e /\ LabelKind(reading[s]) # "none"
    /\ ~Extends(reading, s)
    /\ \A t \in s + 1 .. e : Extends(reading, t)
    /\ e = len + 1 \/ ~Extends(reading, e + 1)

\* The flushed slices.  An empty one has no entity; one that ends before it
\* starts (a run that goes on into the closing sentinel) is no slice at all:
\* warned about, dropped.
DecodeTags(len, reading) ==
    LET Slice(s, e) == [kind |-> LabelKind(reading[s]),
                        start |-> Offset(len, s)[1], end |-> Offset(len, e)[2]]
        runs == {r \in (0 .. len + 1) \X (0 .. len + 1) :
                   IsRun(len, reading, r[1], r[2])}
    IN  {x \in {Slice(r[1], r[2]) : r \in runs} : x.start < x.end}

----------------------------------------------------------------------------
(* decode_spans: scored candidates to spans, greedily by score.            *)

\* The order candidates are taken in: score, then start, then the longer,
\* then the kind (candidates that agree on all of these are one).
Before(a, b) ==
    \/ a.score > b.score
    \/ a.score = b.score /\ a.start < b.start
    \/ a.score = b.score /\ a.start = b.start /\ a.end > b.end
    \/ a.score = b.score /\ a.start = b.start /\ a.end = b.end /\ a.rank < b.rank

Overlapping(a, b) == a.start < b.end /\ b.start < a.end

\* Only spans of at most max_width words of the window are scored, and one
\* under the threshold is no candidate.
Usable(len, s) ==
    /\ s.start < s.end /\ s.end <= len
    /\ s.end - s.start <= AtLeast(MaxWidth, 1)
    /\ s.score >= Threshold

\* The candidates, best first.
Ranked(cands) ==
    CHOOSE q \in [1 .. Cardinality(cands) -> cands] :
      /\ \A i, j \in DOMAIN q : i < j => Before(q[i], q[j])
      /\ \A s \in cands : \E i \in DOMAIN q : q[i] = s

\* Taken in that order, a candidate of which a word is covered is passed over.
Greedy(ranked, n) ==
    LET taken[i \in 0 .. n] ==
          IF i = 0 THEN {}
          ELSE IF \E k \in taken[i - 1] : Overlapping(k, ranked[i])
                 THEN taken[i - 1]
                 ELSE taken[i - 1] \cup {ranked[i]}
    IN  taken[n]

DecodeSpans(len, reading) ==
    LET usable == {s \in reading : Usable(len, s)}
    IN  {[kind |-> s.kind, start |-> s.start, end |-> s.end] :
            s \in Greedy(Ranked(usable), Cardinality(usable))}

\* Both detectors shift a window's spans to the field they were cut from;
\* sorting and dedup make the windows' spans one set.
Shift(spans, by) ==
    {[kind |-> s.kind, start |-> s.start + by, end |-> s.end + by] : s \in spans}

=============================================================================
