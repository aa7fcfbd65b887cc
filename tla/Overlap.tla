------------------------------ MODULE Overlap ------------------------------
(***************************************************************************)
(* Overlap resolution (src/pii/overlap.rs, resolve_overlaps): the spans    *)
(* the structured recognizers found are swept in reading order and each    *)
(* group that overlaps is merged into its union; then the names the ML     *)
(* detectors found are taken, the longest first, if they overlap nothing   *)
(* taken so far.                                                           *)
(*                                                                         *)
(* Positions are character boundaries: every detector reports such spans,  *)
(* so widening a union to the next boundary changes nothing.  Where the    *)
(* code's sorts leave a tie to the order of its input, any order may be    *)
(* taken here.                                                             *)
(***************************************************************************)
EXTENDS Naturals

CONSTANTS
    Kinds,      \* PiiKind
    NerKinds,   \* Person, Organization, Location
    Email,      \* PiiKind::Email
    Priority,   \* PiiKind::priority
    Inputs      \* the sets of candidates the detectors may report

Candidate == [start : Nat, end : Nat, kind : Kinds, verified : BOOLEAN]

ASSUME OverlapAssumption ==
    /\ Priority \in [Kinds -> Nat]
    /\ Email \in Kinds \ NerKinds
    /\ \A input \in Inputs : \A c \in input : c \in Candidate /\ c.start < c.end

VARIABLES
    input,      \* all candidates
    phase,      \* "sweep", "merge", "names" or "done"
    todo,       \* candidates this phase has still to deal with
    groups,     \* groups of overlapping structured candidates
    group,      \* the last of them, which may still grow
    unionEnd,   \* where it ends
    kept        \* the spans that survive

overlapVars == <<input, phase, todo, groups, group, unionEnd, kept>>

StructuredOf(S) == {c \in S : c.kind \notin NerKinds}
NamesOf(S) == {c \in S : c.kind \in NerKinds}

Overlaps(a, b) == a.start < b.end /\ b.start < a.end
Within(a, b) == b.start <= a.start /\ a.end <= b.end
Size(c) == c.end - c.start

-----------------------------------------------------------------------------
OverlapInit ==
    /\ input \in Inputs
    /\ phase = "sweep"
    /\ todo = StructuredOf(input)
    /\ groups = {}
    /\ group = {}
    /\ unionEnd = 0
    /\ kept = {}

\* The sweep takes candidates by their start, the longer one first.
SweptNext(c) ==
    /\ c \in todo
    /\ \A d \in todo : c.start < d.start \/ (c.start = d.start /\ c.end >= d.end)

\* A candidate that starts behind all before it opens a group.
OpenGroup(c) ==
    /\ phase = "sweep" /\ SweptNext(c)
    /\ group = {} \/ c.start >= unionEnd
    /\ groups' = IF group = {} THEN groups ELSE groups \cup {group}
    /\ group' = {c}
    /\ unionEnd' = c.end
    /\ todo' = todo \ {c}
    /\ UNCHANGED <<input, phase, kept>>

\* Mutant: the end of the union moves to the candidate's, even backwards.
JoinGroupShrinking(c) ==
    /\ phase = "sweep" /\ SweptNext(c)
    /\ group # {} /\ c.start < unionEnd
    /\ group' = group \cup {c}
    /\ unionEnd' = c.end
    /\ todo' = todo \ {c}
    /\ UNCHANGED <<input, phase, groups, kept>>

JoinGroup(c) ==
    /\ phase = "sweep" /\ SweptNext(c)
    /\ group # {} /\ c.start < unionEnd
    /\ group' = group \cup {c}
    /\ unionEnd' = IF c.end > unionEnd THEN c.end ELSE unionEnd
    /\ todo' = todo \ {c}
    /\ UNCHANGED <<input, phase, groups, kept>>

SweepEnds ==
    /\ phase = "sweep" /\ todo = {}
    /\ groups' = IF group = {} THEN groups ELSE groups \cup {group}
    /\ group' = {}
    /\ phase' = "merge"
    /\ UNCHANGED <<input, todo, unionEnd, kept>>

-----------------------------------------------------------------------------
Outranks(a, b) ==
    \/ Priority[a.kind] > Priority[b.kind]
    \/ Priority[a.kind] = Priority[b.kind] /\ Size(a) > Size(b)

\* An e-mail address that is the whole of the union.
WholeEmail(g, c) == c.kind = Email /\ \A d \in g : Within(d, c)

\* Mutant: an e-mail address names its group wherever it ends.
NamesEmail(g, c) == c \in g /\ (c.kind = Email \/ \A d \in g : d.kind # Email /\ ~Outranks(d, c))

\* name_of: candidate c gives its kind to the union of group g.
Names(g, c) ==
    /\ c \in g
    /\ \/ WholeEmail(g, c)
       \/ /\ \A d \in g : ~WholeEmail(g, d) /\ ~Outranks(d, c)
          /\ \A d \in g : d.start < c.start => Outranks(c, d)

\* Mutant: the span of the candidate that names it.
MergedNarrow(u, c) ==
    [start |-> c.start, end |-> c.end, kind |-> c.kind, verified |-> c.verified]

\* The union u, named by candidate c: verified only if c is all of it.
Merged(u, c) ==
    [start |-> u.start, end |-> u.end, kind |-> c.kind,
     verified |-> c.verified /\ c.start = u.start /\ c.end = u.end]

IsUnion(u, g) ==
    /\ \A d \in g : Within(d, u)
    /\ \E a \in g : a.start = u.start
    /\ \E b \in g : b.end = u.end

Materialize(g) ==
    /\ phase = "merge" /\ g \in groups
    /\ \E a \in g, b \in g, c \in g :
          LET u == [start |-> a.start, end |-> b.end]
          IN  /\ IsUnion(u, g) /\ Names(g, c)
              /\ kept' = kept \cup {Merged(u, c)}
    /\ groups' = groups \ {g}
    /\ UNCHANGED <<input, phase, todo, group, unionEnd>>

MergeEnds ==
    /\ phase = "merge" /\ groups = {}
    /\ phase' = "names"
    /\ todo' = NamesOf(input)
    /\ UNCHANGED <<input, groups, group, unionEnd, kept>>

-----------------------------------------------------------------------------
\* Mutant: names are taken in any order.
NamedNextAny(c) == c \in todo

\* Names are taken by their priority, the longer first, then the earlier.
NamedNext(c) ==
    /\ c \in todo
    /\ \A d \in todo :
          /\ ~Outranks(d, c)
          /\ Outranks(c, d) \/ c.start <= d.start

DropName(c) ==
    /\ phase = "names" /\ NamedNext(c)
    /\ \E k \in kept : Overlaps(c, k)
    /\ todo' = todo \ {c}
    /\ UNCHANGED <<input, phase, groups, group, unionEnd, kept>>

KeepName(c) ==
    /\ phase = "names" /\ NamedNext(c)
    /\ \A k \in kept : ~Overlaps(c, k)
    /\ kept' = kept \cup {c}
    /\ todo' = todo \ {c}
    /\ UNCHANGED <<input, phase, groups, group, unionEnd>>

NamesEnd ==
    /\ phase = "names" /\ todo = {}
    /\ phase' = "done"
    /\ UNCHANGED <<input, todo, groups, group, unionEnd, kept>>

OverlapNext ==
    \/ \E c \in todo : OpenGroup(c) \/ JoinGroup(c) \/ DropName(c) \/ KeepName(c)
    \/ \E g \in groups : Materialize(g)
    \/ SweepEnds \/ MergeEnds \/ NamesEnd

OverlapSpec == OverlapInit /\ [][OverlapNext]_overlapVars

-----------------------------------------------------------------------------
\* Type invariant.
OverlapTypeOK ==
    /\ \A c \in input : c \in Candidate /\ c.start < c.end
    /\ phase \in {"sweep", "merge", "names", "done"}
    /\ todo \subseteq input
    /\ groups \subseteq SUBSET StructuredOf(input)
    /\ group \subseteq StructuredOf(input)
    /\ unionEnd \in Nat
    /\ kept \subseteq Candidate

\* "No structured span's bytes are ever abandoned": each candidate of a
\* recognizer lies in one kept span, whatever it overlapped with.
NothingAbandoned ==
    phase \in {"names", "done"} =>
        \A c \in StructuredOf(input) : \E k \in kept : Within(c, k)

\* What mask relies on when it copies the text between spans: no two kept spans
\* share a byte, however far apart in the sweep they were merged.
KeptDisjoint == \A j, k \in kept : Overlaps(j, k) => j = k

\* A union has no gaps: every byte of a kept span was claimed by a detector, so
\* merging never masks the text between two values.
NothingInvented ==
    \A k \in kept : \A p \in k.start..(k.end - 1) :
        \E c \in input : c.start <= p /\ p < c.end

\* The name of a union never plays a part of it down: it is of the highest
\* priority in it, except that an e-mail address which is all of the union names
\* it (name_of).
NamedByHighest ==
    \A k \in kept : \A c \in StructuredOf(input) :
        Within(c, k) =>
            \/ Priority[k.kind] >= Priority[c.kind]
            \/ \E e \in input : e.kind = Email /\ k.kind = Email /\ Within(k, e) /\ Within(e, k)

\* "Verified" is said only of a span that a recognizer itself verified as it is.
VerifiedAsReported ==
    \A k \in kept : k.verified =>
        \E c \in input : c.verified /\ c.kind = k.kind /\ Within(c, k) /\ Within(k, c)

\* A name is given up only for something kept that overlaps it and is a
\* structured value, or a name no shorter.
NamesGivenUpForBetter ==
    phase = "done" =>
        \A c \in NamesOf(input) \ kept :
            \E k \in kept : Overlaps(c, k) /\ (k.kind \notin NerKinds \/ ~Outranks(c, k))
=============================================================================
