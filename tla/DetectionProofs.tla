-------------------------- MODULE DetectionProofs --------------------------
(***************************************************************************)
(* Two components around the detectors, each for every value of its        *)
(* constants: the resolution of overlaps among what the detectors report,  *)
(* and the cache of what they reported.                                    *)
(***************************************************************************)
EXTENDS Overlap, DetectionCache, FiniteSetTheorems, TLAPS

-----------------------------------------------------------------------------
(* Overlap resolution, for every set of candidates, every set of kinds and *)
(* every ranking of them.                                                  *)
(*                                                                         *)
(* The inductive invariant says of the sweep that the groups lie apart and *)
(* in order, each without gaps (SweepInv), of the whole that every         *)
(* structured candidate is still to be swept, in a group, or inside a kept *)
(* span (CoverInv), and of the kept spans what the properties say of them, *)
(* together with their distance from the groups still to come (KeptInv)    *)
(* and from the names (NamesInv).                                          *)

\* Group g ends before group h starts.
Before(g, h) == \A d \in g, e \in h : d.end <= e.start
Apart(g, h) == Before(g, h) \/ Before(h, g)

\* Group g reaches from s to e without a gap.
Spans(g, s, e) ==
    /\ \A d \in g : s <= d.start /\ d.end <= e
    /\ \E a \in g : a.start = s
    /\ \E b \in g : b.end = e
    /\ \A p \in s..(e - 1) : \E d \in g : d.start <= p /\ p < d.end

Solid(g) == \E s, e \in Nat : Spans(g, s, e)

SweepInv ==
    /\ \A g \in groups : Solid(g)
    /\ \A g, h \in groups : g = h \/ Apart(g, h)
    /\ group = {} \/ \E s \in Nat : Spans(group, s, unionEnd)
    /\ \A g \in groups : Before(g, group)
    /\ phase = "sweep" =>
          /\ kept = {}
          /\ todo \subseteq StructuredOf(input)
          /\ \A c \in todo : /\ \A g \in groups : Before(g, {c})
                             /\ \A d \in group : d.start <= c.start
    /\ phase # "sweep" => group = {}
    /\ phase \in {"names", "done"} => groups = {}
    /\ phase = "done" => todo = {}

CoverInv ==
    \A c \in StructuredOf(input) :
        \/ phase = "sweep" /\ c \in todo
        \/ c \in group
        \/ \E g \in groups : c \in g
        \/ \E k \in kept : Within(c, k)

KeptInv ==
    /\ \A k \in kept : k.start < k.end
    /\ \A k \in kept, g \in groups : Apart(g, {k})
    /\ KeptDisjoint
    /\ NothingInvented
    /\ NamedByHighest
    /\ VerifiedAsReported

NamesInv ==
    /\ phase \in {"sweep", "merge"} => \A k \in kept : k.kind \notin NerKinds
    /\ phase \in {"names", "done"} =>
          \A c \in NamesOf(input) \ kept :
              \/ c \in todo
              \/ \E k \in kept : Overlaps(c, k) /\ (k.kind \notin NerKinds \/ ~Outranks(c, k))
    /\ phase = "names" =>
          /\ todo \subseteq NamesOf(input)
          /\ \A k \in kept, c \in todo : k.kind \in NerKinds => ~Outranks(c, k)

OverlapInv == OverlapTypeOK /\ SweepInv /\ CoverInv /\ KeptInv /\ NamesInv

\* Candidates are spans that are not empty.
LEMMA CandidateFacts ==
    ASSUME OverlapTypeOK, NEW c \in input
    PROVE  /\ c.start \in Nat /\ c.end \in Nat /\ c.start < c.end
           /\ c.kind \in Kinds /\ c.verified \in BOOLEAN /\ c \in Candidate
BY DEF OverlapTypeOK, Candidate

LEMMA OverlapInitInv == ASSUME OverlapInit PROVE OverlapInv
<1>1. OverlapTypeOK
    BY OverlapAssumption DEF OverlapInit, OverlapTypeOK, StructuredOf
<1>2. SweepInv
    BY DEF OverlapInit, SweepInv, StructuredOf
<1>3. CoverInv
    BY DEF OverlapInit, CoverInv
<1>4. KeptInv
    BY DEF OverlapInit, KeptInv, KeptDisjoint, NothingInvented, NamedByHighest, VerifiedAsReported
<1>5. NamesInv
    BY DEF OverlapInit, NamesInv
<1> QED BY <1>1, <1>2, <1>3, <1>4, <1>5 DEF OverlapInv

\* A candidate opens a group.
LEMMA OpenGroupInv ==
    ASSUME OverlapInv, NEW c \in todo, OpenGroup(c)
    PROVE  OverlapInv'
<1> USE DEF OverlapInv
<1>1. OverlapTypeOK'
    BY CandidateFacts DEF OpenGroup, OverlapTypeOK, SweepInv, StructuredOf
<1>c. /\ c \in input /\ c.start \in Nat /\ c.end \in Nat /\ c.start < c.end
      /\ c.kind \notin NerKinds
    BY CandidateFacts DEF OpenGroup, SweepInv, StructuredOf
<1>d. \A d \in input : d.start \in Nat /\ d.end \in Nat /\ d.start < d.end
    BY CandidateFacts
<1>t. todo \subseteq input /\ group \subseteq input /\ \A g \in groups : g \subseteq input
    BY DEF OverlapTypeOK, StructuredOf
<1>2. SweepInv'
  <2>1. Spans({c}, c.start, c.end)
      BY <1>c DEF Spans
  <2>2. ASSUME group # {} PROVE Solid(group) /\ Before(group, {c})
      BY <2>2, <1>c, <1>t, <1>d DEF SweepInv, OpenGroup, Solid, Spans, Before, OverlapTypeOK
  <2>3. ASSUME group # {}, NEW d \in todo PROVE Before(group, {d})
      BY <2>2, <2>3, <1>c, <1>t, <1>d DEF OpenGroup, SweptNext, Before
  <2>4. \A d \in todo : c.start <= d.start
      BY <1>c, <1>t, <1>d DEF OpenGroup, SweptNext
  <2>5. \A g \in groups : Before(g, group) /\ Before(g, {c}) /\ \A d \in todo : Before(g, {d})
      BY DEF SweepInv, OpenGroup
  <2>6. /\ \A g \in groups' : Solid(g)
        /\ \A g, h \in groups' : g = h \/ Apart(g, h)
      BY <2>2, <2>5 DEF SweepInv, OpenGroup, Apart
  <2>7. \A g \in groups' : Before(g, group') /\ \A d \in todo' : Before(g, {d})
      BY <2>2, <2>3, <2>5 DEF OpenGroup
  <2>8. \E s \in Nat : Spans(group', s, unionEnd')
      BY <2>1, <1>c DEF OpenGroup
  <2>9. /\ phase' = "sweep" /\ kept' = {} /\ todo' \subseteq StructuredOf(input')
        /\ \A d \in todo' : \A e \in group' : e.start <= d.start
      BY <2>4 DEF OpenGroup, SweepInv
  <2> QED BY <2>6, <2>7, <2>8, <2>9 DEF SweepInv
<1>3. CoverInv'
    BY DEF OpenGroup, CoverInv, Within
<1>4. KeptInv' /\ NamesInv'
    BY DEF OpenGroup, KeptInv, SweepInv, NamesInv, KeptDisjoint, NothingInvented,
           NamedByHighest, VerifiedAsReported
<1> QED BY <1>1, <1>2, <1>3, <1>4

\* A candidate joins the last group.
LEMMA JoinGroupInv ==
    ASSUME OverlapInv, NEW c \in todo, JoinGroup(c)
    PROVE  OverlapInv'
<1> USE DEF OverlapInv
<1>c. /\ c \in input /\ c.start \in Nat /\ c.end \in Nat /\ c.start < c.end
      /\ unionEnd \in Nat
    BY CandidateFacts DEF JoinGroup, OverlapTypeOK
<1>d. \A d \in input : d.start \in Nat /\ d.end \in Nat /\ d.start < d.end
    BY CandidateFacts
<1>t. todo \subseteq input /\ group \subseteq input /\ \A g \in groups : g \subseteq input
    BY DEF OverlapTypeOK, StructuredOf
<1>1. OverlapTypeOK'
    BY <1>c DEF JoinGroup, OverlapTypeOK, SweepInv, StructuredOf
<1>2. SweepInv'
  <2>1. PICK s \in Nat : Spans(group, s, unionEnd)
      BY DEF JoinGroup, SweepInv
  <2>2. s <= c.start
    <3>1. PICK a \in group : a.start = s
        BY <2>1 DEF Spans
    <3> QED BY <3>1, <1>c DEF SweepInv, JoinGroup
  <2>3. Spans(group', s, unionEnd')
    <3>1. \A d \in group' : s <= d.start /\ d.end <= unionEnd'
        BY <2>1, <2>2, <1>c, <1>t, <1>d DEF Spans, JoinGroup
    <3>2. (\E a \in group' : a.start = s) /\ (\E b \in group' : b.end = unionEnd')
        BY <2>1, <1>c DEF Spans, JoinGroup
    <3>3. ASSUME NEW p \in s..(unionEnd' - 1)
          PROVE  \E d \in group' : d.start <= p /\ p < d.end
      <4>1. CASE p < unionEnd
          BY <4>1, <2>1, <1>c DEF Spans, JoinGroup
      <4>2. CASE p >= unionEnd
        <5>1. c.start <= p /\ p < c.end
            BY <4>2, <3>3, <1>c DEF JoinGroup
        <5> QED BY <5>1 DEF JoinGroup
      <4> QED BY <4>1, <4>2, <1>c DEF JoinGroup
    <3> QED BY <3>1, <3>2, <3>3 DEF Spans
  <2>4. \A g \in groups' : Before(g, group')
      BY DEF SweepInv, JoinGroup, Before
  <2>5. ASSUME NEW d \in todo'
        PROVE  /\ \A g \in groups' : Before(g, {d})
               /\ \A e \in group' : e.start <= d.start
      BY <2>5, <1>c, <1>t, <1>d DEF SweepInv, JoinGroup, SweptNext
  <2>6. phase' = "sweep" /\ kept' = {} /\ todo' \subseteq StructuredOf(input')
      BY DEF JoinGroup, SweepInv
  <2> QED BY <2>3, <2>4, <2>5, <2>6 DEF SweepInv, JoinGroup
<1>3. CoverInv'
    BY DEF JoinGroup, CoverInv, Within
<1>4. KeptInv' /\ NamesInv'
    BY DEF JoinGroup, KeptInv, SweepInv, NamesInv, KeptDisjoint, NothingInvented,
           NamedByHighest, VerifiedAsReported
<1> QED BY <1>1, <1>2, <1>3, <1>4

LEMMA SweepEndsInv ==
    ASSUME OverlapInv, SweepEnds
    PROVE  OverlapInv'
<1> USE DEF OverlapInv
<1>1. OverlapTypeOK'
    BY DEF SweepEnds, OverlapTypeOK
<1>2. SweepInv'
  <2>1. group # {} => Solid(group)
      BY DEF SweepInv, Solid, OverlapTypeOK
  <2>2. /\ \A g \in groups' : Solid(g)
        /\ \A g, h \in groups' : g = h \/ Apart(g, h)
      BY <2>1 DEF SweepInv, SweepEnds, Apart
  <2>3. \A g \in groups' : Before(g, group')
      BY DEF SweepEnds, Before
  <2> QED BY <2>2, <2>3 DEF SweepInv, SweepEnds
<1>3. CoverInv'
    BY DEF SweepEnds, CoverInv, Within
<1>4. KeptInv' /\ NamesInv'
    BY DEF SweepEnds, KeptInv, SweepInv, NamesInv, KeptDisjoint, NothingInvented,
           NamedByHighest, VerifiedAsReported
<1> QED BY <1>1, <1>2, <1>3, <1>4

\* A group becomes a kept span.
LEMMA MaterializeInv ==
    ASSUME OverlapInv, NEW g \in groups, Materialize(g)
    PROVE  OverlapInv'
<1> USE DEF OverlapInv
<1>d. \A d \in input : /\ d.start \in Nat /\ d.end \in Nat /\ d.start < d.end
                       /\ d.kind \in Kinds /\ d.verified \in BOOLEAN
    BY CandidateFacts
<1>t. /\ \A h \in groups : h \subseteq input /\ h \subseteq StructuredOf(input)
      /\ \A k \in kept : k.start \in Nat /\ k.end \in Nat /\ k.start < k.end
    BY DEF OverlapTypeOK, StructuredOf, Candidate, KeptInv
<1>p. PICK a \in g, b \in g, w \in g :
          /\ IsUnion([start |-> a.start, end |-> b.end], g) /\ Names(g, w)
          /\ kept' = kept \cup {Merged([start |-> a.start, end |-> b.end], w)}
    BY DEF Materialize
<1> DEFINE u == [start |-> a.start, end |-> b.end]
           m == Merged(u, w)
<1>m. /\ m.start = a.start /\ m.end = b.end /\ m.kind = w.kind
      /\ m.start \in Nat /\ m.end \in Nat /\ m.start < m.end
      /\ m.kind \notin NerKinds /\ m \in Candidate
      /\ m.verified => w.verified /\ w.start = m.start /\ w.end = m.end
  <2>1. /\ a \in input /\ b \in input /\ w \in input /\ w.kind \notin NerKinds
        /\ a.start <= w.start /\ w.end <= b.end
      BY <1>p, <1>t DEF IsUnion, Within, StructuredOf
  <2>2. /\ m.start = a.start /\ m.end = b.end /\ m.kind = w.kind
        /\ m.verified = (w.verified /\ w.start = a.start /\ w.end = b.end)
      BY DEF Merged
  <2>3. /\ a.start \in Nat /\ b.end \in Nat /\ w.kind \in Kinds /\ a.start < b.end
      BY <2>1, <1>d
  <2>4. m \in Candidate
      BY <2>3, <2>1 DEF Merged, Candidate
  <2> QED BY <2>1, <2>2, <2>3, <2>4
<1>w. \A d \in g : m.start <= d.start /\ d.end <= m.end
    BY <1>p, <1>m DEF IsUnion, Within
<1>k. kept' = kept \cup {m}
    BY <1>p
<1>u. /\ input' = input /\ phase = "merge" /\ phase' = "merge" /\ todo' = todo
      /\ group' = group /\ unionEnd' = unionEnd /\ groups' = groups \ {g}
    BY DEF Materialize
<1>g. group = {}
    BY <1>u DEF SweepInv
<1>a. \A h \in groups' : Apart(h, {m})
    BY <1>p, <1>m, <1>u DEF SweepInv, Apart, Before
<1>b. \A k \in kept : ~Overlaps(k, m) /\ ~Overlaps(m, k)
  <2>1. ASSUME NEW k \in kept PROVE k.end <= m.start \/ m.end <= k.start
    <3>1. Apart(g, {k})
        BY DEF KeptInv
    <3> QED BY <3>1, <1>p, <1>m DEF Apart, Before
  <2> QED BY <2>1, <1>t, <1>m DEF Overlaps
<1> HIDE DEF m
<1>1. OverlapTypeOK'
    BY <1>k, <1>u, <1>m DEF OverlapTypeOK
<1>2. SweepInv'
    BY <1>u, <1>g DEF SweepInv
<1>3. CoverInv'
  <2>1. ASSUME NEW c \in g PROVE Within(c, m)
      BY <1>w DEF Within
  <2> QED BY <2>1, <1>u, <1>k, <1>g DEF CoverInv
<1>4. KeptInv'
  <2>1. \A k \in kept' : k.start < k.end
      BY <1>k, <1>m, <1>t
  <2>2. \A k \in kept', h \in groups' : Apart(h, {k})
      BY <1>k, <1>u, <1>a DEF KeptInv
  <2>3. KeptDisjoint'
      BY <1>k, <1>b DEF KeptInv, KeptDisjoint
  <2>4. NothingInvented'
    <3>1. ASSUME NEW p \in m.start..(m.end - 1)
          PROVE  \E c \in input : c.start <= p /\ p < c.end
      <4>1. PICK s, e \in Nat : Spans(g, s, e)
          BY DEF SweepInv, Solid
      <4>2. s = m.start /\ e = m.end
          BY <4>1, <1>p, <1>m, <1>w, <1>d, <1>t DEF Spans
      <4>3. \E d \in g : d.start <= p /\ p < d.end
          BY <4>1, <4>2 DEF Spans
      <4> QED BY <4>3, <1>t
    <3> QED BY <3>1, <1>k, <1>u DEF NothingInvented, KeptInv
  <2>5. NamedByHighest'
    <3>1. ASSUME NEW c \in StructuredOf(input), Within(c, m)
          PROVE  c \in g
      <4>1. c.start \in Nat /\ c.end \in Nat /\ c.start < c.end
          BY <1>d DEF StructuredOf
      <4>2. ASSUME NEW h \in groups, h # g PROVE c \notin h
          BY <4>1, <4>2, <3>1, <1>a, <1>m, <1>u DEF Apart, Before, Within
      <4>3. ASSUME NEW k \in kept PROVE ~Within(c, k)
          BY <4>1, <4>3, <3>1, <1>b, <1>m, <1>t DEF Overlaps, Within
      <4> QED BY <4>2, <4>3, <1>u, <1>g DEF CoverInv
    <3>2. ASSUME NEW c \in g
          PROVE  \/ Priority[m.kind] >= Priority[c.kind]
                 \/ \E e \in input : e.kind = Email /\ m.kind = Email
                                      /\ Within(m, e) /\ Within(e, m)
      <4>1. CASE WholeEmail(g, w)
          BY <4>1, <1>p, <1>m, <1>w, <1>t DEF WholeEmail, Within
      <4>2. CASE ~Outranks(c, w)
          BY <4>2, <1>m, <1>t, <1>d, OverlapAssumption DEF Outranks
      <4> QED BY <4>1, <4>2, <1>p DEF Names
    <3> QED BY <3>1, <3>2, <1>k, <1>u DEF NamedByHighest, KeptInv
  <2>6. VerifiedAsReported'
    <3>1. m.verified => \E c \in input : c.verified /\ c.kind = m.kind
                                         /\ Within(c, m) /\ Within(m, c)
        BY <1>m, <1>t, <1>d DEF Within
    <3> QED BY <3>1, <1>k, <1>u DEF VerifiedAsReported, KeptInv
  <2> QED BY <2>1, <2>2, <2>3, <2>4, <2>5, <2>6 DEF KeptInv
<1>5. NamesInv'
    BY <1>k, <1>u, <1>m DEF NamesInv
<1> QED BY <1>1, <1>2, <1>3, <1>4, <1>5

LEMMA MergeEndsInv ==
    ASSUME OverlapInv, MergeEnds
    PROVE  OverlapInv'
<1> USE DEF OverlapInv
<1>1. OverlapTypeOK'
    BY DEF MergeEnds, OverlapTypeOK, NamesOf
<1>2. SweepInv'
    BY DEF MergeEnds, SweepInv
<1>3. CoverInv'
    BY DEF MergeEnds, CoverInv, SweepInv, Within
<1>4. KeptInv'
    BY DEF MergeEnds, KeptInv, KeptDisjoint, NothingInvented, NamedByHighest, VerifiedAsReported
<1>5. NamesInv'
    BY DEF MergeEnds, NamesInv, NamesOf
<1> QED BY <1>1, <1>2, <1>3, <1>4, <1>5

\* A name is given up.
LEMMA DropNameInv ==
    ASSUME OverlapInv, NEW c \in todo, DropName(c)
    PROVE  OverlapInv'
<1> USE DEF OverlapInv
<1>1. OverlapTypeOK'
    BY DEF DropName, OverlapTypeOK
<1>2. SweepInv' /\ CoverInv'
    BY DEF DropName, SweepInv, CoverInv, Within
<1>3. KeptInv'
    BY DEF DropName, KeptInv, KeptDisjoint, NothingInvented, NamedByHighest, VerifiedAsReported
<1>4. NamesInv'
    BY DEF DropName, NamesInv, NamesOf
<1> QED BY <1>1, <1>2, <1>3, <1>4

\* A name is kept.
LEMMA KeepNameInv ==
    ASSUME OverlapInv, NEW c \in todo, KeepName(c)
    PROVE  OverlapInv'
<1> USE DEF OverlapInv
<1>c. /\ c \in input /\ c.start \in Nat /\ c.end \in Nat /\ c.start < c.end
      /\ c.kind \in NerKinds /\ c \in Candidate
    BY CandidateFacts DEF KeepName, OverlapTypeOK, NamesInv, NamesOf
<1>k. \A k \in kept : k.start \in Nat /\ k.end \in Nat /\ k.start < k.end
    BY DEF OverlapTypeOK, Candidate, KeptInv
<1>g. groups = {} /\ group = {} /\ phase = "names"
    BY DEF KeepName, SweepInv
<1>1. OverlapTypeOK'
    BY <1>c DEF KeepName, OverlapTypeOK
<1>2. SweepInv' /\ CoverInv'
    BY <1>g DEF KeepName, SweepInv, CoverInv, Within
<1>3. KeptInv'
  <2>1. KeptDisjoint'
      BY <1>c, <1>k DEF KeepName, KeptInv, KeptDisjoint, Overlaps
  <2>2. NothingInvented'
      BY <1>c DEF KeepName, KeptInv, NothingInvented
  <2>3. ASSUME NEW d \in StructuredOf(input) PROVE ~Within(d, c)
    <3>1. d.start \in Nat /\ d.end \in Nat /\ d.start < d.end
        BY CandidateFacts DEF StructuredOf
    <3>2. PICK k \in kept : Within(d, k)
        BY <1>g DEF CoverInv
    <3> QED BY <3>1, <3>2, <1>c, <1>k DEF KeepName, Overlaps, Within
  <2>4. NamedByHighest'
      BY <2>3 DEF KeepName, KeptInv, NamedByHighest
  <2>5. VerifiedAsReported'
      BY <1>c DEF KeepName, KeptInv, VerifiedAsReported, Within
  <2> QED BY <2>1, <2>2, <2>4, <2>5, <1>c, <1>g DEF KeepName, KeptInv
<1>4. NamesInv'
    BY <1>g DEF KeepName, NamesInv, NamesOf, NamedNext
<1> QED BY <1>1, <1>2, <1>3, <1>4

LEMMA NamesEndInv ==
    ASSUME OverlapInv, NamesEnd
    PROVE  OverlapInv'
<1> USE DEF OverlapInv
<1>1. OverlapTypeOK' /\ SweepInv' /\ CoverInv'
    BY DEF NamesEnd, OverlapTypeOK, SweepInv, CoverInv, Within
<1>2. KeptInv' /\ NamesInv'
    BY DEF NamesEnd, KeptInv, KeptDisjoint, NothingInvented, NamedByHighest, VerifiedAsReported,
           NamesInv
<1> QED BY <1>1, <1>2

LEMMA OverlapStutter == ASSUME OverlapInv, UNCHANGED overlapVars PROVE OverlapInv'
<1> USE DEF OverlapInv, overlapVars
<1>1. OverlapTypeOK' /\ SweepInv' /\ CoverInv' /\ NamesInv'
    BY DEF OverlapTypeOK, SweepInv, CoverInv, Within, NamesInv
<1>2. KeptInv'
    BY DEF KeptInv, KeptDisjoint, NothingInvented, NamedByHighest, VerifiedAsReported
<1> QED BY <1>1, <1>2

\* The invariant holds at every step of the resolution.
THEOREM OverlapInvariant == OverlapSpec => []OverlapInv
<1>1. OverlapInv /\ [OverlapNext]_overlapVars => OverlapInv'
    BY OpenGroupInv, JoinGroupInv, SweepEndsInv, MaterializeInv, MergeEndsInv, DropNameInv,
       KeepNameInv, NamesEndInv, OverlapStutter DEF OverlapNext
<1> QED BY <1>1, OverlapInitInv, PTL DEF OverlapSpec

\* However spans overlap, each structured candidate lies within one kept span, and
\* none of those holds a byte that nobody claimed (resolve_overlaps,
\* merge_structured).
THEOREM NoByteAbandoned == OverlapSpec => [](NothingAbandoned /\ NothingInvented)
<1>1. OverlapInv => NothingAbandoned
    BY DEF OverlapInv, CoverInv, SweepInv, NothingAbandoned
<1>2. OverlapInv => NothingInvented
    BY DEF OverlapInv, KeptInv
<1> QED BY <1>1, <1>2, OverlapInvariant, PTL

\* No two kept spans share a byte, structured unions and names alike: mask splices
\* each into the text without looking at the others (resolve_overlaps, Vault::mask).
THEOREM KeptSpansAreDisjoint == OverlapSpec => []KeptDisjoint
<1>1. OverlapInv => KeptDisjoint
    BY DEF OverlapInv, KeptInv
<1> QED BY <1>1, OverlapInvariant, PTL

\* The name and the confidence of a kept span are those of its parts (name_of,
\* materialize).
THEOREM UnionsHonestlyNamed == OverlapSpec => [](NamedByHighest /\ VerifiedAsReported)
<1>1. OverlapInv => NamedByHighest /\ VerifiedAsReported
    BY DEF OverlapInv, KeptInv
<1> QED BY <1>1, OverlapInvariant, PTL

\* A name is given up only for something better (resolve_overlaps).
THEOREM NamesYieldToBetter == OverlapSpec => []NamesGivenUpForBetter
<1>1. OverlapInv => NamesGivenUpForBetter
    BY DEF OverlapInv, NamesInv, SweepInv, NamesGivenUpForBetter
<1> QED BY <1>1, OverlapInvariant, PTL

-----------------------------------------------------------------------------
(* The detection cache for any number of callers, any fields and any       *)
(* capacity: its two generations stay within their bound, a field is       *)
(* evicted exactly when two rotations passed it by, and, if the ML         *)
(* detector is required, a hit is worth what a fresh scan is.              *)

\* The young generation holds what was used since the last rotation, the old
\* one what was used before it.
Aged ==
    /\ idle \in [Keys -> 0..2]
    /\ \A k \in Keys : k \in DOMAIN current <=> idle[k] = 0
    /\ \A k \in Keys : k \in DOMAIN previous \ DOMAIN current <=> idle[k] = 1

Bounded ==
    /\ IsFiniteSet(DOMAIN current) /\ Cardinality(DOMAIN current) <= Cap
    /\ IsFiniteSet(DOMAIN previous) /\ Cardinality(DOMAIN previous) <= Cap

\* What a caller is about to do with the field it was called for.
Calling ==
    \A c \in Callers :
        /\ pc[c] \in {"lookup", "store"} => key[c] \notin Uncacheable
        /\ pc[c] = "store" => got[c] \in Results

AllFull ==
    NerRequired =>
        /\ \A k \in DOMAIN current : current[k] = "full"
        /\ \A k \in DOMAIN previous : previous[k] = "full"
        /\ \A c \in Callers : pc[c] = "store" => got[c] = "full"

CacheInv == TypeOK /\ Aged /\ Bounded /\ Calling /\ AllFull

\* What Insert makes of a cache in order, whoever calls it and whatever the
\* caller took out of the old generation before.
LEMMA InsertInv ==
    ASSUME CacheInv, NEW k \in Keys \ Uncacheable, NEW v \in Results, NEW cold,
           \/ cold = previous
           \/ cold = Without(previous, k),
           Insert(k, v, cold)
    PROVE  /\ DOMAIN current' \subseteq Keys \ Uncacheable
           /\ current' \in [DOMAIN current' -> Results]
           /\ DOMAIN previous' \subseteq Keys \ Uncacheable
           /\ previous' \in [DOMAIN previous' -> Results]
           /\ Aged' /\ Bounded'
           /\ v = "full" /\ NerRequired =>
                 /\ \A j \in DOMAIN current' : current'[j] = "full"
                 /\ \A j \in DOMAIN previous' : previous'[j] = "full"
<1> USE CacheAssumption DEF CacheInv
<1>1. CASE Cardinality(DOMAIN current) >= Cap
    <2>1. /\ previous' = current
          /\ current' = Add(EmptyCache, k, v)
          /\ idle' = [j \in Keys |-> IF j = k THEN 0 ELSE Older(idle[j])]
        BY <1>1 DEF Insert
    <2>2. DOMAIN current' = {k} /\ current'[k] = v /\ current' \in [{k} -> Results]
        BY <2>1 DEF Add, EmptyCache
    <2>3. Bounded'
        <3>1. IsFiniteSet({k}) /\ Cardinality({k}) <= Cap
            <4>1. \A x : IsFiniteSet({x}) /\ Cardinality({x}) = 1
                BY FS_Singleton, Zenon
            <4>2. IsFiniteSet({k}) /\ Cardinality({k}) = 1
                BY <4>1
            <4> QED BY <4>2
        <3>2. DOMAIN previous' = DOMAIN current
            BY <2>1
        <3> QED BY <2>2, <3>1, <3>2 DEF Bounded
    <2>4. Aged'
        BY <2>1, <2>2 DEF Aged, Older
    <2> QED BY <2>1, <2>2, <2>3, <2>4 DEF TypeOK, AllFull
<1>2. CASE ~(Cardinality(DOMAIN current) >= Cap)
    <2>1. /\ previous' = cold
          /\ current' = Add(current, k, v)
          /\ idle' = [idle EXCEPT ![k] = 0]
        BY <1>2 DEF Insert
    <2>2. /\ DOMAIN current' = DOMAIN current \cup {k} /\ current'[k] = v
          /\ \A j \in DOMAIN current : j # k => current'[j] = current[j]
          /\ current' \in [DOMAIN current' -> Results]
        BY <2>1 DEF Add, TypeOK
    <2>3. /\ DOMAIN previous' \subseteq DOMAIN previous
          /\ DOMAIN previous \subseteq DOMAIN previous' \cup {k}
          /\ \A j \in DOMAIN previous' : previous'[j] = previous[j]
          /\ previous' \in [DOMAIN previous' -> Results]
        BY <2>1 DEF Without, TypeOK
    <2>4. Bounded'
        <3>1. /\ IsFiniteSet(DOMAIN current) /\ IsFiniteSet(DOMAIN previous)
              /\ Cardinality(DOMAIN current) \in Nat /\ Cardinality(DOMAIN current) < Cap
              /\ Cardinality(DOMAIN previous) \in Nat /\ Cardinality(DOMAIN previous) <= Cap
            BY <1>2, FS_CardinalityType DEF Bounded
        <3>2. /\ IsFiniteSet(DOMAIN current \cup {k})
              /\ Cardinality(DOMAIN current \cup {k}) <= Cap
            <4>1. /\ IsFiniteSet(DOMAIN current \cup {k})
                  /\ \/ Cardinality(DOMAIN current \cup {k}) = Cardinality(DOMAIN current)
                     \/ Cardinality(DOMAIN current \cup {k}) = Cardinality(DOMAIN current) + 1
                BY <3>1, FS_AddElement
            <4> QED BY <3>1, <4>1
        <3>3. /\ IsFiniteSet(DOMAIN previous')
              /\ Cardinality(DOMAIN previous') <= Cap
            <4>1. /\ IsFiniteSet(DOMAIN previous')
                  /\ Cardinality(DOMAIN previous') <= Cardinality(DOMAIN previous)
                BY <2>3, <3>1, FS_Subset
            <4>2. Cardinality(DOMAIN previous') \in Nat
                BY <4>1, FS_CardinalityType
            <4> QED BY <3>1, <4>1, <4>2
        <3> QED BY <2>2, <3>2, <3>3 DEF Bounded
    <2>5. Aged'
        <3>1. idle' \in [Keys -> 0..2] /\ idle'[k] = 0
              /\ \A j \in Keys : j # k => idle'[j] = idle[j]
            BY <2>1 DEF Aged
        <3>2. \A j \in Keys : j # k => (j \in DOMAIN previous' <=> j \in DOMAIN previous)
            BY <2>3
        <3> QED BY <2>2, <3>1, <3>2 DEF Aged
    <2> QED BY <2>2, <2>3, <2>4, <2>5 DEF TypeOK, AllFull
<1> QED BY <1>1, <1>2

\* An empty cache is in order.
LEMMA CacheInitInv == ASSUME Init PROVE CacheInv
<1> USE CacheAssumption DEF Init, EmptyCache
<1>1. TypeOK
    BY DEF TypeOK
<1>2. Bounded
    BY FS_EmptySet DEF Bounded
<1> QED BY <1>1, <1>2 DEF Aged, Calling, AllFull, CacheInv

\* One step, action by action; and a hit is full when scans are.
LEMMA CacheStepInv ==
    ASSUME CacheInv, Next
    PROVE  CacheInv'
<1> USE CacheAssumption DEF CacheInv
<1>2. CASE NerFlips
    BY <1>2 DEF NerFlips, TypeOK, Aged, Bounded, Calling, AllFull
<1>3. ASSUME NEW c \in Callers, NEW k \in Keys, Call(c, k) PROVE CacheInv'
    BY <1>3 DEF Call, TypeOK, Aged, Bounded, Calling, AllFull
<1>4. ASSUME NEW c \in Callers, Hit(c) PROVE CacheInv'
    BY <1>4 DEF Hit, Return, TypeOK, Aged, Bounded, Calling, AllFull
<1>5. ASSUME NEW c \in Callers, Promote(c) PROVE CacheInv'
    <2> DEFINE k == key[c]
               v == previous[key[c]]
    <2>1. k \in Keys \ Uncacheable /\ v \in Results
        BY <1>5 DEF Promote, TypeOK
    <2>2. Insert(k, v, Without(previous, k)) /\ Return(c, v) /\ UNCHANGED <<key, nerUp>>
        BY <1>5 DEF Promote
    <2>3. NerRequired => v = "full"
        BY <1>5 DEF Promote, AllFull
    <2> HIDE DEF k, v
    <2> QED BY <2>1, <2>2, <2>3, InsertInv DEF Return, TypeOK, Aged, Calling, AllFull
<1>6. ASSUME NEW c \in Callers, Miss(c) PROVE CacheInv'
    BY <1>6 DEF Miss, TypeOK, Aged, Bounded, Calling, AllFull
<1>7. ASSUME NEW c \in Callers, ScanReturns(c) PROVE CacheInv'
    BY <1>7 DEF ScanReturns, FreshScan, Results, TypeOK, Aged, Bounded, Calling, AllFull
<1>8. ASSUME NEW c \in Callers, ScanFails(c) PROVE CacheInv'
    BY <1>8 DEF ScanFails, Return, TypeOK, Aged, Bounded, Calling, AllFull
<1>9. ASSUME NEW c \in Callers, Store(c) PROVE CacheInv'
    <2> DEFINE k == key[c]
               v == got[c]
    <2>1. k \in Keys \ Uncacheable /\ v \in Results
        BY <1>9 DEF Store, TypeOK, Calling
    <2>2. Insert(k, v, previous) /\ Return(c, v) /\ UNCHANGED <<key, nerUp>>
        BY <1>9 DEF Store
    <2>3. NerRequired => v = "full"
        BY <1>9 DEF Store, AllFull
    <2> HIDE DEF k, v
    <2> QED BY <2>1, <2>2, <2>3, InsertInv DEF Return, TypeOK, Aged, Calling, AllFull
<1> QED BY <1>2, <1>3, <1>4, <1>5, <1>6, <1>7, <1>8, <1>9 DEF Next, Work

\* Steps that change nothing.
LEMMA CacheInvStep == CacheInv /\ [Next]_cacheVars => CacheInv'
<1>1. ASSUME CacheInv, UNCHANGED cacheVars PROVE CacheInv'
    BY <1>1 DEF CacheInv, cacheVars, TypeOK, Aged, Bounded, Calling, AllFull
<1> QED BY <1>1, CacheStepInv

\* Whatever lookups, promotions and inserts interleave, each generation keeps
\* its bound (Generational::get, Generational::insert).
THEOREM CacheIsBounded == Spec => [](TypeOK /\ GenerationsBounded)
<1>1. Init => CacheInv
    BY CacheInitInv
<1>2. CacheInv => TypeOK /\ GenerationsBounded
    BY DEF CacheInv, Bounded, GenerationsBounded
<1> QED BY <1>1, <1>2, CacheInvStep, PTL DEF Spec

\* A field is evicted exactly when two rotations have gone by since it was last
\* used: never earlier, and never kept longer (Generational::get,
\* Generational::insert).
THEOREM CacheEvictsTheIdle == Spec => []EvictedExactlyWhenIdle
<1>1. Init => CacheInv
    BY CacheInitInv
<1>2. CacheInv => EvictedExactlyWhenIdle
    BY DEF CacheInv, Aged, EvictedExactlyWhenIdle
<1> QED BY <1>1, <1>2, CacheInvStep, PTL DEF Spec

\* With a required ML detector a hit masks no less than a fresh scan
\* (CachingDetector::try_detect); without one it can, see the run cache_fail_open.
THEOREM CacheHitsAreSound == ASSUME NerRequired PROVE Spec => HitNeverMasksLess
<1> DEFINE HitIsFull == \A c \in Callers :
               pc[c] = "lookup" /\ pc'[c] = "idle" /\ FreshScan = "full" => got'[c] = "full"
<1>1. Init => CacheInv
    BY CacheInitInv
<1>2. CacheInv /\ [Next]_cacheVars => [HitIsFull]_cacheVars
    <2> SUFFICES ASSUME CacheInv, Next, NEW c \in Callers, pc[c] = "lookup", pc'[c] = "idle"
                 PROVE  got'[c] = "full"
        OBVIOUS
    <2>1. PICK d \in Callers : Hit(d) \/ Promote(d)
        BY DEF Next, Work, NerFlips, Call, Miss, ScanReturns, ScanFails, Store, Return,
               CacheInv, TypeOK
    <2>2. d = c
        BY <2>1 DEF Hit, Promote, Return, CacheInv, TypeOK
    <2> QED BY <2>1, <2>2 DEF Hit, Promote, Return, CacheInv, TypeOK, AllFull
<1> QED BY <1>1, <1>2, CacheInvStep, PTL DEF Spec, HitNeverMasksLess

=============================================================================
