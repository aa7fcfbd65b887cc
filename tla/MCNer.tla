-------------------------------- MODULE MCNer --------------------------------
(* Two calls on fields of one window and of several, words under, at and    *)
(* over the budget, entities on the boundaries, runs into the closing token.*)
EXTENDS NerDetector

O == [kind |-> "none", begin |-> FALSE]
BPer == [kind |-> "person", begin |-> TRUE]
IPer == [kind |-> "person", begin |-> FALSE]
ILoc == [kind |-> "location", begin |-> FALSE]

Candidate(k, r, s, e, p) == [kind |-> k, rank |-> r, start |-> s, end |-> e, score |-> p]

Field(mass, labels, cands) ==
    [n |-> Len(mass) - 1, mass |-> [i \in 0 .. Len(mass) - 1 |-> mass[i + 1]],
     labels |-> labels, cands |-> cands]

MCFields ==
    { Field(<<0>>, <<>>, {}),
      Field(<<0, 1, 2>>, <<BPer, IPer>>,
            {Candidate("person", 1, 0, 2, 3), Candidate("phone", 2, 1, 2, 4)}),
      Field(<<0, 1, 2, 3, 5, 6, 7>>, <<BPer, BPer, IPer, ILoc, O, IPer>>,
            {Candidate("person", 1, 0, 1, 2), Candidate("person", 1, 1, 3, 3),
             Candidate("location", 2, 3, 4, 3), Candidate("location", 2, 2, 4, 3)}),
      Field(<<0, 1, 6, 7, 8, 9>>, <<O, ILoc, ILoc, IPer, O>>,
            {Candidate("location", 2, 1, 3, 3), Candidate("person", 1, 2, 5, 3),
             Candidate("person", 1, 4, 5, 1)}) }

MCReadings(fam, f, lo, hi) ==
    IF fam = "tagger"
      THEN {[t \in 0 .. hi - lo + 1 |->
               IF t = 0 THEN O ELSE IF t = hi - lo + 1 THEN close ELSE f.labels[lo + t]] :
              close \in {O, IPer}}
      ELSE {{[s EXCEPT !.start = @ - lo, !.end = @ - lo] :
               s \in {k \in f.cands : lo <= k.start /\ k.end <= hi}}}

Knob(p, i, l, ph) == [pool |-> p, intra |-> i, logical |-> l, physical |-> ph]
MCKnobs == {Knob(0, 0, 2, 4), Knob(2, 0, 4, 2), Knob(3, 1, 4, 2)}
=============================================================================
