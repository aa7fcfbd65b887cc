--------------------------- MODULE CandidateScan ---------------------------
(***************************************************************************)
(* The scan of the fields of a request by the structured recognizers       *)
(* (src/pii/recognizers.rs, StructuredRecognizers::try_detect), which all  *)
(* charge the request's one Budget. One step is one turn of the loop in    *)
(* Recognizer::push_candidates or in shrink_to_a_valid_prefix.             *)
(***************************************************************************)
EXTENDS Recognizers, Budget

CONSTANTS
    Documents,  \* [text, from, to, name, genuine]: the texts a field may hold
    Later,      \* those a later field of the same request may hold
    MaxFields   \* bound: fields of a request

\* Every phone recognizer has a numbering plan, and none more than one candidate may
\* be tried against.
ASSUME PlansAssumption ==
  \A i \in DOMAIN Shipped :
     Shipped[i].kind = "Phone" => /\ Len(Plans[Shipped[i].name]) \in 1..MaxRegions
                                  /\ DOMAIN Plans[Shipped[i].name] = 1..Len(Plans[Shipped[i].name])

\* A text is a sequence of characters, each a number.
ASSUME DocumentsAssumption == \A d \in Documents \cup Later : d.text \in Seq(Nat)

VARIABLES
    doc,        \* the field being scanned
    fields,     \* fields begun so far
    phase,      \* "scanning", "scanned" or "refused"
    turn,       \* the recognizer at work, an index of Shipped
    at,         \* where its next search starts
    runs,       \* its matches so far, those that overlap run together
    memo,       \* value |-> verdict, for this recognizer and field
    pending,    \* the rejected match being cut back: [from, to], or none
    found       \* candidates of the recognizers before it

scanVars == <<doc, fields, phase, turn, at, runs, memo, pending, found>>
vars == <<scanVars, budgetVars>>

NoSpan == <<0, 0>>
NoMemo == [v \in {} |-> FALSE]

Rec == Shipped[turn]
Slice(span) == SubSeq(doc.text, span[1], span[2] - 1)

Init ==
  /\ BudgetInit
  /\ doc \in Documents
  /\ fields = 1
  /\ phase = "scanning"
  /\ turn = 1
  /\ at = 1
  /\ runs = <<>>
  /\ memo = NoMemo
  /\ pending = NoSpan
  /\ found = {}

-----------------------------------------------------------------------------
\* What calling the validator on a value costs. Only phones and the arithmetic of
\* the IBAN gate are charged.
Check(value) ==
  /\ memo' = memo @@ (value :> Verdict(Rec, value))
  /\ IF Rec.name = "iban" /\ HasLower(value) THEN IbanCaseGate
     ELSE IF Rec.kind = "Phone" THEN NationalPhone(PlansTried(Rec, value))
     ELSE UNCHANGED budgetVars

\* The verdict, from the memo if it is known.
Ask(value) == IF value \in DOMAIN memo THEN UNCHANGED <<memo, budgetVars>> ELSE Check(value)

\* Mutant: every search resumes behind the match.
ResumeBehind(span) == span[2]

\* Where the next search starts: one character on, or behind the match.
Resume(span) == IF Rec.scan = "Overlapping" THEN span[1] + 1 ELSE span[2]

\* A span joins the last run if they overlap.
Coalesced(span) ==
  IF runs # <<>> /\ span[1] < Last(runs)[2]
  THEN [runs EXCEPT ![Len(runs)] = <<@[1], IF span[2] > @[2] THEN span[2] ELSE @[2]>>]
  ELSE Append(runs, span)

Accept(span) == runs' = Coalesced(span) /\ at' = Resume(span)

Scanning == phase = "scanning" /\ turn \in DOMAIN Shipped
OutOfAllowance == IsExhausted /\ IsValidated(Rec)
Found == FindAt(Rec, doc.text, at)

\* A match of a pattern that verifies nothing.
TakeUnchecked ==
  /\ Scanning /\ pending = NoSpan
  /\ ~IsValidated(Rec) /\ Found # NoSpan
  /\ Accept(Found)
  /\ UNCHANGED <<doc, fields, phase, turn, memo, pending, found, budgetVars>>

\* A match is judged: it is accepted, cut back, or passed over.
Judge ==
  /\ Scanning /\ pending = NoSpan
  /\ IsValidated(Rec) /\ ~OutOfAllowance /\ Found # NoSpan
  /\ Ask(Slice(Found))
  /\ IF Verdict(Rec, Slice(Found)) THEN Accept(Found) /\ UNCHANGED pending
     ELSE IF Rec.shrink THEN pending' = Found /\ UNCHANGED <<runs, at>>
     ELSE at' = Resume(Found) /\ UNCHANGED <<runs, pending>>
  /\ UNCHANGED <<doc, fields, phase, turn, found>>

\* The last separator within the pending match, zero if there is none.
LastSeparator ==
  LET cuts == {i \in pending[1]..(pending[2] - 1) : IsSeparator(doc.text[i])}
  IN IF cuts = {} THEN 0 ELSE Max(cuts)

GiveUp == at' = Resume(pending) /\ pending' = NoSpan /\ UNCHANGED <<runs, memo, budgetVars>>

\* Mutant: the allowance is not looked at again while a match is cut back.
MayAskUnchecked(value) == TRUE

MayAsk(value) == value \in DOMAIN memo \/ ~IsExhausted

\* The rejected match loses its last group. What is left must be a match of the
\* pattern by itself and verify.
CutBack ==
  LET prefix == <<pending[1], LastSeparator>> IN
  /\ Scanning /\ pending # NoSpan
  /\ IF LastSeparator <= pending[1] THEN GiveUp
     ELSE IF ~IsMatch(Rec, Slice(prefix))
     THEN pending' = prefix /\ UNCHANGED <<runs, at, memo, budgetVars>>
     ELSE IF ~MayAsk(Slice(prefix)) THEN GiveUp
     ELSE /\ Ask(Slice(prefix))
          /\ IF Verdict(Rec, Slice(prefix))
             THEN Accept(prefix) /\ pending' = NoSpan
             ELSE pending' = prefix /\ UNCHANGED <<runs, at>>
  /\ UNCHANGED <<doc, fields, phase, turn, found>>

Candidate(rec, span) ==
  [name |-> rec.name, kind |-> rec.kind, from |-> span[1], to |-> span[2],
   confidence |-> ConfidenceOf(rec, Slice(span))]

\* Nothing more to find, or no allowance left to judge it: on to the next recognizer.
NextRecognizer ==
  /\ Scanning /\ pending = NoSpan
  /\ OutOfAllowance \/ Found = NoSpan
  /\ found' = found \cup {Candidate(Rec, runs[i]) : i \in DOMAIN runs}
  /\ turn' = turn + 1
  /\ at' = 1
  /\ runs' = <<>>
  /\ memo' = NoMemo
  /\ UNCHANGED <<doc, fields, phase, pending, budgetVars>>

Outcome == IF IsExhausted THEN "refused" ELSE "scanned"

\* All recognizers are done: the candidates are handed on, or the request is refused
\* because some may be missing.
EndOfField ==
  /\ phase = "scanning" /\ turn \notin DOMAIN Shipped
  /\ phase' = Outcome
  /\ UNCHANGED <<doc, fields, turn, at, runs, memo, pending, found, budgetVars>>

\* The next field of the same request.
NextField(d) ==
  /\ phase = "scanned" /\ fields < MaxFields
  /\ doc' = d
  /\ fields' = fields + 1
  /\ phase' = "scanning"
  /\ turn' = 1
  /\ found' = {}
  /\ UNCHANGED <<at, runs, memo, pending, budgetVars>>

Done ==
  /\ phase = "refused" \/ (phase = "scanned" /\ fields = MaxFields)
  /\ UNCHANGED vars

Next ==
  \/ TakeUnchecked
  \/ Judge
  \/ CutBack
  \/ NextRecognizer
  \/ EndOfField
  \/ \E d \in Later : NextField(d)
  \/ Done

Spec == Init /\ [][Next]_vars

-----------------------------------------------------------------------------
(* Properties.                                                             *)

\* The scan charges the allowance as Budget says: a validator that costs something
\* is called only while the allowance lasts, in both loops, whatever was remembered.
ChargesTheAllowance == BudgetSpec

Covered(from, to) == \A i \in from..(to - 1) : \E c \in found : c.from <= i /\ i < c.to

\* The value starting at i that a recognizer accepts: the longest match or, where it
\* cuts back, any shorter one that verifies too.
Accepted(rec, i) ==
  LET ends == MatchesFrom(rec, doc.text, i) IN
  {e \in ends : /\ e = Max(ends) \/ rec.shrink
                /\ ~IsValidated(rec) \/ Verdict(rec, Slice(<<i, e>>))}

\* A scan that is handed on leaves no value out, also not one that starts inside
\* another match of its own recognizer, or behind a rejected one
\* (push_candidates, M4-R17 and M10-R1; try_detect: a partial scan is refused).
NothingHidden ==
  phase = "scanned" =>
    \A r \in DOMAIN Shipped : Shipped[r].scan = "Overlapping" =>
      \A i \in DOMAIN doc.text : \A e \in Accepted(Shipped[r], i) : Covered(i, e)

\* Numbers known to be genuine are found where they stand, as what they are and
\* verified, whatever stands beside them; with one digit changed they are not
\* (the published numbers in the tests of recognizers.rs).
KnownNumbersAreTold ==
  phase = "scanned" /\ doc.name # "none" =>
    doc.genuine <=> \E c \in found : /\ c.name = doc.name /\ c.confidence = "Verified"
                                     /\ c.from = doc.from /\ c.to = doc.to
=============================================================================
