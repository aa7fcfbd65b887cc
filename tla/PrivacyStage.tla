---------------------------- MODULE PrivacyStage ----------------------------
(***************************************************************************)
(* One request through the privacy stage (src/pipeline/privacy.rs,         *)
(* PrivacyStage::on_request): the walk over the fields of the body, and    *)
(* for each text field Vault::mask_all's passes of detect, keep, mask over *)
(* the composite detector (structured recognizers, then the ML detector),  *)
(* under one allowance and one vault for the whole request.                *)
(***************************************************************************)
EXTENDS MaskedText, Vault, Budget

CONSTANTS
    KindOf,         \* KindOf[i]: the kind occurrence i is detected as
    Meter,          \* Meter[i]: which validator is asked about it
    Regions,        \* Regions[i]: plans the phone validator tries for it
    MaxMaskPasses,  \* MAX_MASK_PASSES
    HasNer,         \* an ML detector is loaded
    Postures,       \* what the ML detector may be: required (NER_REQUIRED) or optional
    CacheEntries    \* PII_CACHE_ENTRIES; 0 turns the detection cache off

Meters == {"free", "phone", "gate"}

ASSUME StageAssumption ==
    /\ KindOf \in [Items -> Kinds]
    /\ \A i \in Items : IF Class[i] = "token" THEN ValueOf[i] \in Placeholders
                                             ELSE ValueOf[i] \in Values
    /\ Meter \in [Items -> Meters]
    /\ Regions \in [Items -> 1..MaxRegions]
    /\ MaxMaskPasses \in Nat \ {0}
    /\ HasNer \in BOOLEAN /\ Postures \subseteq {"required", "optional"}
    /\ CacheEntries \in Nat
    /\ Raw \notin Placeholders
    /\ \A v \in Values : v \notin Placeholders     \* keep_maskable

VARIABLES
    posture,        \* "optional": the ML detector's errors are swallowed
    req,            \* the request: a sequence of fields
    body,           \* body[f]: field f's text as the request carries it now
    pc,             \* where on_request is
    fld,            \* the field the walk is at
    pass,           \* mask_all's pass over that field
    current,        \* mask_all's working copy of the field's text
    todo,           \* candidates to validate, or detections left to replace
    found,          \* what this pass has detected
    detectError,    \* the first detector failure of the request
    shapeError,     \* the walk met a shape it cannot interpret
    degraded,       \* history: fields scanned without the ML detector
    answer          \* what became of the request

walkVars == <<posture, req, body, fld, detectError, shapeError, degraded>>
passVars == <<pass, current, todo, found>>
stageVars == <<posture, req, body, pc, fld, pass, current, todo, found,
               detectError, shapeError, degraded, answer>>
vars == <<vaultVars, budgetVars, stageVars>>

-----------------------------------------------------------------------------
Fields == 1..Len(req)

\* What the structured recognizers ask a charging validator about.
Candidates(field, t) ==
    {i \in Exposed(field, t) : Class[i] \in {"structured", "junk"} /\ Meter[i] # "free"}

Earliest(i, S) == i \in S /\ \A j \in S : i <= j

-----------------------------------------------------------------------------
Init ==
    /\ VaultInit
    /\ BudgetInit
    /\ posture \in Postures
    /\ req \in Requests
    /\ body = [f \in Fields |-> RawText]
    /\ pc = "walk"
    /\ fld = 1
    /\ pass = 0
    /\ current = RawText
    /\ todo = {}
    /\ found = {}
    /\ detectError = "none"
    /\ shapeError = FALSE
    /\ degraded = {}
    /\ answer = "none"

\* Mutant: every field is given a fresh allowance.
StartFieldReminting ==
    /\ pc = "walk" /\ fld \in Fields /\ req[fld].shape = "text"
    /\ pc' = "detect"
    /\ pass' = 0
    /\ current' = RawText
    /\ left' = initial
    /\ UNCHANGED <<initial, part, onPhone, onIban, parses, gates>>
    /\ UNCHANGED <<vaultVars, walkVars, todo, found, answer>>

\* The walk reaches a string it must mask: mask_all starts on a copy.
StartField ==
    /\ pc = "walk" /\ fld \in Fields /\ req[fld].shape = "text"
    /\ pc' = "detect"
    /\ pass' = 0
    /\ current' = RawText
    /\ UNCHANGED <<vaultVars, budgetVars, walkVars, todo, found, answer>>

\* The walk reaches a shape it cannot interpret and returns Err: the fields
\* behind it are never visited.
RefuseShape ==
    /\ pc = "walk" /\ fld \in Fields /\ req[fld].shape = "unrecognised"
    /\ pc' = "decide"
    /\ shapeError' = TRUE
    /\ UNCHANGED <<vaultVars, budgetVars, posture, req, body, fld, detectError, degraded,
                   passVars, answer>>

WalkEnds ==
    /\ pc = "walk" /\ fld \notin Fields
    /\ pc' = "decide"
    /\ UNCHANGED <<vaultVars, budgetVars, walkVars, passVars, answer>>

-----------------------------------------------------------------------------
(* One detection: try_detect on pass 0, redetect afterwards.               *)

\* A field seen before is answered from the cache, uncharged, on pass 0 only.
\* What it holds is what some earlier scan of the same bytes returned: if ML
\* errors are swallowed, that may be the structured detections alone.
CacheHit ==
    /\ pc = "detect" /\ pass = 0 /\ CacheEntries > 0
    /\ \/ /\ found' = Structured(req[fld], current)
                      \cup (IF HasNer THEN Named(req[fld], current) ELSE {})
          /\ UNCHANGED degraded
       \/ /\ HasNer /\ posture = "optional"
          /\ found' = Structured(req[fld], current)
          /\ degraded' = degraded \cup {fld}
    /\ pc' = "keep"
    /\ UNCHANGED <<vaultVars, budgetVars, posture, req, body, fld, detectError, shapeError,
                   pass, current, todo, answer>>

\* The structured recognizers start on the text: what no validator charges for
\* is found without more ado, the rest are candidates.
StartScan ==
    /\ pc = "detect"
    /\ pc' = "scan"
    /\ todo' = Candidates(req[fld], current)
    /\ found' = {i \in Structured(req[fld], current) : Meter[i] = "free"}
    /\ UNCHANGED <<vaultVars, budgetVars, walkVars, pass, current, answer>>

\* The next candidate is put to its validator, while the allowance lasts.
Validate(i) ==
    /\ pc = "scan" /\ ~IsExhausted /\ Earliest(i, todo)
    /\ \/ Meter[i] = "phone" /\ NationalPhone(Regions[i])
       \/ Meter[i] = "gate" /\ IbanCaseGate
    /\ todo' = todo \ {i}
    /\ found' = IF Class[i] = "structured" THEN found \cup {i} ELSE found
    /\ UNCHANGED <<vaultVars, walkVars, pc, pass, current, answer>>

\* Leaving a field on a detector failure: the first failure is remembered, the
\* field keeps its original text, and the walk goes on.
FailField(detector) ==
    /\ detectError' = IF detectError = "none" THEN detector ELSE detectError
    /\ fld' = fld + 1
    /\ pc' = "walk"
    /\ UNCHANGED <<vaultVars, posture, req, body, shapeError, passVars, answer>>

\* Mutant: the field is tried again.
ScanExhaustedRetried ==
    /\ pc = "scan" /\ IsExhausted
    /\ pc' = "walk"
    /\ UNCHANGED <<vaultVars, budgetVars, walkVars, passVars, answer>>

\* The scan ends with the allowance gone: what it found is dropped.
ScanExhausted ==
    /\ pc = "scan" /\ IsExhausted
    /\ FailField("structured")
    /\ UNCHANGED <<budgetVars, degraded>>

\* The scan ends in order.  Only pass 0 also asks the ML detector.
ScanEnds ==
    /\ pc = "scan" /\ ~IsExhausted /\ todo = {}
    /\ pc' = IF pass = 0 /\ HasNer THEN "ner" ELSE "keep"
    /\ UNCHANGED <<vaultVars, budgetVars, walkVars, passVars, answer>>

\* The ML detector answers.  Its detections that overlap a structured one lose
\* the overlap resolution; it may also tag placeholder-shaped text.
NerAnswers ==
    /\ pc = "ner"
    /\ \E tagged \in SUBSET OfClass("token", req[fld].items) :
          found' = found \cup tagged \cup Named(req[fld], current)
    /\ pc' = "keep"
    /\ UNCHANGED <<vaultVars, budgetVars, walkVars, pass, current, todo, answer>>

\* The ML detector fails.  Required: the field fails.  Otherwise FailOpen turns
\* the failure into "nothing found".
NerFailsClosed ==
    /\ pc = "ner" /\ posture = "required"
    /\ FailField("ner")
    /\ UNCHANGED <<budgetVars, degraded>>

NerFailsOpen ==
    /\ pc = "ner" /\ posture = "optional"
    /\ degraded' = degraded \cup {fld}
    /\ pc' = "keep"
    /\ UNCHANGED <<vaultVars, budgetVars, posture, req, body, fld, detectError, shapeError,
                   passVars, answer>>

-----------------------------------------------------------------------------
(* What mask_all does with the detections.                                 *)

\* keep_maskable: a detection that is exactly one of our tokens is dropped.
Maskable == {i \in found : Class[i] # "token"}

\* Nothing left to mask: the working copy becomes the field's text.
FieldClean ==
    /\ pc = "keep" /\ Maskable = {}
    /\ body' = [body EXCEPT ![fld] = current]
    /\ fld' = fld + 1
    /\ pc' = "walk"
    /\ UNCHANGED <<vaultVars, budgetVars, posture, req, detectError, shapeError, degraded,
                   passVars, answer>>

StartMask ==
    /\ pc = "keep" /\ Maskable # {} /\ pass < MaxMaskPasses
    /\ todo' = Maskable
    /\ pc' = "mask"
    /\ UNCHANGED <<vaultVars, budgetVars, walkVars, pass, current, found, answer>>

\* Mutants: the passes running out counts as a fixpoint; giving up one pass
\* early.
NoFixpointAccepted ==
    /\ pc = "keep" /\ Maskable # {} /\ pass = MaxMaskPasses
    /\ body' = [body EXCEPT ![fld] = current]
    /\ fld' = fld + 1
    /\ pc' = "walk"
    /\ UNCHANGED <<vaultVars, budgetVars, posture, req, detectError, shapeError, degraded,
                   passVars, answer>>

NoFixpointEarly ==
    /\ pc = "keep" /\ Maskable # {} /\ pass >= MaxMaskPasses - 1
    /\ FailField("vault")
    /\ UNCHANGED <<budgetVars, degraded>>

\* The confirming scan behind the last pass still finds something.
NoFixpoint ==
    /\ pc = "keep" /\ Maskable # {} /\ pass = MaxMaskPasses
    /\ FailField("vault")
    /\ UNCHANGED <<budgetVars, degraded>>

\* mask() copies the text left to right, replacing one detection after another.
Replace(i) ==
    /\ pc = "mask" /\ Earliest(i, todo)
    /\ PlaceholderFor(ValueOf[i], KindOf[i])
    /\ current' = [current EXCEPT ![i] = PlaceholderOf(ValueOf[i], KindOf[i])]
    /\ todo' = todo \ {i}
    /\ UNCHANGED <<budgetVars, walkVars, pc, pass, found, answer>>

NextPass ==
    /\ pc = "mask" /\ todo = {}
    /\ pass' = pass + 1
    /\ pc' = "detect"
    /\ UNCHANGED <<vaultVars, budgetVars, walkVars, current, todo, found, answer>>

-----------------------------------------------------------------------------
(* on_request's verdict and what run_privacy_stages makes of it.           *)

Block ==
    /\ pc = "decide" /\ (detectError # "none" \/ shapeError)
    /\ answer' = "blocked"
    /\ pc' = "done"
    /\ UNCHANGED <<vaultVars, budgetVars, walkVars, passVars>>

\* Mutant: the outcome of the walk is not looked at.
ForwardUnlooked ==
    /\ pc = "decide" /\ detectError = "none"
    /\ answer' = "forwarded"
    /\ pc' = "done"
    /\ UNCHANGED <<vaultVars, budgetVars, walkVars, passVars>>

Forward ==
    /\ pc = "decide" /\ detectError = "none" /\ ~shapeError
    /\ answer' = "forwarded"
    /\ pc' = "done"
    /\ UNCHANGED <<vaultVars, budgetVars, walkVars, passVars>>

\* The masking task dies (a panic in a stage): the handler answers 500.
TaskPanics ==
    /\ pc # "done"
    /\ answer' = "failed"
    /\ pc' = "done"
    /\ UNCHANGED <<vaultVars, budgetVars, walkVars, passVars>>

Step ==
    \/ StartField \/ RefuseShape \/ WalkEnds
    \/ CacheHit \/ StartScan \/ ScanExhausted \/ ScanEnds
    \/ \E i \in todo : Validate(i) \/ Replace(i)
    \/ NerAnswers \/ NerFailsClosed \/ NerFailsOpen
    \/ FieldClean \/ StartMask \/ NoFixpoint \/ NextPass
    \/ Block \/ Forward

Next == Step \/ TaskPanics

Spec == Init /\ [][Next]_vars

\* The stage runs to the end of its walk on a thread of the blocking pool; no
\* step waits for another request.
FairSpec == Spec /\ WF_vars(Step)

-----------------------------------------------------------------------------
Texts == [Items -> Placeholders \cup {Raw}]

\* Type invariant of the stage; vault and allowance have their own.
TypeOK ==
    /\ VaultTypeOK
    /\ BudgetTypeOK
    /\ posture \in Postures
    /\ req \in Requests
    /\ body \in [Fields -> Texts]
    /\ pc \in {"walk", "detect", "scan", "ner", "keep", "mask", "decide", "done"}
    /\ fld \in 1..(Len(req) + 1)
    /\ pass \in 0..MaxMaskPasses
    /\ current \in Texts
    /\ todo \subseteq Items
    /\ found \subseteq Items
    /\ detectError \in {"none", "structured", "ner", "vault"}
    /\ shapeError \in BOOLEAN
    /\ degraded \subseteq Fields
    /\ answer \in {"none", "blocked", "forwarded", "failed"}

\* A forwarded body holds nothing a fresh scan would recognize: neither a value
\* some mask exposed, nor one that an exhausted or partial scan skipped, nor one
\* in a field the walk never reached.  Names are masked too wherever the ML
\* detector was heard (mask_all, on_request's fail-closed gates).
ForwardedIsClean ==
    answer = "forwarded" =>
        \A f \in Fields :
            /\ req[f].shape = "text"
            /\ Structured(req[f], body[f]) = {}
            /\ HasNer /\ f \notin degraded =>
                  \A i \in Named(req[f], RawText) : body[f][i] # Raw

\* One value has one placeholder and one placeholder one value, across every
\* field and pass of the request (the correlation the vault promises).
ReplacedConsistently ==
    \A f, g \in Fields : \A i \in req[f].items, j \in req[g].items :
        body[f][i] # Raw /\ body[g][j] # Raw =>
            (body[f][i] = body[g][j] <=> ValueOf[i] = ValueOf[j])

\* What stands at an occurrence in the body the provider receives.
Shown(f, i) == IF body[f][i] = Raw THEN ValueOf[i] ELSE body[f][i]

\* A provider that echoes the body back has every text restored exactly
\* (anonymizer.rs: "demask restores the exact original text").
RoundTripIsExact ==
    answer = "forwarded" =>
        \A f \in Fields : \A i \in req[f].items : Demask(Shown(f, i)) = ValueOf[i]

EchoFree == \A f \in Fields : \A i \in req[f].items : Class[i] # "token"

\* As long as the client sends no text spelled like a placeholder, a body echoed
\* back is restored exactly, whatever was masked in however many fields, passes
\* and kinds (Vault::demask).
PlainRoundTrip == EchoFree => RoundTripIsExact

\* Occurrences of field f nested in one another, n deep.
NestedDeeperThan(f, n) ==
    \E chain \in [1..(n + 1) -> req[f].items] :
        \A k \in 1..n : Cover[chain[k + 1]] = chain[k]

\* A request is refused only for one of the reasons there are: a shape the walk
\* cannot interpret, an allowance really used up, a required ML detector that
\* failed, or values nested deeper than the passes reach.
BlockedForCause ==
    answer = "blocked" =>
        \/ shapeError
        \/ detectError = "structured" /\ Work >= initial
        \/ detectError = "ner" /\ HasNer /\ posture = "required"
        \/ /\ detectError = "vault"
           /\ \E f \in Fields : NestedDeeperThan(f, MaxMaskPasses)

\* Text spelled like a placeholder is left as the client sent it.
TokensStayInert ==
    \A f \in Fields : \A i \in req[f].items :
        Class[i] \in {"token", "junk"} => body[f][i] = Raw

\* The stage implements field-wise masking.
Promise == INSTANCE FieldwiseMasking WITH
    strict <- HasNer /\ posture = "required",
    alias  <- toPlaceholder,
    walked <- fld - 1,
    failed <- detectError # "none" \/ shapeError

KeepsPromise == Promise!Spec

\* Every request is answered: the passes, the scans and the walk all end.
EveryRequestAnswered == <>(answer # "none")
=============================================================================
