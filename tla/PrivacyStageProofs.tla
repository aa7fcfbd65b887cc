------------------------- MODULE PrivacyStageProofs -------------------------
(***************************************************************************)
(* The privacy stage, for every set of requests, every nesting of values,  *)
(* every allowance and every bound on the passes.                          *)
(*                                                                         *)
(* StageInv is the inductive invariant, in six parts: types, what the      *)
(* program counter says, and what a pass has collected (StepInv); vault    *)
(* and allowance (SharedInv); every replaced occurrence carries the        *)
(* vault's placeholder for its value (AliasInv); what a pass has still to  *)
(* replace is in todo or found, so that a field that is left without an    *)
(* error is clean (CleanInv); and what a pass finds lies as deep as the    *)
(* passes before it, and every failure has had its cause (CauseInv).  From *)
(* it follow the safety properties and that the stage implements           *)
(* FieldwiseMasking.                                                       *)
(***************************************************************************)
EXTENDS PrivacyStage, BudgetProofs

(***************************************************************************)
(* The vault by itself.                                                    *)
(*                                                                         *)
(* Its maps stay inverse bijections for every set of kinds and values: a   *)
(* fresh number is what keeps an insert from overwriting another value's   *)
(* placeholder, and the numbering without gaps is what makes the next      *)
(* number fresh.                                                           *)
(***************************************************************************)

VaultInv == VaultTypeOK /\ MapsAreInverse /\ NumberedWithoutGaps

\* The number a mint takes is not in use yet.
LEMMA NextNumberIsFresh ==
    ASSUME VaultTypeOK, NumberedWithoutGaps, NEW k \in Kinds
    PROVE  /\ <<k, counters[k] + 1>> \in Placeholders
           /\ <<k, counters[k] + 1>> \notin DOMAIN toOriginal
<1>1. counters[k] \in Nat
    BY DEF VaultTypeOK
<1>2. <<k, counters[k] + 1>> \in Placeholders
    BY <1>1 DEF Placeholders
<1>3. <<k, counters[k] + 1>> \notin DOMAIN toOriginal
    BY <1>1 DEF NumberedWithoutGaps
<1> QED BY <1>2, <1>3

\* A new vault satisfies the invariant.
LEMMA VaultInitInv == ASSUME VaultInit PROVE VaultInv
<1>1. VaultTypeOK
    BY DEF VaultInit, VaultTypeOK, EmptyMap
<1>2. MapsAreInverse
    BY DEF VaultInit, MapsAreInverse, EmptyMap
<1>3. NumberedWithoutGaps
    BY DEF VaultInit, NumberedWithoutGaps, EmptyMap
<1> QED BY <1>1, <1>2, <1>3 DEF VaultInv

\* One detection's lookup or mint preserves the invariant and rebinds nothing.
LEMMA PlaceholderForInv ==
    ASSUME VaultInv, NEW v \in Values, NEW k \in Kinds, PlaceholderFor(v, k)
    PROVE  VaultInv' /\ KeepsEntries
<1>1. CASE v \in DOMAIN toPlaceholder
    <2>1. UNCHANGED vaultVars
        BY <1>1 DEF PlaceholderFor
    <2> QED BY <2>1 DEF VaultInv, VaultTypeOK, MapsAreInverse, NumberedWithoutGaps,
                        KeepsEntries, vaultVars
<1>2. CASE v \notin DOMAIN toPlaceholder
    <2> DEFINE p == <<k, counters[k] + 1>>
    <2>1. /\ counters' = [counters EXCEPT ![k] = @ + 1]
          /\ toPlaceholder' = Insert(toPlaceholder, v, p)
          /\ toOriginal' = Insert(toOriginal, p, v)
        BY <1>2 DEF PlaceholderFor, PlaceholderOf
    <2>2. p \in Placeholders /\ p \notin DOMAIN toOriginal
        BY NextNumberIsFresh DEF VaultInv
    <2>3. /\ DOMAIN toPlaceholder' = DOMAIN toPlaceholder \cup {v}
          /\ toPlaceholder'[v] = p
          /\ \A w \in DOMAIN toPlaceholder : toPlaceholder'[w] = toPlaceholder[w]
        BY <2>1, <1>2 DEF Insert
    <2>4. /\ DOMAIN toOriginal' = DOMAIN toOriginal \cup {p}
          /\ toOriginal'[p] = v
          /\ \A q \in DOMAIN toOriginal : toOriginal'[q] = toOriginal[q]
        BY <2>1, <2>2 DEF Insert
    <2>5. /\ counters' \in [Kinds -> Nat]
          /\ counters'[k] = counters[k] + 1
          /\ \A j \in Kinds : j # k => counters'[j] = counters[j]
        BY <2>1 DEF VaultInv, VaultTypeOK
    <2>6. VaultTypeOK'
        <3>1. toPlaceholder' \in [DOMAIN toPlaceholder' -> Placeholders]
            BY <2>1, <2>2 DEF VaultInv, VaultTypeOK, Insert
        <3>2. toOriginal' \in [DOMAIN toOriginal' -> Values]
            BY <2>1 DEF VaultInv, VaultTypeOK, Insert
        <3> QED BY <2>2, <2>3, <2>4, <2>5, <3>1, <3>2 DEF VaultInv, VaultTypeOK
    <2>7. MapsAreInverse'
        <3> USE DEF VaultInv, MapsAreInverse
        <3> HIDE DEF p
        <3>1. ASSUME NEW w \in DOMAIN toPlaceholder'
              PROVE  /\ toPlaceholder'[w] \in DOMAIN toOriginal'
                     /\ toOriginal'[toPlaceholder'[w]] = w
            BY <2>3, <2>4
        <3>2. ASSUME NEW q \in DOMAIN toOriginal'
              PROVE  /\ toOriginal'[q] \in DOMAIN toPlaceholder'
                     /\ toPlaceholder'[toOriginal'[q]] = q
            BY <2>3, <2>4, <1>2
        <3> QED BY <3>1, <3>2
    <2>8. NumberedWithoutGaps'
        <3> USE DEF VaultInv, NumberedWithoutGaps, VaultTypeOK
        <3>1. ASSUME NEW q \in DOMAIN toOriginal'
              PROVE  q[2] <= counters'[q[1]]
            <4>1. CASE q = p
                BY <4>1, <2>5
            <4>2. CASE q \in DOMAIN toOriginal
                <5>1. q[1] \in Kinds /\ q[2] \in Nat /\ q[2] <= counters[q[1]]
                    BY <4>2 DEF Placeholders
                <5> QED BY <5>1, <2>5
            <4> QED BY <4>1, <4>2, <2>4
        <3>2. ASSUME NEW j \in Kinds, NEW n \in 1..counters'[j]
              PROVE  <<j, n>> \in DOMAIN toOriginal'
            <4>1. CASE j = k
                <5>1. n \in 1..counters[k] \/ n = counters[k] + 1
                    BY <4>1, <2>5
                <5> QED BY <4>1, <5>1, <2>4
            <4>2. CASE j # k
                BY <4>2, <2>4, <2>5
            <4> QED BY <4>1, <4>2
        <3> QED BY <3>1, <3>2
    <2>9. KeepsEntries
        BY <2>3, <2>4 DEF KeepsEntries
    <2> QED BY <2>6, <2>7, <2>8, <2>9 DEF VaultInv
<1> QED BY <1>1, <1>2

\* Steps that leave the vault alone.
LEMMA VaultStutterInv ==
    ASSUME VaultInv, UNCHANGED vaultVars PROVE VaultInv' /\ KeepsEntries
BY DEF VaultInv, VaultTypeOK, MapsAreInverse, NumberedWithoutGaps, KeepsEntries, vaultVars

\* The two maps are inverse bijections, numbered without gaps, after any
\* detections (Vault::placeholder_for).
THEOREM VaultIsExact == VaultSpec => [](VaultTypeOK /\ MapsAreInverse /\ NumberedWithoutGaps)
<1>1. VaultInit => VaultInv
    BY VaultInitInv
<1>2. VaultInv /\ [VaultNext]_vaultVars => VaultInv'
    BY PlaceholderForInv, VaultStutterInv DEF VaultNext
<1>3. VaultInv => VaultTypeOK /\ MapsAreInverse /\ NumberedWithoutGaps
    BY DEF VaultInv
<1> QED BY <1>1, <1>2, <1>3, PTL DEF VaultSpec

\* A placeholder, once issued, never stands for another value
\* (Vault::placeholder_for).
THEOREM VaultNeverRebinds == VaultSpec => EntriesNeverRebound
<1>1. VaultInit => VaultInv
    BY VaultInitInv
<1>2. VaultInv /\ [VaultNext]_vaultVars => VaultInv'
    BY PlaceholderForInv, VaultStutterInv DEF VaultNext
<1>3. VaultInv /\ [VaultNext]_vaultVars => [KeepsEntries]_vaultVars
    BY PlaceholderForInv DEF VaultNext
<1> QED BY <1>1, <1>2, <1>3, PTL DEF VaultSpec, EntriesNeverRebound

(***************************************************************************)
(* The stage.                                                              *)
(***************************************************************************)

\* Where a field is being worked on.

AtField == {"detect", "scan", "ner", "keep", "mask"}

\* The stage's own part of TypeOK.
StageTypeOK ==
    /\ posture \in Postures
    /\ req \in Requests
    /\ body \in [Fields -> Texts]
    /\ pc \in AtField \cup {"walk", "decide", "done"}
    /\ fld \in 1..(Len(req) + 1)
    /\ pass \in 0..MaxMaskPasses
    /\ current \in Texts
    /\ todo \subseteq Items
    /\ found \subseteq Items
    /\ detectError \in {"none", "structured", "ner", "vault"}
    /\ shapeError \in BOOLEAN
    /\ degraded \subseteq Fields
    /\ answer \in {"none", "blocked", "forwarded", "failed"}

\* Where the program counter says which field and pass is being worked on, and
\* how the request can have been answered.
Control ==
    /\ pc \in AtField => fld \in Fields /\ req[fld].shape = "text"
    /\ pc = "mask" => pass < MaxMaskPasses
    /\ pc = "ner" => pass = 0
    /\ answer = "forwarded" => pc = "done" /\ detectError = "none" /\ fld \notin Fields
    /\ pc = "decide" => shapeError \/ fld \notin Fields
    /\ pc # "done" => answer = "none"
    /\ posture = "required" => degraded = {}

\* What a pass collects lies in the field, and junk is never in it.
Detections ==
    /\ pc \in {"scan", "ner", "keep"} =>
          /\ found \subseteq req[fld].items
          /\ \A i \in found : Class[i] # "junk"
    /\ pc = "scan" => todo \subseteq req[fld].items
    /\ pc = "mask" => \A i \in todo : Class[i] \notin {"token", "junk"}

StepInv == StageTypeOK /\ Control /\ Detections

\* The requests and their fields are what TextAssumption says they are.
LEMMA FieldFacts ==
    ASSUME StageTypeOK
    PROVE  /\ Len(req) \in Nat /\ Fields = 1..Len(req)
           /\ \A f \in Fields : req[f].items \subseteq Items /\ req[f].shape \in Shapes
BY TextAssumption DEF StageTypeOK, Fields, Field

\* What the scans of a text can return.
LEMMA ScanFacts ==
    ASSUME NEW field, NEW t
    PROVE  /\ Structured(field, t) \subseteq field.items
           /\ Named(field, t) \subseteq field.items
           /\ Candidates(field, t) \subseteq field.items
           /\ \A i \in Structured(field, t) : Class[i] = "structured"
           /\ \A i \in Named(field, t) : Class[i] = "ner"
           /\ \A i \in Structured(field, t) : Meter[i] = "free" \/ i \in Candidates(field, t)
BY DEF Structured, Named, Candidates, OfClass, Exposed

\* An untouched text is a text.
LEMMA RawIsText == RawText \in Texts
BY DEF RawText, Texts

\* Types, control and detections: in the first state, and after every step.
LEMMA StageInitInv == ASSUME Init PROVE StepInv
<1>1. req \in Requests /\ Len(req) \in Nat
    BY TextAssumption DEF Init
<1>2. body \in [Fields -> Texts] /\ current \in Texts
    BY RawIsText DEF Init
<1>3. MaxMaskPasses \in Nat
    BY StageAssumption
<1>4. fld \in 1..(Len(req) + 1) /\ pass \in 0..MaxMaskPasses
    BY <1>1, <1>3 DEF Init
<1>5. StageTypeOK
    BY <1>1, <1>2, <1>4 DEF Init, StageTypeOK
<1> QED BY <1>5 DEF Init, Control, Detections, StepInv, AtField

\* One step, action by action.
LEMMA StageStepInv ==
    ASSUME StepInv, VaultTypeOK, Next
    PROVE  StepInv'
<1> USE TextAssumption, StageAssumption
<1> USE DEF StepInv, walkVars, passVars, AtField
<1>f. /\ Len(req) \in Nat /\ Fields = 1..Len(req)
      /\ \A f \in Fields : req[f].items \subseteq Items /\ req[f].shape \in Shapes
    BY FieldFacts
<1>g. req' = req /\ Fields' = Fields /\ posture' = posture
    BY DEF Next, Step, StartField, RefuseShape, WalkEnds, CacheHit, StartScan, Validate,
           ScanExhausted, FailField, ScanEnds, NerAnswers, NerFailsClosed, NerFailsOpen,
           FieldClean, StartMask, NoFixpoint, Replace, NextPass, Block, Forward, TaskPanics, Fields
<1>p. ASSUME NEW i \in todo, Class[i] # "token"
      PROVE  PlaceholderOf(ValueOf[i], KindOf[i]) \in Placeholders
    BY <1>p DEF PlaceholderOf, VaultTypeOK, Placeholders, StageTypeOK
<1>1. ASSUME StartField PROVE StepInv'
    BY <1>1, <1>f, <1>g, RawIsText DEF StartField, StageTypeOK, Control, Detections
<1>2. ASSUME RefuseShape PROVE StepInv'
    BY <1>2, <1>f, <1>g DEF RefuseShape, StageTypeOK, Control, Detections
<1>3. ASSUME WalkEnds PROVE StepInv'
    BY <1>3, <1>f, <1>g DEF WalkEnds, StageTypeOK, Control, Detections
<1>4. ASSUME CacheHit PROVE StepInv'
    BY <1>4, <1>f, <1>g, ScanFacts DEF CacheHit, StageTypeOK, Control, Detections
<1>5. ASSUME StartScan PROVE StepInv'
    BY <1>5, <1>f, <1>g, ScanFacts DEF StartScan, StageTypeOK, Control, Detections
<1>6. ASSUME NEW i \in todo, Validate(i) PROVE StepInv'
    BY <1>6, <1>f, <1>g DEF Validate, StageTypeOK, Control, Detections
<1>7. ASSUME ScanExhausted PROVE StepInv'
    BY <1>7, <1>f, <1>g DEF ScanExhausted, FailField, StageTypeOK, Control, Detections
<1>8. ASSUME ScanEnds PROVE StepInv'
    BY <1>8, <1>f, <1>g DEF ScanEnds, StageTypeOK, Control, Detections
<1>9. ASSUME NerAnswers PROVE StepInv'
    BY <1>9, <1>f, <1>g, ScanFacts DEF NerAnswers, OfClass, StageTypeOK, Control, Detections
<1>10. ASSUME NerFailsClosed PROVE StepInv'
    BY <1>10, <1>f, <1>g DEF NerFailsClosed, FailField, StageTypeOK, Control, Detections
<1>11. ASSUME NerFailsOpen PROVE StepInv'
    BY <1>11, <1>f, <1>g DEF NerFailsOpen, StageTypeOK, Control, Detections
<1>12. ASSUME FieldClean PROVE StepInv'
    BY <1>12, <1>f, <1>g DEF FieldClean, StageTypeOK, Control, Detections
<1>13. ASSUME StartMask PROVE StepInv'
    BY <1>13, <1>f, <1>g DEF StartMask, Maskable, StageTypeOK, Control, Detections
<1>14. ASSUME NoFixpoint PROVE StepInv'
    BY <1>14, <1>f, <1>g DEF NoFixpoint, FailField, StageTypeOK, Control, Detections
<1>15. ASSUME NextPass PROVE StepInv'
    BY <1>15, <1>f, <1>g DEF NextPass, StageTypeOK, Control, Detections
<1>16. ASSUME Block PROVE StepInv'
    BY <1>16, <1>f, <1>g DEF Block, StageTypeOK, Control, Detections
<1>17. ASSUME Forward PROVE StepInv'
    BY <1>17, <1>f, <1>g DEF Forward, StageTypeOK, Control, Detections
<1>18. ASSUME TaskPanics PROVE StepInv'
    BY <1>18, <1>f, <1>g DEF TaskPanics, StageTypeOK, Control, Detections
<1>19. ASSUME NEW i \in todo, Replace(i) PROVE StepInv'
    BY <1>19, <1>f, <1>g, <1>p DEF Replace, StageTypeOK, Control, Detections, Texts
<1> QED BY <1>1, <1>2, <1>3, <1>4, <1>5, <1>6, <1>7, <1>8, <1>9, <1>10, <1>11, <1>12, <1>13, <1>14, <1>15, <1>16, <1>17, <1>18, <1>19 DEF Next, Step

-----------------------------------------------------------------------------
\* Vault and allowance are only ever moved by their own operations.
SharedInv == VaultInv /\ BudgetInv

\* Vault and allowance start out in order.
LEMMA SharedInitInv == ASSUME Init PROVE SharedInv
BY VaultInitInv, BudgetInitInv DEF Init, SharedInv

\* Every step moves them by their own operations or not at all.
LEMMA SharedStepInv ==
    ASSUME SharedInv, StepInv, Next
    PROVE  SharedInv' /\ KeepsEntries
<1>1. ASSUME NEW i \in todo, Validate(i) PROVE SharedInv' /\ KeepsEntries
    <2>1. UNCHANGED vaultVars /\ ~IsExhausted
        BY <1>1 DEF Validate
    <2>2. Regions[i] \in 1..MaxRegions
        BY StageAssumption DEF StepInv, StageTypeOK
    <2>3. BudgetInv'
        BY <1>1, <2>1, <2>2, NationalPhoneInv, IbanCaseGateInv DEF Validate, SharedInv
    <2> QED BY <2>1, <2>3, VaultStutterInv DEF SharedInv
<1>2. ASSUME NEW i \in todo, Replace(i) PROVE SharedInv' /\ KeepsEntries
    <2>1. UNCHANGED budgetVars /\ PlaceholderFor(ValueOf[i], KindOf[i])
        BY <1>2 DEF Replace
    <2>2. ValueOf[i] \in Values /\ KindOf[i] \in Kinds
        BY <1>2, StageAssumption DEF StepInv, StageTypeOK, Detections, Replace
    <2> QED BY <2>1, <2>2, PlaceholderForInv, BudgetStutterInv DEF SharedInv
<1>3. ASSUME UNCHANGED <<vaultVars, budgetVars>> PROVE SharedInv' /\ KeepsEntries
    BY <1>3, VaultStutterInv, BudgetStutterInv DEF SharedInv
<1>4. CASE StartField \/ RefuseShape \/ WalkEnds \/ CacheHit \/ StartScan \/ ScanExhausted
    BY <1>3, <1>4 DEF StartField, RefuseShape, WalkEnds, CacheHit, StartScan,
                      ScanExhausted, FailField
<1>5. CASE ScanEnds \/ NerAnswers \/ NerFailsClosed \/ NerFailsOpen
    BY <1>3, <1>5 DEF ScanEnds, NerAnswers, NerFailsClosed, NerFailsOpen, FailField
<1>6. CASE FieldClean \/ StartMask \/ NoFixpoint \/ NextPass
    BY <1>3, <1>6 DEF FieldClean, StartMask, NoFixpoint, NextPass, FailField
<1>7. CASE Block \/ Forward \/ TaskPanics
    BY <1>3, <1>7 DEF Block, Forward, TaskPanics
<1> QED BY <1>1, <1>2, <1>4, <1>5, <1>6, <1>7 DEF Next, Step

-----------------------------------------------------------------------------
\* What stands in a text in place of a value is the vault's placeholder for it.
IsAlias(i, p) ==
    /\ Class[i] \notin {"token", "junk"}
    /\ ValueOf[i] \in DOMAIN toPlaceholder
    /\ toPlaceholder[ValueOf[i]] = p

AliasInv ==
    /\ \A f \in Fields : \A i \in Items : body[f][i] # Raw => IsAlias(i, body[f][i])
    /\ \A i \in Items : current[i] # Raw => IsAlias(i, current[i])

\* Nothing stands replaced before the walk, and every replacement is an alias.
LEMMA AliasInitInv == ASSUME Init PROVE AliasInv
BY DEF Init, AliasInv, RawText

\* One step, action by action.
LEMMA AliasStepInv ==
    ASSUME SharedInv, StepInv, AliasInv, Next, KeepsEntries
    PROVE  AliasInv'
<1>1. req' = req /\ Fields' = Fields
    BY DEF Next, Step, StartField, RefuseShape, WalkEnds, CacheHit, StartScan, Validate,
           ScanExhausted, FailField, ScanEnds, NerAnswers, NerFailsClosed, NerFailsOpen,
           FieldClean, StartMask, NoFixpoint, Replace, NextPass, Block, Forward, TaskPanics,
           Fields, walkVars
<1>2. ASSUME NEW i, NEW p, IsAlias(i, p)
      PROVE  /\ Class[i] \notin {"token", "junk"}
             /\ ValueOf[i] \in DOMAIN toPlaceholder'
             /\ toPlaceholder'[ValueOf[i]] = p
    BY <1>2 DEF IsAlias, KeepsEntries
<1>3. ASSUME UNCHANGED <<body, current>> PROVE AliasInv'
    BY <1>1, <1>2, <1>3 DEF AliasInv, IsAlias
<1>4. ASSUME StartField PROVE AliasInv'
    BY <1>1, <1>2, <1>4 DEF StartField, walkVars, AliasInv, IsAlias, RawText
<1>5. ASSUME FieldClean PROVE AliasInv'
    BY <1>1, <1>2, <1>5 DEF FieldClean, passVars, AliasInv, IsAlias, StepInv, StageTypeOK
<1>6. ASSUME NEW i \in todo, Replace(i) PROVE AliasInv'
    <2>1. current' = [current EXCEPT ![i] = PlaceholderOf(ValueOf[i], KindOf[i])] /\ body' = body
        BY <1>6 DEF Replace, walkVars
    <2>2. /\ Class[i] \notin {"token", "junk"}
          /\ ValueOf[i] \in DOMAIN toPlaceholder'
          /\ toPlaceholder'[ValueOf[i]] = PlaceholderOf(ValueOf[i], KindOf[i])
        BY <1>6 DEF Replace, PlaceholderFor, PlaceholderOf, Insert, vaultVars, StepInv, Detections
    <2>3. ASSUME NEW j \in Items, current'[j] # Raw PROVE IsAlias(j, current[j])'
        <3>1. current \in [Items -> Placeholders \cup {Raw}]
            BY DEF StepInv, StageTypeOK, Texts
        <3>2. CASE j = i
            BY <2>1, <2>2, <3>1, <3>2 DEF IsAlias
        <3>3. CASE j # i
            <4>1. current'[j] = current[j]
                BY <2>1, <3>1, <3>3
            <4>2. IsAlias(j, current[j])
                BY <2>3, <4>1 DEF AliasInv
            <4> QED BY <4>1, <4>2, <1>2 DEF IsAlias
        <3> QED BY <3>2, <3>3
    <2>4. ASSUME NEW f \in Fields, NEW j \in Items, body[f][j] # Raw
          PROVE  IsAlias(j, body[f][j])'
        BY <2>4, <2>1, <1>2 DEF AliasInv, IsAlias
    <2> QED BY <1>1, <2>1, <2>3, <2>4 DEF AliasInv
<1>7. CASE RefuseShape \/ WalkEnds \/ CacheHit \/ StartScan \/ ScanExhausted \/ ScanEnds
    BY <1>3, <1>7 DEF RefuseShape, WalkEnds, CacheHit, StartScan, ScanExhausted, FailField,
                      ScanEnds, walkVars, passVars
<1>8. CASE NerAnswers \/ NerFailsClosed \/ NerFailsOpen \/ StartMask \/ NoFixpoint \/ NextPass
    BY <1>3, <1>8 DEF NerAnswers, NerFailsClosed, NerFailsOpen, StartMask, NoFixpoint,
                      NextPass, FailField, walkVars, passVars
<1>9. CASE Block \/ Forward \/ TaskPanics \/ \E i \in todo : Validate(i)
    BY <1>3, <1>9 DEF Block, Forward, TaskPanics, Validate, walkVars, passVars
<1> QED BY <1>4, <1>5, <1>6, <1>7, <1>8, <1>9 DEF Next, Step
-----------------------------------------------------------------------------
\* The ML detector has had its say on field f.
Heard(f) == HasNer /\ f \notin degraded

\* What a pass must still replace is in todo or found, and what pass 0 heard
\* from the ML detector stays replaced in the passes behind it.
Coverage ==
    /\ pass = 0 /\ pc \in {"detect", "scan", "ner", "keep"} => current = RawText
    /\ pc = "scan" => Structured(req[fld], current) \subseteq found \cup todo
    /\ pc \in {"ner", "keep"} => Structured(req[fld], current) \subseteq found
    /\ pc \in AtField /\ Heard(fld) =>
          \A i \in Named(req[fld], RawText) :
              /\ pc = "keep" /\ pass = 0 => i \in found
              /\ pc = "mask" => i \in todo \/ current[i] # Raw
              /\ pc # "mask" /\ pass # 0 => current[i] # Raw

\* Field f may leave the proxy as it stands.
CleanField(f) ==
    /\ req[f].shape = "text"
    /\ Structured(req[f], body[f]) = {}
    /\ Heard(f) => \A i \in Named(req[f], RawText) : body[f][i] # Raw

WalkedAreClean == detectError = "none" => \A f \in Fields : f < fld => CleanField(f)

CleanInv == Coverage /\ WalkedAreClean

\* No field has been walked yet; and every step keeps what is covered covered.
LEMMA CleanInitInv == ASSUME Init PROVE CleanInv
<1>1. fld = 1 /\ Fields \subseteq Nat \ {0}
    BY TextAssumption DEF Init, Fields
<1>2. WalkedAreClean
    BY <1>1 DEF WalkedAreClean
<1> QED BY <1>2 DEF Init, CleanInv, Coverage, AtField

\* One step, action by action.
LEMMA CleanStepInv ==
    ASSUME SharedInv, StepInv, CleanInv, Next
    PROVE  CleanInv'
<1> USE DEF AtField, walkVars, passVars, Heard
<1>1. /\ Fields \subseteq Nat /\ fld \in Nat /\ MaxMaskPasses \in Nat /\ pass \in Nat
      /\ req' = req /\ Fields' = Fields
    BY TextAssumption, StageAssumption
       DEF Next, Step, StartField, RefuseShape, WalkEnds, CacheHit, StartScan, Validate,
           ScanExhausted, FailField, ScanEnds, NerAnswers, NerFailsClosed, NerFailsOpen,
           FieldClean, StartMask, NoFixpoint, Replace, NextPass, Block, Forward, TaskPanics,
           Fields, StepInv, StageTypeOK
\* Steps that move neither the walk nor the texts.
<1>2. ASSUME UNCHANGED <<body, fld, detectError>>, degraded \subseteq degraded' PROVE WalkedAreClean'
    BY <1>1, <1>2 DEF CleanInv, WalkedAreClean, CleanField
<1>3. CASE StartField
    BY <1>1, <1>2, <1>3 DEF StartField, CleanInv, Coverage
<1>4. CASE RefuseShape \/ WalkEnds \/ Block \/ Forward \/ TaskPanics
    BY <1>1, <1>2, <1>4 DEF RefuseShape, WalkEnds, Block, Forward, TaskPanics, CleanInv, Coverage
<1>5. CASE CacheHit
    BY <1>1, <1>2, <1>5 DEF CacheHit, CleanInv, Coverage
<1>6. CASE StartScan
    BY <1>1, <1>2, <1>6, ScanFacts DEF StartScan, CleanInv, Coverage
<1>7. ASSUME NEW i \in todo, Validate(i) PROVE CleanInv'
    BY <1>1, <1>2, <1>7, ScanFacts DEF Validate, CleanInv, Coverage
<1>8. CASE ScanExhausted \/ NerFailsClosed \/ NoFixpoint
    BY <1>1, <1>8 DEF ScanExhausted, NerFailsClosed, NoFixpoint, FailField, CleanInv, Coverage,
                      WalkedAreClean, StepInv, StageTypeOK
<1>9. CASE ScanEnds
    BY <1>1, <1>2, <1>9 DEF ScanEnds, CleanInv, Coverage
<1>10. CASE NerAnswers
    BY <1>1, <1>2, <1>10 DEF NerAnswers, CleanInv, Coverage, StepInv, Control
<1>11. CASE NerFailsOpen
    BY <1>1, <1>2, <1>11 DEF NerFailsOpen, CleanInv, Coverage
<1>12. CASE FieldClean
    BY <1>1, <1>12, ScanFacts DEF FieldClean, Maskable, CleanInv, Coverage, WalkedAreClean, CleanField, StepInv, StageTypeOK, Control
<1>13. CASE StartMask
    BY <1>1, <1>2, <1>13, ScanFacts DEF StartMask, Maskable, CleanInv, Coverage
<1>14. ASSUME NEW i \in todo, Replace(i) PROVE CleanInv'
    <2>1. PlaceholderOf(ValueOf[i], KindOf[i]) # Raw
        BY <1>14, StageAssumption DEF Replace, PlaceholderOf, Placeholders, SharedInv, VaultInv,
              VaultTypeOK, StepInv, StageTypeOK, Detections
    <2>2. current \in [Items -> Placeholders \cup {Raw}] /\ i \in Items
        BY DEF StepInv, StageTypeOK, Texts
    <2>3. \A j \in Items : j \in todo \/ current[j] # Raw => j \in todo' \/ current'[j] # Raw
        BY <2>1, <2>2, <1>14 DEF Replace
    <2>4. Coverage'
        <3>1. Named(req[fld], RawText) \subseteq Items
            BY <1>14, FieldFacts, ScanFacts DEF Replace, StepInv, Control
        <3> QED BY <1>1, <1>14, <2>3, <3>1 DEF Replace, CleanInv, Coverage
    <2> QED BY <1>2, <1>14, <2>4 DEF Replace, CleanInv
<1>15. CASE NextPass
    BY <1>1, <1>2, <1>15 DEF NextPass, CleanInv, Coverage
<1> QED BY <1>3, <1>4, <1>5, <1>6, <1>7, <1>8, <1>9, <1>10, <1>11, <1>12, <1>13, <1>14, <1>15
        DEF Next, Step
-----------------------------------------------------------------------------
(* Why a request is refused: the failure that is remembered has had its    *)
(* cause, and what the last pass still finds lies as deep as the passes    *)
(* have gone.                                                              *)

\* Occurrence i of field f lies n deep: a chain of covers leads to it.
NestedTo(f, i, n) ==
    \E chain \in [1..(n + 1) -> req[f].items] :
        /\ chain[n + 1] = i
        /\ \A k \in 1..n : Cover[chain[k + 1]] = chain[k]

\* What a pass finds lies as deep as the passes before it; what it leaves
\* is hidden by something that may just have been replaced.
Depth ==
    /\ pc = "detect" => \A i \in Structured(req[fld], current) : NestedTo(fld, i, pass)
    /\ pc = "scan" => \A i \in todo : Class[i] = "structured" => NestedTo(fld, i, pass)
    /\ pc \in {"scan", "ner", "keep"} => \A i \in found : NestedTo(fld, i, pass)
    /\ pc = "mask" =>
          /\ \A i \in todo : NestedTo(fld, i, pass)
          /\ \A i \in OfClass("structured", req[fld].items) :
                current[i] = Raw /\ i \notin todo =>
                    /\ Cover[i] \in req[fld].items
                    /\ current[Cover[i]] = Raw \/ NestedTo(fld, Cover[i], pass)

\* Each kind of failure has had its cause.
Causes ==
    /\ pc = "ner" => HasNer
    /\ detectError = "structured" => IsExhausted
    /\ detectError = "ner" => HasNer /\ posture = "required"
    /\ detectError = "vault" => \E f \in Fields : NestedDeeperThan(f, MaxMaskPasses)
    /\ answer = "blocked" => shapeError \/ detectError # "none"

CauseInv == Depth /\ Causes

\* A pass behind the first only finds what the pass before it uncovered.
LEMMA NestedDeeper ==
    ASSUME NEW f, NEW n \in Nat, NEW i \in req[f].items, Cover[i] \in req[f].items,
           NestedTo(f, Cover[i], n)
    PROVE  NestedTo(f, i, n + 1)
<1>1. PICK chain \in [1..(n + 1) -> req[f].items] :
          /\ chain[n + 1] = Cover[i]
          /\ \A k \in 1..n : Cover[chain[k + 1]] = chain[k]
    BY DEF NestedTo
<1> DEFINE longer == [k \in 1..(n + 1 + 1) |-> IF k = n + 1 + 1 THEN i ELSE chain[k]]
<1>2. \A k \in 1..(n + 1) : k # n + 1 + 1 /\ longer[k] = chain[k]
    OBVIOUS
<1>3. longer[n + 1 + 1] = i
    OBVIOUS
<1>4. longer \in [1..(n + 1 + 1) -> req[f].items]
    OBVIOUS
<1>5. ASSUME NEW k \in 1..(n + 1) PROVE Cover[longer[k + 1]] = longer[k]
    <2>1. CASE k = n + 1
        BY <1>1, <1>2, <1>3, <2>1
    <2>2. CASE k # n + 1
        <3>1. k \in 1..n /\ k + 1 \in 1..(n + 1)
            BY <2>2
        <3> QED BY <1>1, <1>2, <3>1
    <2> QED BY <2>1, <2>2
<1> HIDE DEF longer
<1> QED BY <1>3, <1>4, <1>5 DEF NestedTo

\* The first pass needs no cover.
LEMMA NestedAtFirst ==
    ASSUME NEW f, NEW i \in req[f].items
    PROVE  NestedTo(f, i, 0)
<1> DEFINE chain == [k \in 1..(0 + 1) |-> i]
<1>1. chain \in [1..(0 + 1) -> req[f].items] /\ chain[0 + 1] = i
    OBVIOUS
<1>2. \A k \in 1..0 : Cover[chain[k + 1]] = chain[k]
    OBVIOUS
<1> HIDE DEF chain
<1> QED BY <1>1, <1>2 DEF NestedTo

LEMMA CauseInitInv == ASSUME Init PROVE CauseInv
BY DEF Init, CauseInv, Depth, Causes

\* What NestedTo and NestedDeeperThan say depends on the request alone.
LEMMA SameNesting ==
    ASSUME req' = req
    PROVE  /\ \A f, i, n : NestedTo(f, i, n) => NestedTo(f, i, n)'
           /\ \A f, n : NestedDeeperThan(f, n) => NestedDeeperThan(f, n)'
BY DEF NestedTo, NestedDeeperThan

\* One step, action by action.
LEMMA CauseStepInv ==
    ASSUME SharedInv, StepInv, CleanInv, CauseInv, Next
    PROVE  CauseInv'
<1> USE DEF walkVars, passVars
<1>1. /\ Fields \subseteq Nat /\ fld \in Nat /\ MaxMaskPasses \in Nat /\ pass \in Nat
      /\ req' = req /\ Fields' = Fields
    BY TextAssumption, StageAssumption
       DEF Next, Step, StartField, RefuseShape, WalkEnds, CacheHit, StartScan, Validate,
           ScanExhausted, FailField, ScanEnds, NerAnswers, NerFailsClosed, NerFailsOpen,
           FieldClean, StartMask, NoFixpoint, Replace, NextPass, Block, Forward, TaskPanics,
           Fields, StepInv, StageTypeOK
<1>2. /\ \A f, i, n : NestedTo(f, i, n) => NestedTo(f, i, n)'
      /\ \A f, n : NestedDeeperThan(f, n) => NestedDeeperThan(f, n)'
    BY <1>1, SameNesting
\* Steps that fail no field and answer nothing.
<1>3. ASSUME UNCHANGED <<detectError, posture, left, answer>>, shapeError => shapeError',
             pc' # "ner" \/ HasNer
      PROVE  Causes'
    <2>1. detectError' = "vault" => \E f \in Fields' : NestedDeeperThan(f, MaxMaskPasses)'
        BY <1>1, <1>2, <1>3 DEF CauseInv, Causes
    <2>2. detectError' = "structured" => IsExhausted'
        BY <1>3 DEF CauseInv, Causes, IsExhausted
    <2>3. /\ pc' = "ner" => HasNer
          /\ detectError' = "ner" => HasNer /\ posture' = "required"
        BY <1>3 DEF CauseInv, Causes
    <2>4. answer' = "blocked" => shapeError' \/ detectError' # "none"
        BY <1>3 DEF CauseInv, Causes
    <2> QED BY <2>1, <2>2, <2>3, <2>4 DEF Causes
<1>4. CASE StartField
    <2>1. fld \in Fields /\ pass' = 0 /\ pc' = "detect"
        BY <1>4 DEF StartField
    <2>2. \A i \in req[fld].items : NestedTo(fld, i, 0)
        BY NestedAtFirst
    <2>3. Structured(req[fld], current') \subseteq req[fld].items
        BY DEF Structured, OfClass, Exposed
    <2>4. Depth'
        BY <1>1, <1>2, <1>4, <2>1, <2>2, <2>3 DEF StartField, Depth, Structured, OfClass, Exposed
    <2> QED BY <1>3, <1>4, <2>4 DEF StartField, CauseInv, budgetVars
<1>5. CASE RefuseShape \/ WalkEnds
    BY <1>3, <1>5 DEF RefuseShape, WalkEnds, CauseInv, Depth, budgetVars
<1>6. CASE Block \/ Forward \/ TaskPanics
    BY <1>1, <1>2, <1>6 DEF Block, Forward, TaskPanics, CauseInv, Depth, Causes, IsExhausted, budgetVars
<1>7. CASE CacheHit
    <2>1. \A i \in req[fld].items : NestedTo(fld, i, 0)
        BY NestedAtFirst
    <2>2. found' \subseteq req[fld].items /\ pass' = 0 /\ pc' = "keep" /\ fld' = fld
        BY <1>7, ScanFacts DEF CacheHit, Structured, Named, OfClass, Exposed
    <2>3. Depth'
        BY <1>1, <1>2, <2>1, <2>2 DEF Depth
    <2> QED BY <1>3, <1>7, <2>2, <2>3 DEF CacheHit, CauseInv, budgetVars
<1>8. CASE StartScan
    <2>1. /\ \A i \in todo' : Class[i] = "structured" => i \in Structured(req[fld], current)
          /\ found' \subseteq Structured(req[fld], current)
          /\ pc' = "scan" /\ fld' = fld /\ pass' = pass /\ pc = "detect"
        BY <1>8 DEF StartScan, Candidates, Structured, OfClass
    <2>2. Depth'
        BY <1>2, <2>1 DEF CauseInv, Depth
    <2> QED BY <1>3, <1>8, <2>1, <2>2 DEF StartScan, CauseInv, budgetVars
<1>9. ASSUME NEW i \in todo, Validate(i) PROVE CauseInv'
    <2>1. /\ pc = "scan" /\ ~IsExhausted /\ todo' \subseteq todo /\ pc' = "scan"
          /\ found' = IF Class[i] = "structured" THEN found \cup {i} ELSE found
          /\ fld' = fld /\ pass' = pass /\ answer' = answer /\ detectError' = detectError
          /\ posture' = posture /\ shapeError' = shapeError
        BY <1>9 DEF Validate
    <2>2. Depth'
        BY <1>2, <2>1 DEF CauseInv, Depth
    <2>3. Causes'
        BY <1>1, <1>2, <2>1 DEF CauseInv, Causes
    <2> QED BY <2>2, <2>3 DEF CauseInv
<1>10. CASE ScanExhausted
    BY <1>1, <1>2, <1>10 DEF ScanExhausted, FailField, CauseInv, Depth, Causes, IsExhausted, budgetVars
<1>11. CASE NerFailsClosed
    BY <1>1, <1>2, <1>11 DEF NerFailsClosed, FailField, CauseInv, Depth, Causes, IsExhausted, budgetVars
<1>12. CASE NoFixpoint
    <2>1. PICK i \in found : NestedTo(fld, i, MaxMaskPasses)
        BY <1>12 DEF NoFixpoint, Maskable, CauseInv, Depth
    <2>2. NestedDeeperThan(fld, MaxMaskPasses) /\ fld \in Fields
        BY <1>12, <2>1 DEF NestedTo, NestedDeeperThan, NoFixpoint, StepInv, Control, AtField
    <2> QED BY <1>1, <1>2, <1>12, <2>2
            DEF NoFixpoint, FailField, CauseInv, Depth, Causes, IsExhausted, budgetVars
<1>13. CASE ScanEnds
    <2>1. Depth'
        BY <1>2, <1>13 DEF ScanEnds, CauseInv, Depth
    <2> QED BY <1>3, <1>13, <2>1 DEF ScanEnds, CauseInv, budgetVars
<1>14. CASE NerAnswers
    <2>1. /\ pc = "ner" /\ pass = 0 /\ pc' = "keep" /\ pass' = pass /\ fld' = fld
          /\ \A i \in found' : i \in found \/ i \in req[fld].items
        BY <1>14 DEF NerAnswers, StepInv, Control, OfClass, Named, Exposed
    <2>2. Depth'
        BY <1>2, <2>1, NestedAtFirst DEF CauseInv, Depth
    <2> QED BY <1>3, <1>14, <2>1, <2>2 DEF NerAnswers, CauseInv, budgetVars
<1>15. CASE NerFailsOpen
    <2>1. Depth'
        BY <1>2, <1>15 DEF NerFailsOpen, CauseInv, Depth
    <2> QED BY <1>3, <1>15, <2>1 DEF NerFailsOpen, CauseInv, budgetVars
<1>16. CASE FieldClean
    BY <1>3, <1>16 DEF FieldClean, CauseInv, Depth, budgetVars
<1>17. CASE StartMask
    <2>1. /\ pc = "keep" /\ pc' = "mask" /\ todo' = {i \in found : Class[i] # "token"}
          /\ fld' = fld /\ pass' = pass /\ current' = current
        BY <1>17 DEF StartMask, Maskable
    <2>2. ASSUME NEW i \in OfClass("structured", req[fld].items), current[i] = Raw, i \notin todo'
          PROVE  Cover[i] \in req[fld].items /\ current[Cover[i]] = Raw
        <3>1. i \notin Structured(req[fld], current)
            BY <2>1, <2>2 DEF CleanInv, Coverage, OfClass
        <3> QED BY <2>2, <3>1 DEF Structured, OfClass, Exposed
    <2>3. Depth'
        BY <1>1, <1>2, <2>1, <2>2 DEF CauseInv, Depth, OfClass
    <2> QED BY <1>3, <1>17, <2>1, <2>3 DEF StartMask, CauseInv, budgetVars
<1>18. ASSUME NEW i \in todo, Replace(i) PROVE CauseInv'
    <2>1. /\ pc = "mask" /\ pc' = "mask" /\ todo' = todo \ {i} /\ fld' = fld /\ pass' = pass
          /\ NestedTo(fld, i, pass) /\ current \in [Items -> Placeholders \cup {Raw}]
        BY <1>18 DEF Replace, CauseInv, Depth, StepInv, StageTypeOK, Texts
    <2>2. \A j \in Items : j # i => current'[j] = current[j]
        BY <1>18, <2>1 DEF Replace
    <2>3. req[fld].items \subseteq Items /\ i \in Items
        BY <1>18, FieldFacts DEF Replace, StepInv, StageTypeOK, Control, AtField
    <2>4. PlaceholderOf(ValueOf[i], KindOf[i]) # Raw
        BY <1>18, StageAssumption DEF Replace, PlaceholderOf, Placeholders, SharedInv, VaultInv,
              VaultTypeOK, StepInv, StageTypeOK, Detections
    <2>5. current'[i] # Raw
        BY <1>18, <2>1, <2>3, <2>4 DEF Replace
    <2>6. ASSUME NEW j \in OfClass("structured", req[fld].items), current'[j] = Raw, j \notin todo'
          PROVE  /\ Cover[j] \in req[fld].items
                 /\ current'[Cover[j]] = Raw \/ NestedTo(fld, Cover[j], pass)
        <3>1. j # i /\ j \in Items
            BY <2>3, <2>5, <2>6 DEF OfClass
        <3>2. current[j] = Raw /\ j \notin todo
            BY <2>1, <2>2, <2>6, <3>1
        <3>3. /\ Cover[j] \in req[fld].items
              /\ current[Cover[j]] = Raw \/ NestedTo(fld, Cover[j], pass)
            BY <2>1, <3>2 DEF CauseInv, Depth
        <3> QED BY <2>1, <2>2, <2>3, <3>3
    <2>7. Depth'
        BY <1>1, <1>2, <2>1, <2>6 DEF CauseInv, Depth, OfClass
    <2> QED BY <1>3, <1>18, <2>1, <2>7 DEF Replace, CauseInv, budgetVars
<1>19. CASE NextPass
    <2>1. /\ pc = "mask" /\ todo = {} /\ pc' = "detect" /\ pass' = pass + 1 /\ fld' = fld
          /\ current' = current
        BY <1>19 DEF NextPass
    <2>2. ASSUME NEW i \in Structured(req[fld], current) PROVE NestedTo(fld, i, pass + 1)
        <3>1. /\ i \in OfClass("structured", req[fld].items) /\ current[i] = Raw
              /\ Cover[i] \notin req[fld].items \/ current[Cover[i]] # Raw
              /\ i \in req[fld].items
            BY <2>2 DEF Structured, OfClass, Exposed
        <3>2. Cover[i] \in req[fld].items /\ NestedTo(fld, Cover[i], pass)
            BY <2>1, <3>1 DEF CauseInv, Depth
        <3> QED BY <1>1, <3>1, <3>2, NestedDeeper
    <2>3. Depth'
        BY <1>1, <1>2, <2>1, <2>2 DEF Depth, Structured, OfClass, Exposed
    <2> QED BY <1>3, <1>19, <2>1, <2>3 DEF NextPass, CauseInv, budgetVars
<1> QED BY <1>4, <1>5, <1>6, <1>7, <1>8, <1>9, <1>10, <1>11, <1>12, <1>13, <1>14, <1>15, <1>16,
           <1>17, <1>18, <1>19 DEF Next, Step
-----------------------------------------------------------------------------
StageInv == StepInv /\ SharedInv /\ AliasInv /\ CleanInv /\ CauseInv

\* The invariant holds at first.
LEMMA StageInvInit == Init => StageInv
BY StageInitInv, SharedInitInv, AliasInitInv, CleanInitInv, CauseInitInv DEF StageInv

\* The invariant is inductive, and no step rebinds a placeholder.
LEMMA StageInvStep == StageInv /\ [Next]_vars => StageInv' /\ [KeepsEntries]_vaultVars
<1>1. ASSUME StageInv, Next PROVE StageInv' /\ KeepsEntries
    BY <1>1, StageStepInv, SharedStepInv, AliasStepInv, CleanStepInv, CauseStepInv
       DEF StageInv, SharedInv, VaultInv
<1>2. ASSUME StageInv, UNCHANGED vars PROVE StageInv'
    <2>1. UNCHANGED <<vaultVars, budgetVars, stageVars>>
        BY <1>2 DEF vars
    <2>2. SharedInv'
        BY <1>2, <2>1, VaultStutterInv, BudgetStutterInv DEF StageInv, SharedInv
    <2>3. StepInv'
        BY <1>2, <2>1 DEF StageInv, StepInv, StageTypeOK, Control, Detections, Fields, stageVars
    <2>4. AliasInv'
        BY <1>2, <2>1 DEF StageInv, AliasInv, IsAlias, Fields, stageVars, vaultVars
    <2>5. CleanInv'
        BY <1>2, <2>1 DEF StageInv, CleanInv, Coverage, WalkedAreClean, CleanField, Heard, Fields, stageVars
    <2>6. CauseInv'
        <3>1. req' = req
            BY <2>1 DEF stageVars
        <3>2. /\ \A f, i, n : NestedTo(f, i, n) => NestedTo(f, i, n)'
              /\ \A f, n : NestedDeeperThan(f, n) => NestedDeeperThan(f, n)'
            BY <3>1, SameNesting
        <3> QED BY <1>2, <2>1, <3>2 DEF StageInv, CauseInv, Depth, Causes, Fields, IsExhausted, Structured,
                         OfClass, Exposed, stageVars, budgetVars
    <2> QED BY <2>2, <2>3, <2>4, <2>5, <2>6 DEF StageInv
<1>3. UNCHANGED vars => UNCHANGED vaultVars
    BY DEF vars
<1> QED BY <1>1, <1>2, <1>3

\* Every variable of the stage, its vault and its allowance keeps its type.
THEOREM StageTypeCorrect == Spec => []TypeOK
<1>1. StageInv => TypeOK
    BY DEF StageInv, StepInv, StageTypeOK, SharedInv, VaultInv, BudgetInv, TypeOK, AtField
<1> QED BY <1>1, StageInvInit, StageInvStep, PTL DEF Spec

\* For every set of requests, every nesting of values, every allowance and every
\* bound on the passes: what is forwarded holds nothing a fresh scan would
\* recognize (Vault::mask_all, PrivacyStage::on_request).
THEOREM StageForwardsClean == Spec => []ForwardedIsClean
<1>1. StageInv => ForwardedIsClean
    <2> SUFFICES ASSUME StageInv, answer = "forwarded", NEW f \in Fields
                 PROVE  /\ req[f].shape = "text"
                        /\ Structured(req[f], body[f]) = {}
                        /\ HasNer /\ f \notin degraded =>
                              \A i \in Named(req[f], RawText) : body[f][i] # Raw
        BY DEF ForwardedIsClean
    <2>1. detectError = "none" /\ fld \notin Fields
        BY DEF StageInv, StepInv, Control
    <2>2. Len(req) \in Nat /\ Fields = 1..Len(req) /\ fld \in 1..(Len(req) + 1)
        BY FieldFacts DEF StageInv, StepInv, StageTypeOK
    <2>3. CleanField(f)
        BY <2>1, <2>2 DEF StageInv, CleanInv, WalkedAreClean
    <2> QED BY <2>3 DEF CleanField, Heard
<1> QED BY <1>1, StageInvInit, StageInvStep, PTL DEF Spec

\* One value has one placeholder and one placeholder one value, in every field
\* of a request (Vault::mask, Vault::placeholder_for).
THEOREM StageReplacesConsistently == Spec => [](ReplacedConsistently /\ TokensStayInert)
<1>1. StageInv => ReplacedConsistently /\ TokensStayInert
    <2> SUFFICES ASSUME StageInv PROVE ReplacedConsistently /\ TokensStayInert
        OBVIOUS
    <2>1. ASSUME NEW f \in Fields, NEW i \in req[f].items, body[f][i] # Raw
          PROVE  IsAlias(i, body[f][i])
        BY <2>1, FieldFacts DEF StageInv, StepInv, AliasInv
    <2>2. MapsAreInverse
        BY DEF StageInv, SharedInv, VaultInv
    <2>3. ReplacedConsistently
        BY <2>1, <2>2 DEF ReplacedConsistently, IsAlias, MapsAreInverse
    <2>4. TokensStayInert
        BY <2>1 DEF TokensStayInert, IsAlias
    <2> QED BY <2>3, <2>4
<1> QED BY <1>1, StageInvInit, StageInvStep, PTL DEF Spec

\* As long as no client text is spelled like a placeholder, a body echoed back by the
\* provider is restored exactly, whatever was masked in however many passes
\* (Vault::demask).
THEOREM StageRoundTrips == Spec => []PlainRoundTrip
<1>1. StageInv => PlainRoundTrip
    <2> SUFFICES ASSUME StageInv, EchoFree, NEW f \in Fields, NEW i \in req[f].items
                 PROVE  Demask(Shown(f, i)) = ValueOf[i]
        BY DEF PlainRoundTrip, RoundTripIsExact
    <2>1. i \in Items /\ Class[i] # "token"
        BY FieldFacts DEF StageInv, StepInv, EchoFree
    <2>2. CASE body[f][i] = Raw
        <3>1. ValueOf[i] \notin DOMAIN toOriginal
            BY <2>1, StageAssumption DEF StageInv, SharedInv, VaultInv, VaultTypeOK
        <3> QED BY <2>2, <3>1 DEF Demask, Shown
    <2>3. CASE body[f][i] # Raw
        <3>1. IsAlias(i, body[f][i])
            BY <2>1, <2>3 DEF StageInv, AliasInv
        <3> QED BY <2>3, <3>1 DEF Demask, Shown, IsAlias, StageInv, SharedInv, VaultInv, MapsAreInverse
    <2> QED BY <2>2, <2>3
<1> QED BY <1>1, StageInvInit, StageInvStep, PTL DEF Spec

\* A request is refused only for a shape the walk cannot interpret, an allowance
\* that is really used up, a required ML detector that failed, or values nested
\* deeper than the passes reach (PrivacyStage::on_request, Vault::mask_all).
THEOREM StageBlocksForCause == Spec => []BlockedForCause
<1>1. StageInv => BlockedForCause
    <2> SUFFICES ASSUME StageInv, answer = "blocked", ~shapeError
                 PROVE  \/ detectError = "structured" /\ Work >= initial
                        \/ detectError = "ner" /\ HasNer /\ posture = "required"
                        \/ /\ detectError = "vault"
                           /\ \E f \in Fields : NestedDeeperThan(f, MaxMaskPasses)
        BY DEF BlockedForCause
    <2>1. detectError \in {"structured", "ner", "vault"}
        BY DEF StageInv, CauseInv, Causes, StepInv, StageTypeOK
    <2>2. ASSUME IsExhausted PROVE Work >= initial
        <3>1. initial \in Nat /\ Work \in Nat /\ left = 0 /\ BudgetInv
            <4>1. CallsPerUnit \in Nat \ {0} /\ gates \in Nat /\ parses \in Nat /\ initial \in Nat
                BY BudgetAssumption DEF StageInv, SharedInv, BudgetInv, BudgetTypeOK
            <4>2. gates \div CallsPerUnit \in Nat
                BY <4>1, DivMod
            <4> QED BY <2>2, <4>1, <4>2 DEF StageInv, SharedInv, IsExhausted, Work
        <3>2. initial - 0 = IF Work <= initial THEN Work ELSE initial
            BY <3>1 DEF BudgetInv, ChargeIsExact, Spent
        <3> HIDE DEF Work
        <3> QED BY <3>1, <3>2
    <2> QED BY <2>1, <2>2 DEF StageInv, CauseInv, Causes
<1> QED BY <1>1, StageInvInit, StageInvStep, PTL DEF Spec

\* However many fields, passes and candidates a request has, it costs no more
\* than its one allowance and the tail of the candidate that crossed it.
THEOREM StageBoundsWork == Spec => []WorkBounded
<1>1. StageInv => WorkBounded
    BY DEF StageInv, SharedInv, BudgetInv
<1> QED BY <1>1, StageInvInit, StageInvStep, PTL DEF Spec

\* Nothing a request does rebinds a placeholder it has already written.
THEOREM StageNeverRebinds == Spec => EntriesNeverRebound
<1> QED BY StageInvInit, StageInvStep, PTL DEF Spec, EntriesNeverRebound
-----------------------------------------------------------------------------
(* The stage implements FieldwiseMasking.                                  *)

\* MaskedText means the same in both modules.
LEMMA SameText ==
    /\ Promise!RawText = RawText
    /\ \A field, t : /\ Promise!Structured(field, t) = Structured(field, t)
                     /\ Promise!Named(field, t) = Named(field, t)
BY DEF Promise!RawText, Promise!Structured, Promise!Named, Promise!OfClass, Promise!Exposed,
       RawText, Structured, Named, OfClass, Exposed

\* Initial states map to initial states.
LEMMA StagePromiseInit == Init => Promise!Init
<1> SUFFICES ASSUME Init PROVE Promise!Init
    OBVIOUS
<1>1. DOMAIN toPlaceholder = {} /\ fld - 1 = 0
    BY DEF Init, VaultInit, EmptyMap
<1>2. req \in Requests /\ body = [f \in 1..Len(req) |-> RawText] /\ answer = "none"
    BY DEF Init, Fields
<1>3. (detectError # "none" \/ shapeError) = FALSE
    BY DEF Init
<1> QED BY <1>1, <1>2, <1>3, SameText DEF Promise!Init

\* Every step maps to a step of the promise or to a stutter.
LEMMA StagePromiseStep ==
    ASSUME StageInv, StageInv', Next
    PROVE  [Promise!Next]_(Promise!promiseVars)
<1>1. /\ Len(req) \in Nat /\ Fields = 1..Len(req) /\ fld \in 1..(Len(req) + 1)
      /\ detectError \in {"none", "structured", "ner", "vault"} /\ shapeError \in BOOLEAN
      /\ pc # "done" => answer = "none"
    BY FieldFacts DEF StageInv, StepInv, StageTypeOK, Control
<1> DEFINE failedNow == detectError # "none" \/ shapeError
<1>2. ASSUME UNCHANGED <<posture, req, toPlaceholder, body, fld, detectError, shapeError, answer>>
      PROVE  UNCHANGED Promise!promiseVars
    BY <1>2 DEF Promise!promiseVars
<1>3. CASE StartField \/ WalkEnds \/ CacheHit \/ StartScan \/ \E i \in todo : Validate(i)
    BY <1>2, <1>3 DEF StartField, WalkEnds, CacheHit, StartScan, Validate, walkVars, passVars, vaultVars
<1>4. CASE ScanEnds \/ NerAnswers \/ NerFailsOpen \/ StartMask \/ NextPass
    BY <1>2, <1>4 DEF ScanEnds, NerAnswers, NerFailsOpen, StartMask, NextPass, walkVars, passVars, vaultVars
<1>5. CASE RefuseShape
    BY <1>1, <1>5 DEF RefuseShape, vaultVars, Promise!GiveUpField, Promise!Next
<1>6. CASE ScanExhausted \/ NerFailsClosed \/ NoFixpoint
    <2>1. /\ fld \in Fields /\ answer = "none"
          /\ fld' = fld + 1 /\ UNCHANGED <<posture, req, toPlaceholder, body, answer>>
          /\ detectError' # "none"
        BY <1>1, <1>6 DEF ScanExhausted, NerFailsClosed, NoFixpoint, FailField, vaultVars, AtField,
                          StageInv, StepInv, Control
    <2> QED BY <1>1, <2>1 DEF Promise!GiveUpField, Promise!Next
<1>7. CASE FieldClean
    <2>1. /\ fld \in Fields /\ answer = "none" /\ req[fld].shape = "text"
          /\ fld' = fld + 1 /\ body' = [body EXCEPT ![fld] = current]
          /\ UNCHANGED <<posture, req, toPlaceholder, detectError, shapeError, answer, degraded>>
        BY <1>1, <1>7 DEF FieldClean, vaultVars, AtField, StageInv, StepInv, Control
    <2>2. body \in [Fields -> Texts] /\ body'[fld] = current
        BY <2>1 DEF StageInv, StepInv, StageTypeOK
    <2>3. Promise!Cleaned(fld, body'[fld])
        <3>1. Structured(req[fld], current) = {}
            BY <1>7, ScanFacts DEF FieldClean, Maskable, StageInv, CleanInv, Coverage, AtField
        <3>2. HasNer /\ posture = "required" => \A i \in Named(req[fld], RawText) : current[i] # Raw
            BY <1>7, ScanFacts DEF FieldClean, Maskable, StageInv, CleanInv, Coverage, AtField, Heard,
                  StepInv, Control
        <3>3. \A i \in req[fld].items : current[i] # Raw =>
                 ValueOf[i] \in DOMAIN toPlaceholder /\ current[i] = toPlaceholder[ValueOf[i]]
            BY <2>1, FieldFacts DEF StageInv, StepInv, AliasInv, IsAlias
        <3> QED BY <2>2, <3>1, <3>2, <3>3, SameText DEF Promise!Cleaned
    <2>4. Promise!MaskField
        <3>1. (fld - 1) + 1 = fld
            BY <1>1
        <3>2. fld - 1 < Len(req) /\ (fld - 1)' = (fld - 1) + 1
            BY <1>1, <2>1
        <3>3. body' = [body EXCEPT ![fld] = body'[fld]]
            BY <2>1, <2>2
        <3>4. UNCHANGED (detectError # "none" \/ shapeError)
            BY <2>1
        <3> QED BY <2>1, <2>3, <3>1, <3>2, <3>3, <3>4 DEF Promise!MaskField
    <2> QED BY <2>4 DEF Promise!Next
<1>8. ASSUME NEW i \in todo, Replace(i) PROVE Promise!LearnAlias
    <2>1. KeepsEntries
        BY <1>8, SharedStepInv DEF StageInv, Next, Step
    <2>2. \A x, y \in DOMAIN toPlaceholder' : toPlaceholder'[x] = toPlaceholder'[y] => x = y
        BY DEF StageInv, SharedInv, VaultInv, MapsAreInverse
    <2>3. answer = "none" /\ UNCHANGED <<posture, req, body, fld, detectError, shapeError, answer>>
        BY <1>1, <1>8 DEF Replace, walkVars
    <2> QED BY <2>1, <2>2, <2>3 DEF Promise!LearnAlias, Promise!Injective, KeepsEntries
<1>9. CASE Block
    BY <1>1, <1>9 DEF Block, walkVars, vaultVars, Promise!Refuse, Promise!Next
<1>10. CASE Forward
    <2>1. fld \notin Fields
        BY <1>10 DEF Forward, StageInv, StepInv, Control
    <2> QED BY <1>1, <1>10, <2>1 DEF Forward, walkVars, vaultVars, Promise!Forward, Promise!Next
<1>11. CASE TaskPanics
    BY <1>1, <1>11 DEF TaskPanics, walkVars, vaultVars, Promise!Refuse, Promise!Next
<1> QED BY <1>3, <1>4, <1>5, <1>6, <1>7, <1>8, <1>9, <1>10, <1>11
        DEF Next, Step, Promise!Next

\* Whatever the detectors, the passes, the allowance and the cache do, the stage
\* does no more than FieldwiseMasking promises (PrivacyStage::on_request).
THEOREM StageKeepsPromise == Spec => KeepsPromise
<1>1. StageInv /\ StageInv' /\ [Next]_vars => [Promise!Next]_(Promise!promiseVars)
    <2>1. UNCHANGED vars => UNCHANGED Promise!promiseVars
        BY DEF vars, stageVars, vaultVars, Promise!promiseVars
    <2> QED BY <2>1, StagePromiseStep
<1> QED BY <1>1, StagePromiseInit, StageInvInit, StageInvStep, PTL
        DEF Spec, KeepsPromise, Promise!Spec
=============================================================================
