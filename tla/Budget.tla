------------------------------- MODULE Budget -------------------------------
(***************************************************************************)
(* The per-request allowance of expensive validator calls                  *)
(* (src/pii/mod.rs, struct Budget) and the two validators that charge it   *)
(* (src/pii/recognizers.rs): the domestic-phone validator spends one unit  *)
(* per numbering plan it tries, the IBAN case gate one unit for every      *)
(* CallsPerUnit calls.                                                     *)
(*                                                                         *)
(* parses and gates are history variables: the work really done, which the *)
(* code does not count.                                                    *)
(***************************************************************************)
EXTENDS Naturals

CONSTANTS
    Allowances,     \* the values PII_MAX_PHONE_VALIDATIONS may have
    CallsPerUnit,   \* IBAN_GATE_CALLS_PER_UNIT
    MaxRegions      \* most numbering plans one candidate is tried against

ASSUME BudgetAssumption ==
    /\ Allowances \subseteq Nat
    /\ CallsPerUnit \in Nat \ {0}
    /\ MaxRegions \in Nat \ {0}

VARIABLES
    initial,    \* the allowance this request started with
    left,       \* units not spent yet
    part,       \* gate calls that do not make a whole unit yet
    onPhone,    \* units attributed to PiiKind::Phone
    onIban,     \* units attributed to PiiKind::Iban
    parses,     \* history: phone parses performed
    gates       \* history: gate calls performed

budgetVars == <<initial, left, part, onPhone, onIban, parses, gates>>

-----------------------------------------------------------------------------
BudgetInit ==
    /\ initial \in Allowances
    /\ left = initial
    /\ part = 0
    /\ onPhone = 0
    /\ onIban = 0
    /\ parses = 0
    /\ gates = 0

IsExhausted == left = 0

Spent == initial - left

\* `left` after n units, saturating at zero.
AfterSpending(n) == IF n <= left THEN left - n ELSE 0

\* One candidate of the domestic-phone recognizers, tried against n numbering
\* plans: one unit each, with no look at the allowance in between.
NationalPhone(n) ==
    /\ left' = AfterSpending(n)
    /\ onPhone' = onPhone + (left - left')
    /\ parses' = parses + n
    /\ UNCHANGED <<initial, part, onIban, gates>>

\* Mutant: the fraction is not reset when a unit is charged.
IbanCaseGateUnreset ==
    /\ part' = IF part + 1 >= CallsPerUnit THEN part ELSE part + 1
    /\ left' = IF part + 1 >= CallsPerUnit THEN AfterSpending(1) ELSE left
    /\ onIban' = onIban + (left - left')
    /\ gates' = gates + 1
    /\ UNCHANGED <<initial, onPhone, parses>>

\* One call of the IBAN case gate on its arithmetic branch.
IbanCaseGate ==
    /\ IF part + 1 >= CallsPerUnit
       THEN part' = 0 /\ left' = AfterSpending(1)
       ELSE part' = part + 1 /\ left' = left
    /\ onIban' = onIban + (left - left')
    /\ gates' = gates + 1
    /\ UNCHANGED <<initial, onPhone, parses>>

\* A validator is only called while the allowance lasts (push_candidates and
\* shrink_to_a_valid_prefix look before every call).
BudgetNext ==
    /\ ~IsExhausted
    /\ \/ \E n \in 1..MaxRegions : NationalPhone(n)
       \/ IbanCaseGate

BudgetSpec == BudgetInit /\ [][BudgetNext]_budgetVars

-----------------------------------------------------------------------------
\* Type invariant of the allowance.
BudgetTypeOK ==
    /\ initial \in Allowances
    /\ left \in 0..initial
    /\ part \in 0..(CallsPerUnit - 1)
    /\ onPhone \in Nat
    /\ onIban \in Nat
    /\ parses \in Nat
    /\ gates \in Nat

\* The work done, in units.
Work == parses + gates \div CallsPerUnit

\* Until it runs out the allowance is charged exactly the work done: a gate call
\* is neither lost when other charges come between two of them nor counted twice
\* (spend_fraction: "the charge is exactly floor(calls / calls_per_unit)").
ChargeIsExact ==
    /\ part = gates % CallsPerUnit
    /\ Spent = IF Work <= initial THEN Work ELSE initial

\* Every unit spent is attributed to the kind whose candidates spent it, so the
\* refusal names the right tier even when the last charge saturates (attribute,
\* top_spender).
EveryUnitAttributed == onPhone + onIban = Spent

\* Work is bounded by the allowance and at most the tail of the one candidate
\* that crossed it, however many fields, passes and candidates there are.
WorkBounded == Work < initial + MaxRegions
=============================================================================
