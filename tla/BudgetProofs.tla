---------------------------- MODULE BudgetProofs ----------------------------
(***************************************************************************)
(* The allowance is charged exactly, for every allowance, every number of  *)
(* gate calls per unit and every number of numbering plans.  BudgetInv is  *)
(* inductive as it stands: ChargeIsExact ties the running fraction to the  *)
(* history of calls, and WorkBounded holds after a step because the guard  *)
(* ~IsExhausted and ChargeIsExact together say Work < initial before it.   *)
(***************************************************************************)
EXTENDS Budget, TLAPS

BudgetInv == BudgetTypeOK /\ ChargeIsExact /\ EveryUnitAttributed /\ WorkBounded

\* Quotient and remainder make up the number divided.

LEMMA DivMod ==
    ASSUME NEW c \in Nat \ {0}, NEW g \in Nat
    PROVE  /\ g \div c \in Nat
           /\ g % c \in 0..(c - 1)
           /\ g = c * (g \div c) + (g % c)
BY SMT

\* A quotient and a remainder are determined by the number they make up.
LEMMA DivModUnique ==
    ASSUME NEW c \in Nat \ {0}, NEW q \in Nat, NEW r \in Nat, NEW p \in Nat, NEW s \in Nat,
           r < c, s < c, c * q + r = c * p + s
    PROVE  q = p /\ r = s
<1>1. ASSUME NEW x \in Nat, NEW y \in Nat, x < y PROVE c * x + c <= c * y
    <2>1. y - x - 1 \in Nat /\ y = x + 1 + (y - x - 1)
        BY <1>1
    <2>2. PICK d \in Nat : y = x + 1 + d
        BY <2>1
    <2>3. c * d \in Nat
        OBVIOUS
    <2>4. c * (x + 1 + d) = c * x + c + c * d
        OBVIOUS
    <2> QED BY <2>2, <2>3, <2>4
<1>2. c * q \in Nat /\ c * p \in Nat
    OBVIOUS
<1>3. ~(q < p)
    BY <1>1, <1>2
<1>4. ~(p < q)
    BY <1>1, <1>2
<1>5. q = p
    BY <1>3, <1>4
<1> QED BY <1>2, <1>5

\* One more call either completes a unit or adds to the fraction.
LEMMA DivModStep ==
    ASSUME NEW c \in Nat \ {0}, NEW g \in Nat
    PROVE  IF (g % c) + 1 >= c
           THEN (g + 1) % c = 0 /\ (g + 1) \div c = (g \div c) + 1
           ELSE (g + 1) % c = (g % c) + 1 /\ (g + 1) \div c = g \div c
<1> DEFINE q == g \div c
           r == g % c
           p == (g + 1) \div c
           s == (g + 1) % c
<1>1. q \in Nat /\ r \in Nat /\ r < c /\ g = c * q + r
    BY DivMod
<1>2. p \in Nat /\ s \in Nat /\ s < c /\ g + 1 = c * p + s
    <2>1. g + 1 \in Nat
        OBVIOUS
    <2> QED BY <2>1, DivMod
<1> HIDE DEF q, r, p, s
<1>3. CASE r + 1 >= c
    <2>1. c * (q + 1) = c * q + c
        BY <1>1
    <2>2. c * (q + 1) + 0 = c * p + s
        BY <1>1, <1>2, <1>3, <2>1
    <2>3. q + 1 = p /\ 0 = s
        BY <1>1, <1>2, <2>2, DivModUnique
    <2> QED BY <2>3, <1>3 DEF q, r, p, s
<1>4. CASE ~(r + 1 >= c)
    <2>1. c * q + (r + 1) = c * p + s
        BY <1>1, <1>2
    <2>2. q = p /\ r + 1 = s
        BY <1>1, <1>2, <1>4, <2>1, DivModUnique
    <2> QED BY <2>2, <1>4 DEF q, r, p, s
<1> QED BY <1>3, <1>4

-----------------------------------------------------------------------------
\* A fresh allowance satisfies the invariant.
LEMMA BudgetInitInv == ASSUME BudgetInit PROVE BudgetInv
<1> USE BudgetAssumption DEF BudgetInit
<1>1. BudgetTypeOK
    BY DEF BudgetTypeOK
<1>2. 0 % CallsPerUnit = 0 /\ 0 \div CallsPerUnit = 0
    BY DivMod
<1>3. ChargeIsExact
    BY <1>1, <1>2 DEF BudgetTypeOK, ChargeIsExact, Spent, Work
<1>4. EveryUnitAttributed
    BY <1>1 DEF BudgetTypeOK, EveryUnitAttributed, Spent
<1>5. WorkBounded
    BY <1>1, <1>2 DEF BudgetTypeOK, WorkBounded, Work
<1> QED BY <1>1, <1>3, <1>4, <1>5 DEF BudgetInv

\* What the invariant says while the allowance lasts, in numbers.
LEMMA BudgetFacts ==
    ASSUME BudgetInv, ~IsExhausted
    PROVE  LET g == gates \div CallsPerUnit IN
           /\ initial \in Nat /\ left \in 0..initial /\ left > 0
           /\ parses \in Nat /\ gates \in Nat /\ g \in Nat
           /\ initial - left = IF parses + g <= initial THEN parses + g ELSE initial
           /\ onPhone \in Nat /\ onIban \in Nat /\ onPhone + onIban = initial - left
<1>1. /\ initial \in Nat /\ left \in 0..initial /\ left > 0
      /\ parses \in Nat /\ gates \in Nat /\ onPhone \in Nat /\ onIban \in Nat
    BY BudgetAssumption DEF BudgetInv, BudgetTypeOK, IsExhausted
<1>2. gates \div CallsPerUnit \in Nat
    BY <1>1, DivMod, BudgetAssumption
<1>3. onPhone + onIban = initial - left
    BY DEF BudgetInv, EveryUnitAttributed, Spent
<1>4. initial - left = IF Work <= initial THEN Work ELSE initial
    BY DEF BudgetInv, ChargeIsExact, Spent
<1> QED BY <1>1, <1>2, <1>3, <1>4 DEF Work

\* A candidate tried against n numbering plans.
LEMMA NationalPhoneInv ==
    ASSUME BudgetInv, ~IsExhausted, NEW n \in 1..MaxRegions, NationalPhone(n)
    PROVE  BudgetInv'
<1> USE BudgetAssumption DEF NationalPhone, AfterSpending
<1> DEFINE g == gates \div CallsPerUnit
<1>1. /\ initial \in Nat /\ left \in 0..initial /\ left > 0 /\ n \in Nat
      /\ parses \in Nat /\ gates \in Nat /\ g \in Nat
      /\ initial - left = IF parses + g <= initial THEN parses + g ELSE initial
      /\ onPhone \in Nat /\ onIban \in Nat /\ onPhone + onIban = initial - left
    BY BudgetFacts
<1>2. /\ left' = (IF n <= left THEN left - n ELSE 0) /\ onPhone' = onPhone + (left - left')
      /\ parses' = parses + n
      /\ UNCHANGED <<initial, part, onIban, gates>>
    OBVIOUS
<1> HIDE DEF g
<1>3. BudgetTypeOK'
    BY <1>1, <1>2 DEF BudgetInv, BudgetTypeOK
<1>4. Work = parses + g /\ Work' = parses + n + g
    BY <1>2 DEF Work, g
<1>5. ChargeIsExact'
    <2>1. (part = gates % CallsPerUnit)'
        BY <1>2 DEF BudgetInv, ChargeIsExact
    <2>2. initial - left' = IF parses + n + g <= initial THEN parses + n + g ELSE initial
        BY <1>1, <1>2
    <2> QED BY <2>1, <2>2, <1>2, <1>4 DEF ChargeIsExact, Spent
<1>6. EveryUnitAttributed'
    BY <1>1, <1>2 DEF EveryUnitAttributed, Spent
<1>7. WorkBounded'
    BY <1>1, <1>2, <1>4 DEF WorkBounded
<1> QED BY <1>3, <1>5, <1>6, <1>7 DEF BudgetInv

\* One call of the IBAN case gate.
LEMMA IbanCaseGateInv ==
    ASSUME BudgetInv, ~IsExhausted, IbanCaseGate
    PROVE  BudgetInv'
<1> USE BudgetAssumption
<1> DEFINE g == gates \div CallsPerUnit
           h == (gates + 1) \div CallsPerUnit
<1>1. /\ initial \in Nat /\ left \in 0..initial /\ left > 0
      /\ parses \in Nat /\ gates \in Nat /\ g \in Nat
      /\ initial - left = IF parses + g <= initial THEN parses + g ELSE initial
      /\ onPhone \in Nat /\ onIban \in Nat /\ onPhone + onIban = initial - left
    BY BudgetFacts
<1>2. /\ onIban' = onIban + (left - left') /\ gates' = gates + 1
      /\ UNCHANGED <<initial, onPhone, parses>>
    BY DEF IbanCaseGate
<1>3. \/ part' = 0 /\ left' = left - 1 /\ h = g + 1 /\ (gates + 1) % CallsPerUnit = 0
      \/ part' = part + 1 /\ left' = left /\ h = g
         /\ (gates + 1) % CallsPerUnit = part + 1 /\ part + 1 < CallsPerUnit
    <2>1. part \in Nat /\ part = gates % CallsPerUnit
        BY DEF BudgetInv, BudgetTypeOK, ChargeIsExact
    <2>2. IF part + 1 >= CallsPerUnit
          THEN (gates + 1) % CallsPerUnit = 0 /\ h = g + 1
          ELSE (gates + 1) % CallsPerUnit = part + 1 /\ h = g
        BY <1>1, <2>1, DivModStep
    <2> HIDE DEF g, h
    <2>3. IF part + 1 >= CallsPerUnit
          THEN part' = 0 /\ left' = left - 1
          ELSE part' = part + 1 /\ left' = left
        BY <1>1 DEF IbanCaseGate, AfterSpending
    <2> QED BY <2>1, <2>2, <2>3
<1>4. Work = parses + g /\ Work' = parses + h
    BY <1>2 DEF Work, g, h
<1>5. part' = gates' % CallsPerUnit /\ part' \in 0..(CallsPerUnit - 1)
    BY <1>2, <1>3 DEF BudgetInv, BudgetTypeOK
<1> HIDE DEF g, h
<1>6. BudgetTypeOK'
    BY <1>1, <1>2, <1>3, <1>5 DEF BudgetInv, BudgetTypeOK
<1>7. ChargeIsExact'
    <2>1. initial - left' = IF parses + h <= initial THEN parses + h ELSE initial
        BY <1>1, <1>3
    <2> QED BY <2>1, <1>2, <1>4, <1>5 DEF ChargeIsExact, Spent
<1>8. EveryUnitAttributed'
    BY <1>1, <1>2, <1>3 DEF EveryUnitAttributed, Spent
<1>9. WorkBounded'
    BY <1>1, <1>2, <1>3, <1>4 DEF WorkBounded
<1> QED BY <1>6, <1>7, <1>8, <1>9 DEF BudgetInv

\* Steps that leave the allowance alone.
LEMMA BudgetStutterInv == ASSUME BudgetInv, UNCHANGED budgetVars PROVE BudgetInv'
BY DEF BudgetInv, BudgetTypeOK, ChargeIsExact, EveryUnitAttributed, WorkBounded, Work, Spent,
       budgetVars

\* The invariant is inductive.
LEMMA BudgetStepInv == ASSUME BudgetInv, [BudgetNext]_budgetVars PROVE BudgetInv'
<1>1. CASE BudgetNext
    BY <1>1, NationalPhoneInv, IbanCaseGateInv DEF BudgetNext
<1>2. CASE UNCHANGED budgetVars
    BY <1>2, BudgetStutterInv
<1> QED BY <1>1, <1>2

\* Until it runs out the allowance is charged exactly the work done, and every
\* unit of it is attributed to the kind that spent it (Budget::spend,
\* Budget::spend_fraction).
THEOREM BudgetIsExact ==
    BudgetSpec => [](BudgetTypeOK /\ ChargeIsExact /\ EveryUnitAttributed)
<1>1. BudgetInit => BudgetInv
    BY BudgetInitInv
<1>2. BudgetInv /\ [BudgetNext]_budgetVars => BudgetInv'
    BY BudgetStepInv
<1>3. BudgetInv => BudgetTypeOK /\ ChargeIsExact /\ EveryUnitAttributed
    BY DEF BudgetInv
<1> QED BY <1>1, <1>2, <1>3, PTL DEF BudgetSpec

\* A request never costs more than its allowance and the tail of the one
\* candidate that crossed it.
THEOREM BudgetBoundsWork == BudgetSpec => []WorkBounded
<1>1. BudgetInit => BudgetInv
    BY BudgetInitInv
<1>2. BudgetInv /\ [BudgetNext]_budgetVars => BudgetInv'
    BY BudgetStepInv
<1>3. BudgetInv => WorkBounded
    BY DEF BudgetInv
<1> QED BY <1>1, <1>2, <1>3, PTL DEF BudgetSpec
=============================================================================
