------------------------- MODULE ConversationProofs -------------------------
(***************************************************************************)
(* The five properties of a conversation, for either schema, any keys, any *)
(* values, bodies of any shape and any number of messages.                 *)
(*                                                                         *)
(* The argument.  A request body is a tree whose messages are those of the *)
(* history.  The walk of a request is bounded from both sides: a request   *)
(* it accepts has no text it does not visit (RequestCovered), and it       *)
(* visits nothing but text (RequestReads).  From the first bound nothing   *)
(* real is sent, as masking keeps the tree and the prompt is added to it   *)
(* without touching another text.  From the second a thought comes back,   *)
(* and numbers stay: the strings of a body are read in a total order, and  *)
(* in a body that continues another one whatever stands ahead of the tools *)
(* is read before all that is new (VisitContinues).  The response walk     *)
(* visits every text of an answer and no thought, so an answer as it is    *)
(* shown is again a message the schema allows (ShownIsGood), which makes   *)
(* the invariant inductive (ConvInv): the history is good, what was sent   *)
(* is the history masked and augmented, and every answer was written under *)
(* the vault of the messages before it and is kept as it was shown.        *)
(***************************************************************************)
EXTENDS WireText, SequenceTheorems, FiniteSetTheorems, WellFoundedInduction, TLAPS

-----------------------------------------------------------------------------
(* Keys.  The fixed member names of the schemas are keys, each at its      *)
(* place in the order.                                                     *)

LEMMA FixedKeysSeq ==
    /\ Len(FixedKeys) = 25
    /\ DOMAIN FixedKeys = 1..25
    /\ FixedKeys \in Seq({FixedKeys[i] : i \in 1..25})
<1>1. Len(FixedKeys) = 25 BY DEF FixedKeys
<1>2. DOMAIN FixedKeys = 1..25 BY DEF FixedKeys
<1>3. FixedKeys = [i \in 1..25 |-> FixedKeys[i]] BY <1>2 DEF FixedKeys
<1>4. [i \in 1..25 |-> FixedKeys[i]] \in Seq({FixedKeys[i] : i \in 1..25})
  <2> HIDE DEF FixedKeys
  <2> QED OBVIOUS
<1> QED BY <1>1, <1>2, <1>3, <1>4

LEMMA FixedKeyAt ==
    /\ FixedKeys[1] = "system" /\ FixedKeys[2] = "messages" /\ FixedKeys[3] = "tools"
    /\ FixedKeys[4] = "choices" /\ FixedKeys[5] = "message" /\ FixedKeys[6] = "type" /\ FixedKeys[7] = "role"
    /\ FixedKeys[8] = "content" /\ FixedKeys[9] = "title" /\ FixedKeys[10] = "context" /\ FixedKeys[11] = "source"
    /\ FixedKeys[12] = "url" /\ FixedKeys[13] = "enum" /\ FixedKeys[14] = "text" /\ FixedKeys[15] = "thinking" /\ FixedKeys[16] = "input"
    /\ FixedKeys[17] = "name" /\ FixedKeys[18] = "tool_calls" /\ FixedKeys[19] = "function_call"
    /\ FixedKeys[20] = "function" /\ FixedKeys[21] = "arguments" /\ FixedKeys[22] = "description"
    /\ FixedKeys[23] = "parameters" /\ FixedKeys[24] = "input_schema" /\ FixedKeys[25] = "data"
BY DEF FixedKeys

\* Where the parts of KeyOrder stand in it.
LEMMA KeyOrderIs ==
    /\ DOMAIN Indices = 1..Len(Indices) /\ Len(Indices) \in Nat
    /\ Len(KeyOrder) \in Nat /\ DOMAIN KeyOrder = 1..Len(KeyOrder) /\ Len(KeyOrder) >= Len(Indices) + 25
    /\ \A i \in DOMAIN Indices : KeyOrder[i] = Indices[i]
    /\ \A i \in 1..25 : KeyOrder[Len(Indices) + i] = FixedKeys[i]
    /\ \A i \in DOMAIN KeyOrder : KeyOrder[i] \in Keys
<1> DEFINE A == {Indices[i] : i \in DOMAIN Indices}
           F == {FixedKeys[i] : i \in 1..25}
           B == {OtherKeys[i] : i \in DOMAIN OtherKeys}
           S == A \cup F \cup B
           AF == Indices \o FixedKeys
<1>1. Indices \in Seq(S) /\ FixedKeys \in Seq(S) /\ OtherKeys \in Seq(S)
  <2>1. A \subseteq S /\ F \subseteq S /\ B \subseteq S OBVIOUS
  <2>2. Indices \in Seq(A) /\ FixedKeys \in Seq(F) /\ OtherKeys \in Seq(B)
    BY KeysAssumption, FixedKeysSeq
  <2> HIDE DEF A, F, B, S
  <2> QED BY <2>1, <2>2, SeqMonotonic
<1>2. Len(FixedKeys) = 25 BY FixedKeysSeq
<1> HIDE DEF S
<1>3. Len(Indices) \in Nat /\ Len(OtherKeys) \in Nat /\ DOMAIN Indices = 1..Len(Indices)
  BY <1>1
<1>4. /\ AF \in Seq(S) /\ Len(AF) = Len(Indices) + 25
      /\ \A i \in 1..Len(Indices) + 25 : AF[i] = IF i <= Len(Indices) THEN Indices[i] ELSE FixedKeys[i - Len(Indices)]
  <2>1. /\ Indices \o FixedKeys \in Seq(S) /\ Len(Indices \o FixedKeys) = Len(Indices) + Len(FixedKeys)
        /\ \A i \in 1..Len(Indices) + Len(FixedKeys) :
             (Indices \o FixedKeys)[i] = IF i <= Len(Indices) THEN Indices[i] ELSE FixedKeys[i - Len(Indices)]
    BY <1>1, ConcatProperties
  <2> QED BY <2>1, <1>2
<1> HIDE DEF AF
<1>5. /\ AF \o OtherKeys \in Seq(S) /\ Len(AF \o OtherKeys) = Len(Indices) + 25 + Len(OtherKeys)
      /\ \A i \in 1..Len(Indices) + 25 + Len(OtherKeys) : (AF \o OtherKeys)[i] = IF i <= Len(Indices) + 25 THEN AF[i] ELSE OtherKeys[i - (Len(Indices) + 25)]
  <2>1. /\ AF \o OtherKeys \in Seq(S) /\ Len(AF \o OtherKeys) = Len(AF) + Len(OtherKeys)
        /\ \A i \in 1..Len(AF) + Len(OtherKeys) :
             (AF \o OtherKeys)[i] = IF i <= Len(AF) THEN AF[i] ELSE OtherKeys[i - Len(AF)]
    <3>1. AF \in Seq(S) /\ OtherKeys \in Seq(S) BY <1>1, <1>4
    <3> QED BY <3>1, ConcatProperties
  <2> QED BY <2>1, <1>4
<1>6. KeyOrder = AF \o OtherKeys BY DEF KeyOrder, AF
<1>7. KeyOrder \in Seq(S) /\ Len(KeyOrder) = Len(Indices) + 25 + Len(OtherKeys) 
      /\ \A i \in 1..Len(Indices) + 25 : KeyOrder[i] = AF[i]
  BY <1>3, <1>5, <1>6
<1>8. DOMAIN KeyOrder = 1..Len(KeyOrder) BY <1>7
<1>9. \A i \in DOMAIN Indices : KeyOrder[i] = Indices[i]
  BY <1>3, <1>4, <1>7
<1>10. ASSUME NEW i \in 1..25 PROVE KeyOrder[Len(Indices) + i] = FixedKeys[i]
  <2>1. Len(Indices) + i \in 1..Len(Indices) + 25 /\ ~(Len(Indices) + i <= Len(Indices)) /\ Len(Indices) + i - Len(Indices) = i
    BY <1>3
  <2> QED BY <2>1, <1>4, <1>7
<1>11. \A i \in DOMAIN KeyOrder : KeyOrder[i] \in Keys BY DEF Keys
<1> QED BY <1>3, <1>7, <1>8, <1>9, <1>10, <1>11

LEMMA FixedKeysAreKeys ==
    {"system", "messages", "tools", "choices", "message", "type", "role", "content", "title", "context", "source",
     "url", "enum", "text", "thinking", "input", "name", "tool_calls", "function_call", "function", "arguments",
     "description", "parameters", "input_schema", "data"} \subseteq Keys
<1>1. \A i \in 1..25 : FixedKeys[i] \in Keys
  <2>1. ASSUME NEW i \in 1..25 PROVE FixedKeys[i] \in Keys
    <3>0. Len(Indices) \in Nat /\ Len(KeyOrder) \in Nat /\ Len(KeyOrder) >= Len(Indices) + 25 BY KeyOrderIs
    <3>1. Len(Indices) + i \in 1..Len(KeyOrder) BY <3>0
    <3>2. KeyOrder[Len(Indices) + i] \in Keys BY <3>1, KeyOrderIs
    <3> QED BY <3>2, KeyOrderIs
  <2> QED BY <2>1
<1> QED BY <1>1, FixedKeyAt

-----------------------------------------------------------------------------
(* Paths.  A path is a sequence of keys.  One step more can be taken back  *)
(* in one way, prefixes go with steps, and moving a path below another one *)
(* is undone by After.                                                     *)

Path == Seq(Keys)

LEMMA StepProps ==
    ASSUME NEW p \in Path, NEW k \in Keys
    PROVE  /\ Append(p, k) \in Path /\ Len(p) \in Nat
           /\ Len(Append(p, k)) = Len(p) + 1 /\ Append(p, k)[Len(p) + 1] = k
           /\ \A i \in 1..Len(p) : Append(p, k)[i] = p[i]
BY DEF Path

LEMMA StepUnique ==
    ASSUME NEW p \in Path, NEW q \in Path, NEW j \in Keys, NEW k \in Keys, Append(p, j) = Append(q, k)
    PROVE  p = q /\ j = k
BY AppendInjective DEF Path

LEMMA FrontLast ==
    ASSUME NEW p \in Path, NEW k \in Keys
    PROVE  Front(Append(p, k)) = p /\ Last(Append(p, k)) = k
<1> DEFINE q == Append(p, k)
<1>1. q \in Path /\ Len(q) = Len(p)+1 /\ q[Len(p)+1] = k /\ (\A i \in 1..Len(p) : q[i] = p[i]) /\ Len(p) \in Nat
    BY StepProps
<1> HIDE DEF q
<1>2. /\ SubSeq(q, 1, Len(p)) \in Path /\ Len(SubSeq(q, 1, Len(p))) = Len(p)
      /\ \A i \in 1..Len(p) : SubSeq(q, 1, Len(p))[i] = q[i]
    BY <1>1 DEF Path
<1>3. SubSeq(q, 1, Len(p)) = p
    BY <1>1, <1>2, SeqEqual DEF Path
<1> QED BY <1>1, <1>3 DEF q, Front, Last

LEMMA PathSplit ==
    ASSUME NEW q \in Path, Len(q) > 0
    PROVE  Front(q) \in Path /\ Last(q) \in Keys /\ q = Append(Front(q), Last(q)) /\ Len(Front(q)) = Len(q) - 1
<1>1. q # <<>>
    OBVIOUS
<1>2. PICK s \in Path, e \in Keys : q = Append(s, e)
    BY <1>1, SequenceEmptyOrAppend DEF Path
<1>3. Front(q) = s /\ Last(q) = e
    BY <1>2, FrontLast
<1> QED BY <1>2, <1>3, StepProps

\* A prefix, element by element.
LEMMA PrefixIs ==
    ASSUME NEW p \in Path, NEW q \in Path
    PROVE  IsPrefix(p, q) <=> Len(p) <= Len(q) /\ \A i \in 1..Len(p) : p[i] = q[i]
<1>1. Len(p) \in Nat /\ Len(q) \in Nat
    BY DEF Path
<1>2. SubSeq(p, 1, Len(p)) = p
    BY SubSeqFull DEF Path
<1>3. ASSUME Len(p) <= Len(q)
      PROVE  /\ SubSeq(q, 1, Len(p)) \in Path /\ Len(SubSeq(q, 1, Len(p))) = Len(p)
             /\ \A i \in 1..Len(p) : SubSeq(q, 1, Len(p))[i] = q[i]
    BY <1>1, <1>3 DEF Path
<1>4. ASSUME Len(p) <= Len(q), \A i \in 1..Len(p) : p[i] = q[i] PROVE p = SubSeq(q, 1, Len(p))
    BY <1>3, <1>4, SeqEqual DEF Path
<1> QED BY <1>1, <1>2, <1>3, <1>4 DEF IsPrefix

LEMMA PrefixStep ==
    ASSUME NEW p \in Path, NEW q \in Path, NEW k \in Keys
    PROVE  /\ IsPrefix(p, p) /\ IsPrefix(q, Append(q, k))
           /\ IsPrefix(p, q) => IsPrefix(p, Append(q, k))
           /\ IsPrefix(p, Append(q, k)) => IsPrefix(p, q) \/ p = Append(q, k)
           /\ IsPrefix(Append(p, k), q) => IsPrefix(p, q) /\ Len(q) > Len(p) /\ q[Len(p) + 1] = k
<1>1. /\ Append(q, k) \in Path /\ Len(q) \in Nat /\ Len(p) \in Nat
      /\ Len(Append(q, k)) = Len(q) + 1 
      /\ \A i \in 1..Len(q) : Append(q, k)[i] = q[i]
    BY StepProps
<1>2. /\ Append(p, k) \in Path /\ Len(Append(p, k)) = Len(p) + 1 /\ Append(p, k)[Len(p) + 1] = k
      /\ \A i \in 1..Len(p) : Append(p, k)[i] = p[i]
    BY StepProps
<1>3. IsPrefix(p, p) /\ IsPrefix(q, Append(q, k))
    <2>1. IsPrefix(p, p) <=> Len(p) <= Len(p) /\ \A i \in 1..Len(p) : p[i] = p[i]
        BY PrefixIs
    <2>2. IsPrefix(q, Append(q, k)) <=> Len(q) <= Len(Append(q, k)) /\ \A i \in 1..Len(q) : q[i] = Append(q, k)[i]
        BY <1>1, PrefixIs
    <2> QED BY <2>1, <2>2, <1>1
<1>4. ASSUME IsPrefix(p, q) PROVE IsPrefix(p, Append(q, k))
    <2>1. Len(p) <= Len(q) /\ \A i \in 1..Len(p) : p[i] = q[i]
        BY <1>4, PrefixIs
    <2>2. Len(p) <= Len(q) + 1 /\ \A i \in 1..Len(p) : p[i] = Append(q, k)[i]
        BY <2>1, <1>1
    <2> QED BY <2>2, <1>1, PrefixIs
<1>5. ASSUME IsPrefix(p, Append(q, k)) PROVE IsPrefix(p, q) \/ p = Append(q, k)
    <2>1. Len(p) <= Len(q) + 1 /\ \A i \in 1..Len(p) : p[i] = Append(q, k)[i]
        BY <1>1, <1>5, PrefixIs
    <2>2. CASE Len(p) = Len(q) + 1
        <3>1. p = Append(q, k)
            BY <1>1, <2>1, <2>2, SeqEqual DEF Path
        <3> QED BY <3>1
    <2>3. CASE Len(p) <= Len(q)
        <3>1. \A i \in 1..Len(p) : i \in 1..Len(q)
            BY <1>1, <2>3
        <3>2. \A i \in 1..Len(p) : p[i] = q[i]
            BY <1>1, <2>1, <3>1
        <3> QED BY <2>3, <3>2, PrefixIs
    <2> QED BY <1>1, <2>1, <2>2, <2>3
<1>6. IsPrefix(Append(p, k), q) => IsPrefix(p, q) /\ Len(q) > Len(p) /\ q[Len(p) + 1] = k
    <2>1. SUFFICES ASSUME Len(p) + 1 <= Len(q), \A i \in 1..Len(p) + 1 : Append(p, k)[i] = q[i]
                   PROVE  IsPrefix(p, q) /\ Len(q) > Len(p) /\ q[Len(p) + 1] = k
        BY <1>2, PrefixIs
    <2>2. \A i \in 1..Len(p) : p[i] = q[i]
        BY <1>1, <1>2, <2>1
    <2> QED BY <1>1, <1>2, <2>1, <2>2, PrefixIs
<1> QED BY <1>3, <1>4, <1>5, <1>6

LEMMA PrefixTrans ==
    ASSUME NEW p \in Path, NEW q \in Path, NEW t \in Path, IsPrefix(p, q), IsPrefix(q, t)
    PROVE  IsPrefix(p, t)
<1>1. Len(p) \in Nat /\ Len(q) \in Nat /\ Len(t) \in Nat
    BY DEF Path
<1> QED BY <1>1, PrefixIs

\* The paths one step below p.
LEMMA ItemIs ==
    ASSUME NEW p \in Path, NEW q \in Path
    PROVE  Len(q) = Len(p) + 1 /\ IsPrefix(p, q) <=> \E k \in Keys : q = Append(p, k)
<1>1. ASSUME NEW k \in Keys, q = Append(p, k) PROVE Len(q) = Len(p) + 1 /\ IsPrefix(p, q)
    BY <1>1, StepProps, PrefixStep
<1>2. ASSUME Len(q) = Len(p) + 1, IsPrefix(p, q) PROVE \E k \in Keys : q = Append(p, k)
    <2>0. Len(p) \in Nat
        BY DEF Path
    <2>1. Front(q) \in Path /\ Last(q) \in Keys /\ q = Append(Front(q), Last(q)) /\ Len(Front(q)) = Len(p)
        BY <1>2, <2>0, PathSplit
    <2>2. IsPrefix(p, Front(q))
        <3>1. \A s \in Path, k \in Keys : IsPrefix(p, Append(s, k)) => IsPrefix(p, s) \/ p = Append(s, k)
            BY PrefixStep
        <3>2. IsPrefix(p, Front(q)) \/ p = q
            BY <1>2, <2>1, <3>1
        <3> QED BY <3>2, <1>2, <2>0
    <2>3. \A i \in 1..Len(p) : p[i] = Front(q)[i]
        BY <2>2, <2>1, PrefixIs
    <2>4. p = Front(q)
        BY <2>1, <2>3, SeqEqual DEF Path
    <2> QED BY <2>1, <2>4
<1> QED BY <1>1, <1>2

-----------------------------------------------------------------------------
\* Moving a path under another one.
LEMMA MovedIs ==
    ASSUME NEW p \in Path, NEW r \in Path
    PROVE  /\ p \o r \in Path /\ Len(p) \in Nat /\ Len(r) \in Nat
           /\ Len(p \o r) = Len(p) + Len(r)
           /\ \A i \in 1..Len(p) : (p \o r)[i] = p[i]
           /\ \A i \in 1..Len(r) : (p \o r)[Len(p) + i] = r[i]
<1>1. Len(p) \in Nat /\ Len(r) \in Nat
    BY DEF Path
<1>2. /\ p \o r \in Path /\ Len(p \o r) = Len(p) + Len(r)
      /\ \A i \in 1..Len(p) + Len(r) : (p \o r)[i] = IF i <= Len(p) THEN p[i] ELSE r[i - Len(p)]
    BY ConcatProperties DEF Path
<1>3. \A i \in 1..Len(r) : Len(p) + i \in 1..Len(p) + Len(r) /\ ~(Len(p) + i <= Len(p)) /\ Len(p) + i - Len(p) = i
    BY <1>1
<1> QED BY <1>1, <1>2, <1>3

LEMMA MovedStep ==
    ASSUME NEW p \in Path, NEW r \in Path, NEW k \in Keys
    PROVE  p \o Append(r, k) = Append(p \o r, k) /\ p \o <<>> = p /\ <<>> \o p = p
<1>0. /\ Append(r, k) \in Path /\ Len(r) \in Nat /\ Len(Append(r, k)) = Len(r) + 1 /\ Append(r, k)[Len(r) + 1] = k
      /\ \A i \in 1..Len(r) : Append(r, k)[i] = r[i]
    BY StepProps
<1>1. p \o Append(r, k) = Append(p \o r, k)
    <2> DEFINE a == p \o Append(r, k)
               c == p \o r
               b == Append(c, k)
    <2>1. /\ a \in Path /\ Len(p) \in Nat /\ Len(a) = Len(p) + (Len(r) + 1)
          /\ \A i \in 1..Len(p) : a[i] = p[i]
          /\ \A i \in 1..(Len(r) + 1) : a[Len(p) + i] = Append(r, k)[i]
        <3>1. Append(r, k) \in Path
            BY <1>0
        <3> HIDE DEF a
        <3>2. /\ p \o Append(r, k) \in Path /\ Len(p) \in Nat
              /\ Len(p \o Append(r, k)) = Len(p) + Len(Append(r, k))
              /\ \A i \in 1..Len(p) : (p \o Append(r, k))[i] = p[i]
              /\ \A i \in 1..Len(Append(r, k)) : (p \o Append(r, k))[Len(p) + i] = Append(r, k)[i]
            BY <3>1, MovedIs
        <3> QED BY <3>2, <1>0 DEF a
    <2>2. /\ c \in Path /\ Len(c) = Len(p) + Len(r)
          /\ \A i \in 1..Len(p) : c[i] = p[i]
          /\ \A i \in 1..Len(r) : c[Len(p) + i] = r[i]
        BY MovedIs
    <2> HIDE DEF c
    <2>3. b \in Path /\ Len(b) = Len(c) + 1 /\ b[Len(c) + 1] = k /\ \A i \in 1..Len(c) : b[i] = c[i]
        BY <2>2, StepProps
    <2> HIDE DEF a, b
    <2>4. ASSUME NEW i \in 1..Len(a) PROVE a[i] = b[i]
        <3>1. CASE i <= Len(p)
            <4>1. i \in 1..Len(p) /\ i \in 1..Len(c)
                BY <3>1, <2>1, <2>2, <1>0
            <4> QED BY <4>1, <2>1, <2>2, <2>3
        <3>2. CASE i > Len(p) /\ i <= Len(p) + Len(r)
            <4>1. PICK j \in 1..Len(r) : i = Len(p) + j
                <5>1. i - Len(p) \in 1..Len(r) /\ i = Len(p) + (i - Len(p))
                    BY <3>2, <2>1, <1>0
                <5> QED BY <5>1
            <4>2. j \in 1..(Len(r) + 1) /\ i \in 1..Len(c)
                BY <4>1, <1>0, <2>1, <2>2
            <4> QED BY <4>1, <4>2, <1>0, <2>1, <2>2, <2>3
        <3>3. CASE i = Len(p) + (Len(r) + 1)
            <4>1. Len(r) + 1 \in 1..(Len(r) + 1) /\ i = Len(c) + 1
                BY <3>3, <2>2, <2>1, <1>0
            <4> QED BY <4>1, <3>3, <1>0, <2>1, <2>3
        <3> QED BY <3>1, <3>2, <3>3, <2>1, <1>0
    <2>5. Len(a) = Len(b)
        BY <2>1, <2>2, <2>3, <1>0
    <2>6. a = b
        BY <2>1, <2>3, <2>4, <2>5, SeqEqual DEF Path
    <2> QED BY <2>6 DEF a, b, c
<1> QED BY <1>1, ConcatEmptySeq DEF Path

LEMMA MovedUnique ==
    ASSUME NEW p \in Path, NEW r \in Path, NEW t \in Path, p \o r = p \o t
    PROVE  r = t
BY ConcatSimplifications DEF Path

LEMMA MovedBack ==
    ASSUME NEW p \in Path, NEW r \in Path
    PROVE  IsPrefix(p, p \o r) /\ After(p, p \o r) = r
<1> DEFINE q == p \o r
           a == After(p, q)
<1>1. /\ q \in Path /\ Len(p) \in Nat /\ Len(r) \in Nat /\ Len(q) = Len(p) + Len(r)
      /\ \A i \in 1..Len(p) : q[i] = p[i]
      /\ \A i \in 1..Len(r) : q[Len(p) + i] = r[i]
    BY MovedIs
<1> HIDE DEF q
<1>2. IsPrefix(p, q)
    BY <1>1, PrefixIs
<1>3. /\ a \in Path /\ Len(a) = IF Len(p) + 1 <= Len(q) THEN Len(q) - (Len(p) + 1) + 1 ELSE 0
      /\ \A i \in 1..Len(q) - (Len(p) + 1) + 1 : a[i] = q[Len(p) + 1 + i - 1]
    <2>1. \A i \in (Len(p) + 1)..Len(q) : q[i] \in Keys
        <3>1. \A i \in 1..Len(q) : q[i] \in Keys
            BY <1>1, ElementOfSeq DEF Path
        <3> QED BY <3>1, <1>1
    <2>2. Len(p) + 1 \in Int /\ Len(q) \in Int
        BY <1>1
    <2> QED BY <2>1, <2>2, SubSeqProperties DEF After, Path
<1> HIDE DEF a
<1>4. Len(a) = Len(r)
    BY <1>1, <1>3
<1>5. \A i \in 1..Len(r) : a[i] = r[i]
    <2>1. \A i \in 1..Len(r) : i \in 1..(Len(q) - (Len(p) + 1) + 1) /\ Len(p) + 1 + i - 1 = Len(p) + i
        BY <1>1
    <2> QED BY <2>1, <1>1, <1>3
<1>6. a = r
    BY <1>3, <1>4, <1>5, SeqEqual DEF Path
<1> QED BY <1>2, <1>6 DEF q, a

LEMMA PrefixMoves ==
    ASSUME NEW p \in Path, NEW q \in Path, IsPrefix(p, q)
    PROVE  \E r \in Path : q = p \o r /\ After(p, q) = r
<1> DEFINE r == [i \in 1..(Len(q) - Len(p)) |-> q[Len(p) + i]]
<1>1. /\ Len(p) \in Nat /\ Len(q) \in Nat /\ Len(p) <= Len(q) /\ \A i \in 1..Len(p) : p[i] = q[i]
      /\ \A i \in 1..Len(q) : q[i] \in Keys
    BY PrefixIs, ElementOfSeq DEF Path
<1>2. r \in Path /\ Len(r) = Len(q) - Len(p) /\ \A i \in 1..Len(r) : r[i] = q[Len(p) + i]
    <2>1. Len(q) - Len(p) \in Nat /\ \A i \in 1..(Len(q) - Len(p)) : q[Len(p) + i] \in Keys
        BY <1>1
    <2> QED BY <2>1 DEF Path
<1> HIDE DEF r
<1>3. /\ p \o r \in Path /\ Len(p \o r) = Len(p) + Len(r)
      /\ \A i \in 1..Len(p) : (p \o r)[i] = p[i]
      /\ \A i \in 1..Len(r) : (p \o r)[Len(p) + i] = r[i]
    BY <1>2, MovedIs
<1>4. ASSUME NEW i \in 1..Len(q) PROVE (p \o r)[i] = q[i]
    <2>1. CASE i <= Len(p)
        <3>1. i \in 1..Len(p)
            BY <2>1, <1>1
        <3> QED BY <3>1, <1>1, <1>3
    <2>2. CASE i > Len(p)
        <3>1. i - Len(p) \in 1..Len(r) /\ Len(p) + (i - Len(p)) = i
            BY <2>2, <1>1, <1>2
        <3> QED BY <3>1, <1>2, <1>3
    <2>3. i \in Nat /\ (i <= Len(p) \/ i > Len(p))
        BY <1>1
    <2> QED BY <2>1, <2>2, <2>3
<1>5. q = p \o r
    <2>1. Len(p \o r) = Len(q)
        BY <1>1, <1>2, <1>3
    <2> QED BY <2>1, <1>3, <1>4, SeqEqual DEF Path
<1> QED BY <1>2, <1>5, MovedBack

-----------------------------------------------------------------------------
(* Trees.  In a tree every path above a leaf is there, above it only       *)
(* objects and arrays, and no fixed name is an index: what lies under an   *)
(* array is one of its items.                                              *)

\* A set of numbers has a least one.
LEMMA LeastNat ==
    ASSUME NEW T \in SUBSET Nat, T # {}
    PROVE  \E x \in T : \A y \in T : x <= y
<1> DEFINE R == OpToRel(<, Nat)
<1>1. \A x, y \in Nat : <<x, y>> \in R <=> x < y
    BY DEF OpToRel
<1>2. IsWellFoundedOn(R, Nat)
    BY NatLessThanWellFounded
<1> HIDE DEF R
<1>3. PICK x \in T : \A y \in T : ~ (<<y, x>> \in R)
    BY <1>2, WFMin
<1>4. \A y \in T : ~ (y < x)
    BY <1>1, <1>3
<1> QED BY <1>4

LEMMA NumeralsAreKeys ==
    /\ Numerals \subseteq Keys
    /\ \A i \in 1..25 : FixedKeys[i] \notin Numerals
    /\ \A i, j \in 1..Len(Indices) : Index(i) = Index(j) => i = j
    /\ \A i \in 1..Len(Indices) : Index(i) \in Numerals
<1>1. /\ DOMAIN Indices = 1..Len(Indices) /\ Len(Indices) \in Nat
      /\ Len(KeyOrder) \in Nat /\ DOMAIN KeyOrder = 1..Len(KeyOrder) /\ Len(KeyOrder) >= Len(Indices) + 25
    BY KeyOrderIs
<1>2. \A i \in DOMAIN Indices : i \in DOMAIN KeyOrder /\ KeyOrder[i] = Indices[i]
    <2>1. \A i \in 1..Len(Indices) : i \in 1..Len(KeyOrder)
        BY <1>1
    <2> QED BY <1>1, <2>1, KeyOrderIs
<1>3. \A i \in 1..25 : Len(Indices) + i \in DOMAIN KeyOrder /\ KeyOrder[Len(Indices) + i] = FixedKeys[i]
    <2>1. \A i \in 1..25 : Len(Indices) + i \in 1..Len(KeyOrder)
        BY <1>1
    <2> QED BY <1>1, <2>1, KeyOrderIs
<1>4. \A i, j \in DOMAIN KeyOrder : KeyOrder[i] = KeyOrder[j] => i = j
    BY KeysAssumption
<1>5. Numerals \subseteq Keys
    BY <1>2 DEF Numerals, Keys
<1>6. ASSUME NEW i \in 1..25, FixedKeys[i] \in Numerals PROVE FALSE
    <2>1. PICK j \in DOMAIN Indices : FixedKeys[i] = Indices[j]
        BY <1>6 DEF Numerals
    <2>2. Len(Indices) + i = j
        BY <2>1, <1>2, <1>3, <1>4
    <2> QED BY <2>2, <1>1
<1>7. \A i, j \in 1..Len(Indices) : Index(i) = Index(j) => i = j
    BY <1>1, <1>2, <1>4 DEF Index
<1>8. \A i \in 1..Len(Indices) : Index(i) \in Numerals
    BY <1>1 DEF Index, Numerals
<1> QED BY <1>5, <1>6, <1>7, <1>8

LEMMA FixedKeysAreNoNumerals ==
    Numerals \cap {"system", "messages", "tools", "choices", "message", "type", "role", "content", "title", "context",
                   "source", "url", "enum", "text", "thinking", "input", "name", "tool_calls", "function_call",
                   "function", "arguments", "description", "parameters", "input_schema", "data"} = {}
<1>1. \A i \in 1..25 : FixedKeys[i] \notin Numerals
    BY NumeralsAreKeys
<1> QED BY <1>1, FixedKeyAt

-----------------------------------------------------------------------------
LEMMA ItemsAre ==
    ASSUME NEW b, DOMAIN b \subseteq Path, NEW p \in Path, NEW q
    PROVE  q \in Items(b, p) <=> q \in DOMAIN b /\ Is(b, p, {"array"}) /\ \E k \in Keys : q = Append(p, k)
<1>1. ASSUME q \in DOMAIN b PROVE Len(q) = Len(p) + 1 /\ IsPrefix(p, q) <=> \E k \in Keys : q = Append(p, k)
    BY <1>1, ItemIs
<1> QED BY <1>1 DEF Items

\* A node has a parent that may hold it.
LEMMA ParentOf ==
    ASSUME NEW b, NEW n \in Nat, IsTree(b, n), NEW p \in Path, NEW k \in Keys,
           Len(p) >= n, Append(p, k) \in DOMAIN b
    PROVE  /\ p \in DOMAIN b
           /\ k \in Numerals => b[p].is = "array"
           /\ k \notin Numerals => b[p].is = "object"
<1>1. Len(Append(p, k)) > n
    BY StepProps
<1>2. MayHold(b, Front(Append(p, k)), Last(Append(p, k)))
    BY <1>1 DEF IsTree
<1> QED BY <1>2, FrontLast DEF MayHold

LEMMA TreePaths ==
    ASSUME NEW b, NEW n, IsTree(b, n)
    PROVE  DOMAIN b \subseteq Path
BY DEF IsTree, Path

\* Below depth n, what is above a node is a node.
LEMMA AncestorOf ==
    ASSUME NEW b, NEW n \in Nat, IsTree(b, n), NEW p \in Path, Len(p) >= n, NEW q \in DOMAIN b, IsPrefix(p, q)
    PROVE  p \in DOMAIN b
<1> DEFINE T == {Len(t) : t \in {t \in DOMAIN b : IsPrefix(p, t)}}
<1>1. DOMAIN b \subseteq Path
    BY TreePaths
<1>2. T \in SUBSET Nat /\ T # {}
    <2>1. \A t \in DOMAIN b : Len(t) \in Nat
        BY <1>1 DEF Path
    <2>2. Len(q) \in T
        OBVIOUS
    <2> QED BY <2>1, <2>2
<1>3. PICK l \in T : \A y \in T : l <= y
    BY <1>2, LeastNat
<1>4. PICK t \in DOMAIN b : IsPrefix(p, t) /\ \A s \in DOMAIN b : IsPrefix(p, s) => Len(t) <= Len(s)
    BY <1>3
<1>5. CASE t = p
    BY <1>5
<1>6. CASE t # p
    <2>1. t \in Path /\ Len(p) \in Nat /\ Len(t) \in Nat
        BY <1>1 DEF Path
    <2>2. Len(p) <= Len(t) /\ (\A i \in 1..Len(p) : p[i] = t[i])
        BY <1>4, <2>1, PrefixIs
    <2>3. Len(t) > Len(p)
        <3>1. Len(t) = Len(p) => t = p
            BY <2>1, <2>2, SeqEqual DEF Path
        <3> QED BY <3>1, <2>1, <2>2, <1>6
    <2>4. Front(t) \in Path /\ Last(t) \in Keys /\ t = Append(Front(t), Last(t)) /\ Len(Front(t)) = Len(t) - 1
        BY <2>1, <2>3, PathSplit
    <2>5. Len(Front(t)) >= n
        BY <2>1, <2>3, <2>4
    <2>6. Front(t) \in DOMAIN b
        BY <2>4, <2>5, ParentOf
    <2>7. IsPrefix(p, Front(t))
        <3>1. \A i \in 1..Len(p) : i \in 1..Len(Front(t))
            BY <2>1, <2>3, <2>4
        <3>2. \A i \in 1..Len(Front(t)) : t[i] = Front(t)[i]
            <4>1. \A i \in 1..Len(Front(t)) : Append(Front(t), Last(t))[i] = Front(t)[i]
                BY <2>4, StepProps
            <4> QED BY <4>1, <2>4
        <3>3. \A i \in 1..Len(p) : p[i] = Front(t)[i]
            BY <2>2, <3>1, <3>2
        <3>4. Len(p) <= Len(Front(t))
            BY <2>1, <2>3, <2>4
        <3> QED BY <2>4, <3>3, <3>4, PrefixIs
    <2>8. Len(t) <= Len(Front(t))
        BY <1>4, <2>6, <2>7
    <2> QED BY <2>1, <2>4, <2>8
<1> QED BY <1>5, <1>6

\* An element of an array is one of its items; nothing else has elements.
LEMMA ElementOf ==
    ASSUME NEW b, IsTree(b, 1), NEW p \in Path, Len(p) >= 1, NEW q \in Elements(p), q \in DOMAIN b
    PROVE  q \in Items(b, p) /\ b[p].is = "array" /\ p \in DOMAIN b /\ q \in Path /\ Len(q) >= 1
<1>1. PICK i \in Numerals : q = Append(p, i)
    BY DEF Elements
<1>2. i \in Keys
    BY NumeralsAreKeys
<1>3. p \in DOMAIN b /\ b[p].is = "array"
    BY <1>1, <1>2, ParentOf
<1>4. q \in Path /\ Len(q) >= 1
    BY <1>1, <1>2, StepProps
<1> QED BY <1>1, <1>2, <1>3, <1>4, ItemsAre, TreePaths DEF Is

\* A longer path goes through some child.
LEMMA PrefixGoesOn ==
    ASSUME NEW q \in Path, NEW p \in Path, IsPrefix(q, p), p # q
    PROVE  \E k \in Keys : IsPrefix(Append(q, k), p)
<1>1. PICK r \in Path : p = q \o r
    BY PrefixMoves
<1>2. r # <<>>
    <2>1. q \o <<>> = q
        BY ConcatEmptySeq DEF Path
    <2> QED BY <1>1, <2>1
<1>3. Len(r) \in Nat /\ Len(r) > 0 /\ r[1] \in Keys
    <2>1. Len(r) \in Nat \ {0}
        BY <1>2, EmptySeq DEF Path
    <2>2. 1 \in 1..Len(r)
        BY <2>1
    <2> QED BY <2>1, <2>2, ElementOfSeq DEF Path
<1>4. /\ Len(q) \in Nat /\ Len(p) = Len(q) + Len(r)
      /\ \A i \in 1..Len(q) : p[i] = q[i]
      /\ \A i \in 1..Len(r) : p[Len(q) + i] = r[i]
    BY <1>1, MovedIs
<1>5. p[Len(q) + 1] = r[1]
    BY <1>3, <1>4
<1>6. /\ Append(q, r[1]) \in Path /\ Len(Append(q, r[1])) = Len(q) + 1
      /\ Append(q, r[1])[Len(q) + 1] = r[1] /\ \A i \in 1..Len(q) : Append(q, r[1])[i] = q[i]
    BY <1>3, StepProps
<1>7. \A i \in 1..(Len(q) + 1) : Append(q, r[1])[i] = p[i]
    BY <1>4, <1>5, <1>6
<1>8. Len(q) + 1 <= Len(p)
    BY <1>3, <1>4
<1>9. IsPrefix(Append(q, r[1]), p)
    BY <1>6, <1>7, <1>8, PrefixIs
<1> QED BY <1>3, <1>9

\* Strings and the like have nothing under them.
LEMMA LeavesAreLast ==
    ASSUME NEW b, NEW n \in Nat, IsTree(b, n), NEW q \in Path, Len(q) >= n, q \in DOMAIN b,
           b[q].is \notin {"array", "object"}, NEW p \in Under(b, q)
    PROVE  p = q
<1>1. p \in DOMAIN b /\ p \in Path /\ IsPrefix(q, p)
    BY TreePaths DEF Under
<1>2. SUFFICES ASSUME p # q PROVE FALSE
    OBVIOUS
<1>3. PICK k \in Keys : IsPrefix(Append(q, k), p)
    BY <1>1, <1>2, PrefixGoesOn
<1>4. Append(q, k) \in Path /\ Len(Append(q, k)) >= n
    BY StepProps
<1>5. Append(q, k) \in DOMAIN b
    BY <1>1, <1>3, <1>4, AncestorOf
<1> QED BY <1>5, ParentOf

-----------------------------------------------------------------------------
(* Nothing is skipped: the schema's parts.  An optional string that is     *)
(* text, the content of a message and the fields of its tools: where the   *)
(* walk accepts, each such string is among those it visits.                *)

\* Being above depth one, and what children that are.
LEMMA ChildFacts ==
    ASSUME NEW b, IsTree(b, 1), NEW p \in Path, NEW k \in Keys
    PROVE  Append(p, k) \in Path /\ Len(Append(p, k)) >= 1 /\ Append(p, k) # p
<1>1. Len(p) \in Nat /\ Len(Append(p, k)) = Len(p) + 1 /\ Append(p, k) \in Path
    BY StepProps
<1>2. Append(p, k) # p
    BY <1>1
<1> QED BY <1>1, <1>2

LEMMA AllOfAt ==
    ASSUME NEW visits, NEW v \in visits
    PROVE  /\ v.at \subseteq AllOf(visits).at
           /\ AllOf(visits).ok => v.ok
BY DEF AllOf

LEMMA VisitIs == ASSUME NEW S PROVE Visit(S).at = S /\ Visit(S).ok /\ Refuse.at = {} /\ ~Refuse.ok
BY DEF Visit, Refuse

LEMMA StringValue ==
    ASSUME NEW b, NEW p, p \in DOMAIN b, b[p].is = "string"
    PROVE  p \in TransformStringValue(b, p) /\ Is(b, p, {"string"})
BY DEF TransformStringValue, Is

\* What is in the text of a message's content is masked, or the shape refused.
LEMMA ContentCovered ==
    ASSUME NEW b, IsTree(b, 1), NEW c \in Path, Len(c) >= 1,
           NEW p \in Parts(c), p \in DOMAIN b, b[p].is = "string",
           MaskContent(b, c).ok
    PROVE  p \in MaskContent(b, c).at
<1> DEFINE E(q) == CASE Is(b, q, {"string"}) -> Visit({q})
                     [] Is(b, q, {"object"}) -> Visit(TransformStringValue(b, Append(q, "text")))
                     [] OTHER                -> Refuse
           V == {E(q) : q \in Items(b, c)}
<1>0. Is(b, p, {"string"})
    BY DEF Is
<1>1. ASSUME Is(b, c, {"array"}) PROVE MaskContent(b, c) = AllOf(V)
    BY <1>1 DEF MaskContent, StringOrArray, Is
<1>2. CASE p = c
    <2>1. MaskContent(b, c) = Visit({c})
        BY <1>0, <1>2 DEF MaskContent, StringOrArray, Is
    <2> QED BY <2>1, <1>2, VisitIs
<1>3. CASE p \in Elements(c)
    <2>1. p \in Items(b, c) /\ Is(b, c, {"array"})
        BY <1>3, ElementOf DEF Is
    <2>2. E(p) = Visit({p})
        <3>1. ~Is(b, p, {"object"})
            BY DEF Is
        <3> QED BY <3>1, <1>0, Zenon
    <2>2a. E(p) \in V
        BY <2>1
    <2> HIDE DEF V, E
    <2>3. p \in AllOf(V).at
        BY <2>2, <2>2a, AllOfAt, VisitIs
    <2> QED BY <1>1, <2>1, <2>3
<1>4. ASSUME NEW q \in Elements(c), p = Append(q, "text") PROVE p \in MaskContent(b, c).at
    <2>0. "text" \in Keys /\ "text" \notin Numerals
        BY FixedKeysAreKeys, FixedKeysAreNoNumerals
    <2>1. q \in Path /\ Len(q) >= 1
        <3>1. PICK i \in Numerals : q = Append(c, i)
            BY DEF Elements
        <3> QED BY <3>1, NumeralsAreKeys, ChildFacts
    <2>2. q \in DOMAIN b /\ b[q].is = "object"
        BY <1>4, <2>0, <2>1, ParentOf
    <2>3. q \in Items(b, c) /\ Is(b, c, {"array"})
        BY <2>2, ElementOf DEF Is
    <2>4. E(q) = Visit(TransformStringValue(b, p)) /\ E(q) \in V
        BY <2>2, <2>3, <1>4 DEF Is
    <2>5. p \in TransformStringValue(b, p)
        BY StringValue
    <2> HIDE DEF V, E
    <2>6. p \in AllOf(V).at
        BY <2>4, <2>5, AllOfAt, VisitIs
    <2> QED BY <1>1, <2>3, <2>6
<1> QED BY <1>2, <1>3, <1>4 DEF Parts

LEMMA MessageCovered ==
    ASSUME NEW b, IsTree(b, 1), NEW m \in Path,
           NEW p \in OpenAiText(m), p \in DOMAIN b, b[p].is = "string",
           MaskMessage(b, m).ok
    PROVE  p \in MaskMessage(b, m).at
<1> DEFINE A == MaskContent(b, Append(m, "content"))
           B == Visit(TransformStringValue(b, Append(m, "name")))
           C == Visit(TransformToolCallArgs(b, m))
           D == Visit(TransformStringValue(b, Append(Append(m, "function_call"), "arguments")))
           V == {A, B, C, D}
<1>0. /\ {"content", "name", "function_call", "arguments", "tool_calls", "function"} \subseteq Keys
      /\ "function" \notin Numerals
    BY FixedKeysAreKeys, FixedKeysAreNoNumerals
<1>1. MaskMessage(b, m) = AllOf(V)
    BY DEF MaskMessage
<1>2. CASE p \in Parts(Append(m, "content"))
    <2>1. A.ok /\ A.at \subseteq AllOf(V).at
        <3>1. A \in V
            OBVIOUS
        <3> HIDE DEF A, V
        <3> QED BY <1>1, <3>1, AllOfAt
    <2>2. Append(m, "content") \in Path /\ Len(Append(m, "content")) >= 1
        BY <1>0, ChildFacts
    <2>3. p \in A.at
        BY <1>2, <2>1, <2>2, ContentCovered
    <2> QED BY <1>1, <2>1, <2>3
<1>3. CASE p = Append(m, "name")
    <2>1. B \in V /\ p \in B.at
        BY <1>3, StringValue, VisitIs
    <2> HIDE DEF B, V
    <2> QED BY <1>1, <2>1, AllOfAt
<1>4. CASE p = Append(Append(m, "function_call"), "arguments")
    <2>1. D \in V /\ p \in D.at
        BY <1>4, StringValue, VisitIs
    <2> HIDE DEF D, V
    <2> QED BY <1>1, <2>1, AllOfAt
<1>5. ASSUME NEW t \in Elements(Append(m, "tool_calls")), p = Append(Append(t, "function"), "arguments")
      PROVE  p \in MaskMessage(b, m).at
    <2>1. Append(m, "tool_calls") \in Path /\ Len(Append(m, "tool_calls")) >= 1
        BY <1>0, ChildFacts
    <2>2. t \in Path /\ Len(t) >= 1
        <3>1. PICK i \in Numerals : t = Append(Append(m, "tool_calls"), i)
            BY DEF Elements
        <3> QED BY <3>1, <2>1, NumeralsAreKeys, ChildFacts
    <2>3. Append(t, "function") \in Path /\ Len(Append(t, "function")) >= 1
        BY <1>0, <2>2, ChildFacts
    <2>4. Append(t, "function") \in DOMAIN b
        BY <1>0, <1>5, <2>3, ParentOf
    <2>5. t \in DOMAIN b
        BY <1>0, <2>2, <2>4, ParentOf
    <2>6. t \in Items(b, Append(m, "tool_calls"))
        BY <2>1, <2>5, ElementOf
    <2>7. p \in TransformToolCallArgs(b, m)
        BY <1>5, <2>6, StringValue DEF TransformToolCallArgs
    <2>8. C \in V /\ p \in C.at
        BY <2>7, VisitIs
    <2> HIDE DEF C, V
    <2> QED BY <1>1, <2>8, AllOfAt
<1> QED BY <1>2, <1>3, <1>4, <1>5 DEF OpenAiText

\* What is in a tool's schema.
LEMMA SchemaCovered ==
    ASSUME NEW b, IsTree(b, 1), NEW c \in Path, NEW k \in Keys, k # "description",
           NEW p \in SchemaText(b, Append(c, k)), b[p].is = "string"
    PROVE  p \in MaskSchemaDescriptions(b, Append(c, k))
<1> DEFINE s == Append(c, k)
<1>1. s \in Path /\ Len(s) \in Nat /\ Len(s) = Len(c) + 1 /\ s[Len(s)] = k /\ Len(s) >= 1
    <2>1. s \in Path /\ Len(c) \in Nat /\ Len(s) = Len(c) + 1 /\ s[Len(c) + 1] = k
        BY StepProps
    <2> QED BY <2>1
<1>2. p \in DOMAIN b /\ IsPrefix(s, p) /\ Last(p) = "description" /\ \A i \in 1..(Len(p) - 1) : p[i] # "description"
    BY DEF SchemaText, Under
<1>3. p \in Path /\ Len(p) \in Nat
    BY <1>2, TreePaths DEF Path
<1> HIDE DEF s
<1>4. Len(s) <= Len(p) /\ \A i \in 1..Len(s) : s[i] = p[i]
    BY <1>1, <1>2, <1>3, PrefixIs
<1>5. Len(p) > Len(s)
    <2>1. CASE Len(p) = Len(s)
        <3>1. p[Len(p)] = k
            BY <1>1, <1>4, <2>1
        <3> QED BY <3>1, <1>2 DEF Last
    <2> QED BY <2>1, <1>1, <1>3, <1>4
<1>6. \A i \in (Len(s) + 1)..(Len(p) - 1) : i \in 1..(Len(p) - 1)
    BY <1>1, <1>3
<1>7. p \in TransformStringLeaves(b, s)
    BY <1>2 DEF TransformStringLeaves, Under, Is
<1> QED BY <1>2, <1>5, <1>6, <1>7 DEF MaskSchemaDescriptions, s

-----------------------------------------------------------------------------
(* Nothing is skipped: blocks inside a block.  The same of a tool_result's *)
(* content.                                                                *)

\* A place in or under an element is in a list, which has the element.
LEMMA ElementPath ==
    ASSUME NEW p \in Path, NEW q \in Elements(p)
    PROVE  q \in Path /\ Len(q) >= 1
<1>1. PICK i \in Numerals : q = Append(p, i)
    BY DEF Elements
<1>2. i \in Keys
    BY NumeralsAreKeys
<1> QED BY <1>1, <1>2, StepProps

LEMMA InnerCovered ==
    ASSUME NEW b, IsTree(b, 1), NEW c \in Path, Len(c) >= 1,
           NEW p \in InnerText(b, c), p \in DOMAIN b, b[p].is = "string",
           MaskContentBlockArray(b, c).ok
    PROVE  p \in MaskContentBlockArray(b, c).at
<1> DEFINE T(q) == StringOf(b, Append(q, "type"))
           E(q) == CASE Is(b, q, {"string"}) -> Visit({q})
                     [] T(q) = "text"        -> Visit(TransformStringValue(b, Append(q, "text")))
                     [] T(q) = "image"       -> Visit({})
                     [] OTHER                -> Refuse
           V == {E(q) : q \in Items(b, c)}
<1>0. Is(b, p, {"string"}) /\ DOMAIN b \subseteq Path /\ "type" \in Keys /\ "text" \in Keys
    BY FixedKeysAreKeys, TreePaths DEF Is
<1>1. ASSUME Is(b, c, {"array"}) PROVE MaskContentBlockArray(b, c) = AllOf(V)
    BY <1>1 DEF MaskContentBlockArray, StringOrArray, Is
\* Strings have no type.
<1>2. ASSUME NEW q \in Path, Len(q) >= 1, Is(b, q, {"string"}) PROVE T(q) = "none"
    <2>1. Append(q, "type") \notin DOMAIN b
        <3>1. ASSUME Append(q, "type") \in DOMAIN b PROVE FALSE
            BY <1>0, <1>2, <3>1, ParentOf DEF Is
        <3> QED BY <3>1
    <2> QED BY <2>1 DEF StringOf, Is
<1>3. CASE p = c
    <2>1. MaskContentBlockArray(b, c) = Visit({c})
        BY <1>0, <1>3 DEF MaskContentBlockArray, StringOrArray, Is
    <2> QED BY <2>1, <1>3, VisitIs
<1>4. ASSUME NEW q \in Elements(c), q \in DOMAIN b
      PROVE  /\ E(q) \in V /\ Is(b, c, {"array"}) /\ E(q).ok /\ E(q).at \subseteq MaskContentBlockArray(b, c).at
    <2>1. q \in Items(b, c) /\ Is(b, c, {"array"})
        BY <1>4, ElementOf DEF Is
    <2>2. E(q) \in V
        BY <2>1
    <2> HIDE DEF V, E
    <2> QED BY <1>1, <2>1, <2>2, AllOfAt
<1>5. ASSUME p \in Elements(c) PROVE p \in MaskContentBlockArray(b, c).at
    <2>1. p \in Path /\ Len(p) >= 1
        BY <1>5, ElementPath
    <2>2. T(p) = "none"
        BY <1>0, <1>2, <2>1
    <2>3. E(p) = Visit({p})
        <3>1. T(p) # "text" /\ T(p) # "image"
            BY <2>2
        <3> HIDE DEF T
        <3> QED BY <1>0, <3>1, Zenon
    <2>4. E(p).at \subseteq MaskContentBlockArray(b, c).at
        BY <1>4, <1>5
    <2> HIDE DEF E
    <2> QED BY <2>3, <2>4, VisitIs
<1>6. ASSUME NEW q \in Elements(c), T(q) = "text", p = Append(q, "text") PROVE p \in MaskContentBlockArray(b, c).at
    <2>1. q \in Path /\ Len(q) >= 1
        BY ElementPath
    <2>2. q \in DOMAIN b
        BY <1>0, <1>6, <2>1, ParentOf
    <2>3. ~Is(b, q, {"string"})
        BY <1>2, <1>6, <2>1
    <2>4. E(q) = Visit(TransformStringValue(b, p))
        <3>1. T(q) # "image"
            BY <1>6
        <3> HIDE DEF T
        <3> QED BY <1>6, <2>3, <3>1, Zenon
    <2>5. E(q).at \subseteq MaskContentBlockArray(b, c).at
        BY <1>4, <2>2
    <2>6. p \in TransformStringValue(b, p)
        BY StringValue
    <2> HIDE DEF E
    <2> QED BY <2>4, <2>5, <2>6, VisitIs
<1>7. ASSUME NEW q \in Elements(c), T(q) \notin {"text", "image"}, p \in Under(b, q), p # q
      PROVE  p \in MaskContentBlockArray(b, c).at
    <2>1. q \in Path /\ Len(q) >= 1
        BY ElementPath
    <2>2. q \in DOMAIN b
        BY <1>7, <2>1, AncestorOf DEF Under
    <2>3. ~Is(b, q, {"string"})
        <3>1. ASSUME Is(b, q, {"string"}) PROVE FALSE
            <4>1. q \in DOMAIN b /\ b[q].is \notin {"array", "object"}
                BY <3>1 DEF Is
            <4> QED BY <4>1, <1>7, <2>1, LeavesAreLast
        <3> QED BY <3>1
    <2>4. E(q) = Refuse
        <3> HIDE DEF T
        <3> QED BY <1>7, <2>3
    <2>5. E(q).ok
        BY <1>4, <2>2
    <2> HIDE DEF E
    <2> QED BY <2>4, <2>5, VisitIs
<1>8. p = c \/ \E q \in Elements(c) :
        \/ p = q
        \/ T(q) = "text" /\ p = Append(q, "text")
        \/ T(q) \notin {"text", "image"} /\ p \in Under(b, q)
    <2> DEFINE P(q) == CASE T(q) = "text"  -> {Append(q, "text")}
                         [] T(q) = "image" -> {}
                         [] OTHER          -> Under(b, q)
    <2>1. InnerText(b, c) = {c} \cup UNION {{q} \cup P(q) : q \in Elements(c)}
        BY DEF InnerText
    <2>2. \A q : /\ T(q) = "text" => P(q) = {Append(q, "text")}
                 /\ T(q) = "image" => P(q) = {}
                 /\ T(q) \notin {"text", "image"} => P(q) = Under(b, q)
        <3>1. "text" # "image"
            OBVIOUS
        <3> HIDE DEF T
        <3> QED BY <3>1, Zenon
    <2> HIDE DEF T, P
    <2>3. p = c \/ \E q \in Elements(c) : p = q \/ p \in P(q)
        BY <2>1
    <2> QED BY <2>2, <2>3
<1> HIDE DEF T
<1> QED BY <1>3, <1>5, <1>6, <1>7, <1>8

-----------------------------------------------------------------------------
(* Nothing is skipped: blocks.  The same of a document, which may be text, *)
(* base64 or a list of blocks, and of every other kind of block.           *)

\* What has a type is there and holds keys.
LEMMA TypedIs ==
    ASSUME NEW b, IsTree(b, 1), NEW q \in Path, Len(q) >= 1, StringOf(b, Append(q, "type")) # "none"
    PROVE  q \in DOMAIN b /\ b[q].is = "object"
<1>1. "type" \in Keys /\ "type" \notin Numerals
    BY FixedKeysAreKeys, FixedKeysAreNoNumerals
<1>2. Append(q, "type") \in DOMAIN b
    BY DEF StringOf, Is
<1> QED BY <1>1, <1>2, ParentOf

LEMMA DocumentCovered ==
    ASSUME NEW b, IsTree(b, 1), NEW q \in Path, Len(q) >= 1, NEW p,
           p \in {Append(q, "title"), Append(q, "context")} \cup SourceText(b, Append(q, "source")),
           p \in DOMAIN b, b[p].is = "string",
           MaskAnthropicDocument(b, q).ok
    PROVE  p \in MaskAnthropicDocument(b, q).at
<1> DEFINE s == Append(q, "source")
           type == StringOf(b, Append(s, "type"))
           A == Visit(UNION {TransformStringValue(b, Append(q, k)) : k \in {"title", "context"}})
           B == CASE s \notin DOMAIN b             -> Visit({})
                  [] type = "text"                 -> Visit(TransformStringValue(b, Append(s, "data")))
                  [] type = "content"              -> MaskContentBlockArray(b, Append(s, "content"))
                  [] type \in {"base64", "url"}    -> Visit({})
                  [] OTHER                         -> Refuse
           V == {A, B}
<1>1. {"source", "type", "data", "content"} \subseteq Keys
    BY FixedKeysAreKeys
<1>2. s \in Path /\ Len(s) >= 1
    BY <1>1, ChildFacts
<1>3. MaskAnthropicDocument(b, q) = AllOf(V)
    BY DEF MaskAnthropicDocument
<1>4. A \in V /\ B \in V
    OBVIOUS
<1>5. A.at \subseteq MaskAnthropicDocument(b, q).at /\ B.ok /\ B.at \subseteq MaskAnthropicDocument(b, q).at
    <2> HIDE DEF A, B, V
    <2> QED BY <1>3, <1>4, AllOfAt
<1>6. CASE p \in {Append(q, "title"), Append(q, "context")}
    <2>1. p \in TransformStringValue(b, p)
        BY StringValue
    <2>2. p \in A.at
        <3>1. p \in UNION {TransformStringValue(b, Append(q, k)) : k \in {"title", "context"}}
            BY <1>6, <2>1
        <3> QED BY <3>1, VisitIs
    <2> HIDE DEF A
    <2> QED BY <2>2, <1>5
<1>7. CASE p \in SourceText(b, s)
    <2>1. s \in DOMAIN b
        <3>1. CASE type # "none"
            BY <3>1, <1>2, TypedIs
        <3>2. CASE type = "none"
            <4>1. SourceText(b, s) = Under(b, s)
                <5>1. type # "text" /\ type # "content" /\ type \notin {"base64", "url"}
                    BY <3>2
                <5> QED BY <5>1, Zenon DEF SourceText
            <4> QED BY <4>1, <1>7, <1>2, AncestorOf DEF Under
        <3> QED BY <3>1, <3>2
    <2>2. CASE type = "text"
        <3>1. type # "content" /\ type \notin {"base64", "url"}
            BY <2>2
        <3>2. B = Visit(TransformStringValue(b, Append(s, "data")))
            <4> HIDE DEF type
            <4> QED BY <2>1, <2>2, <3>1, Zenon
        <3>3. SourceText(b, s) = {Append(s, "data")}
            <4> HIDE DEF s
            <4> QED BY <2>2, <3>1, Zenon DEF SourceText
        <3>4. p \in B.at
            <4>1. p = Append(s, "data") /\ p \in TransformStringValue(b, p)
                BY <1>7, <3>3, StringValue
            <4> HIDE DEF B, s
            <4> QED BY <3>2, <4>1, VisitIs
        <3> HIDE DEF B
        <3> QED BY <3>4, <1>5
    <2>3. CASE type = "content"
        <3>1. type # "text" /\ type \notin {"base64", "url"}
            BY <2>3
        <3>2. B = MaskContentBlockArray(b, Append(s, "content"))
            <4> HIDE DEF type
            <4> QED BY <2>1, <2>3, <3>1, Zenon
        <3>3. SourceText(b, s) = InnerText(b, Append(s, "content"))
            <4> HIDE DEF s
            <4> QED BY <2>3, <3>1, Zenon DEF SourceText
        <3>4. Append(s, "content") \in Path /\ Len(Append(s, "content")) >= 1
            BY <1>1, <1>2, ChildFacts
        <3>5. p \in B.at
            <4> HIDE DEF B, s
            <4> QED BY <1>5, <1>7, <3>2, <3>3, <3>4, InnerCovered
        <3> HIDE DEF B
        <3> QED BY <3>5, <1>5
    <2>4. CASE type \in {"base64", "url"}
        <3>1. type # "text" /\ type # "content"
            BY <2>4
        <3>2. SourceText(b, s) = {}
            <4> HIDE DEF s
            <4> QED BY <2>4, <3>1, Zenon DEF SourceText
        <3> QED BY <3>2, <1>7
    <2>5. CASE type \notin {"text", "content", "base64", "url"}
        <3>1. type # "text" /\ type # "content" /\ type \notin {"base64", "url"}
            BY <2>5
        <3>2. B = Refuse
            <4> HIDE DEF type
            <4> QED BY <2>1, <3>1, Zenon
        <3> HIDE DEF B
        <3> QED BY <3>2, <1>5, VisitIs
    <2> QED BY <2>2, <2>3, <2>4, <2>5
<1> QED BY <1>6, <1>7

LEMMA BlockCovered ==
    ASSUME NEW b, IsTree(b, 1), NEW q \in Path, Len(q) >= 1, q \in DOMAIN b,
           NEW p \in BlockText(b, q), p \in DOMAIN b, b[p].is = "string",
           MaskAnthropicBlock(b, q).ok
    PROVE  p \in MaskAnthropicBlock(b, q).at
<1> DEFINE type == StringOf(b, Append(q, "type"))
           W == MaskAnthropicBlock(b, q)
           P == CASE type = "text"        -> {Append(q, "text")}
                  [] type = "thinking"    -> {Append(q, "thinking")}
                  [] type = "tool_use"    -> Under(b, Append(q, "input"))
                  [] type = "tool_result" -> InnerText(b, Append(q, "content"))
                  [] type = "document"    -> {Append(q, "title"), Append(q, "context")}
                                             \cup SourceText(b, Append(q, "source"))
                  [] type \in {"image", "redacted_thinking"} -> {}
                  [] OTHER                -> Under(b, q)
<1>0. {"type", "text", "thinking", "input", "content"} \subseteq Keys
    BY FixedKeysAreKeys
<1>1. BlockText(b, q) = {q} \cup P
    BY DEF BlockText
<1>2. CASE Is(b, q, {"string"})
    <2>1. p = q
        <3>1. p \in Under(b, q)
            <4>1. CASE p = q
                <5>1. IsPrefix(q, q)
                    BY <1>0, PrefixStep
                <5> QED BY <4>1, <5>1 DEF Under
            <4>2. CASE p # q
                <5>1. type = "none"
                    <6>1. ~(type # "none")
                        BY <1>2, TypedIs DEF Is
                    <6> QED BY <6>1
                <5>2. /\ type # "text" /\ type # "thinking" /\ type # "tool_use" /\ type # "tool_result"
                      /\ type # "document" /\ type \notin {"image", "redacted_thinking"}
                    BY <5>1
                <5>3. P = Under(b, q)
                    <6> HIDE DEF type
                    <6> QED BY <5>2, Zenon
                <5> HIDE DEF P
                <5> QED BY <4>2, <1>1, <5>3
            <4> QED BY <4>1, <4>2
        <3> QED BY <3>1, <1>2, LeavesAreLast DEF Is
    <2>2. type = "none"
        <3>1. ~(type # "none")
            BY <1>2, TypedIs DEF Is
        <3> QED BY <3>1
    <2>3. W = Visit({q})
        <3>1. /\ type # "text" /\ type # "thinking" /\ type # "tool_use" /\ type # "tool_result"
              /\ type # "document" /\ type \notin {"image", "redacted_thinking"}
            BY <2>2
        <3> QED BY <1>2, <3>1, Zenon DEF MaskAnthropicBlock
    <2> QED BY <2>1, <2>3, VisitIs
<1>3. CASE ~Is(b, q, {"string"})
    <2>1. p # q
        BY <1>3 DEF Is
    <2>2. p \in P
        <3> HIDE DEF P
        <3> QED BY <1>1, <2>1
    <2>3. CASE type = "text"
        <3>1. /\ type # "thinking" /\ type # "tool_use" /\ type # "tool_result"
              /\ type # "document" /\ type \notin {"image", "redacted_thinking"}
            BY <2>3
        <3>2. W = Visit(TransformStringValue(b, Append(q, "text")))
            BY <1>3, <2>3, <3>1, Zenon DEF MaskAnthropicBlock
        <3>3. P = {Append(q, "text")}
            <4> HIDE DEF type
            <4> QED BY <2>3, <3>1, Zenon
        <3> HIDE DEF P
        <3>4. p = Append(q, "text") /\ p \in TransformStringValue(b, p)
            BY <2>2, <3>3, StringValue
        <3>5. p \in W.at
            <4> HIDE DEF W
            <4> QED BY <3>2, <3>4, VisitIs
        <3> QED BY <3>5
    <2>4. CASE type = "thinking"
        <3>1. /\ type # "text" /\ type # "tool_use" /\ type # "tool_result"
              /\ type # "document" /\ type \notin {"image", "redacted_thinking"}
            BY <2>4
        <3>2. W = Visit(TransformStringValue(b, Append(q, "thinking")))
            BY <1>3, <2>4, <3>1, Zenon DEF MaskAnthropicBlock
        <3>3. P = {Append(q, "thinking")}
            <4> HIDE DEF type
            <4> QED BY <2>4, <3>1, Zenon
        <3> HIDE DEF P
        <3>4. p = Append(q, "thinking") /\ p \in TransformStringValue(b, p)
            BY <2>2, <3>3, StringValue
        <3>5. p \in W.at
            <4> HIDE DEF W
            <4> QED BY <3>2, <3>4, VisitIs
        <3> QED BY <3>5
    <2>5. CASE type = "tool_use"
        <3>1. /\ type # "text" /\ type # "thinking" /\ type # "tool_result"
              /\ type # "document" /\ type \notin {"image", "redacted_thinking"}
            BY <2>5
        <3>2. W = Visit(TransformStringLeaves(b, Append(q, "input")))
            BY <1>3, <2>5, <3>1, Zenon DEF MaskAnthropicBlock
        <3>3. P = Under(b, Append(q, "input"))
            <4> HIDE DEF type
            <4> QED BY <2>5, <3>1, Zenon
        <3>4. p \in TransformStringLeaves(b, Append(q, "input"))
            <4> HIDE DEF P
            <4> QED BY <2>2, <3>3 DEF TransformStringLeaves, Under, Is
        <3> HIDE DEF P, W
        <3> QED BY <3>2, <3>4, VisitIs DEF W
    <2>6. CASE type = "tool_result"
        <3>1. /\ type # "text" /\ type # "thinking" /\ type # "tool_use"
              /\ type # "document" /\ type \notin {"image", "redacted_thinking"}
            BY <2>6
        <3>2. W = MaskContentBlockArray(b, Append(q, "content"))
            BY <1>3, <2>6, <3>1, Zenon DEF MaskAnthropicBlock
        <3>3. P = InnerText(b, Append(q, "content"))
            <4> HIDE DEF type
            <4> QED BY <2>6, <3>1, Zenon
        <3>4. Append(q, "content") \in Path /\ Len(Append(q, "content")) >= 1
            BY <1>0, ChildFacts
        <3> HIDE DEF P
        <3>5. p \in W.at
            BY <2>2, <3>2, <3>3, <3>4, InnerCovered
        <3> QED BY <3>5
    <2>7. CASE type = "document"
        <3>1. /\ type # "text" /\ type # "thinking" /\ type # "tool_use"
              /\ type # "tool_result" /\ type \notin {"image", "redacted_thinking"}
            BY <2>7
        <3>2. W = MaskAnthropicDocument(b, q)
            BY <1>3, <2>7, <3>1, Zenon DEF MaskAnthropicBlock
        <3>3. P = {Append(q, "title"), Append(q, "context")} \cup SourceText(b, Append(q, "source"))
            <4> HIDE DEF type
            <4> QED BY <2>7, <3>1, Zenon
        <3> HIDE DEF P
        <3>4. p \in W.at
            BY <2>2, <3>2, <3>3, DocumentCovered
        <3> QED BY <3>4
    <2>8. CASE type \in {"image", "redacted_thinking"}
        <3>1. /\ type # "text" /\ type # "thinking" /\ type # "tool_use"
              /\ type # "tool_result" /\ type # "document"
            BY <2>8
        <3>2. P = {}
            <4> HIDE DEF type
            <4> QED BY <2>8, <3>1, Zenon
        <3> HIDE DEF P
        <3> QED BY <2>2, <3>2
    <2>9. CASE type \notin {"text", "thinking", "tool_use", "tool_result", "document", "image", "redacted_thinking"}
        <3>1. /\ type # "text" /\ type # "thinking" /\ type # "tool_use"
              /\ type # "tool_result" /\ type # "document" /\ type \notin {"image", "redacted_thinking"}
            BY <2>9
        <3>2. W = Refuse
            BY <1>3, <3>1, Zenon DEF MaskAnthropicBlock
        <3> QED BY <3>2, VisitIs
    <2> QED BY <2>3, <2>4, <2>5, <2>6, <2>7, <2>8, <2>9
<1> QED BY <1>2, <1>3

-----------------------------------------------------------------------------
(* Nothing is skipped: requests.  Hence a request the walk accepts has     *)
(* every string that can carry a secret among the visited ones, under      *)
(* either schema.                                                          *)

\* What has text of a block in it is there.
LEMMA InnerIsThere ==
    ASSUME NEW b, IsTree(b, 1), NEW c \in Path, Len(c) >= 1, NEW p \in DOMAIN b, p \in InnerText(b, c)
    PROVE  IsPrefix(c, p)
<1>1. p \in Path /\ "text" \in Keys
    BY TreePaths, FixedKeysAreKeys
<1>2. CASE p = c
    BY <1>1, <1>2, PrefixStep
<1>3. ASSUME NEW q \in Elements(c), p = q \/ p = Append(q, "text") \/ p \in Under(b, q) PROVE IsPrefix(c, p)
    <2>1. PICK i \in Numerals : q = Append(c, i)
        BY DEF Elements
    <2>2. i \in Keys /\ q \in Path
        BY <2>1, NumeralsAreKeys, ElementPath
    <2>3. IsPrefix(c, q) /\ IsPrefix(q, q) /\ IsPrefix(q, Append(q, "text"))
        BY <1>1, <2>1, <2>2, PrefixStep
    <2>4. IsPrefix(q, p)
        BY <1>3, <2>3 DEF Under
    <2> QED BY <1>1, <2>2, <2>3, <2>4, PrefixTrans
<1> DEFINE T(q) == StringOf(b, Append(q, "type"))
           P(q) == CASE T(q) = "text"  -> {Append(q, "text")}
                     [] T(q) = "image" -> {}
                     [] OTHER          -> Under(b, q)
<1>4. InnerText(b, c) = {c} \cup UNION {{q} \cup P(q) : q \in Elements(c)}
    BY DEF InnerText
<1>5. \A q : P(q) \subseteq {Append(q, "text")} \cup Under(b, q)
    <2> HIDE DEF T
    <2> QED OBVIOUS
<1> HIDE DEF P, T
<1> QED BY <1>2, <1>3, <1>4, <1>5

LEMMA SourceIsThere ==
    ASSUME NEW b, IsTree(b, 1), NEW c \in Path, Len(c) >= 1, NEW p \in DOMAIN b, p \in SourceText(b, c)
    PROVE  IsPrefix(c, p)
<1>1. {"data", "content"} \subseteq Keys /\ p \in Path
    BY TreePaths, FixedKeysAreKeys
<1>2. SourceText(b, c) \subseteq {Append(c, "data")} \cup InnerText(b, Append(c, "content")) \cup Under(b, c)
    BY DEF SourceText
<1>3. Append(c, "content") \in Path /\ Len(Append(c, "content")) >= 1
    BY <1>1, ChildFacts
<1>4. CASE p = Append(c, "data")
    BY <1>1, <1>4, PrefixStep
<1>5. CASE p \in InnerText(b, Append(c, "content"))
    <2>1. IsPrefix(Append(c, "content"), p)
        BY <1>3, <1>5, InnerIsThere
    <2> QED BY <1>1, <2>1, PrefixStep
<1>6. CASE p \in Under(b, c)
    BY <1>6 DEF Under
<1> QED BY <1>2, <1>4, <1>5, <1>6

LEMMA BlockIsThere ==
    ASSUME NEW b, IsTree(b, 1), NEW q \in Path, Len(q) >= 1, NEW p \in DOMAIN b, p \in BlockText(b, q)
    PROVE  q \in DOMAIN b /\ IsPrefix(q, p)
<1>0. {"text", "thinking", "input", "content", "title", "context", "source"} \subseteq Keys /\ p \in Path
    BY TreePaths, FixedKeysAreKeys
<1>a. SUFFICES IsPrefix(q, p)
    BY AncestorOf
<1>1. BlockText(b, q) \subseteq {q, Append(q, "text"), Append(q, "thinking"), Append(q, "title"), Append(q, "context")}
        \cup Under(b, Append(q, "input")) \cup InnerText(b, Append(q, "content"))
        \cup SourceText(b, Append(q, "source")) \cup Under(b, q)
    BY DEF BlockText
<1>2. CASE \E k \in {"text", "thinking", "title", "context"} : p = Append(q, k)
    BY <1>0, <1>2, PrefixStep
<1>3. CASE p = q
    BY <1>0, <1>3, PrefixStep
<1>4. CASE p \in Under(b, Append(q, "input"))
    BY <1>0, <1>4, PrefixStep DEF Under
<1>5. CASE p \in InnerText(b, Append(q, "content"))
    <2>1. Append(q, "content") \in Path /\ Len(Append(q, "content")) >= 1
        BY <1>0, ChildFacts
    <2>2. IsPrefix(Append(q, "content"), p)
        BY <1>5, <2>1, InnerIsThere
    <2> QED BY <1>0, <2>2, PrefixStep
<1>6. CASE p \in SourceText(b, Append(q, "source"))
    <2>1. Append(q, "source") \in Path /\ Len(Append(q, "source")) >= 1
        BY <1>0, ChildFacts
    <2>2. IsPrefix(Append(q, "source"), p)
        BY <1>6, <2>1, SourceIsThere
    <2> QED BY <1>0, <2>2, PrefixStep
<1>7. CASE p \in Under(b, q)
    BY <1>7 DEF Under
<1> QED BY <1>1, <1>2, <1>3, <1>4, <1>5, <1>6, <1>7

LEMMA AnthropicContentCovered ==
    ASSUME NEW b, IsTree(b, 1), NEW c \in Path, Len(c) >= 1, NEW p,
           p \in {c} \cup UNION {BlockText(b, q) : q \in Elements(c)}, p \in DOMAIN b, b[p].is = "string",
           MaskAnthropicContent(b, c).ok
    PROVE  p \in MaskAnthropicContent(b, c).at
<1> DEFINE E(q) == MaskAnthropicBlock(b, q)
           V == {E(q) : q \in Items(b, c)}
<1>0. Is(b, p, {"string"}) /\ DOMAIN b \subseteq Path
    BY TreePaths DEF Is
<1>1. ASSUME Is(b, c, {"array"}) PROVE MaskAnthropicContent(b, c) = AllOf(V)
    BY <1>1 DEF MaskAnthropicContent, StringOrArray, Is
<1>2. CASE p = c
    <2>1. MaskAnthropicContent(b, c) = Visit({c})
        BY <1>0, <1>2 DEF MaskAnthropicContent, StringOrArray, Is
    <2> QED BY <2>1, <1>2, VisitIs
<1>3. ASSUME NEW q \in Elements(c), p \in BlockText(b, q) PROVE p \in MaskAnthropicContent(b, c).at
    <2>1. q \in Path /\ Len(q) >= 1
        BY ElementPath
    <2>2. q \in DOMAIN b
        BY <1>3, <2>1, BlockIsThere
    <2>3. q \in Items(b, c) /\ Is(b, c, {"array"})
        BY <2>2, ElementOf DEF Is
    <2>4. E(q) \in V
        BY <2>3
    <2> HIDE DEF V
    <2>5. E(q).ok /\ E(q).at \subseteq AllOf(V).at
        <3> HIDE DEF E
        <3> QED BY <1>1, <2>3, <2>4, AllOfAt
    <2>6. p \in E(q).at
        BY <1>3, <2>1, <2>2, <2>5, BlockCovered
    <2> QED BY <1>1, <2>3, <2>5, <2>6
<1> QED BY <1>2, <1>3

LEMMA SystemCovered ==
    ASSUME NEW b, IsTree(b, 1), NEW c \in Path, Len(c) >= 1,
           NEW p \in Parts(c), p \in DOMAIN b, b[p].is = "string",
           MaskAnthropicSystem(b, c).ok
    PROVE  p \in MaskAnthropicSystem(b, c).at
<1> DEFINE E(q) == IF Append(q, "text") \in DOMAIN b THEN Visit(TransformStringValue(b, Append(q, "text"))) ELSE Refuse
           V == {E(q) : q \in Items(b, c)}
<1>0. Is(b, p, {"string"}) /\ "text" \in Keys /\ "text" \notin Numerals
    BY FixedKeysAreKeys, FixedKeysAreNoNumerals DEF Is
<1>1. ASSUME Is(b, c, {"array"}) PROVE MaskAnthropicSystem(b, c) = AllOf(V)
    BY <1>1 DEF MaskAnthropicSystem, StringOrArray, Is
<1>2. CASE p = c
    <2>1. MaskAnthropicSystem(b, c) = Visit({c})
        BY <1>0, <1>2 DEF MaskAnthropicSystem, StringOrArray, Is
    <2> QED BY <2>1, <1>2, VisitIs
<1>3. ASSUME NEW q \in Elements(c), q \in DOMAIN b
      PROVE  E(q).ok /\ E(q).at \subseteq MaskAnthropicSystem(b, c).at
    <2>1. q \in Items(b, c) /\ Is(b, c, {"array"})
        BY <1>3, ElementOf DEF Is
    <2>2. E(q) \in V
        BY <2>1
    <2> HIDE DEF V, E
    <2> QED BY <1>1, <2>1, <2>2, AllOfAt
<1>4. CASE p \in Elements(c)
    <2>1. p \in Path /\ Len(p) >= 1
        BY <1>4, ElementPath
    <2>2. Append(p, "text") \notin DOMAIN b
        <3>1. ASSUME Append(p, "text") \in DOMAIN b PROVE FALSE
            BY <1>0, <2>1, <3>1, ParentOf
        <3> QED BY <3>1
    <2>3. E(p) = Refuse
        BY <2>2
    <2>4. E(p).ok
        BY <1>3, <1>4
    <2> HIDE DEF E
    <2> QED BY <2>3, <2>4, VisitIs
<1>5. ASSUME NEW q \in Elements(c), p = Append(q, "text") PROVE p \in MaskAnthropicSystem(b, c).at
    <2>1. q \in Path /\ Len(q) >= 1
        BY ElementPath
    <2>2. q \in DOMAIN b
        BY <1>0, <1>5, <2>1, ParentOf
    <2>3. E(q) = Visit(TransformStringValue(b, p))
        BY <1>5
    <2>4. E(q).at \subseteq MaskAnthropicSystem(b, c).at
        BY <1>3, <2>2
    <2>5. p \in TransformStringValue(b, p)
        BY StringValue
    <2> HIDE DEF E
    <2> QED BY <2>3, <2>4, <2>5, VisitIs
<1> QED BY <1>2, <1>4, <1>5 DEF Parts

-----------------------------------------------------------------------------
\* All that a request says is masked, or the request refused.
SaidIn(b) == OpeningText(schema, b) \cup UNION {MessageText(schema, b, m) : m \in Items(b, <<"messages">>)}

LEMMA EmptyPath == <<>> \in Path /\ Len(<<>>) = 0
BY EmptySeq DEF Path

LEMMA Top ==
    ASSUME NEW k \in Keys
    PROVE  /\ <<k>> \in Path /\ Len(<<k>>) = 1 /\ <<k>>[1] = k /\ Append(<<>>, k) = <<k>>
<1>1. Append(<<>>, k) = <<k>>
    OBVIOUS
<1>2. Append(<<>>, k) \in Path /\ Len(Append(<<>>, k)) = Len(<<>>) + 1 /\ Append(<<>>, k)[Len(<<>>) + 1] = k
    BY EmptyPath, StepProps
<1> QED BY <1>1, <1>2, EmptyPath

LEMMA OpenAiCovered ==
    ASSUME schema = "OpenAi", NEW b, IsTree(b, 1), NEW p \in SaidIn(b), p \in DOMAIN b, b[p].is = "string",
           MaskRequest(b).ok
    PROVE  p \in MaskRequest(b).at
<1> DEFINE M == {MaskMessage(b, m) : m \in Items(b, <<"messages">>)}
           T(t) == Visit(TransformStringValue(b, Append(Append(t, "function"), "description"))
                         \cup MaskSchemaDescriptions(b, Append(Append(t, "function"), "parameters")))
           V == M \cup {T(t) : t \in Items(b, <<"tools">>)}
<1>0. /\ {"messages", "tools", "function", "description", "parameters"} \subseteq Keys
      /\ "parameters" # "description" /\ "function" \notin Numerals
    BY FixedKeysAreKeys, FixedKeysAreNoNumerals
<1>1. MaskRequest(b) = AllOf(V)
    BY VisitIs DEF MaskRequest
<1>2. ASSUME NEW m \in Items(b, <<"messages">>), p \in OpenAiText(m) PROVE p \in MaskRequest(b).at
    <2>1. MaskMessage(b, m) \in V
        OBVIOUS
    <2> HIDE DEF V
    <2>2. MaskMessage(b, m).ok /\ MaskMessage(b, m).at \subseteq MaskRequest(b).at
        BY <1>1, <2>1, AllOfAt
    <2>3. m \in Path
        BY TreePaths DEF Items
    <2> QED BY <1>2, <2>2, <2>3, MessageCovered
<1>3. ASSUME NEW t \in Elements(<<"tools">>),
             p \in {Append(Append(t, "function"), "description")}
                   \cup SchemaText(b, Append(Append(t, "function"), "parameters"))
      PROVE  p \in MaskRequest(b).at
    <2> DEFINE f == Append(t, "function")
               A == TransformStringValue(b, Append(f, "description"))
               B == MaskSchemaDescriptions(b, Append(f, "parameters"))
    <2>0. <<"tools">> \in Path /\ Len(<<"tools">>) >= 1
        BY <1>0, Top
    <2>1. t \in Path /\ Len(t) >= 1
        BY <2>0, ElementPath
    <2>2. f \in Path /\ Len(f) >= 1
        BY <1>0, <2>1, ChildFacts
    <2>3. f \in DOMAIN b
        <3>1. CASE p = Append(f, "description")
            BY <1>0, <2>2, <3>1, ParentOf
        <3>2. CASE p \in SchemaText(b, Append(f, "parameters"))
            <4>1. IsPrefix(Append(f, "parameters"), p) /\ p \in Path
                BY <3>2, TreePaths DEF SchemaText, Under
            <4>2. IsPrefix(f, p)
                BY <1>0, <2>2, <4>1, PrefixStep
            <4> QED BY <2>2, <4>2, AncestorOf
        <3> QED BY <1>3, <3>1, <3>2
    <2>4. t \in DOMAIN b
        BY <1>0, <2>1, <2>3, ParentOf
    <2>5. t \in Items(b, <<"tools">>)
        BY <2>0, <2>4, ElementOf
    <2>6. p \in A \cup B
        <3>1. CASE p = Append(f, "description")
            BY <3>1, StringValue
        <3>2. CASE p \in SchemaText(b, Append(f, "parameters"))
            BY <1>0, <2>2, <3>2, SchemaCovered
        <3> QED BY <1>3, <3>1, <3>2
    <2>7. T(t) = Visit(A \cup B) /\ T(t) \in V
        BY <2>5
    <2> HIDE DEF A, B, T, V
    <2> QED BY <1>1, <2>6, <2>7, AllOfAt, VisitIs
<1>4. \/ \E t \in Elements(<<"tools">>) :
           p \in {Append(Append(t, "function"), "description")}
                   \cup SchemaText(b, Append(Append(t, "function"), "parameters"))
      \/ \E m \in Items(b, <<"messages">>) : p \in OpenAiText(m)
    <2>1. p \in OpeningText("OpenAi", b) \/ \E m \in Items(b, <<"messages">>) : p \in MessageText("OpenAi", b, m)
        BY DEF SaidIn
    <2>2. \A m : MessageText("OpenAi", b, m) = OpenAiText(m)
        BY DEF MessageText
    <2>3. OpeningText("OpenAi", b) = UNION {{Append(Append(t, "function"), "description")}
                   \cup SchemaText(b, Append(Append(t, "function"), "parameters")) : t \in Elements(<<"tools">>)}
        BY DEF OpeningText
    <2> QED BY <2>1, <2>2, <2>3
<1> QED BY <1>2, <1>3, <1>4

LEMMA AnthropicCovered ==
    ASSUME schema = "Anthropic", NEW b, IsTree(b, 1), NEW p \in SaidIn(b), p \in DOMAIN b, b[p].is = "string",
           MaskAnthropicRequest(b).ok
    PROVE  p \in MaskAnthropicRequest(b).at
<1> DEFINE S == MaskAnthropicSystem(b, <<"system">>)
           C(m) == MaskAnthropicContent(b, Append(m, "content"))
           T(t) == Visit(TransformStringValue(b, Append(t, "description"))
                         \cup MaskSchemaDescriptions(b, Append(t, "input_schema")))
           V == {S} \cup {C(m) : m \in Items(b, <<"messages">>)} \cup {T(t) : t \in Items(b, <<"tools">>)}
<1>0. /\ {"messages", "tools", "system", "content", "description", "input_schema"} \subseteq Keys
      /\ "input_schema" # "description"
    BY FixedKeysAreKeys
<1>1. MaskAnthropicRequest(b) = AllOf(V)
    BY VisitIs DEF MaskAnthropicRequest
<1>2. ASSUME NEW m \in Items(b, <<"messages">>), p \in AnthropicText(b, m) PROVE p \in MaskAnthropicRequest(b).at
    <2>1. C(m) \in V
        OBVIOUS
    <2>3. m \in Path
        BY TreePaths DEF Items
    <2>4. Append(m, "content") \in Path /\ Len(Append(m, "content")) >= 1
        BY <1>0, <2>3, ChildFacts
    <2> HIDE DEF V
    <2>2. C(m).ok /\ C(m).at \subseteq MaskAnthropicRequest(b).at
        <3> HIDE DEF C
        <3> QED BY <1>1, <2>1, AllOfAt
    <2> QED BY <1>2, <2>2, <2>4, AnthropicContentCovered DEF AnthropicText
<1>3. ASSUME NEW t \in Elements(<<"tools">>),
             p \in {Append(t, "description")} \cup SchemaText(b, Append(t, "input_schema"))
      PROVE  p \in MaskAnthropicRequest(b).at
    <2> DEFINE A == TransformStringValue(b, Append(t, "description"))
               B == MaskSchemaDescriptions(b, Append(t, "input_schema"))
    <2>0. <<"tools">> \in Path /\ Len(<<"tools">>) >= 1
        BY <1>0, Top
    <2>1. t \in Path /\ Len(t) >= 1
        BY <2>0, ElementPath
    <2>4. t \in DOMAIN b
        <3>1. CASE p = Append(t, "description")
            BY <1>0, <2>1, <3>1, ParentOf
        <3>2. CASE p \in SchemaText(b, Append(t, "input_schema"))
            <4>1. IsPrefix(Append(t, "input_schema"), p) /\ p \in Path
                BY <3>2, TreePaths DEF SchemaText, Under
            <4>2. IsPrefix(t, p)
                BY <1>0, <2>1, <4>1, PrefixStep
            <4> QED BY <2>1, <4>2, AncestorOf
        <3> QED BY <1>3, <3>1, <3>2
    <2>5. t \in Items(b, <<"tools">>)
        BY <2>0, <2>4, ElementOf
    <2>6. p \in A \cup B
        <3>1. CASE p = Append(t, "description")
            BY <3>1, StringValue
        <3>2. CASE p \in SchemaText(b, Append(t, "input_schema"))
            BY <1>0, <2>1, <3>2, SchemaCovered
        <3> QED BY <1>3, <3>1, <3>2
    <2>7. T(t) = Visit(A \cup B) /\ T(t) \in V
        BY <2>5
    <2> HIDE DEF A, B, T, V
    <2> QED BY <1>1, <2>6, <2>7, AllOfAt, VisitIs
<1>5. CASE p \in Parts(<<"system">>)
    <2>1. S \in V
        OBVIOUS
    <2> HIDE DEF V
    <2>2. S.ok /\ S.at \subseteq MaskAnthropicRequest(b).at
        <3> HIDE DEF S
        <3> QED BY <1>1, <2>1, AllOfAt
    <2>3. <<"system">> \in Path /\ Len(<<"system">>) >= 1
        BY <1>0, Top
    <2> QED BY <1>5, <2>2, <2>3, SystemCovered
<1>4. \/ \E t \in Elements(<<"tools">>) :
           p \in {Append(t, "description")} \cup SchemaText(b, Append(t, "input_schema"))
      \/ p \in Parts(<<"system">>)
      \/ \E m \in Items(b, <<"messages">>) : p \in AnthropicText(b, m)
    <2>1. p \in OpeningText("Anthropic", b) \/ \E m \in Items(b, <<"messages">>) : p \in MessageText("Anthropic", b, m)
        BY DEF SaidIn
    <2>2. \A m : MessageText("Anthropic", b, m) = AnthropicText(b, m)
        BY DEF MessageText
    <2> DEFINE D(t) == {Append(t, "description")} \cup SchemaText(b, Append(t, "input_schema"))
    <2>3. OpeningText("Anthropic", b) = Parts(<<"system">>) \cup UNION {D(t) : t \in Elements(<<"tools">>)}
        BY DEF OpeningText
    <2> SUFFICES (\E t \in Elements(<<"tools">>) : p \in D(t)) \/ p \in Parts(<<"system">>)
                 \/ \E m \in Items(b, <<"messages">>) : p \in AnthropicText(b, m)
        OBVIOUS
    <2> HIDE DEF D
    <2>4. CASE p \in OpeningText("Anthropic", b)
        BY <2>3, <2>4
    <2>5. CASE \E m \in Items(b, <<"messages">>) : p \in MessageText("Anthropic", b, m)
        BY <2>2, <2>5
    <2> QED BY <2>1, <2>4, <2>5
<1> QED BY <1>2, <1>3, <1>4, <1>5

\* No string in a place for text is passed over by a walk that accepts the
\* request.
LEMMA RequestCovered ==
    ASSUME schema \in Schemas, NEW b, IsTree(b, 1), NEW p \in SaidIn(b), p \in DOMAIN b, b[p].is = "string",
           RequestVisit(b).ok
    PROVE  p \in RequestVisit(b).at
<1>1. CASE schema = "OpenAi"
    BY <1>1, OpenAiCovered DEF RequestVisit
<1>2. CASE schema = "Anthropic"
    BY <1>2, AnthropicCovered DEF RequestVisit
<1> QED BY <1>1, <1>2 DEF Schemas

-----------------------------------------------------------------------------
(* Bodies of a history.  A body is the opening with the messages so far    *)
(* put at their places.  GoodHistory is what the proofs know of a history. *)

-----------------------------------------------------------------------------
(* The body a client makes of its conversation.                            *)

\* A conversation that keeps to the schema.
GoodHistory(h) ==
  /\ schema \in Schemas
  /\ GoodOpening(schema, opening)
  /\ Len(h) \in 0..MaxMessages
  /\ h = [i \in 1..Len(h) |-> h[i]]
  /\ \A i \in 1..Len(h) : GoodMessage(schema, h[i])

LEMMA MessageAtIs ==
    ASSUME NEW i \in 1..Len(Indices)
    PROVE  /\ MessageAt(i) \in Path /\ Len(MessageAt(i)) = 2
           /\ MessageAt(i)[1] = "messages" /\ MessageAt(i)[2] = Index(i)
           /\ MessageAt(i) = Append(<<"messages">>, Index(i)) /\ Index(i) \in Keys /\ Index(i) \in Numerals
<1>1. Index(i) \in Keys /\ Index(i) \in Numerals /\ "messages" \in Keys
    BY NumeralsAreKeys, FixedKeysAreKeys
<1>2. <<"messages">> \in Path /\ Len(<<"messages">>) = 1 /\ <<"messages">>[1] = "messages"
    BY <1>1, Top
<1> DEFINE m == <<"messages">>
<1>3. m \in Path /\ Len(m) = 1 /\ m[1] = "messages"
    BY <1>2
<1> HIDE DEF m
<1>4. /\ Append(m, Index(i)) \in Path /\ Len(Append(m, Index(i))) = 2 /\ Append(m, Index(i))[1] = "messages"
      /\ Append(m, Index(i))[2] = Index(i)
    <2>1. /\ Append(m, Index(i)) \in Path /\ Len(Append(m, Index(i))) = Len(m) + 1
          /\ Append(m, Index(i))[Len(m) + 1] = Index(i) /\ \A j \in 1..Len(m) : Append(m, Index(i))[j] = m[j]
        BY <1>1, <1>3, StepProps
    <2> QED BY <2>1, <1>3
<1> QED BY <1>1, <1>4 DEF MessageAt, m

LEMMA HistoryIs ==
    ASSUME NEW h, GoodHistory(h)
    PROVE  /\ DOMAIN h = 1..Len(h) /\ Len(h) \in Nat /\ Len(h) <= MaxMessages /\ MaxMessages < Len(Indices)
           /\ MaxMessages \in Nat /\ Len(Indices) \in Nat
           /\ \A i \in DOMAIN h : /\ i \in 1..Len(Indices)
                                  /\ IsTree(h[i], 0) /\ <<>> \in DOMAIN h[i] /\ h[i][<<>>].is = "object"
                                  /\ DOMAIN h[i] \subseteq Path
                                  /\ GoodMessage(schema, h[i])
<1>1. Len(h) \in 0..MaxMessages /\ MaxMessages \in Nat /\ MaxMessages < Len(Indices) /\ Len(Indices) \in Nat
    BY WireAssumption, KeyOrderIs DEF GoodHistory
<1>2. DOMAIN h = 1..Len(h)
    <2>1. h = [i \in 1..Len(h) |-> h[i]]
        BY DEF GoodHistory
    <2>2. DOMAIN [i \in 1..Len(h) |-> h[i]] = 1..Len(h)
        OBVIOUS
    <2> QED BY <2>1, <2>2
<1>3. ASSUME NEW i \in DOMAIN h
      PROVE  /\ i \in 1..Len(Indices)
             /\ IsTree(h[i], 0) /\ <<>> \in DOMAIN h[i] /\ h[i][<<>>].is = "object"
             /\ DOMAIN h[i] \subseteq Path
             /\ GoodMessage(schema, h[i])
    <2>1. i \in 1..Len(Indices)
        BY <1>1, <1>2
    <2>2. GoodMessage(schema, h[i])
        BY <1>2 DEF GoodHistory
    <2>3. IsTree(h[i], 0) /\ <<>> \in DOMAIN h[i] /\ h[i][<<>>].is = "object"
        BY <2>2 DEF GoodMessage, IsFragment
    <2> QED BY <2>1, <2>2, <2>3, TreePaths
<1> QED BY <1>1, <1>2, <1>3

\* A place in message i.
Place(i, r) == MessageAt(i) \o r

LEMMA PlaceIs ==
    ASSUME NEW i \in 1..Len(Indices), NEW r \in Path
    PROVE  /\ Place(i, r) \in Path
           /\ Len(Place(i, r)) = Len(r) + 2 /\ Len(r) \in Nat
           /\ (Place(i, r))[1] = "messages" /\ (Place(i, r))[2] = Index(i)
           /\ \A j \in 1..Len(r) : (Place(i, r))[j + 2] = r[j]
           /\ After(MessageAt(i), Place(i, r)) = r
           /\ Place(i, <<>>) = MessageAt(i)
           /\ \A k \in Keys : Place(i, Append(r, k)) = Append(Place(i, r), k)
<1> DEFINE M == MessageAt(i)
<1>1. M \in Path /\ Len(M) = 2 /\ M[1] = "messages" /\ M[2] = Index(i)
    BY MessageAtIs
<1> HIDE DEF M
<1>2. /\ M \o r \in Path /\ Len(M) \in Nat /\ Len(r) \in Nat
      /\ Len(M \o r) = Len(M) + Len(r)
      /\ \A j \in 1..Len(M) : (M \o r)[j] = M[j]
      /\ \A j \in 1..Len(r) : (M \o r)[Len(M) + j] = r[j]
    BY <1>1, MovedIs
<1>3. After(M, M \o r) = r
    BY <1>1, MovedBack
<1>4. M \o <<>> = M
    BY <1>1, ConcatEmptySeq DEF Path
<1>5. \A k \in Keys : M \o Append(r, k) = Append(M \o r, k)
    BY <1>1, MovedStep
<1>6. \A j \in 1..Len(r) : (M \o r)[j + 2] = r[j]
    BY <1>1, <1>2
<1>7. (M \o r)[1] = "messages" /\ (M \o r)[2] = Index(i)
    BY <1>1, <1>2
<1>8. Len(M \o r) = Len(r) + 2
    BY <1>1, <1>2
<1> QED BY <1>2, <1>3, <1>4, <1>5, <1>6, <1>7, <1>8 DEF M, Place

LEMMA PlaceUnique ==
    ASSUME NEW i \in 1..Len(Indices), NEW r \in Path, NEW j \in 1..Len(Indices), NEW t \in Path,
           Place(i, r) = Place(j, t)
    PROVE  i = j /\ r = t
<1>1. Index(i) = Index(j)
    <2>1. (Place(i, r))[2] = Index(i) /\ (Place(j, t))[2] = Index(j)
        BY PlaceIs
    <2> QED BY <2>1
<1>2. i = j
    BY <1>1, NumeralsAreKeys
<1>3. r = t
    <2>1. After(MessageAt(i), Place(i, r)) = r /\ After(MessageAt(j), Place(j, t)) = t
        BY PlaceIs
    <2> QED BY <2>1, <1>2
<1> QED BY <1>2, <1>3

LEMMA OpeningIs ==
    ASSUME NEW h, GoodHistory(h), NEW p \in DOMAIN opening
    PROVE  /\ p \in Path /\ p[1] \in {"system", "tools"} /\ Len(p) \in Nat /\ Len(p) >= 1
           /\ p # <<"messages">>
           /\ \A i \in 1..Len(Indices) : \A r \in Path : p # Place(i, r)
<1>1. IsTree(opening, 1) /\ p # <<>> /\ p[1] \in {"system", "tools"}
    BY DEF GoodHistory, GoodOpening
<1>2. p \in Path
    BY <1>1, TreePaths
<1>3. Len(p) \in Nat /\ Len(p) >= 1
    BY <1>1, <1>2, EmptySeq DEF Path
<1>4. <<"messages">>[1] = "messages"
    OBVIOUS
<1>5. \A i \in 1..Len(Indices) : \A r \in Path : (Place(i, r))[1] = "messages"
    BY PlaceIs
<1>6. p # <<"messages">>
    BY <1>1, <1>4
<1>7. \A i \in 1..Len(Indices) : \A r \in Path : p # Place(i, r)
    BY <1>1, <1>5
<1> QED BY <1>1, <1>2, <1>3, <1>6, <1>7

\* The nodes of a body: the opening's, the list of messages, the messages'.
LEMMA BodyIs ==
    ASSUME NEW h, GoodHistory(h)
    PROVE  /\ \A p : p \in DOMAIN Body(h) <=>
                        \/ p \in DOMAIN opening
                        \/ p = <<"messages">>
                        \/ \E i \in DOMAIN h : \E r \in DOMAIN h[i] : p = Place(i, r)
           /\ Body(h) = [p \in DOMAIN Body(h) |-> Body(h)[p]]
           /\ \A p \in DOMAIN opening : Body(h)[p] = opening[p]
           /\ Body(h)[<<"messages">>] = Node("array")
           /\ \A i \in DOMAIN h : \A r \in DOMAIN h[i] :
                 Place(i, r) \in DOMAIN Body(h) /\ Body(h)[Place(i, r)] = h[i][r]
<1> DEFINE D == DOMAIN opening \cup {<<"messages">>} \cup UNION {PathsAt(MessageAt(i), h[i]) : i \in DOMAIN h}
           F(p) == CASE p \in DOMAIN opening -> opening[p]
                     [] p = <<"messages">>   -> Node("array")
                     [] OTHER                -> LET i == CHOOSE i \in DOMAIN h : Index(i) = p[2]
                                                IN h[i][After(MessageAt(i), p)]
<1>1. Body(h) = [p \in D |-> F(p)]
    BY DEF Body
<1>2. \A p : p \in D <=> \/ p \in DOMAIN opening
                         \/ p = <<"messages">>
                         \/ \E i \in DOMAIN h : \E r \in DOMAIN h[i] : p = Place(i, r)
    <2>1. \A p : p \in D <=> \/ p \in DOMAIN opening
                            \/ p = <<"messages">>
                            \/ \E i \in DOMAIN h : p \in PathsAt(MessageAt(i), h[i])
        OBVIOUS
    <2>2. \A p : \A i \in DOMAIN h : p \in PathsAt(MessageAt(i), h[i]) <=> \E r \in DOMAIN h[i] : p = Place(i, r)
        BY DEF PathsAt, Place
    <2> HIDE DEF D
    <2> QED BY <2>1, <2>2
<1> HIDE DEF D
<1>3. DOMAIN Body(h) = D /\ \A p \in D : Body(h)[p] = F(p)
    <2> HIDE DEF F
    <2> QED BY <1>1
<1>4. \A p \in DOMAIN opening : F(p) = opening[p]
    <2>1. \A p \in DOMAIN opening : p # <<"messages">>
        BY OpeningIs
    <2> QED BY <2>1
<1>5. F(<<"messages">>) = Node("array")
    <2>1. <<"messages">> \notin DOMAIN opening
        BY OpeningIs
    <2> DEFINE m == <<"messages">>
    <2>2. m \notin DOMAIN opening /\ m = <<"messages">>
        BY <2>1
    <2> HIDE DEF m
    <2>3. F(m) = Node("array")
        BY <2>2
    <2> QED BY <2>3 DEF m
<1>6. ASSUME NEW i \in DOMAIN h, NEW r \in DOMAIN h[i]
      PROVE  Place(i, r) \in D /\ F(Place(i, r)) = h[i][r]
    <2> DEFINE q == Place(i, r)
    <2>0. i \in 1..Len(Indices) /\ r \in Path
        BY HistoryIs
    <2>1. q \in D
        BY <1>2
    <2>2. q \notin DOMAIN opening
        BY <2>0, OpeningIs
    <2>3. q # <<"messages">>
        <3>1. Len(q) # 1
            BY <2>0, PlaceIs
        <3>2. Len(<<"messages">>) = 1
            OBVIOUS
        <3> QED BY <3>1, <3>2
    <2>4. q[2] = Index(i) /\ After(MessageAt(i), q) = r
        BY <2>0, PlaceIs
    <2> HIDE DEF q
    <2> DEFINE c == CHOOSE j \in DOMAIN h : Index(j) = q[2]
    <2>5. c = i
        <3>1. \A j \in DOMAIN h : Index(j) = q[2] => j = i
            BY <2>0, <2>4, HistoryIs, NumeralsAreKeys
        <3> QED BY <3>1, <2>4
    <2>6. F(q) = h[c][After(MessageAt(c), q)]
        <3> HIDE DEF c
        <3>1. F(q) = LET j == c IN h[j][After(MessageAt(j), q)]
            BY <2>2, <2>3, Zenon DEF c
        <3> QED BY <3>1
    <2> HIDE DEF c, F
    <2>7. F(q) = h[i][r]
        BY <2>4, <2>5, <2>6
    <2> QED BY <2>1, <2>7 DEF q
<1>7. \A p \in DOMAIN opening : Body(h)[p] = opening[p]
    <2> HIDE DEF F
    <2> QED BY <1>2, <1>3, <1>4
<1>8. Body(h)[<<"messages">>] = Node("array")
    <2> HIDE DEF F
    <2> QED BY <1>2, <1>3, <1>5
<1>9. \A i \in DOMAIN h : \A r \in DOMAIN h[i] :
         Place(i, r) \in DOMAIN Body(h) /\ Body(h)[Place(i, r)] = h[i][r]
    <2> HIDE DEF F
    <2> QED BY <1>3, <1>6
<1>10. Body(h) = [p \in DOMAIN Body(h) |-> Body(h)[p]]
    <2> HIDE DEF F
    <2>1. [p \in D |-> F(p)] = [p \in DOMAIN [q \in D |-> F(q)] |-> [q \in D |-> F(q)][p]]
        OBVIOUS
    <2> QED BY <1>1, <2>1, Zenon
<1> HIDE DEF F
<1> QED BY <1>2, <1>3, <1>7, <1>8, <1>9, <1>10

-----------------------------------------------------------------------------
(* A body is a tree.  Places of two messages never meet, the body is       *)
(* finite, and its arrays hold their items without a gap.                  *)

LEMMA PlacesUnique ==
    \A i, j \in DOMAIN Indices : \A r, t \in Path : Place(i, r) = Place(j, t) => i = j /\ r = t
BY PlaceUnique, KeyOrderIs

\* The image of a finite set.
LEMMA FiniteImage ==
    ASSUME NEW S, IsFiniteSet(S), NEW f, f = [x \in S |-> f[x]]
    PROVE  IsFiniteSet({f[x] : x \in S}) /\ Cardinality({f[x] : x \in S}) <= Cardinality(S)
<1>1. f \in Surjection(S, {f[x] : x \in S})
    <2>1. f \in [S -> {f[x] : x \in S}]
        OBVIOUS
    <2>2. \A t \in {f[x] : x \in S} : \E s \in S : f[s] = t
        OBVIOUS
    <2> QED BY <2>1, <2>2 DEF Surjection
<1> DEFINE T == {f[x] : x \in S}
<1> HIDE DEF T
<1>2. f \in Surjection(S, T)
    BY <1>1 DEF T
<1>3. IsFiniteSet(T) /\ Cardinality(T) <= Cardinality(S)
    BY <1>2, FS_Surjection
<1> QED BY <1>3 DEF T

LEMMA BodyPaths ==
    ASSUME NEW h, GoodHistory(h)
    PROVE  DOMAIN Body(h) \subseteq Path /\ <<"messages">> \in Path /\ Len(<<"messages">>) = 1
<1>0. /\ \A p : p \in DOMAIN Body(h) <=> \/ p \in DOMAIN opening
                                         \/ p = <<"messages">>
                                         \/ \E i \in DOMAIN h : \E r \in DOMAIN h[i] : p = Place(i, r)
      /\ \A p \in DOMAIN opening : Body(h)[p] = opening[p]
      /\ Body(h)[<<"messages">>] = Node("array")
      /\ \A i \in DOMAIN h : \A r \in DOMAIN h[i] :
                 Place(i, r) \in DOMAIN Body(h) /\ Body(h)[Place(i, r)] = h[i][r]
    BY BodyIs
<1>1. <<"messages">> \in Path /\ Len(<<"messages">>) = 1
    BY FixedKeysAreKeys, Top
<1>2. \A p \in DOMAIN opening : p \in Path
    BY OpeningIs
<1>3. \A i \in DOMAIN h : \A r \in DOMAIN h[i] : Place(i, r) \in Path
    BY HistoryIs, PlaceIs
<1>4. ASSUME NEW p \in DOMAIN Body(h) PROVE p \in Path
    <2>1. \/ p \in DOMAIN opening
          \/ p = <<"messages">>
          \/ \E i \in DOMAIN h : \E r \in DOMAIN h[i] : p = Place(i, r)
        <3> QED BY <1>0
    <2>2. CASE p = <<"messages">>
        BY <2>2, <1>1
    <2> QED BY <2>1, <2>2, <1>2, <1>3
<1> QED BY <1>1, <1>4

LEMMA ArrayNode == Node("array").is = "array" /\ IsNode(Node("array"))
<1>1. Node("array").is = "array" /\ Node("array").word = "" /\ Node("array").of = 0
    BY DEF Node
<1>2. Node("array") = [is |-> "array", word |-> "", of |-> 0, prompt |-> FALSE]
    BY DEF Node
<1> DEFINE x == Node("array")
<1> HIDE DEF x
<1>3. x.is = "array" /\ x.word = "" /\ x.of = 0
    BY <1>1 DEF x
<1>4. x = [is |-> x.is, word |-> x.word, of |-> x.of, prompt |-> FALSE]
    <2>1. x = [is |-> "array", word |-> "", of |-> 0, prompt |-> FALSE]
        BY <1>2 DEF x
    <2> QED BY <2>1, <1>3
<1>5. IsNode(x)
    BY <1>3, <1>4 DEF IsNode
<1> QED BY <1>3, <1>5 DEF x

LEMMA BodyFinite ==
    ASSUME NEW h, GoodHistory(h)
    PROVE  IsFiniteSet(DOMAIN Body(h))
<1> DEFINE S(i) == PathsAt(MessageAt(i), h[i])
           f == [i \in DOMAIN h |-> S(i)]
<1>1. ASSUME NEW i \in DOMAIN h PROVE IsFiniteSet(S(i))
    <2> DEFINE g == [r \in DOMAIN h[i] |-> Place(i, r)]
    <2>1. IsFiniteSet(DOMAIN h[i])
        BY HistoryIs DEF IsTree
    <2>2. IsFiniteSet({g[r] : r \in DOMAIN h[i]})
        <3>1. g = [r \in DOMAIN h[i] |-> g[r]]
            OBVIOUS
        <3> HIDE DEF g
        <3> QED BY <2>1, <3>1, FiniteImage
    <2>3. {g[r] : r \in DOMAIN h[i]} = S(i)
        BY DEF PathsAt, Place
    <2> QED BY <2>2, <2>3
<1>2. IsFiniteSet({f[i] : i \in DOMAIN h})
    <2>1. IsFiniteSet(DOMAIN h)
        BY HistoryIs, FS_Interval
    <2>2. f = [i \in DOMAIN h |-> f[i]]
        OBVIOUS
    <2> HIDE DEF f
    <2> QED BY <2>1, <2>2, FiniteImage
<1>3. {f[i] : i \in DOMAIN h} = {S(i) : i \in DOMAIN h}
    OBVIOUS
<1> HIDE DEF f
<1>4. IsFiniteSet(UNION {S(i) : i \in DOMAIN h})
    <2> DEFINE U == {S(i) : i \in DOMAIN h}
    <2>1. \A T \in U : IsFiniteSet(T)
        BY <1>1
    <2>2. IsFiniteSet(U)
        BY <1>2, <1>3
    <2> HIDE DEF U
    <2>3. IsFiniteSet(UNION U)
        BY <2>1, <2>2, FS_UNION
    <2> QED BY <2>3 DEF U
<1>5. IsFiniteSet(DOMAIN opening)
    BY DEF GoodHistory, GoodOpening, IsTree
<1>6. IsFiniteSet(DOMAIN opening \cup {<<"messages">>})
    BY <1>5, FS_AddElement
<1>7. DOMAIN Body(h) = DOMAIN opening \cup {<<"messages">>} \cup UNION {S(i) : i \in DOMAIN h}
    BY DEF Body
<1>8. IsFiniteSet((DOMAIN opening \cup {<<"messages">>}) \cup UNION {S(i) : i \in DOMAIN h})
    BY <1>4, <1>6, FS_Union
<1> QED BY <1>7, <1>8

\* The elements of the arrays of a body.
LEMMA BodyItems ==
    ASSUME NEW h, GoodHistory(h)
    PROVE  /\ \A p \in DOMAIN opening : Items(Body(h), p) = Items(opening, p)
           /\ Items(Body(h), <<"messages">>) = {MessageAt(i) : i \in 1..Len(h)}
           /\ \A i \in DOMAIN h : \A r \in DOMAIN h[i] :
                Items(Body(h), Place(i, r)) = {Place(i, q) : q \in Items(h[i], r)}
<1> DEFINE b == Body(h)
<1>0. DOMAIN b \subseteq Path /\ <<"messages">> \in Path
    BY BodyPaths
<1>1. /\ \A p : p \in DOMAIN b <=> \/ p \in DOMAIN opening
                                   \/ p = <<"messages">>
                                   \/ \E i \in DOMAIN h : \E r \in DOMAIN h[i] : p = Place(i, r)
      /\ \A p \in DOMAIN opening : b[p] = opening[p]
      /\ b[<<"messages">>] = Node("array")
      /\ \A i \in DOMAIN h : \A r \in DOMAIN h[i] :
                 Place(i, r) \in DOMAIN b /\ b[Place(i, r)] = h[i][r]
    BY BodyIs
<1>1a. ASSUME NEW i \in DOMAIN h
       PROVE  /\ i \in 1..Len(Indices) /\ IsTree(h[i], 0) /\ <<>> \in DOMAIN h[i]
              /\ DOMAIN h[i] \subseteq Path
    BY HistoryIs
<1> HIDE DEF b
<1>2. ASSUME NEW p \in DOMAIN opening PROVE Items(b, p) = Items(opening, p)
    <2>1. p \in Path /\ p[1] # "messages" /\ Len(p) \in Nat /\ Len(p) >= 1
        BY OpeningIs
    <2>2. ASSUME NEW k \in Keys, Append(p, k) \in DOMAIN b PROVE Append(p, k) \in DOMAIN opening
        <3>1. Append(p, k)[1] = p[1] /\ Len(Append(p, k)) > 1
            <4>1. Len(Append(p, k)) = Len(p) + 1 /\ \A j \in 1..Len(p) : Append(p, k)[j] = p[j]
                BY <2>1, StepProps
            <4> QED BY <2>1, <4>1
        <3>2. <<"messages">>[1] = "messages"
            OBVIOUS
        <3>3. \A i \in DOMAIN h : \A r \in DOMAIN h[i] : (Place(i, r))[1] = "messages"
            BY <1>1a, PlaceIs
        <3> DEFINE q == Append(p, k)
        <3>4. q[1] # "messages"
            BY <2>1, <3>1
        <3> HIDE DEF q
        <3>5. q # <<"messages">>
            BY <3>2, <3>4
        <3>6. \A i \in DOMAIN h : \A r \in DOMAIN h[i] : q # Place(i, r)
            BY <3>3, <3>4
        <3>7. q \in DOMAIN b
            BY <2>2 DEF q
        <3>8. q \in DOMAIN opening
            BY <1>1, <3>5, <3>6, <3>7
        <3> QED BY <3>8 DEF q
    <2>3. ASSUME NEW q PROVE q \in Items(b, p) <=> q \in Items(opening, p)
        <3>1. q \in Items(b, p) <=> q \in DOMAIN b /\ Is(b, p, {"array"}) /\ \E k \in Keys : q = Append(p, k)
            BY <1>0, <2>1, ItemsAre
        <3>2. q \in Items(opening, p) <=> q \in DOMAIN opening /\ Is(opening, p, {"array"}) /\ \E k \in Keys : q = Append(p, k)
            <4>1. DOMAIN opening \subseteq Path
                BY OpeningIs
            <4> QED BY <4>1, <2>1, ItemsAre
        <3>3. Is(b, p, {"array"}) <=> Is(opening, p, {"array"})
            BY <1>1 DEF Is
        <3> QED BY <1>1, <2>2, <3>1, <3>2, <3>3
    <2>4. Items(b, p) \subseteq DOMAIN b /\ Items(opening, p) \subseteq DOMAIN opening
        BY DEF Items
    <2> QED BY <2>3, <2>4
<1>3. Items(b, <<"messages">>) = {MessageAt(i) : i \in 1..Len(h)}
    <2> DEFINE m == <<"messages">>
    <2>0. m \in Path /\ m \in DOMAIN b /\ b[m].is = "array" /\ Len(m) = 1
        <3>1. b[m] = Node("array") /\ m \in DOMAIN b
            BY <1>1
        <3>2. Len(m) = 1
            OBVIOUS
        <3> QED BY <1>0, <3>1, <3>2, ArrayNode
    <2>1. ASSUME NEW i \in 1..Len(h) PROVE MessageAt(i) \in Items(b, m)
        <3>1. i \in DOMAIN h
            BY HistoryIs
        <3>2. Place(i, <<>>) = MessageAt(i)
            BY <3>1, <1>1a, PlaceIs, EmptyPath
        <3>3. MessageAt(i) \in DOMAIN b
            BY <1>1, <1>1a, <3>1, <3>2
        <3>4. MessageAt(i) = Append(m, Index(i)) /\ Index(i) \in Keys
            BY <3>1, <1>1a, MessageAtIs
        <3> HIDE DEF m
        <3> QED BY <1>0, <2>0, <3>3, <3>4, ItemsAre DEF Is
    <2>2. ASSUME NEW q \in Items(b, m) PROVE \E i \in 1..Len(h) : q = MessageAt(i)
        <3>1. PICK k \in Keys : q \in DOMAIN b /\ q = Append(m, k)
            <4> HIDE DEF m
            <4> QED BY <1>0, <2>0, ItemsAre
        <3>2. q[1] = "messages" /\ Len(q) = 2
            <4>1. Len(q) = Len(m) + 1 /\ \A j \in 1..Len(m) : q[j] = m[j]
                <5> HIDE DEF m
                <5> QED BY <2>0, <3>1, StepProps
            <4> QED BY <4>1, <2>0
        <3>3. q \notin DOMAIN opening
            BY <3>2, OpeningIs
        <3>4. q # m
            <4> HIDE DEF m
            <4> QED BY <2>0, <3>2
        <3>5. PICK i \in DOMAIN h : \E r \in DOMAIN h[i] : q = Place(i, r)
            BY <1>1, <3>1, <3>3, <3>4
        <3>6. PICK r \in DOMAIN h[i] : q = Place(i, r)
            BY <3>5
        <3>7. r \in Path /\ Len(r) \in Nat /\ Len(q) = Len(r) + 2
            BY <1>1a, <3>6, PlaceIs
        <3>8. r = <<>>
            <4>1. Len(r) = 0
                <5> HIDE DEF m
                <5>1. Len(r) + 2 = 2 /\ Len(r) \in Nat
                    BY <3>2, <3>7
                <5> QED BY <5>1
            <4> QED BY <3>7, <4>1, EmptySeq DEF Path
        <3>9. q = MessageAt(i)
            BY <1>1a, <3>6, <3>7, <3>8, PlaceIs
        <3>10. i \in 1..Len(h)
            BY HistoryIs
        <3> QED BY <3>9, <3>10
    <2> QED BY <2>1, <2>2
<1>4. ASSUME NEW i \in DOMAIN h, NEW r \in DOMAIN h[i]
      PROVE  Items(b, Place(i, r)) = {Place(i, q) : q \in Items(h[i], r)}
    <2> DEFINE M == MessageAt(i)
    <2>1. /\ i \in 1..Len(Indices) /\ r \in Path /\ Place(i, r) \in Path /\ Len(r) \in Nat /\ Len(Place(i, r)) = Len(r) + 2
          /\ (Place(i, r))[1] = "messages" /\ (Place(i, r))[2] = Index(i)
          /\ \A k \in Keys : Place(i, Append(r, k)) = Append(Place(i, r), k)
        BY <1>1a, PlaceIs
    <2>2. Place(i, r) \in DOMAIN b /\ b[Place(i, r)] = h[i][r]
        BY <1>1
    <2>3. ASSUME NEW k \in Keys PROVE Place(i, Append(r, k)) \in DOMAIN b <=> Append(r, k) \in DOMAIN h[i]
        <3>1. Append(r, k) \in Path
            BY <2>1, StepProps
        <3>2. ASSUME Place(i, Append(r, k)) \in DOMAIN b PROVE Append(r, k) \in DOMAIN h[i]
            <4>1. Place(i, Append(r, k)) \notin DOMAIN opening
                BY <2>1, <3>1, OpeningIs
            <4>2. Place(i, Append(r, k)) # <<"messages">>
                <5>1. Len(Place(i, Append(r, k))) = Len(Append(r, k)) + 2 /\ Len(Append(r, k)) \in Nat
                    BY <2>1, <3>1, PlaceIs
                <5>2. Len(<<"messages">>) = 1
                    OBVIOUS
                <5> QED BY <5>1, <5>2
            <4>3. PICK j \in DOMAIN h : \E t \in DOMAIN h[j] : Place(i, Append(r, k)) = Place(j, t)
                BY <1>1, <3>2, <4>1, <4>2
            <4>4. PICK t \in DOMAIN h[j] : Place(i, Append(r, k)) = Place(j, t)
                BY <4>3
            <4>5. j = i /\ t = Append(r, k)
                <5>1. j \in 1..Len(Indices) /\ t \in Path
                    BY <1>1a
                <5>2. Place(i, Append(r, k)) = Place(j, t)
                    BY <4>4
                <5> DEFINE a == Append(r, k)
                <5>3. Place(i, a) = Place(j, t) /\ a \in Path /\ i \in 1..Len(Indices)
                    BY <2>1, <3>1, <5>2
                <5> HIDE DEF a
                <5>4. i = j /\ a = t
                    <6>1. i \in DOMAIN Indices /\ j \in DOMAIN Indices
                        BY <5>1, <5>3, KeyOrderIs
                    <6> QED BY <5>1, <5>3, <6>1, PlacesUnique
                <5> QED BY <5>4 DEF a
            <4> QED BY <4>5
        <3> QED BY <1>1, <3>2
    <2>4. ASSUME NEW q \in Items(b, Place(i, r)) PROVE \E t \in Items(h[i], r) : q = Place(i, t)
        <3>1. PICK k \in Keys : q \in DOMAIN b /\ q = Append(Place(i, r), k) /\ Is(b, Place(i, r), {"array"})
            <4> DEFINE a == Place(i, r)
            <4>1. a \in Path /\ q \in Items(b, a)
                BY <2>1
            <4> HIDE DEF a
            <4>2. \E k \in Keys : q \in DOMAIN b /\ q = Append(a, k) /\ Is(b, a, {"array"})
                BY <1>0, <4>1, ItemsAre
            <4> QED BY <4>2 DEF a
        <3>2. Append(r, k) \in DOMAIN h[i] /\ q = Place(i, Append(r, k))
            BY <2>1, <2>3, <3>1
        <3>3. Is(h[i], r, {"array"})
            BY <2>2, <3>1 DEF Is
        <3>4. Append(r, k) \in Items(h[i], r)
            BY <1>1a, <2>1, <3>2, <3>3, ItemsAre
        <3> QED BY <3>2, <3>4
    <2>5. ASSUME NEW t \in Items(h[i], r) PROVE Place(i, t) \in Items(b, Place(i, r))
        <3>1. PICK k \in Keys : t \in DOMAIN h[i] /\ t = Append(r, k) /\ Is(h[i], r, {"array"})
            BY <1>1a, <2>1, ItemsAre
        <3>2. Place(i, t) \in DOMAIN b /\ Place(i, t) = Append(Place(i, r), k)
            BY <2>1, <2>3, <3>1
        <3>3. Is(b, Place(i, r), {"array"})
            BY <2>2, <3>1 DEF Is
        <3> QED BY <1>0, <2>1, <3>2, <3>3, ItemsAre
    <2>6. Items(b, Place(i, r)) = {Place(i, q) : q \in Items(h[i], r)}
        BY <2>4, <2>5
    <2> QED BY <2>6
<1> QED BY <1>2, <1>3, <1>4 DEF b

\* Every request body is a tree.
LEMMA BodyTree ==
    ASSUME NEW h, GoodHistory(h)
    PROVE  IsTree(Body(h), 1)
<1> DEFINE b == Body(h)
<1>0. DOMAIN b \subseteq Path
    BY BodyPaths
<1>1. /\ \A p : p \in DOMAIN b <=> \/ p \in DOMAIN opening
                                   \/ p = <<"messages">>
                                   \/ \E i \in DOMAIN h : \E r \in DOMAIN h[i] : p = Place(i, r)
      /\ b = [p \in DOMAIN b |-> b[p]]
      /\ \A p \in DOMAIN opening : b[p] = opening[p]
      /\ b[<<"messages">>] = Node("array")
      /\ \A i \in DOMAIN h : \A r \in DOMAIN h[i] :
                 Place(i, r) \in DOMAIN b /\ b[Place(i, r)] = h[i][r]
    BY BodyIs
<1>2. ASSUME NEW i \in DOMAIN h
      PROVE  /\ i \in 1..Len(Indices) /\ IsTree(h[i], 0) /\ <<>> \in DOMAIN h[i]
             /\ DOMAIN h[i] \subseteq Path
    BY HistoryIs
<1>3. IsFiniteSet(DOMAIN b)
    BY BodyFinite
<1>4. /\ \A p \in DOMAIN opening : Items(b, p) = Items(opening, p)
      /\ Items(b, <<"messages">>) = {MessageAt(i) : i \in 1..Len(h)}
      /\ \A i \in DOMAIN h : \A r \in DOMAIN h[i] :
            Items(b, Place(i, r)) = {Place(i, q) : q \in Items(h[i], r)}
    BY BodyItems
<1>5. IsTree(opening, 1)
    BY DEF GoodHistory, GoodOpening
<1> HIDE DEF b
<1> DEFINE Fits(p) == /\ IsNode(b[p])
                      /\ Len(p) > 1 => MayHold(b, Front(p), Last(p))
                      /\ b[p].is = "array" =>
                           \E k \in 0..(Len(Indices) - 1) : Items(b, p) = {Append(p, Index(i)) : i \in 1..k}
<1>6. ASSUME NEW p \in DOMAIN opening PROVE Fits(p)
    <2>1. IsNode(b[p])
        BY <1>1, <1>5 DEF IsTree
    <2>2. ASSUME Len(p) > 1 PROVE MayHold(b, Front(p), Last(p))
        <3>1. MayHold(opening, Front(p), Last(p))
            BY <1>5, <2>2 DEF IsTree
        <3> QED BY <1>1, <3>1 DEF MayHold
    <2>3. b[p].is = "array" => \E k \in 0..(Len(Indices) - 1) : Items(b, p) = {Append(p, Index(i)) : i \in 1..k}
        BY <1>1, <1>4, <1>5 DEF IsTree
    <2> QED BY <2>1, <2>2, <2>3
<1>7. Fits(<<"messages">>)
    <2> DEFINE m == <<"messages">>
    <2>1. b[m] = Node("array") /\ Len(m) = 1
        BY <1>1
    <2>2. Len(h) \in 0..(Len(Indices) - 1) /\ \A i \in 1..Len(h) : i \in 1..Len(Indices)
        BY HistoryIs
    <2>3. \A i \in 1..Len(h) : MessageAt(i) = Append(m, Index(i))
        BY DEF MessageAt
    <2>4. Items(b, m) = {Append(m, Index(i)) : i \in 1..Len(h)}
        BY <1>4, <2>3
    <2> HIDE DEF m
    <2>5. IsNode(b[m])
        BY <2>1, ArrayNode
    <2>6. Fits(m)
        BY <2>1, <2>2, <2>4, <2>5
    <2> QED BY <2>6 DEF m
<1>8. ASSUME NEW i \in DOMAIN h, NEW r \in DOMAIN h[i] PROVE Fits(Place(i, r))
    <2> DEFINE M == MessageAt(i)
               p == Place(i, r)
    <2>1. /\ i \in 1..Len(Indices) /\ r \in Path /\ p \in Path /\ Len(r) \in Nat /\ Len(p) = Len(r) + 2
          /\ Place(i, <<>>) = M
          /\ \A k \in Keys : Place(i, Append(r, k)) = Append(p, k)
        BY <1>2, PlaceIs
    <2>2. p \in DOMAIN b /\ b[p] = h[i][r]
        BY <1>1
    <2>3. IsNode(b[p])
        BY <1>2, <2>2 DEF IsTree
    <2>4. MayHold(b, Front(p), Last(p))
        <3>1. CASE r = <<>>
            <4> DEFINE m == <<"messages">>
            <4>1. p = Append(m, Index(i)) /\ Index(i) \in Keys /\ Index(i) \in Numerals
                BY <2>1, <3>1, MessageAtIs
            <4>2. m \in Path /\ m \in DOMAIN b /\ b[m].is = "array"
                <5>1. b[m] = Node("array") /\ m \in DOMAIN b /\ m \in Path
                    BY <1>1, BodyPaths
                <5> QED BY <5>1, ArrayNode
            <4> HIDE DEF m
            <4>3. Front(p) = m /\ Last(p) = Index(i)
                BY <4>1, <4>2, FrontLast
            <4> QED BY <4>1, <4>2, <4>3 DEF MayHold
        <3>2. CASE r # <<>>
            <4>1. Len(r) > 0
                BY <2>1, <3>2, EmptySeq DEF Path
            <4>2. Front(r) \in Path /\ Last(r) \in Keys /\ r = Append(Front(r), Last(r))
                BY <2>1, <4>1, PathSplit
            <4>3. MayHold(h[i], Front(r), Last(r))
                BY <1>2, <4>1 DEF IsTree
            <4>4. Front(r) \in DOMAIN h[i]
                BY <4>3 DEF MayHold
            <4>5. Place(i, Front(r)) \in DOMAIN b /\ b[Place(i, Front(r))] = h[i][Front(r)]
                BY <1>1, <4>4
            <4>6. p = Append(Place(i, Front(r)), Last(r)) /\ Place(i, Front(r)) \in Path
                BY <2>1, <4>2, PlaceIs
            <4>7. Front(p) = Place(i, Front(r)) /\ Last(p) = Last(r)
                <5> DEFINE f == Place(i, Front(r))
                <5> HIDE DEF f
                <5>1. f \in Path /\ p = Append(f, Last(r))
                    BY <4>6 DEF f
                <5> HIDE DEF p
                <5>2. Front(p) = f /\ Last(p) = Last(r)
                    BY <4>2, <5>1, FrontLast
                <5> QED BY <5>2 DEF f
            <4> QED BY <4>3, <4>5, <4>7 DEF MayHold
        <3> QED BY <3>1, <3>2
    <2>5. ASSUME b[p].is = "array"
          PROVE  \E k \in 0..(Len(Indices) - 1) : Items(b, p) = {Append(p, Index(j)) : j \in 1..k}
        <3>1. PICK k \in 0..(Len(Indices) - 1) : Items(h[i], r) = {Append(r, Index(j)) : j \in 1..k}
            BY <1>2, <2>2, <2>5 DEF IsTree
        <3>2. Items(b, p) = {Place(i, q) : q \in Items(h[i], r)}
            BY <1>4
        <3>3. \A j \in 1..k : Index(j) \in Keys
            <4>1. \A j \in 1..k : j \in 1..Len(Indices)
                BY KeyOrderIs
            <4> QED BY <4>1, NumeralsAreKeys
        <3>4. \A j \in 1..k : Place(i, Append(r, Index(j))) = Append(p, Index(j))
            BY <2>1, <3>3
        <3> HIDE DEF p
        <3>5. Items(b, p) = {Place(i, Append(r, Index(j))) : j \in 1..k}
            BY <3>1, <3>2
        <3>6. Items(b, p) = {Append(p, Index(j)) : j \in 1..k}
            BY <3>4, <3>5
        <3> QED BY <3>6
    <2> HIDE DEF p
    <2>6. Fits(p)
        BY <2>3, <2>4, <2>5
    <2> QED BY <2>6 DEF p
<1>9. \A p \in DOMAIN b : Fits(p)
    <2>1. ASSUME NEW p \in DOMAIN b PROVE Fits(p)
        <3> HIDE DEF Fits
        <3>1. \/ p \in DOMAIN opening
              \/ p = <<"messages">>
              \/ \E i \in DOMAIN h : \E r \in DOMAIN h[i] : p = Place(i, r)
            BY <1>1
        <3>2. CASE p = <<"messages">>
            BY <3>2, <1>7
        <3>3. CASE \E i \in DOMAIN h : \E r \in DOMAIN h[i] : p = Place(i, r)
            BY <3>3, <1>8
        <3> QED BY <3>1, <3>2, <3>3, <1>6
    <2> HIDE DEF Fits
    <2> QED BY <2>1
<1>10. \A p \in DOMAIN b : p \in Seq(Keys)
    BY <1>0 DEF Path
<1>11. IsTree(b, 1)
    BY <1>1, <1>3, <1>9, <1>10 DEF IsTree
<1> QED BY <1>11 DEF b

-----------------------------------------------------------------------------
(* Text of a message.  What the schema counts as text, restated one step   *)
(* from the content.                                                       *)

-----------------------------------------------------------------------------
(* What a body says is what the opening and the messages say.              *)

LEMMA InnerTextIs ==
    ASSUME NEW b, NEW c, NEW x
    PROVE  x \in InnerText(b, c) <=>
             \/ x = c
             \/ \E q \in Elements(c) :
                  \/ x = q
                  \/ StringOf(b, Append(q, "type")) = "text" /\ x = Append(q, "text")
                  \/ StringOf(b, Append(q, "type")) \notin {"text", "image"} /\ x \in Under(b, q)
<1> DEFINE T(q) == StringOf(b, Append(q, "type"))
           P(q) == CASE T(q) = "text"  -> {Append(q, "text")}
                     [] T(q) = "image" -> {}
                     [] OTHER          -> Under(b, q)
<1>1. InnerText(b, c) = {c} \cup UNION {{q} \cup P(q) : q \in Elements(c)}
    BY DEF InnerText
<1>2. \A q : /\ T(q) = "text" => P(q) = {Append(q, "text")}
             /\ T(q) = "image" => P(q) = {}
             /\ T(q) \notin {"text", "image"} => P(q) = Under(b, q)
    <2>1. "text" # "image"
        OBVIOUS
    <2> HIDE DEF T
    <2> QED BY <2>1, Zenon
<1> SUFFICES x \in InnerText(b, c) <=>
             \/ x = c
             \/ \E q \in Elements(c) :
                  \/ x = q
                  \/ T(q) = "text" /\ x = Append(q, "text")
                  \/ T(q) \notin {"text", "image"} /\ x \in Under(b, q)
    OBVIOUS
<1> HIDE DEF T, P
<1>3. x \in InnerText(b, c) <=> x = c \/ \E q \in Elements(c) : x = q \/ x \in P(q)
    BY <1>1
<1>4. \A q : x \in P(q) <=> \/ T(q) = "text" /\ x = Append(q, "text")
                            \/ T(q) \notin {"text", "image"} /\ x \in Under(b, q)
    BY <1>2
<1> QED BY <1>3, <1>4

LEMMA SourceTextIs ==
    ASSUME NEW b, NEW s, NEW x
    PROVE  LET type == StringOf(b, Append(s, "type")) IN
           x \in SourceText(b, s) <=>
             \/ type = "text" /\ x = Append(s, "data")
             \/ type = "content" /\ x \in InnerText(b, Append(s, "content"))
             \/ type \notin {"text", "content", "base64", "url"} /\ x \in Under(b, s)
<1> DEFINE type == StringOf(b, Append(s, "type"))
           I == InnerText(b, Append(s, "content"))
           P == CASE type = "text"             -> {Append(s, "data")}
                  [] type = "content"          -> I
                  [] type \in {"base64", "url"} -> {}
                  [] OTHER                     -> Under(b, s)
<1>1. SourceText(b, s) = P
    BY DEF SourceText
<1> SUFFICES x \in P <=>
             \/ type = "text" /\ x = Append(s, "data")
             \/ type = "content" /\ x \in I
             \/ type \notin {"text", "content", "base64", "url"} /\ x \in Under(b, s)
    BY <1>1
<1> HIDE DEF type, I
<1>2. CASE type = "text"
    <2>1. type # "content" /\ type \notin {"base64", "url"}
        BY <1>2
    <2>2. P = {Append(s, "data")}
        BY <1>2, <2>1, Zenon
    <2> HIDE DEF P
    <2> QED BY <1>2, <2>1, <2>2
<1>3. CASE type = "content"
    <2>1. type # "text" /\ type \notin {"base64", "url"}
        BY <1>3
    <2>2. P = I
        BY <1>3, <2>1, Zenon
    <2> HIDE DEF P
    <2> QED BY <1>3, <2>1, <2>2
<1>4. CASE type \in {"base64", "url"}
    <2>1. type # "text" /\ type # "content"
        BY <1>4
    <2>2. P = {}
        BY <1>4, <2>1, Zenon
    <2> HIDE DEF P
    <2> QED BY <1>4, <2>1, <2>2
<1>5. CASE type \notin {"text", "content", "base64", "url"}
    <2>1. type # "text" /\ type # "content" /\ type \notin {"base64", "url"}
        BY <1>5
    <2>2. P = Under(b, s)
        BY <2>1, Zenon
    <2> HIDE DEF P
    <2> QED BY <1>5, <2>1, <2>2
<1> QED BY <1>2, <1>3, <1>4, <1>5

LEMMA BlockTextIs ==
    ASSUME NEW b, NEW q, NEW x
    PROVE  LET type == StringOf(b, Append(q, "type")) IN
           x \in BlockText(b, q) <=>
             \/ x = q
             \/ type = "text" /\ x = Append(q, "text")
             \/ type = "thinking" /\ x = Append(q, "thinking")
             \/ type = "tool_use" /\ x \in Under(b, Append(q, "input"))
             \/ type = "tool_result" /\ x \in InnerText(b, Append(q, "content"))
             \/ type = "document" /\ \/ x = Append(q, "title")
                                     \/ x = Append(q, "context")
                                     \/ x \in SourceText(b, Append(q, "source"))
             \/ /\ type \notin {"text", "thinking", "tool_use", "tool_result", "document", "image", "redacted_thinking"}
                /\ x \in Under(b, q)
<1> DEFINE type == StringOf(b, Append(q, "type"))
           U == Under(b, Append(q, "input"))
           I == InnerText(b, Append(q, "content"))
           S == {Append(q, "title"), Append(q, "context")} \cup SourceText(b, Append(q, "source"))
           P == CASE type = "text"        -> {Append(q, "text")}
                  [] type = "thinking"    -> {Append(q, "thinking")}
                  [] type = "tool_use"    -> U
                  [] type = "tool_result" -> I
                  [] type = "document"    -> S
                  [] type \in {"image", "redacted_thinking"} -> {}
                  [] OTHER                -> Under(b, q)
<1>1. BlockText(b, q) = {q} \cup P
    BY DEF BlockText
<1>2. x \in S <=> x = Append(q, "title") \/ x = Append(q, "context") \/ x \in SourceText(b, Append(q, "source"))
    OBVIOUS
<1> SUFFICES x \in P <=>
             \/ type = "text" /\ x = Append(q, "text")
             \/ type = "thinking" /\ x = Append(q, "thinking")
             \/ type = "tool_use" /\ x \in U
             \/ type = "tool_result" /\ x \in I
             \/ type = "document" /\ x \in S
             \/ /\ type \notin {"text", "thinking", "tool_use", "tool_result", "document", "image", "redacted_thinking"}
                /\ x \in Under(b, q)
    <2> HIDE DEF P
    <2>1. x \in BlockText(b, q) <=> x = q \/ x \in P
        BY <1>1
    <2> QED BY <2>1, <1>2
<1> HIDE DEF type, U, I, S
<1>3. CASE type = "text"
    <2>1. /\ type # "thinking" /\ type # "tool_use" /\ type # "tool_result" /\ type # "document"
          /\ type \notin {"image", "redacted_thinking"}
        BY <1>3
    <2>2. P = {Append(q, "text")}
        BY <1>3, <2>1, Zenon
    <2> HIDE DEF P
    <2> QED BY <1>3, <2>1, <2>2
<1>4. CASE type = "thinking"
    <2>1. /\ type # "text" /\ type # "tool_use" /\ type # "tool_result" /\ type # "document"
          /\ type \notin {"image", "redacted_thinking"}
        BY <1>4
    <2>2. P = {Append(q, "thinking")}
        BY <1>4, <2>1, Zenon
    <2> HIDE DEF P
    <2> QED BY <1>4, <2>1, <2>2
<1>5. CASE type = "tool_use"
    <2>1. /\ type # "text" /\ type # "thinking" /\ type # "tool_result" /\ type # "document"
          /\ type \notin {"image", "redacted_thinking"}
        BY <1>5
    <2>2. P = U
        BY <1>5, <2>1, Zenon
    <2> HIDE DEF P
    <2> QED BY <1>5, <2>1, <2>2
<1>6. CASE type = "tool_result"
    <2>1. /\ type # "text" /\ type # "thinking" /\ type # "tool_use" /\ type # "document"
          /\ type \notin {"image", "redacted_thinking"}
        BY <1>6
    <2>2. P = I
        BY <1>6, <2>1, Zenon
    <2> HIDE DEF P
    <2> QED BY <1>6, <2>1, <2>2
<1>7. CASE type = "document"
    <2>1. /\ type # "text" /\ type # "thinking" /\ type # "tool_use" /\ type # "tool_result"
          /\ type \notin {"image", "redacted_thinking"}
        BY <1>7
    <2>2. P = S
        BY <1>7, <2>1, Zenon
    <2> HIDE DEF P
    <2> QED BY <1>7, <2>1, <2>2
<1>8. CASE type \in {"image", "redacted_thinking"}
    <2>1. /\ type # "text" /\ type # "thinking" /\ type # "tool_use" /\ type # "tool_result"
          /\ type # "document"
        BY <1>8
    <2>2. P = {}
        BY <1>8, <2>1, Zenon
    <2> HIDE DEF P
    <2> QED BY <1>8, <2>1, <2>2
<1>9. CASE type \notin {"text", "thinking", "tool_use", "tool_result", "document", "image", "redacted_thinking"}
    <2>1. /\ type # "text" /\ type # "thinking" /\ type # "tool_use" /\ type # "tool_result"
          /\ type # "document" /\ type \notin {"image", "redacted_thinking"}
        BY <1>9
    <2>2. P = Under(b, q)
        BY <2>1, Zenon
    <2> HIDE DEF P
    <2> QED BY <1>9, <2>1, <2>2
<1> QED BY <1>3, <1>4, <1>5, <1>6, <1>7, <1>8, <1>9

-----------------------------------------------------------------------------
(* A message in its body.  Message i of a body is the message that was     *)
(* said: the walk under its place is the walk of the message alone, moved  *)
(* there.                                                                  *)

\* Message i of b is f.
Mirrors(b, i, f) ==
  /\ i \in DOMAIN Indices
  /\ DOMAIN f \subseteq Path
  /\ \A r \in Path : /\ Place(i, r) \in DOMAIN b <=> r \in DOMAIN f
                     /\ r \in DOMAIN f => b[Place(i, r)] = f[r]

\* Message i of the body is message i of the history.
LEMMA BodyMirrors ==
    ASSUME NEW h, GoodHistory(h), NEW i \in DOMAIN h
    PROVE  Mirrors(Body(h), i, h[i])
<1>0. i \in 1..Len(Indices) /\ i \in DOMAIN Indices /\ DOMAIN h[i] \subseteq Path
    BY HistoryIs, KeyOrderIs
<1>1. /\ \A p : p \in DOMAIN Body(h) <=> \/ p \in DOMAIN opening
                                         \/ p = <<"messages">>
                                         \/ \E j \in DOMAIN h : \E r \in DOMAIN h[j] : p = Place(j, r)
      /\ \A p \in DOMAIN opening : Body(h)[p] = opening[p]
      /\ Body(h)[<<"messages">>] = Node("array")
      /\ \A j \in DOMAIN h : \A r \in DOMAIN h[j] :
                 Place(j, r) \in DOMAIN Body(h) /\ Body(h)[Place(j, r)] = h[j][r]
    BY BodyIs
<1>2. ASSUME NEW r \in Path, Place(i, r) \in DOMAIN Body(h) PROVE r \in DOMAIN h[i]
    <2>1. Place(i, r) \notin DOMAIN opening
        BY <1>0, OpeningIs
    <2>2. Place(i, r) # <<"messages">>
        <3>1. Len(Place(i, r)) = Len(r) + 2 /\ Len(r) \in Nat
            BY <1>0, PlaceIs
        <3> DEFINE m == <<"messages">>
        <3>2. Len(m) = 1
            OBVIOUS
        <3> HIDE DEF m
        <3>4. Len(Place(i, r)) # Len(m)
            BY <3>1, <3>2
        <3>3. Place(i, r) # m
            BY <3>4
        <3> QED BY <3>3 DEF m
    <2>3. PICK j \in DOMAIN h : \E t \in DOMAIN h[j] : Place(i, r) = Place(j, t)
        BY <1>1, <1>2, <2>1, <2>2
    <2>4. PICK t \in DOMAIN h[j] : Place(i, r) = Place(j, t)
        BY <2>3
    <2>5. j \in DOMAIN Indices /\ t \in Path
        BY HistoryIs, KeyOrderIs
    <2>6. i = j /\ r = t
        BY <1>0, <2>4, <2>5, PlacesUnique
    <2> QED BY <2>6
<1> QED BY <1>0, <1>1, <1>2 DEF Mirrors

\* Steps below a place, and what is under it.
LEMMA PlaceSteps ==
    ASSUME NEW i \in DOMAIN Indices, NEW c \in Path, NEW r \in Path
    PROVE  /\ Place(i, c) \in Path
           /\ \A k \in Keys : /\ Place(i, Append(c, k)) = Append(Place(i, c), k) /\ Append(c, k) \in Path
                              /\ Place(i, r) = Append(Place(i, c), k) <=> r = Append(c, k)
           /\ Place(i, r) = Place(i, c) <=> r = c
           /\ IsPrefix(Place(i, c), Place(i, r)) <=> IsPrefix(c, r)
           /\ Place(i, r) \in Elements(Place(i, c)) <=> r \in Elements(c)
<1>0. i \in 1..Len(Indices) /\ Place(i, c) \in Path /\ Place(i, r) \in Path
    BY KeyOrderIs, PlaceIs
<1>1. ASSUME NEW k \in Keys PROVE Place(i, Append(c, k)) = Append(Place(i, c), k) /\ Append(c, k) \in Path
    BY <1>0, PlaceIs, StepProps
<1>2. \A t \in Path : Place(i, r) = Place(i, t) => r = t
    BY PlacesUnique
<1>3. ASSUME NEW k \in Keys PROVE Place(i, r) = Append(Place(i, c), k) <=> r = Append(c, k)
    BY <1>1, <1>2
<1>4. IsPrefix(Place(i, c), Place(i, r)) <=> IsPrefix(c, r)
    <2>1. /\ Len(Place(i, c)) = Len(c) + 2 /\ Len(c) \in Nat
          /\ Place(i, c)[1] = "messages" /\ Place(i, c)[2] = Index(i)
          /\ \A j \in 1..Len(c) : Place(i, c)[j + 2] = c[j]
        BY <1>0, PlaceIs
    <2>2. /\ Len(Place(i, r)) = Len(r) + 2 /\ Len(r) \in Nat
          /\ Place(i, r)[1] = "messages" /\ Place(i, r)[2] = Index(i)
          /\ \A j \in 1..Len(r) : Place(i, r)[j + 2] = r[j]
        BY <1>0, PlaceIs
    <2> DEFINE x == Place(i, c)
               y == Place(i, r)
    <2>3. IsPrefix(x, y) <=> Len(x) <= Len(y) /\ \A j \in 1..Len(x) : x[j] = y[j]
        BY <1>0, PrefixIs
    <2>4. IsPrefix(c, r) <=> Len(c) <= Len(r) /\ \A j \in 1..Len(c) : c[j] = r[j]
        BY PrefixIs
    <2>5. /\ Len(x) = Len(c) + 2 /\ Len(c) \in Nat /\ x[1] = "messages" /\ x[2] = Index(i)
          /\ \A j \in 1..Len(c) : x[j + 2] = c[j]
          /\ Len(y) = Len(r) + 2 /\ Len(r) \in Nat /\ y[1] = "messages" /\ y[2] = Index(i)
          /\ \A j \in 1..Len(r) : y[j + 2] = r[j]
        BY <2>1, <2>2
    <2> HIDE DEF x, y
    <2>6. ASSUME Len(c) <= Len(r), \A j \in 1..Len(c) : c[j] = r[j], NEW j \in 1..Len(x) PROVE x[j] = y[j]
        <3>1. CASE j = 1
            BY <3>1, <2>5
        <3>2. CASE j = 2
            BY <3>2, <2>5
        <3>3. CASE j > 2
            <4>1. PICK n \in 1..Len(c) : j = n + 2
                <5>1. j - 2 \in 1..Len(c) /\ j = (j - 2) + 2
                    BY <3>3, <2>5
                <5> QED BY <5>1
            <4>2. n \in 1..Len(r)
                BY <2>5, <2>6
            <4> QED BY <4>1, <4>2, <2>5, <2>6
        <3> QED BY <3>1, <3>2, <3>3, <2>5
    <2>7. ASSUME Len(x) <= Len(y), \A j \in 1..Len(x) : x[j] = y[j], NEW n \in 1..Len(c) PROVE c[n] = r[n]
        <3>1. n + 2 \in 1..Len(x) /\ n \in 1..Len(r)
            BY <2>5, <2>7
        <3>2. x[n + 2] = y[n + 2]
            BY <2>7, <3>1
        <3> QED BY <3>1, <3>2, <2>5
    <2>8. Len(x) <= Len(y) <=> Len(c) <= Len(r)
        BY <2>5
    <2>9. IsPrefix(x, y) <=> IsPrefix(c, r)
        BY <2>3, <2>4, <2>6, <2>7, <2>8
    <2> QED BY <2>9 DEF x, y
<1>5. Place(i, r) \in Elements(Place(i, c)) <=> r \in Elements(c)
    <2>1. Numerals \subseteq Keys
        BY NumeralsAreKeys
    <2> QED BY <2>1, <1>3 DEF Elements
<1>6. Place(i, r) = Place(i, c) <=> r = c
    BY <1>2
<1> QED BY <1>0, <1>1, <1>3, <1>4, <1>5, <1>6

LEMMA PlaceAppend ==
    ASSUME NEW i \in DOMAIN Indices, NEW c \in Path, NEW k \in Keys
    PROVE  Append(Place(i, c), k) = Place(i, Append(c, k)) /\ Append(c, k) \in Path
BY PlaceSteps

LEMMA PlaceIsStep ==
    ASSUME NEW i \in DOMAIN Indices, NEW c \in Path, NEW r \in Path, NEW k \in Keys
    PROVE  Place(i, r) = Append(Place(i, c), k) <=> r = Append(c, k)
BY PlaceSteps

LEMMA PlaceElements ==
    ASSUME NEW i \in DOMAIN Indices, NEW c \in Path
    PROVE  /\ \A q \in Elements(Place(i, c)) : \E t \in Elements(c) : t \in Path /\ q = Place(i, t)
           /\ \A t \in Elements(c) : t \in Path /\ Place(i, t) \in Elements(Place(i, c))
<1>1. Numerals \subseteq Keys
    BY NumeralsAreKeys
<1>2. \A k \in Keys : Place(i, Append(c, k)) = Append(Place(i, c), k) /\ Append(c, k) \in Path
    BY PlaceSteps
<1> QED BY <1>1, <1>2 DEF Elements

LEMMA MirrorNodes ==
    ASSUME NEW b, NEW i, NEW f, Mirrors(b, i, f), NEW c \in Path, NEW r \in Path
    PROVE  /\ StringOf(b, Place(i, c)) = StringOf(f, c)
           /\ \A k \in Keys : StringOf(b, Append(Place(i, c), k)) = StringOf(f, Append(c, k))
           /\ Place(i, r) \in Under(b, Place(i, c)) <=> r \in Under(f, c)
           /\ \A k \in Keys : Place(i, r) \in Under(b, Append(Place(i, c), k)) <=> r \in Under(f, Append(c, k))
<1>0. i \in DOMAIN Indices /\ DOMAIN f \subseteq Path
    BY DEF Mirrors
<1>1. ASSUME NEW t \in Path PROVE StringOf(b, Place(i, t)) = StringOf(f, t)
    <2>1. Place(i, t) \in DOMAIN b <=> t \in DOMAIN f
        BY DEF Mirrors
    <2>2. t \in DOMAIN f => b[Place(i, t)] = f[t]
        BY DEF Mirrors
    <2> QED BY <2>1, <2>2 DEF StringOf, Is
<1>2. ASSUME NEW t \in Path PROVE Place(i, r) \in Under(b, Place(i, t)) <=> r \in Under(f, t)
    <2>1. Place(i, r) \in DOMAIN b <=> r \in DOMAIN f
        BY DEF Mirrors
    <2>2. IsPrefix(Place(i, t), Place(i, r)) <=> IsPrefix(t, r)
        BY <1>0, PlaceSteps
    <2> QED BY <2>1, <2>2 DEF Under
<1>3. \A k \in Keys : Append(c, k) \in Path /\ Place(i, Append(c, k)) = Append(Place(i, c), k)
    BY <1>0, PlaceSteps
<1> QED BY <1>1, <1>2, <1>3

LEMMA PartsLift ==
    ASSUME NEW i \in DOMAIN Indices, NEW c \in Path, NEW r \in Path
    PROVE  Place(i, r) \in Parts(Place(i, c)) <=> r \in Parts(c)
<1>0. "text" \in Keys
    BY FixedKeysAreKeys
<1>1. Place(i, r) = Place(i, c) <=> r = c
    BY PlaceSteps
<1>2. Place(i, r) \in Elements(Place(i, c)) <=> r \in Elements(c)
    BY PlaceSteps
<1>3. (\E q \in Elements(Place(i, c)) : Place(i, r) = Append(q, "text")) <=> \E t \in Elements(c) : r = Append(t, "text")
    <2>1. \A t \in Path : Place(i, r) = Append(Place(i, t), "text") <=> r = Append(t, "text")
        BY <1>0, PlaceSteps
    <2> QED BY <2>1, PlaceElements
<1> QED BY <1>1, <1>2, <1>3 DEF Parts

LEMMA OpenAiLift ==
    ASSUME NEW i \in DOMAIN Indices, NEW r \in Path
    PROVE  Place(i, r) \in OpenAiText(Place(i, <<>>)) <=> r \in OpenAiText(<<>>)
<1> DEFINE e == <<>>
<1>0. e \in Path /\ "content" \in Keys /\ "name" \in Keys /\ "function_call" \in Keys /\ "arguments" \in Keys /\ "function" \in Keys /\ "tool_calls" \in Keys
    BY EmptyPath, FixedKeysAreKeys
<1> HIDE DEF e
<1>1. \A t \in Path : \A k \in Keys : /\ Append(t, k) \in Path
                                      /\ Place(i, Append(t, k)) = Append(Place(i, t), k)
                                      /\ Place(i, r) = Append(Place(i, t), k) <=> r = Append(t, k)
    BY PlaceAppend, PlaceIsStep
<1>2. Place(i, r) \in Parts(Append(Place(i, e), "content")) <=> r \in Parts(Append(e, "content"))
    <2>1. Append(Place(i, e), "content") = Place(i, Append(e, "content")) /\ Append(e, "content") \in Path
        BY <1>0, <1>1
    <2> QED BY <2>1, PartsLift
<1>3. Place(i, r) = Append(Place(i, e), "name") <=> r = Append(e, "name")
    BY <1>0, <1>1
<1>4. Place(i, r) = Append(Append(Place(i, e), "function_call"), "arguments")
        <=> r = Append(Append(e, "function_call"), "arguments")
    <2>1. Append(Place(i, e), "function_call") = Place(i, Append(e, "function_call")) /\ Append(e, "function_call") \in Path
        BY <1>0, PlaceAppend
    <2> QED BY <2>1, <1>0, PlaceIsStep
<1>5. (\E q \in Elements(Append(Place(i, e), "tool_calls")) : Place(i, r) = Append(Append(q, "function"), "arguments"))
        <=> \E t \in Elements(Append(e, "tool_calls")) : r = Append(Append(t, "function"), "arguments")
    <2> DEFINE c == Append(e, "tool_calls")
    <2>1. Append(Place(i, e), "tool_calls") = Place(i, c) /\ c \in Path
        BY <1>0, PlaceAppend
    <2> HIDE DEF c
    <2>2. \A t \in Path : Place(i, r) = Append(Append(Place(i, t), "function"), "arguments")
                            <=> r = Append(Append(t, "function"), "arguments")
        <3> SUFFICES ASSUME NEW t \in Path
                     PROVE  Place(i, r) = Append(Append(Place(i, t), "function"), "arguments")
                            <=> r = Append(Append(t, "function"), "arguments")
            OBVIOUS
        <3>1. Append(Place(i, t), "function") = Place(i, Append(t, "function")) /\ Append(t, "function") \in Path
            BY <1>0, PlaceAppend
        <3> QED BY <3>1, <1>0, PlaceIsStep
    <2>3. (\E q \in Elements(Place(i, c)) : Place(i, r) = Append(Append(q, "function"), "arguments"))
            <=> \E t \in Elements(c) : r = Append(Append(t, "function"), "arguments")
        BY <2>1, <2>2, PlaceElements
    <2> QED BY <2>1, <2>3 DEF c
<1>6. Place(i, r) \in OpenAiText(Place(i, e)) <=> r \in OpenAiText(e)
    BY <1>2, <1>3, <1>4, <1>5 DEF OpenAiText
<1> QED BY <1>6 DEF e

LEMMA InnerLift ==
    ASSUME NEW b, NEW i, NEW f, Mirrors(b, i, f), NEW c \in Path, NEW r \in Path
    PROVE  Place(i, r) \in InnerText(b, Place(i, c)) <=> r \in InnerText(f, c)
<1> DEFINE A(x, g, q) == \/ x = q
                         \/ StringOf(g, Append(q, "type")) = "text" /\ x = Append(q, "text")
                         \/ StringOf(g, Append(q, "type")) \notin {"text", "image"} /\ x \in Under(g, q)
<1>0. i \in DOMAIN Indices /\ "type" \in Keys /\ "text" \in Keys
    BY FixedKeysAreKeys DEF Mirrors
<1>1. \A t \in Path : A(Place(i, r), b, Place(i, t)) <=> A(r, f, t)
    <2> SUFFICES ASSUME NEW t \in Path PROVE A(Place(i, r), b, Place(i, t)) <=> A(r, f, t)
        OBVIOUS
    <2>1. StringOf(b, Append(Place(i, t), "type")) = StringOf(f, Append(t, "type"))
        BY <1>0, MirrorNodes
    <2>2. Place(i, r) = Place(i, t) <=> r = t
        BY <1>0, PlaceSteps
    <2>3. Place(i, r) = Append(Place(i, t), "text") <=> r = Append(t, "text")
        BY <1>0, PlaceIsStep
    <2>4. Place(i, r) \in Under(b, Place(i, t)) <=> r \in Under(f, t)
        BY MirrorNodes
    <2> QED BY <2>1, <2>2, <2>3, <2>4
<1>2. Place(i, r) \in InnerText(b, Place(i, c)) <=>
        Place(i, r) = Place(i, c) \/ \E q \in Elements(Place(i, c)) : A(Place(i, r), b, q)
    BY InnerTextIs
<1>3. r \in InnerText(f, c) <=> r = c \/ \E q \in Elements(c) : A(r, f, q)
    BY InnerTextIs
<1> HIDE DEF A
<1>4. Place(i, r) = Place(i, c) <=> r = c
    BY <1>0, PlaceSteps
<1> QED BY <1>0, <1>1, <1>2, <1>3, <1>4, PlaceElements

LEMMA SourceLift ==
    ASSUME NEW b, NEW i, NEW f, Mirrors(b, i, f), NEW c \in Path, NEW r \in Path
    PROVE  Place(i, r) \in SourceText(b, Place(i, c)) <=> r \in SourceText(f, c)
<1>0. i \in DOMAIN Indices /\ "type" \in Keys /\ "data" \in Keys /\ "content" \in Keys
    BY FixedKeysAreKeys DEF Mirrors
<1>1. StringOf(b, Append(Place(i, c), "type")) = StringOf(f, Append(c, "type"))
    BY <1>0, MirrorNodes
<1>2. Place(i, r) = Append(Place(i, c), "data") <=> r = Append(c, "data")
    BY <1>0, PlaceIsStep
<1>3. Place(i, r) \in InnerText(b, Append(Place(i, c), "content")) <=> r \in InnerText(f, Append(c, "content"))
    <2>1. Append(Place(i, c), "content") = Place(i, Append(c, "content")) /\ Append(c, "content") \in Path
        BY <1>0, PlaceAppend
    <2> QED BY <2>1, InnerLift
<1>4. Place(i, r) \in Under(b, Place(i, c)) <=> r \in Under(f, c)
    BY MirrorNodes
<1> DEFINE t == StringOf(b, Append(Place(i, c), "type"))
           u == StringOf(f, Append(c, "type"))
<1>5. Place(i, r) \in SourceText(b, Place(i, c)) <=>
        \/ t = "text" /\ Place(i, r) = Append(Place(i, c), "data")
        \/ t = "content" /\ Place(i, r) \in InnerText(b, Append(Place(i, c), "content"))
        \/ t \notin {"text", "content", "base64", "url"} /\ Place(i, r) \in Under(b, Place(i, c))
    BY SourceTextIs
<1>6. r \in SourceText(f, c) <=>
        \/ u = "text" /\ r = Append(c, "data")
        \/ u = "content" /\ r \in InnerText(f, Append(c, "content"))
        \/ u \notin {"text", "content", "base64", "url"} /\ r \in Under(f, c)
    BY SourceTextIs
<1>7. t = u
    BY <1>1
<1> HIDE DEF t, u
<1> QED BY <1>2, <1>3, <1>4, <1>5, <1>6, <1>7

LEMMA BlockLift ==
    ASSUME NEW b, NEW i, NEW f, Mirrors(b, i, f), NEW c \in Path, NEW r \in Path
    PROVE  Place(i, r) \in BlockText(b, Place(i, c)) <=> r \in BlockText(f, c)
<1>0. i \in DOMAIN Indices /\ "type" \in Keys /\ "text" \in Keys /\ "thinking" \in Keys /\ "input" \in Keys /\ "content" \in Keys /\ "title" \in Keys /\ "context" \in Keys /\ "source" \in Keys
    BY FixedKeysAreKeys DEF Mirrors
<1> DEFINE t == StringOf(b, Append(Place(i, c), "type"))
           u == StringOf(f, Append(c, "type"))
           x == Place(i, r)
           q == Place(i, c)
<1>1. t = u
    BY <1>0, MirrorNodes
<1>2. \A k \in Keys : /\ x = Append(q, k) <=> r = Append(c, k)
                      /\ Append(q, k) = Place(i, Append(c, k)) /\ Append(c, k) \in Path
    <2> SUFFICES ASSUME NEW k \in Keys
                 PROVE  /\ x = Append(q, k) <=> r = Append(c, k)
                        /\ Append(q, k) = Place(i, Append(c, k)) /\ Append(c, k) \in Path
        OBVIOUS
    <2>1. x = Append(q, k) <=> r = Append(c, k)
        BY <1>0, PlaceIsStep
    <2>2. Append(q, k) = Place(i, Append(c, k)) /\ Append(c, k) \in Path
        BY <1>0, PlaceAppend
    <2> QED BY <2>1, <2>2
<1>3. x \in InnerText(b, Append(q, "content")) <=> r \in InnerText(f, Append(c, "content"))
    BY <1>0, <1>2, InnerLift
<1>4. x \in SourceText(b, Append(q, "source")) <=> r \in SourceText(f, Append(c, "source"))
    BY <1>0, <1>2, SourceLift
<1>5. /\ x \in Under(b, q) <=> r \in Under(f, c)
      /\ x \in Under(b, Append(q, "input")) <=> r \in Under(f, Append(c, "input"))
    BY <1>0, MirrorNodes
<1>6. x = q <=> r = c
    BY <1>0, PlaceSteps
<1>7. x \in BlockText(b, q) <=>
             \/ x = q
             \/ t = "text" /\ x = Append(q, "text")
             \/ t = "thinking" /\ x = Append(q, "thinking")
             \/ t = "tool_use" /\ x \in Under(b, Append(q, "input"))
             \/ t = "tool_result" /\ x \in InnerText(b, Append(q, "content"))
             \/ t = "document" /\ \/ x = Append(q, "title")
                                  \/ x = Append(q, "context")
                                  \/ x \in SourceText(b, Append(q, "source"))
             \/ /\ t \notin {"text", "thinking", "tool_use", "tool_result", "document", "image", "redacted_thinking"}
                /\ x \in Under(b, q)
    BY BlockTextIs
<1>8. r \in BlockText(f, c) <=>
             \/ r = c
             \/ u = "text" /\ r = Append(c, "text")
             \/ u = "thinking" /\ r = Append(c, "thinking")
             \/ u = "tool_use" /\ r \in Under(f, Append(c, "input"))
             \/ u = "tool_result" /\ r \in InnerText(f, Append(c, "content"))
             \/ u = "document" /\ \/ r = Append(c, "title")
                                  \/ r = Append(c, "context")
                                  \/ r \in SourceText(f, Append(c, "source"))
             \/ /\ u \notin {"text", "thinking", "tool_use", "tool_result", "document", "image", "redacted_thinking"}
                /\ r \in Under(f, c)
    BY BlockTextIs
<1> HIDE DEF t, u, x, q
<1>9. \A k \in {"text", "thinking", "title", "context"} : x = Append(q, k) <=> r = Append(c, k)
    BY <1>0, <1>2
<1>10. /\ x = Append(q, "text") <=> r = Append(c, "text")
       /\ x = Append(q, "thinking") <=> r = Append(c, "thinking")
       /\ x = Append(q, "title") <=> r = Append(c, "title")
       /\ x = Append(q, "context") <=> r = Append(c, "context")
    BY <1>9
<1> DEFINE A1 == (t = "text" /\ x = Append(q, "text"))
           B1 == (u = "text" /\ r = Append(c, "text"))
           A2 == (t = "thinking" /\ x = Append(q, "thinking"))
           B2 == (u = "thinking" /\ r = Append(c, "thinking"))
           A3 == (t = "tool_use" /\ x \in Under(b, Append(q, "input")))
           B3 == (u = "tool_use" /\ r \in Under(f, Append(c, "input")))
           A4 == (t = "tool_result" /\ x \in InnerText(b, Append(q, "content")))
           B4 == (u = "tool_result" /\ r \in InnerText(f, Append(c, "content")))
           A5 == t = "document" /\ (x = Append(q, "title") \/ x = Append(q, "context") \/ x \in SourceText(b, Append(q, "source")))
           B5 == u = "document" /\ (r = Append(c, "title") \/ r = Append(c, "context") \/ r \in SourceText(f, Append(c, "source")))
           A6 == t \notin {"text", "thinking", "tool_use", "tool_result", "document", "image", "redacted_thinking"} /\ x \in Under(b, q)
           B6 == u \notin {"text", "thinking", "tool_use", "tool_result", "document", "image", "redacted_thinking"} /\ r \in Under(f, c)
<1>11. A1 <=> B1
    BY <1>1, <1>10
<1>12. A2 <=> B2
    BY <1>1, <1>10
<1>13. A3 <=> B3
    BY <1>1, <1>5
<1>14. A4 <=> B4
    BY <1>1, <1>3
<1>15. A5 <=> B5
    BY <1>1, <1>10, <1>4
<1>16. A6 <=> B6
    BY <1>1, <1>5
<1>17. x \in BlockText(b, q) <=> r \in BlockText(f, c)
    <2>1. x \in BlockText(b, q) <=> x = q \/ A1 \/ A2 \/ A3 \/ A4 \/ A5 \/ A6
        BY <1>7
    <2>2. r \in BlockText(f, c) <=> r = c \/ B1 \/ B2 \/ B3 \/ B4 \/ B5 \/ B6
        BY <1>8
    <2> HIDE DEF A1, A2, A3, A4, A5, A6, B1, B2, B3, B4, B5, B6
    <2> QED BY <2>1, <2>2, <1>6, <1>11, <1>12, <1>13, <1>14, <1>15, <1>16
<1> QED BY <1>17 DEF x, q

LEMMA AnthropicLift ==
    ASSUME NEW b, NEW i, NEW f, Mirrors(b, i, f), NEW r \in Path
    PROVE  Place(i, r) \in AnthropicText(b, Place(i, <<>>)) <=> r \in AnthropicText(f, <<>>)
<1> DEFINE e == <<>>
           c == Append(e, "content")
<1>0. i \in DOMAIN Indices /\ e \in Path /\ "content" \in Keys
    BY EmptyPath, FixedKeysAreKeys DEF Mirrors
<1> HIDE DEF e
<1>1. c \in Path /\ Append(Place(i, e), "content") = Place(i, c)
    BY <1>0, PlaceAppend
<1>2. Place(i, r) = Place(i, c) <=> r = c
    <2> HIDE DEF c
    <2> QED BY <1>0, <1>1, PlaceSteps
<1>3. (\E q \in Elements(Place(i, c)) : Place(i, r) \in BlockText(b, q)) <=> \E t \in Elements(c) : r \in BlockText(f, t)
    <2> HIDE DEF c
    <2>1. \A t \in Path : Place(i, r) \in BlockText(b, Place(i, t)) <=> r \in BlockText(f, t)
        BY BlockLift
    <2> QED BY <1>0, <1>1, <2>1, PlaceElements
<1>4. Place(i, r) \in AnthropicText(b, Place(i, e)) <=> r \in AnthropicText(f, e)
    BY <1>1, <1>2, <1>3 DEF AnthropicText
<1> QED BY <1>4 DEF e

\* A place is text of message i in the body if and only if it is text of the
\* message alone.
LEMMA MessageLift ==
    ASSUME NEW b, NEW i, NEW f, Mirrors(b, i, f), NEW r \in Path, NEW s
    PROVE  Place(i, r) \in MessageText(s, b, MessageAt(i)) <=> r \in MessageText(s, f, <<>>)
<1>1. i \in DOMAIN Indices /\ i \in 1..Len(Indices) /\ Place(i, <<>>) = MessageAt(i)
    BY KeyOrderIs, PlaceIs, EmptyPath DEF Mirrors
<1>2. CASE s = "OpenAi"
    BY <1>1, <1>2, OpenAiLift DEF MessageText
<1>3. CASE s # "OpenAi"
    BY <1>1, <1>3, AnthropicLift DEF MessageText
<1> QED BY <1>2, <1>3

-----------------------------------------------------------------------------
(* Adding the prompt.  What With, WithPrompt and AppendPrompt leave of the *)
(* fields and what they add.                                               *)

LEMMA NodeFields ==
    ASSUME NEW k, NEW w
    PROVE  /\ Node(k).is = k /\ Node(k).word = "" /\ Node(k).prompt = FALSE
           /\ Word(w).is = "string" /\ Word(w).word = w /\ Word(w).prompt = FALSE
           /\ Mark(k).is = "string" /\ Mark(k).word = "mark" /\ Mark(k).of = k /\ Mark(k).prompt = FALSE
           /\ Real(k).is = "string" /\ Real(k).word = "real" /\ Real(k).of = k /\ Real(k).prompt = FALSE
           /\ Prompt.is = "string" /\ Prompt.word = "" /\ Prompt.prompt = TRUE
BY DEF Node, Word, Mark, Real, Prompt

\* A node with the prompt after its text.
LEMMA PromptedIs ==
    ASSUME NEW x, x = [is |-> x.is, word |-> x.word, of |-> x.of, prompt |-> FALSE],
           NEW y, y = [x EXCEPT !.prompt = TRUE]
    PROVE  y.is = x.is /\ y.word = x.word /\ y.prompt = TRUE
<1>1. DOMAIN x = {"is", "word", "of", "prompt"}
    BY Zenon
<1>2. y = [f \in DOMAIN x |-> IF f = "prompt" THEN TRUE ELSE x[f]]
    OBVIOUS
<1> QED BY <1>1, <1>2

LEMMA WithIs ==
    ASSUME NEW b, NEW p, NEW node
    PROVE  /\ DOMAIN With(b, p, node) = DOMAIN b \cup {p}
           /\ With(b, p, node)[p] = node
           /\ \A q \in DOMAIN b : q # p => With(b, p, node)[q] = b[q]
BY DEF With

\* a is b with an object p that has the keys k and key.
HasPrompt(a, b, p, k, word, key) ==
  /\ DOMAIN a = DOMAIN b \cup {p, Append(p, k), Append(p, key)}
  /\ a[p] = Node("object") /\ a[Append(p, k)] = Word(word) /\ a[Append(p, key)] = Prompt
  /\ \A q \in DOMAIN b : q \notin {p, Append(p, k), Append(p, key)} => a[q] = b[q]

LEMMA WithPromptIs ==
    ASSUME NEW b, NEW p \in Path, NEW k \in Keys, NEW key \in Keys, k # key, NEW word
    PROVE  HasPrompt(WithPrompt(b, p, k, word, key), b, p, k, word, key)
<1> DEFINE x == With(b, p, Node("object"))
           y == With(x, Append(p, k), Word(word))
           a == With(y, Append(p, key), Prompt)
<1>0. p # Append(p, k) /\ p # Append(p, key) /\ Append(p, k) # Append(p, key)
    <2>1. /\ Len(p) \in Nat /\ Len(Append(p, k)) = Len(p) + 1 /\ Append(p, k)[Len(p) + 1] = k
          /\ Len(Append(p, key)) = Len(p) + 1 /\ Append(p, key)[Len(p) + 1] = key
        BY StepProps
    <2> DEFINE u == Append(p, k)
               v == Append(p, key)
    <2>2. Len(p) \in Nat /\ Len(u) = Len(p) + 1 /\ u[Len(p) + 1] = k /\ Len(v) = Len(p) + 1 /\ v[Len(p) + 1] = key
        BY <2>1
    <2> HIDE DEF u, v
    <2>3. Len(p) # Len(u) /\ Len(p) # Len(v) /\ u # v
        BY <2>2
    <2>4. p # u /\ p # v /\ u # v
        BY <2>3
    <2> QED BY <2>4 DEF u, v
<1>1. /\ DOMAIN x = DOMAIN b \cup {p} /\ x[p] = Node("object")
      /\ \A q \in DOMAIN b : q # p => x[q] = b[q]
    BY WithIs
<1>2. /\ DOMAIN y = DOMAIN x \cup {Append(p, k)} /\ y[Append(p, k)] = Word(word)
      /\ \A q \in DOMAIN x : q # Append(p, k) => y[q] = x[q]
    <2> HIDE DEF x
    <2>1. y = With(x, Append(p, k), Word(word))
        OBVIOUS
    <2> HIDE DEF y
    <2>2. /\ DOMAIN With(x, Append(p, k), Word(word)) = DOMAIN x \cup {Append(p, k)}
          /\ With(x, Append(p, k), Word(word))[Append(p, k)] = Word(word)
          /\ \A q \in DOMAIN x : q # Append(p, k) => With(x, Append(p, k), Word(word))[q] = x[q]
        BY DEF With
    <2> QED BY <2>1, <2>2
<1>3. /\ DOMAIN a = DOMAIN y \cup {Append(p, key)} /\ a[Append(p, key)] = Prompt
      /\ \A q \in DOMAIN y : q # Append(p, key) => a[q] = y[q]
    <2> HIDE DEF y
    <2>1. a = With(y, Append(p, key), Prompt)
        OBVIOUS
    <2> HIDE DEF a
    <2>2. /\ DOMAIN With(y, Append(p, key), Prompt) = DOMAIN y \cup {Append(p, key)}
          /\ With(y, Append(p, key), Prompt)[Append(p, key)] = Prompt
          /\ \A q \in DOMAIN y : q # Append(p, key) => With(y, Append(p, key), Prompt)[q] = y[q]
        BY DEF With
    <2> QED BY <2>1, <2>2
<1>4. a = WithPrompt(b, p, k, word, key)
    BY DEF WithPrompt
<1> HIDE DEF x, y, a
<1>5. /\ DOMAIN a = DOMAIN b \cup {p, Append(p, k), Append(p, key)}
      /\ a[p] = Node("object") /\ a[Append(p, k)] = Word(word) /\ a[Append(p, key)] = Prompt
      /\ \A q \in DOMAIN b : q \notin {p, Append(p, k), Append(p, key)} => a[q] = b[q]
    BY <1>0, <1>1, <1>2, <1>3
<1>6. HasPrompt(a, b, p, k, word, key)
    BY <1>5 DEF HasPrompt
<1> QED BY <1>4, <1>6

LEMMA AppendPromptIs ==
    ASSUME NEW b, NEW p
    PROVE  /\ Is(b, p, {"string"}) => AppendPrompt(b, p) = With(b, p, [b[p] EXCEPT !.prompt = TRUE])
           /\ Is(b, p, {"array"}) =>
                AppendPrompt(b, p) = WithPrompt(b, Append(p, Index(Cardinality(Items(b, p)) + 1)), "type", "text", "text")
           /\ ~Is(b, p, {"string", "array"}) => AppendPrompt(b, p) = With(WithoutUnder(b, p), p, Prompt)
<1>1. CASE Is(b, p, {"string"})
    <2>1. ~Is(b, p, {"array"}) /\ Is(b, p, {"string", "array"})
        BY <1>1 DEF Is
    <2> QED BY <1>1, <2>1, Zenon DEF AppendPrompt
<1>2. CASE Is(b, p, {"array"})
    <2>1. ~Is(b, p, {"string"}) /\ Is(b, p, {"string", "array"})
        BY <1>2 DEF Is
    <2> QED BY <1>2, <2>1, Zenon DEF AppendPrompt
<1>3. CASE ~Is(b, p, {"string", "array"})
    <2>1. ~Is(b, p, {"string"}) /\ ~Is(b, p, {"array"})
        BY <1>3 DEF Is
    <2> QED BY <1>3, <2>1, Zenon DEF AppendPrompt
<1>4. Is(b, p, {"string"}) \/ Is(b, p, {"array"}) \/ ~Is(b, p, {"string", "array"})
    BY DEF Is
<1> QED BY <1>1, <1>2, <1>3, <1>4

\* The next place of an array.
LEMMA NextItem ==
    ASSUME NEW b, IsTree(b, 1), NEW p \in Path, Is(b, p, {"array"})
    PROVE  LET n == Cardinality(Items(b, p)) + 1 IN
           /\ n \in 1..Len(Indices) /\ Index(n) \in Keys
           /\ Append(p, Index(n)) \in Path
           /\ Append(p, Index(n)) \notin DOMAIN b
<1>0. PICK k \in 0..(Len(Indices) - 1) : Items(b, p) = {Append(p, Index(i)) : i \in 1..k}
    BY DEF IsTree, Is
<1>1. Len(Indices) \in Nat /\ k \in Nat /\ k + 1 \in 1..Len(Indices) /\ \A i \in 1..k : i \in 1..Len(Indices)
    BY KeyOrderIs
<1>2. \A i \in 1..Len(Indices) : Index(i) \in Keys
    BY NumeralsAreKeys
<1>3. \A i, j \in 1..(k + 1) : Append(p, Index(i)) = Append(p, Index(j)) => i = j
    <2> SUFFICES ASSUME NEW i \in 1..(k + 1), NEW j \in 1..(k + 1), Append(p, Index(i)) = Append(p, Index(j))
                 PROVE  i = j
        OBVIOUS
    <2>1. i \in 1..Len(Indices) /\ j \in 1..Len(Indices)
        BY <1>1
    <2>2. Index(i) = Index(j)
        BY <1>2, <2>1, StepUnique
    <2> QED BY <2>1, <2>2, NumeralsAreKeys
<1>4. Cardinality(Items(b, p)) = k
    <2> DEFINE f == [i \in 1..k |-> Append(p, Index(i))]
               S == {Append(p, Index(i)) : i \in 1..k}
    <2>1. f \in Surjection(1..k, S)
        BY DEF Surjection
    <2>2. f \in Injection(1..k, S)
        <3>1. \A i, j \in 1..k : f[i] = f[j] => i = j
            BY <1>1, <1>3
        <3>2. f \in [1..k -> S]
            OBVIOUS
        <3> QED BY <3>1, <3>2 DEF Injection, IsInjective
    <2>3. IsFiniteSet(1..k) /\ Cardinality(1..k) = k
        <3>1. k \in Int /\ 1 \in Int
            BY <1>1
        <3>2. IsFiniteSet(1..k) /\ Cardinality(1..k) = IF 1 > k THEN 0 ELSE k - 1 + 1
            BY <3>1, FS_Interval
        <3> QED BY <1>1, <3>2
    <2> HIDE DEF f, S
    <2>4. Cardinality(S) = k
        BY <2>1, <2>2, <2>3, FS_Surjection
    <2> QED BY <2>4, <1>0 DEF S
<1>5. Append(p, Index(k + 1)) \notin DOMAIN b
    <2> SUFFICES ASSUME Append(p, Index(k + 1)) \in DOMAIN b PROVE FALSE
        OBVIOUS
    <2>1. Append(p, Index(k + 1)) \in Items(b, p)
        BY <1>1, <1>2, ItemsAre, TreePaths
    <2>2. PICK i \in 1..k : Append(p, Index(k + 1)) = Append(p, Index(i))
        BY <1>0, <2>1
    <2>3. k + 1 \in 1..(k + 1) /\ i \in 1..(k + 1) /\ k + 1 # i
        BY <1>1
    <2> QED BY <1>3, <2>2, <2>3
<1>6. Append(p, Index(k + 1)) \in Path
    BY <1>1, <1>2, StepProps
<1> QED BY <1>1, <1>2, <1>4, <1>5, <1>6

-----------------------------------------------------------------------------
(* Masking a body.  Masking changes no shape, and the secrets of the       *)
(* opening and of the messages are the body's.                             *)

\* Whether p is a text of the opening depends on nothing else in the body.
LEMMA OpeningLift ==
    ASSUME NEW a, NEW b, NEW s, NEW p, p \in DOMAIN a, p \in DOMAIN b
    PROVE  p \in OpeningText(s, a) <=> p \in OpeningText(s, b)
<1>1. \A c : p \in SchemaText(a, c) <=> p \in SchemaText(b, c)
    BY DEF SchemaText, Under
<1>2. CASE s = "OpenAi"
    BY <1>1, <1>2 DEF OpeningText
<1>3. CASE s # "OpenAi"
    BY <1>1, <1>3 DEF OpeningText
<1> QED BY <1>2, <1>3

LEMMA OpaquePlace ==
    ASSUME NEW i \in 1..Len(Indices), NEW r \in Path, Opaque(r)
    PROVE  Opaque(Place(i, r))
<1>1. PICK j \in DOMAIN r : r[j] \in {"url", "enum"}
    BY DEF Opaque
<1>2. DOMAIN r = 1..Len(r) /\ Len(r) \in Nat
    BY DEF Path
<1> DEFINE q == Place(i, r)
<1>3. q \in Path /\ Len(q) = Len(r) + 2 /\ \A n \in 1..Len(r) : q[n + 2] = r[n]
    BY PlaceIs
<1> HIDE DEF q
<1>4. DOMAIN q = 1..Len(q)
    BY <1>3 DEF Path
<1>5. j + 2 \in DOMAIN q /\ q[j + 2] \in {"url", "enum"}
    BY <1>1, <1>2, <1>3, <1>4
<1>6. Opaque(q)
    BY <1>5 DEF Opaque
<1> QED BY <1>6 DEF q

\* A client's values stand where its schema has text, or where no one looks.
LEMMA RealsAreSaid ==
    ASSUME NEW h, GoodHistory(h), NEW p \in DOMAIN Body(h), Body(h)[p].word = "real"
    PROVE  /\ Body(h)[p].is = "string" /\ Body(h)[p].of \in Values
           /\ p \in SaidIn(Body(h)) \/ Opaque(p)
<1>0. IsTree(Body(h), 1)
    BY BodyTree
<1>1. Body(h)[p].is = "string" /\ Body(h)[p].of \in Values
    <2>1. IsNode(Body(h)[p])
        BY <1>0 DEF IsTree
    <2> QED BY <2>1 DEF IsNode
<1>2. CASE p \in DOMAIN opening
    <2>1. Body(h)[p] = opening[p]
        BY <1>2, BodyIs
    <2>2. p \in Holding(opening, "real")
        BY <1>2, <2>1 DEF Holding
    <2>3. p \in OpeningText(schema, opening) \/ Opaque(p)
        BY <2>2 DEF GoodHistory, GoodOpening
    <2>4. p \in OpeningText(schema, Body(h)) \/ Opaque(p)
        BY <2>3, <1>2, OpeningLift
    <2> QED BY <1>1, <2>4 DEF SaidIn
<1>3. CASE p = <<"messages">>
    <2>1. Body(h)[p] = Node("array")
        BY <1>3, BodyIs
    <2>2. Node("array").word = ""
        BY DEF Node
    <2>3. Body(h)[p].word = ""
        BY <2>1, <2>2, Zenon
    <2> QED BY <2>3
<1>4. CASE \E i \in DOMAIN h : \E r \in DOMAIN h[i] : p = Place(i, r)
    <2>0. PICK i \in DOMAIN h : \E r \in DOMAIN h[i] : p = Place(i, r)
        BY <1>4
    <2>1. PICK r \in DOMAIN h[i] : p = Place(i, r)
        BY <2>0
    <2>2. i \in 1..Len(Indices) /\ r \in Path /\ GoodMessage(schema, h[i])
        BY HistoryIs
    <2>3. Body(h)[p] = h[i][r]
        BY <2>1, BodyIs
    <2>4. r \in MessageText(schema, h[i], <<>>) \/ Opaque(r)
        BY <2>2, <2>3 DEF GoodMessage, Holding
    <2>5. CASE Opaque(r)
        BY <1>1, <2>1, <2>2, <2>5, OpaquePlace
    <2>6. CASE r \in MessageText(schema, h[i], <<>>)
        <3>1. p \in MessageText(schema, Body(h), MessageAt(i))
            BY <2>1, <2>2, <2>6, BodyMirrors, MessageLift
        <3>2. MessageAt(i) \in Items(Body(h), <<"messages">>)
            <4>1. i \in 1..Len(h)
                BY HistoryIs
            <4> QED BY <4>1, BodyItems
        <3> QED BY <1>1, <3>1, <3>2 DEF SaidIn
    <2> QED BY <2>4, <2>5, <2>6
<1> QED BY <1>2, <1>3, <1>4, BodyIs

\* What changes no kind of node changes no tree.
LEMMA ShapeKept ==
    ASSUME NEW n, NEW b, NEW a, IsTree(b, n),
           DOMAIN a = DOMAIN b, a = [p \in DOMAIN a |-> a[p]],
           \A p \in DOMAIN b : a[p].is = b[p].is /\ IsNode(a[p])
    PROVE  IsTree(a, n) /\ \A p : Items(a, p) = Items(b, p) /\ \A kinds : Is(a, p, kinds) <=> Is(b, p, kinds)
<1>1. \A p : \A kinds : Is(a, p, kinds) <=> Is(b, p, kinds)
    BY DEF Is
<1>2. \A p : Items(a, p) = Items(b, p)
    BY <1>1 DEF Items
<1>3. \A p, k : MayHold(b, p, k) => MayHold(a, p, k)
    BY DEF MayHold
<1>4. IsFiniteSet(DOMAIN a)
    BY DEF IsTree
<1>5. ASSUME NEW p \in DOMAIN a
      PROVE  /\ p \in Seq(Keys) /\ IsNode(a[p])
             /\ Len(p) > n => MayHold(a, Front(p), Last(p))
             /\ a[p].is = "array" =>
                  \E k \in 0..(Len(Indices) - 1) : Items(a, p) = {Append(p, Index(i)) : i \in 1..k}
    <2>1. p \in DOMAIN b
        BY <1>5
    <2>2. /\ p \in Seq(Keys)
          /\ Len(p) > n => MayHold(b, Front(p), Last(p))
          /\ b[p].is = "array" =>
                  \E k \in 0..(Len(Indices) - 1) : Items(b, p) = {Append(p, Index(i)) : i \in 1..k}
        BY <2>1 DEF IsTree
    <2> QED BY <2>1, <2>2, <1>2, <1>3
<1>6. IsTree(a, n)
    BY <1>4, <1>5 DEF IsTree
<1> QED BY <1>1, <1>2, <1>6

LEMMA MaskedIs ==
    ASSUME NEW b, NEW at, NEW v
    PROVE  /\ DOMAIN Masked(b, at, v) = DOMAIN b
           /\ Masked(b, at, v) = [p \in DOMAIN Masked(b, at, v) |-> Masked(b, at, v)[p]]
           /\ \A p \in DOMAIN b :
                /\ p \in at /\ b[p].word = "real" => Masked(b, at, v)[p] = Mark(v[b[p].of])
                /\ ~(p \in at /\ b[p].word = "real") => Masked(b, at, v)[p] = b[p]
BY DEF Masked

\* Masking keeps the tree.
LEMMA MaskedTree ==
    ASSUME NEW h, GoodHistory(h), NEW at, NEW v
    PROVE  LET a == Masked(Body(h), at, v) IN
           /\ IsTree(a, 1) /\ DOMAIN a = DOMAIN Body(h)
           /\ \A p : Items(a, p) = Items(Body(h), p)
           /\ \A p : \A kinds : Is(a, p, kinds) <=> Is(Body(h), p, kinds)
<1> DEFINE b == Body(h)
           a == Masked(b, at, v)
<1>1. IsTree(b, 1)
    BY BodyTree
<1>2. \A p \in DOMAIN b : IsNode(b[p]) /\ b[p].word = "real" => b[p].is = "string"
    BY <1>1 DEF IsNode
<1>3. \A p \in DOMAIN b : IsNode(b[p])
    BY <1>1 DEF IsTree
<1>4. \A k : IsNode(Mark(k)) /\ Mark(k).is = "string"
    BY DEF IsNode, Mark
<1> HIDE DEF b
<1>5. /\ DOMAIN a = DOMAIN b /\ a = [p \in DOMAIN a |-> a[p]]
      /\ \A p \in DOMAIN b : /\ p \in at /\ b[p].word = "real" => a[p] = Mark(v[b[p].of])
                             /\ ~(p \in at /\ b[p].word = "real") => a[p] = b[p]
    BY MaskedIs
<1> HIDE DEF a
<1>6. \A p \in DOMAIN b : a[p].is = b[p].is /\ IsNode(a[p])
    BY <1>2, <1>3, <1>4, <1>5
<1>7. IsTree(a, 1) /\ \A p : Items(a, p) = Items(b, p) /\ \A kinds : Is(a, p, kinds) <=> Is(b, p, kinds)
    BY <1>1, <1>5, <1>6, ShapeKept
<1> QED BY <1>5, <1>7 DEF a, b

-----------------------------------------------------------------------------
(* The prompt joined to a text.  AppendPrompt goes to a string, to an      *)
(* array of blocks, or in place of what is neither.                        *)

LEMMA NodesAre ==
    ASSUME NEW b, NEW n, IsTree(b, n), NEW p \in DOMAIN b
    PROVE  /\ p \in Path /\ IsNode(b[p]) /\ b[p].prompt = FALSE
           /\ b[p].word = "real" => b[p].is = "string" /\ b[p].of \in Values
<1>1. p \in Path /\ IsNode(b[p])
    BY DEF IsTree, Path
<1>2. b[p].prompt = FALSE /\ (b[p].word = "real" => b[p].is = "string" /\ b[p].of \in Values)
    <2> DEFINE x == b[p]
    <2>1. IsNode(x)
        BY <1>1
    <2> DEFINE y == [is |-> x.is, word |-> x.word, of |-> x.of, prompt |-> FALSE]
    <2> HIDE DEF x
    <2>2. x = y /\ (x.is # "string" => x.word = "") /\ (x.word = "real" => x.of \in Values)
        BY <2>1 DEF IsNode
    <2>3. y.prompt = FALSE
        OBVIOUS
    <2> HIDE DEF y
    <2>4. x.prompt = FALSE
        BY <2>2, <2>3
    <2>5. x.word = "real" => x.is = "string" /\ x.of \in Values
        BY <2>2
    <2> QED BY <2>4, <2>5 DEF x
<1> QED BY <1>1, <1>2

\* What AppendPrompt leaves of b, what it adds, and where.
Appended(b, c, a) ==
  /\ DOMAIN a \subseteq Path
  /\ \A q \in DOMAIN b :
       \/ q \in DOMAIN a /\ a[q].word = b[q].word /\ a[q].is = b[q].is
       \/ IsPrefix(c, q) /\ ~Is(b, c, {"string", "array"})
  /\ \A q \in DOMAIN a : a[q].word = "real" => q \in DOMAIN b /\ b[q].word = "real"
  /\ \E x \in DOMAIN a : a[x].prompt /\ \A q \in DOMAIN a : a[q].prompt => q = x
  /\ \A q \in Path : ~IsPrefix(c, q) => /\ q \in DOMAIN a <=> q \in DOMAIN b
                                        /\ q \in DOMAIN b => a[q] = b[q]

LEMMA AppendedToString ==
    ASSUME NEW b, IsTree(b, 1), NEW c \in Path, Is(b, c, {"string"})
    PROVE  Appended(b, c, AppendPrompt(b, c))
<1> DEFINE y == [b[c] EXCEPT !.prompt = TRUE]
           a == With(b, c, y)
<1>1. c \in DOMAIN b /\ \A q \in DOMAIN b : b[q].prompt = FALSE
    BY NodesAre DEF Is
<1>2. y.is = b[c].is /\ y.word = b[c].word /\ y.prompt = TRUE
    <2>1. b[c] = [is |-> b[c].is, word |-> b[c].word, of |-> b[c].of, prompt |-> FALSE]
        BY <1>1, NodesAre DEF IsNode
    <2> QED BY <2>1, PromptedIs
<1> HIDE DEF y
<1>3. DOMAIN a = DOMAIN b \cup {c} /\ a[c] = y /\ \A q \in DOMAIN b : q # c => a[q] = b[q]
    BY DEF With
<1>4. a = AppendPrompt(b, c)
    BY AppendPromptIs DEF y
<1> HIDE DEF a
<1>5. IsPrefix(c, c)
    BY PrefixIs
<1>6. \A q \in DOMAIN b : q \in DOMAIN a /\ a[q].word = b[q].word /\ a[q].is = b[q].is
    BY <1>1, <1>2, <1>3
<1>7. \A q \in DOMAIN a : a[q].word = "real" => q \in DOMAIN b /\ b[q].word = "real"
    BY <1>1, <1>2, <1>3
<1>8. c \in DOMAIN a /\ a[c].prompt /\ \A q \in DOMAIN a : a[q].prompt => q = c
    BY <1>1, <1>2, <1>3
<1>9. \A q \in Path : ~IsPrefix(c, q) => /\ q \in DOMAIN a <=> q \in DOMAIN b
                                         /\ q \in DOMAIN b => a[q] = b[q]
    BY <1>1, <1>3, <1>5
<1>10. DOMAIN a \subseteq Path
    BY <1>3, TreePaths
<1>11. Appended(b, c, a)
    BY <1>6, <1>7, <1>8, <1>9, <1>10 DEF Appended
<1> QED BY <1>4, <1>11

LEMMA AppendedToArray ==
    ASSUME NEW b, IsTree(b, 1), NEW c \in Path, Is(b, c, {"array"})
    PROVE  Appended(b, c, AppendPrompt(b, c))
<1> DEFINE e == Append(c, Index(Cardinality(Items(b, c)) + 1))
           a == WithPrompt(b, e, "type", "text", "text")
           t == Append(e, "type")
           x == Append(e, "text")
<1>0. "type" \in Keys /\ "text" \in Keys
    BY FixedKeysAreKeys
<1>1. /\ c \in DOMAIN b /\ \A q \in DOMAIN b : b[q].prompt = FALSE /\ q \in Path
      /\ Len(c) \in Nat
    BY NodesAre, StepProps, <1>0 DEF Is
<1>2. e \in Path /\ e \notin DOMAIN b /\ IsPrefix(c, e) /\ Len(e) >= 1
    <2> DEFINE k == Index(Cardinality(Items(b, c)) + 1)
    <2>1. k \in Keys /\ Append(c, k) \in Path /\ Append(c, k) \notin DOMAIN b
        BY NextItem
    <2> HIDE DEF k
    <2>2. IsPrefix(c, Append(c, k)) /\ Len(Append(c, k)) = Len(c) + 1
        BY <2>1, StepProps, PrefixStep
    <2> QED BY <1>1, <2>1, <2>2 DEF k
<1>3. a = AppendPrompt(b, c)
    BY AppendPromptIs
<1> HIDE DEF e
<1>4. /\ t \notin DOMAIN b /\ x \notin DOMAIN b /\ IsPrefix(c, t) /\ IsPrefix(c, x)
      /\ t \in Path /\ x \in Path
    <2>1. t \notin DOMAIN b /\ x \notin DOMAIN b
        BY <1>0, <1>2, ParentOf
    <2>2. IsPrefix(c, t) /\ IsPrefix(c, x)
        BY <1>0, <1>2, PrefixStep
    <2>3. t \in Path /\ x \in Path
        BY <1>0, <1>2, StepProps
    <2> QED BY <2>1, <2>2, <2>3
<1>5. /\ DOMAIN a = DOMAIN b \cup {e, t, x}
      /\ a[e] = Node("object") /\ a[t] = Word("text") /\ a[x] = Prompt
      /\ \A q \in DOMAIN b : q \notin {e, t, x} => a[q] = b[q]
    <2>1. "type" # "text"
        OBVIOUS
    <2>2. HasPrompt(a, b, e, "type", "text", "text")
        BY <1>0, <1>2, <2>1, WithPromptIs
    <2> HIDE DEF a
    <2> QED BY <2>2 DEF HasPrompt
<1>6. /\ a[e].word = "" /\ a[e].prompt = FALSE
      /\ a[t].word = "text" /\ a[t].prompt = FALSE
      /\ a[x].word = "" /\ a[x].prompt = TRUE
    <2>1. /\ Node("object").word = "" /\ Node("object").prompt = FALSE
          /\ Word("text").word = "text" /\ Word("text").prompt = FALSE
          /\ Prompt.word = "" /\ Prompt.prompt = TRUE
        BY DEF Node, Word, Prompt
    <2> QED BY <1>5, <2>1, Zenon
<1> HIDE DEF a, t, x
<1>7. \A q \in DOMAIN b : q \in DOMAIN a /\ a[q] = b[q]
    BY <1>2, <1>4, <1>5
<1>8. \A q \in DOMAIN a : a[q].word = "real" => q \in DOMAIN b /\ b[q].word = "real"
    BY <1>5, <1>6, <1>7
<1>9. x \in DOMAIN a /\ a[x].prompt /\ \A q \in DOMAIN a : a[q].prompt => q = x
    BY <1>1, <1>5, <1>6, <1>7
<1>10. \A q \in Path : ~IsPrefix(c, q) => /\ q \in DOMAIN a <=> q \in DOMAIN b
                                          /\ q \in DOMAIN b => a[q] = b[q]
    BY <1>2, <1>4, <1>5, <1>7
<1>11. DOMAIN a \subseteq Path
    BY <1>2, <1>4, <1>5, TreePaths
<1>12. Appended(b, c, a)
    BY <1>7, <1>8, <1>9, <1>10, <1>11 DEF Appended
<1> QED BY <1>3, <1>12

LEMMA AppendedInstead ==
    ASSUME NEW b, IsTree(b, 1), NEW c \in Path, ~Is(b, c, {"string", "array"})
    PROVE  Appended(b, c, AppendPrompt(b, c))
<1> DEFINE y == WithoutUnder(b, c)
           a == With(y, c, Prompt)
<1>1. \A q \in DOMAIN b : b[q].prompt = FALSE
    BY NodesAre
<1>2. DOMAIN y = DOMAIN b \ Under(b, c) /\ \A q \in DOMAIN b \ Under(b, c) : y[q] = b[q]
    BY DEF WithoutUnder
<1>3. a = AppendPrompt(b, c)
    BY AppendPromptIs
<1> HIDE DEF y
<1>4. DOMAIN a = DOMAIN y \cup {c} /\ a[c] = Prompt /\ \A q \in DOMAIN y : q # c => a[q] = y[q]
    BY DEF With
<1>5. Prompt.word = "" /\ Prompt.prompt = TRUE
    BY DEF Prompt
<1>6. a[c].word = "" /\ a[c].prompt = TRUE
    BY <1>4, <1>5, Zenon
<1> HIDE DEF a
<1>7. IsPrefix(c, c)
    BY PrefixIs
<1>8. \A q \in DOMAIN b : q \notin Under(b, c) => IsPrefix(c, q) = FALSE /\ q # c /\ q \in DOMAIN a /\ a[q] = b[q]
    BY <1>2, <1>4, <1>7 DEF Under
<1>9. \A q \in DOMAIN b : \/ q \in DOMAIN a /\ a[q] = b[q]
                          \/ IsPrefix(c, q) /\ ~Is(b, c, {"string", "array"})
    BY <1>8 DEF Under
<1>10. \A q \in DOMAIN a : q = c \/ (q \in DOMAIN b /\ a[q] = b[q])
    <2>1. \A q : q \in DOMAIN a <=> q = c \/ q \in DOMAIN y
        BY <1>4
    <2>2. \A q : q \in DOMAIN y => q \in DOMAIN b /\ y[q] = b[q]
        BY <1>2
    <2> QED BY <1>4, <2>1, <2>2
<1>11. \A q \in DOMAIN a : a[q].word = "real" => q \in DOMAIN b /\ b[q].word = "real"
    BY <1>6, <1>10
<1>12. c \in DOMAIN a /\ a[c].prompt /\ \A q \in DOMAIN a : a[q].prompt => q = c
    BY <1>1, <1>4, <1>6, <1>10
<1>13. \A q \in Path : ~IsPrefix(c, q) => /\ q \in DOMAIN a <=> q \in DOMAIN b
                                          /\ q \in DOMAIN b => a[q] = b[q]
    BY <1>2, <1>4, <1>7, <1>8 DEF Under
<1>14. DOMAIN a \subseteq Path
    BY <1>2, <1>4, TreePaths
<1>15. Appended(b, c, a)
    BY <1>9, <1>11, <1>12, <1>13, <1>14 DEF Appended
<1> QED BY <1>3, <1>15

LEMMA AppendPromptAppends ==
    ASSUME NEW b, IsTree(b, 1), NEW c \in Path
    PROVE  Appended(b, c, AppendPrompt(b, c))
<1>1. Is(b, c, {"string"}) \/ Is(b, c, {"array"}) \/ ~Is(b, c, {"string", "array"})
    BY DEF Is
<1> QED BY <1>1, AppendedToString, AppendedToArray, AppendedInstead

-----------------------------------------------------------------------------
(* Moved paths.  Pushed moves the messages up by one; a path comes from    *)
(* one place only.                                                         *)

LEMMA SamePath ==
    ASSUME NEW p \in Path, NEW q \in Path, Len(p) = Len(q), \A i \in 1..Len(p) : p[i] = q[i]
    PROVE  p = q
BY DEF Path

LEMMA RankOfIndex ==
    ASSUME NEW i \in DOMAIN Indices
    PROVE  Rank(Index(i)) = i
<1>1. i \in DOMAIN KeyOrder /\ KeyOrder[i] = Index(i)
    <2>1. KeyOrder[i] = Indices[i]
        BY KeyOrderIs
    <2>2. /\ DOMAIN Indices = 1..Len(Indices) /\ Len(Indices) \in Nat
          /\ Len(KeyOrder) \in Nat /\ DOMAIN KeyOrder = 1..Len(KeyOrder) /\ Len(KeyOrder) >= Len(Indices) + 25
        BY KeyOrderIs
    <2> QED BY <2>1, <2>2 DEF Index
<1>2. \A j \in DOMAIN KeyOrder : KeyOrder[j] = Index(i) => j = i
    BY <1>1, KeysAssumption
<1> QED BY <1>1, <1>2 DEF Rank

\* Putting a message before all the others moves each of them by one place.
LEMMA PushedPlace ==
    ASSUME NEW i \in DOMAIN Indices, i + 1 \in DOMAIN Indices, NEW r \in Path
    PROVE  Pushed(Place(i, r)) = Place(i + 1, r)
<1> DEFINE p == Place(i, r)
           q == Place(i + 1, r)
           t == [p EXCEPT ![2] = Index(i + 1)]
<1>0. i \in 1..Len(Indices) /\ i + 1 \in 1..Len(Indices)
    BY KeyOrderIs
<1>1. /\ p \in Path /\ Len(p) = Len(r) + 2 /\ Len(r) \in Nat /\ p[1] = "messages" /\ p[2] = Index(i)
      /\ \A j \in 1..Len(r) : p[j + 2] = r[j]
    BY <1>0, PlaceIs
<1>2. /\ q \in Path /\ Len(q) = Len(r) + 2 /\ q[1] = "messages" /\ q[2] = Index(i + 1)
      /\ \A j \in 1..Len(r) : q[j + 2] = r[j]
    BY <1>0, PlaceIs
<1>3. Index(i + 1) \in Keys
    BY <1>0, MessageAtIs
<1> HIDE DEF p, q
<1>4. /\ t \in Path /\ Len(t) = Len(p) /\ t[2] = Index(i + 1)
      /\ \A j \in 1..Len(p) : j # 2 => t[j] = p[j]
    BY <1>1, <1>3 DEF Path
<1> HIDE DEF t
<1>5. \A j \in 1..Len(p) : t[j] = q[j]
    <2> TAKE j \in 1..Len(p)
    <2>1. j \in 1..2 \/ (j - 2 \in 1..Len(r) /\ (j - 2) + 2 = j)
        BY <1>1
    <2>2. CASE j \in 1..2
        BY <2>2, <1>1, <1>2, <1>4
    <2>3. CASE j - 2 \in 1..Len(r) /\ (j - 2) + 2 = j
        <3>1. p[(j - 2) + 2] = r[j - 2] /\ q[(j - 2) + 2] = r[j - 2]
            BY <2>3, <1>1, <1>2
        <3>2. j # 2
            BY <2>3, <1>1
        <3> QED BY <3>1, <3>2, <2>3, <1>4
    <2> QED BY <2>1, <2>2, <2>3
<1>6. t = q
    BY <1>1, <1>2, <1>4, <1>5, SamePath
<1>7. Pushed(p) = [p EXCEPT ![2] = Index(i + 1)]
    <2>1. Len(p) > 1 /\ p[1] = "messages"
        BY <1>1
    <2>2. Rank(p[2]) + 1 = i + 1
        BY <1>1, RankOfIndex
    <2> QED BY <2>1, <2>2 DEF Pushed
<1> QED BY <1>6, <1>7 DEF p, q, t

LEMMA PushedIs ==
    ASSUME NEW h, GoodHistory(h)
    PROVE  /\ \A p \in DOMAIN opening : Pushed(p) = p
           /\ Pushed(<<"messages">>) = <<"messages">>
           /\ \A i \in DOMAIN h : /\ i \in DOMAIN Indices /\ i + 1 \in DOMAIN Indices /\ i + 1 # 1
                                  /\ \A r \in Path : Pushed(Place(i, r)) = Place(i + 1, r)
<1>1. \A p \in DOMAIN opening : Pushed(p) = p
    <2> TAKE p \in DOMAIN opening
    <2>1. p[1] # "messages"
        BY OpeningIs
    <2> QED BY <2>1 DEF Pushed
<1>2. Pushed(<<"messages">>) = <<"messages">>
    <2> DEFINE p == <<"messages">>
    <2>1. Len(p) = 1
        OBVIOUS
    <2> HIDE DEF p
    <2>2. Pushed(p) = p
        BY <2>1 DEF Pushed
    <2> QED BY <2>2 DEF p
<1>3. ASSUME NEW i \in DOMAIN h
      PROVE  i \in DOMAIN Indices /\ i + 1 \in DOMAIN Indices /\ i + 1 # 1
    <2>1. DOMAIN h = 1..Len(h) /\ Len(h) \in Nat /\ Len(h) <= MaxMessages /\ MaxMessages < Len(Indices)
          /\ MaxMessages \in Nat /\ Len(Indices) \in Nat
        BY HistoryIs
    <2>2. DOMAIN Indices = 1..Len(Indices)
        BY KeyOrderIs
    <2> QED BY <2>1, <2>2
<1>4. ASSUME NEW i \in DOMAIN h, NEW r \in Path
      PROVE  Pushed(Place(i, r)) = Place(i + 1, r)
    BY <1>3, PushedPlace
<1> QED BY <1>1, <1>2, <1>3, <1>4

\* Where a path of a body comes from.
LEMMA PathOrigin ==
    ASSUME NEW h, GoodHistory(h), NEW p \in DOMAIN Body(h)
    PROVE  \/ p \in DOMAIN opening /\ Pushed(p) = p
           \/ p = <<"messages">> /\ Pushed(p) = p
           \/ \E i \in DOMAIN h : \E r \in DOMAIN h[i] :
                r \in Path /\ p = Place(i, r) /\ Pushed(p) = Place(i + 1, r)
<1>1. CASE p \in DOMAIN opening
    BY <1>1, PushedIs
<1>2. CASE p = <<"messages">>
    BY <1>2, PushedIs
<1>3. CASE \E i \in DOMAIN h : \E r \in DOMAIN h[i] : p = Place(i, r)
    <2>1. PICK i \in DOMAIN h : \E r \in DOMAIN h[i] : p = Place(i, r)
        BY <1>3
    <2>2. PICK r \in DOMAIN h[i] : p = Place(i, r)
        BY <2>1
    <2>3. r \in Path
        BY HistoryIs
    <2> QED BY <2>2, <2>3, PushedIs
<1> QED BY <1>1, <1>2, <1>3, BodyIs

LEMMA PlaceIsNotMessages ==
    ASSUME NEW i \in DOMAIN Indices, NEW r \in Path
    PROVE  Place(i, r) # <<"messages">>
<1> DEFINE p == Place(i, r)
           q == <<"messages">>
<1>1. Len(p) = Len(r) + 2 /\ Len(r) \in Nat
    BY PlaceIs, KeyOrderIs
<1>2. Len(q) = 1
    OBVIOUS
<1> HIDE DEF p, q
<1>3. Len(p) # Len(q)
    BY <1>1, <1>2
<1>4. p # q
    BY <1>3
<1> QED BY <1>4 DEF p, q

LEMMA PushedUnique ==
    ASSUME NEW h, GoodHistory(h), NEW p \in DOMAIN Body(h), NEW q \in DOMAIN Body(h), Pushed(p) = Pushed(q)
    PROVE  p = q
<1>0. \A i \in DOMAIN h : i \in DOMAIN Indices /\ i + 1 \in DOMAIN Indices /\ i \in Nat /\ i + 1 \in 1..Len(Indices)
    <2> TAKE i \in DOMAIN h
    <2>1. i \in DOMAIN Indices /\ i + 1 \in DOMAIN Indices
        BY PushedIs
    <2>2. DOMAIN Indices = 1..Len(Indices) /\ Len(Indices) \in Nat
        BY KeyOrderIs
    <2> QED BY <2>1, <2>2
<1>1. \A x \in DOMAIN opening : x # <<"messages">> /\ \A i \in 1..Len(Indices) : \A r \in Path : x # Place(i, r)
    BY OpeningIs
<1>2. CASE p \in DOMAIN opening \/ p = <<"messages">>
    <2>1. Pushed(p) = p
        BY <1>2, PushedIs
    <2>2. ASSUME NEW i \in DOMAIN h, NEW r \in Path, Pushed(q) = Place(i + 1, r)
          PROVE  FALSE
        BY <2>1, <2>2, <1>0, <1>1, <1>2, PlaceIsNotMessages
    <2>3. \/ q \in DOMAIN opening /\ Pushed(q) = q
          \/ q = <<"messages">> /\ Pushed(q) = q
          \/ \E i \in DOMAIN h : \E r \in DOMAIN h[i] :
               r \in Path /\ q = Place(i, r) /\ Pushed(q) = Place(i + 1, r)
        BY PathOrigin
    <2> QED BY <2>1, <2>2, <2>3
<1>3. ASSUME NEW i \in DOMAIN h, NEW r \in Path, p = Place(i, r), Pushed(p) = Place(i + 1, r)
      PROVE  p = q
    <2>1. CASE q \in DOMAIN opening \/ q = <<"messages">>
        <3>1. Pushed(q) = q
            BY <2>1, PushedIs
        <3> QED BY <2>1, <3>1, <1>0, <1>1, <1>3, PlaceIsNotMessages
    <2>2. ASSUME NEW j \in DOMAIN h, NEW t \in Path, q = Place(j, t), Pushed(q) = Place(j + 1, t)
          PROVE  p = q
        <3>1. i + 1 = j + 1 /\ r = t
            BY <1>0, <1>3, <2>2, PlacesUnique
        <3>2. i = j
            BY <3>1, <1>0
        <3> QED BY <3>1, <3>2, <1>3, <2>2
    <2> QED BY <2>1, <2>2, PathOrigin
<1> QED BY <1>2, <1>3, PathOrigin

-----------------------------------------------------------------------------
(* The prompt put first.  Prepend is a tree again, its first message being *)
(* the prompt.                                                             *)

\* The body b with every message one place further on.
MovedOn(b) == [q \in {Pushed(p) : p \in DOMAIN b} |-> b[CHOOSE p \in DOMAIN b : Pushed(p) = q]]

First == MessageAt(1)

LEMMA FirstIs ==
    ASSUME NEW h, GoodHistory(h)
    PROVE  /\ 1 \in DOMAIN Indices /\ First \in Path /\ First = Place(1, <<>>)
           /\ Append(First, "role") = Place(1, <<"role">>) /\ Append(First, "content") = Place(1, <<"content">>)
           /\ <<"role">> \in Path /\ <<"content">> \in Path
<1>1. 1 \in 1..Len(Indices) /\ 1 \in DOMAIN Indices
    <2>1. MaxMessages < Len(Indices) /\ MaxMessages \in Nat /\ Len(Indices) \in Nat
        BY HistoryIs
    <2>2. DOMAIN Indices = 1..Len(Indices)
        BY KeyOrderIs
    <2> QED BY <2>1, <2>2
<1>2. <<>> \in Path /\ "role" \in Keys /\ "content" \in Keys
    BY FixedKeysAreKeys, EmptyPath
<1>3. <<"role">> \in Path /\ <<"content">> \in Path /\ Append(<<>>, "role") = <<"role">> /\ Append(<<>>, "content") = <<"content">>
    BY <1>2, Top
<1>4. First = Place(1, <<>>) /\ First \in Path
    BY <1>1, <1>2, PlaceIs, MessageAtIs DEF First
<1>5. Append(Place(1, <<>>), "role") = Place(1, Append(<<>>, "role"))
    BY <1>1, <1>2, PlaceAppend
<1>6. Append(Place(1, <<>>), "content") = Place(1, Append(<<>>, "content"))
    BY <1>1, <1>2, PlaceAppend
<1> QED BY <1>1, <1>3, <1>4, <1>5, <1>6

\* No message is left in the first place.
LEMMA MovedOnIs ==
    ASSUME NEW h, GoodHistory(h), NEW b, DOMAIN b = DOMAIN Body(h)
    PROVE  /\ DOMAIN MovedOn(b) = {Pushed(p) : p \in DOMAIN b}
           /\ \A p \in DOMAIN b : MovedOn(b)[Pushed(p)] = b[p]
<1>1. DOMAIN MovedOn(b) = {Pushed(p) : p \in DOMAIN b}
    BY DEF MovedOn
<1>2. ASSUME NEW p \in DOMAIN b
      PROVE  MovedOn(b)[Pushed(p)] = b[p]
    <2>1. \A q \in DOMAIN b : Pushed(q) = Pushed(p) => q = p
        BY PushedUnique
    <2>2. (CHOOSE q \in DOMAIN b : Pushed(q) = Pushed(p)) = p
        BY <2>1
    <2>3. Pushed(p) \in {Pushed(q) : q \in DOMAIN b}
        OBVIOUS
    <2>4. MovedOn(b)[Pushed(p)] = b[CHOOSE q \in DOMAIN b : Pushed(q) = Pushed(p)]
        BY <2>3 DEF MovedOn
    <2> QED BY <2>2, <2>4
<1> QED BY <1>1, <1>2

LEMMA NobodyIsFirst ==
    ASSUME NEW h, GoodHistory(h), NEW p \in DOMAIN Body(h), NEW r \in Path
    PROVE  Pushed(p) # Place(1, r)
<1>0. 1 \in DOMAIN Indices /\ 1 \in 1..Len(Indices)
    BY FirstIs, KeyOrderIs
<1>1. CASE p \in DOMAIN opening /\ Pushed(p) = p
    BY <1>0, <1>1, OpeningIs
<1>2. CASE p = <<"messages">> /\ Pushed(p) = p
    BY <1>0, <1>2, PlaceIsNotMessages
<1>3. ASSUME NEW i \in DOMAIN h, NEW t \in Path, Pushed(p) = Place(i + 1, t), Pushed(p) = Place(1, r)
      PROVE  FALSE
    <2>1. i + 1 \in DOMAIN Indices /\ i + 1 # 1
        BY PushedIs
    <2>2. Place(i + 1, t) = Place(1, r)
        BY <1>3
    <2> QED BY <1>0, <2>1, <2>2, PlacesUnique
<1>4. \/ p \in DOMAIN opening /\ Pushed(p) = p
      \/ p = <<"messages">> /\ Pushed(p) = p
      \/ \E i \in DOMAIN h : \E r1 \in DOMAIN h[i] :
           r1 \in Path /\ p = Place(i, r1) /\ Pushed(p) = Place(i + 1, r1)
    BY PathOrigin
<1> QED BY <1>1, <1>2, <1>3, <1>4

\* What Prepend makes of b.
Prepended(b, a) ==
  /\ \A q \in DOMAIN b : Pushed(q) \in DOMAIN a /\ a[Pushed(q)] = b[q]
  /\ \A q \in DOMAIN a : \/ q \in {Pushed(p) : p \in DOMAIN b}
                         \/ q \in {First, Append(First, "role"), Append(First, "content")}
  /\ First \in DOMAIN a /\ a[First] = Node("object")
  /\ Append(First, "role") \in DOMAIN a /\ a[Append(First, "role")] = Word("system")
  /\ Append(First, "content") \in DOMAIN a /\ a[Append(First, "content")] = Prompt

LEMMA PrependIs ==
    ASSUME NEW h, GoodHistory(h), NEW b, DOMAIN b = DOMAIN Body(h)
    PROVE  Prepended(b, Prepend(b))
<1> DEFINE f == MovedOn(b)
           x == Append(First, "role")
           y == Append(First, "content")
           a == Prepend(b)
<1>1. /\ DOMAIN f = {Pushed(p) : p \in DOMAIN b} /\ \A p \in DOMAIN b : f[Pushed(p)] = b[p]
    BY MovedOnIs
<1>2. HasPrompt(a, f, First, "role", "system", "content")
    <2>1. "role" \in Keys /\ "content" \in Keys /\ "role" # "content" /\ First \in Path
        BY FixedKeysAreKeys, FirstIs
    <2>2. HasPrompt(WithPrompt(f, First, "role", "system", "content"), f, First, "role", "system", "content")
        BY <2>1, WithPromptIs
    <2>3. a = WithPrompt(f, First, "role", "system", "content")
        BY DEF Prepend, MovedOn, First, MessageAt
    <2> QED BY <2>2, <2>3
<1> HIDE DEF a, f
<1>3. /\ DOMAIN a = DOMAIN f \cup {First, x, y}
      /\ a[First] = Node("object") /\ a[x] = Word("system") /\ a[y] = Prompt
      /\ \A q \in DOMAIN f : q \notin {First, x, y} => a[q] = f[q]
    BY <1>2 DEF HasPrompt
<1>4. \A p \in DOMAIN b : Pushed(p) # First /\ Pushed(p) # x /\ Pushed(p) # y
    <2>1. <<>> \in Path
        BY EmptyPath
    <2> QED BY <2>1, FirstIs, NobodyIsFirst
<1> HIDE DEF x, y
<1>5. \A q \in DOMAIN b : Pushed(q) \in DOMAIN a /\ a[Pushed(q)] = b[q]
    BY <1>1, <1>3, <1>4
<1>6. /\ \A q \in DOMAIN a : q \in {Pushed(p) : p \in DOMAIN b} \/ q \in {First, x, y}
      /\ First \in DOMAIN a /\ x \in DOMAIN a /\ y \in DOMAIN a
    BY <1>1, <1>3
<1>7. Prepended(b, a)
    BY <1>3, <1>5, <1>6 DEF Prepended, x, y
<1> QED BY <1>7 DEF a

-----------------------------------------------------------------------------
(* What is sent reveals nothing.  The request augmented and masked holds a *)
(* secret only where the masked body did: nowhere.                         *)

LEMMA MessageOrder ==
    ASSUME NEW i \in DOMAIN Indices, NEW j \in DOMAIN Indices, i < j
    PROVE  ReadBefore(MessageAt(i), MessageAt(j))
<1> DEFINE p == MessageAt(i)
           q == MessageAt(j)
<1>1. /\ p \in Path /\ Len(p) = 2 /\ p[1] = "messages" /\ p[2] = Index(i)
      /\ q \in Path /\ Len(q) = 2 /\ q[1] = "messages" /\ q[2] = Index(j)
    BY MessageAtIs, KeyOrderIs
<1>2. Rank(Index(i)) = i /\ Rank(Index(j)) = j
    BY RankOfIndex
<1> HIDE DEF p, q
<1>3. 2 \in DOMAIN p \cap DOMAIN q
    BY <1>1 DEF Path
<1>4. \A k \in 1..(2 - 1) : p[k] = q[k]
    BY <1>1
<1>5. Rank(p[2]) < Rank(q[2])
    BY <1>1, <1>2
<1>6. ReadBefore(p, q)
    BY <1>3, <1>4, <1>5 DEF ReadBefore
<1> QED BY <1>6 DEF p, q

LEMMA FirstMessage ==
    ASSUME NEW h, GoodHistory(h), NEW S \in SUBSET Items(Body(h), <<"messages">>), S # {}
    PROVE  \E m \in S : \A n \in S : m = n \/ ReadBefore(m, n)
<1> DEFINE T == {i \in DOMAIN h : MessageAt(i) \in S}
<1>1. \A m \in S : \E i \in T : m = MessageAt(i)
    <2>1. Items(Body(h), <<"messages">>) = {MessageAt(i) : i \in 1..Len(h)}
        BY BodyItems
    <2>2. DOMAIN h = 1..Len(h)
        BY HistoryIs
    <2> QED BY <2>1, <2>2
<1>2. T \subseteq Nat /\ \A i \in T : i \in DOMAIN Indices /\ MessageAt(i) \in S
    <2>1. DOMAIN h = 1..Len(h)
        BY HistoryIs
    <2>2. \A i \in DOMAIN h : i \in DOMAIN Indices
        BY PushedIs
    <2>3. T \subseteq DOMAIN h /\ \A i \in T : MessageAt(i) \in S
        OBVIOUS
    <2> HIDE DEF T
    <2> QED BY <2>1, <2>2, <2>3
<1> HIDE DEF T
<1>3. T # {}
    BY <1>1
<1>4. PICK i \in T : \A j \in T : i <= j
    BY <1>2, <1>3, LeastNat
<1>5. ASSUME NEW n \in S
      PROVE  MessageAt(i) = n \/ ReadBefore(MessageAt(i), n)
    <2>1. PICK j \in T : n = MessageAt(j)
        BY <1>1
    <2>2. i = j \/ i < j
        BY <1>2, <1>4
    <2> QED BY <1>2, <2>1, <2>2, MessageOrder
<1>6. MessageAt(i) \in S
    BY <1>2
<1> QED BY <1>5, <1>6

\* What InjectAugmentation makes of a body with the messages of h.
LEMMA InjectIs ==
    ASSUME NEW h, GoodHistory(h), NEW b, \A p : Items(b, p) = Items(Body(h), p)
    PROVE  /\ SystemMessages(b) = {} => InjectAugmentation(b) = Prepend(b)
           /\ SystemMessages(b) # {} =>
                \E m \in SystemMessages(b) : InjectAugmentation(b) = AppendPrompt(b, Append(m, "content"))
<1> DEFINE S == {m \in Items(b, <<"messages">>) : IsSystem(b, m)}
           First_(m) == \A n \in S : m = n \/ ReadBefore(m, n)
<1>1. S = SystemMessages(b)
    BY DEF SystemMessages, IsSystem
<1>2. S \subseteq Items(Body(h), <<"messages">>)
    OBVIOUS
<1>3. InjectAugmentation(b) = IF S = {} THEN Prepend(b)
                              ELSE AppendPrompt(b, Append(CHOOSE m \in S : First_(m), "content"))
    BY DEF InjectAugmentation
<1> HIDE DEF S
<1>4. S # {} => \E m \in S : First_(m)
    BY <1>2, FirstMessage
<1> HIDE DEF First_
<1>5. S # {} => (CHOOSE m \in S : First_(m)) \in S
    BY <1>4
<1> QED BY <1>1, <1>3, <1>5

LEMMA OpaquePushed ==
    ASSUME NEW h, GoodHistory(h), NEW p \in DOMAIN Body(h), Opaque(p)
    PROVE  Opaque(Pushed(p))
<1>1. ASSUME NEW i \in DOMAIN h, NEW r \in Path, p = Place(i, r), Pushed(p) = Place(i + 1, r)
      PROVE  Opaque(Pushed(p))
    <2>0. i \in 1..Len(Indices) /\ i + 1 \in 1..Len(Indices)
        BY PushedIs, KeyOrderIs
    <2>1. PICK j \in DOMAIN p : p[j] \in {"url", "enum"}
        BY DEF Opaque
    <2> DEFINE q == Place(i, r)
    <2>2. /\ q \in Path /\ Len(q) = Len(r) + 2 /\ Len(r) \in Nat /\ q[1] = "messages" /\ q[2] = Index(i)
          /\ \A n \in 1..Len(r) : q[n + 2] = r[n]
        BY <2>0, PlaceIs
    <2>3. Index(i) \in Numerals
        BY <2>0, MessageAtIs
    <2>4. Numerals \cap {"url", "enum"} = {}
        BY FixedKeysAreNoNumerals
    <2>5. p = q
        BY <1>1
    <2> HIDE DEF q
    <2>6. j \in 1..Len(q) /\ j # 1 /\ j # 2
        BY <2>1, <2>2, <2>3, <2>4, <2>5 DEF Path
    <2>7. j - 2 \in 1..Len(r) /\ (j - 2) + 2 = j
        BY <2>2, <2>6
    <2>8. r[j - 2] \in {"url", "enum"}
        BY <2>1, <2>2, <2>5, <2>7
    <2>9. Opaque(r)
        BY <2>7, <2>8 DEF Opaque, Path
    <2> QED BY <1>1, <2>0, <2>9, OpaquePlace
<1>2. \/ Pushed(p) = p
      \/ \E i \in DOMAIN h : \E r \in DOMAIN h[i] : r \in Path /\ p = Place(i, r) /\ Pushed(p) = Place(i + 1, r)
    BY PathOrigin
<1> QED BY <1>1, <1>2

\* A value in an augmented body stood in the body before.
LEMMA AugmentedReals ==
    ASSUME NEW h, GoodHistory(h), NEW b, IsTree(b, 1), DOMAIN b = DOMAIN Body(h),
           \A p : Items(b, p) = Items(Body(h), p),
           NEW v, NEW x \in DOMAIN Augmented(b, v), Augmented(b, v)[x].word = "real"
    PROVE  \E p \in DOMAIN b : b[p].word = "real" /\ (x = p \/ x = Pushed(p))
<1>0. \A c \in Path : \A y \in DOMAIN AppendPrompt(b, c) : AppendPrompt(b, c)[y].word = "real" =>
         y \in DOMAIN b /\ b[y].word = "real"
    <2> TAKE c \in Path
    <2>1. Appended(b, c, AppendPrompt(b, c))
        BY AppendPromptAppends
    <2> QED BY <2>1 DEF Appended
<1>1. CASE Augmented(b, v) = b
    BY <1>1
<1>2. CASE Augmented(b, v) = InjectAugmentationAnthropic(b)
    <2>1. <<"system">> \in Path
        BY FixedKeysAreKeys, Top
    <2>2. Augmented(b, v) = AppendPrompt(b, <<"system">>)
        BY <1>2 DEF InjectAugmentationAnthropic
    <2> QED BY <1>0, <2>1, <2>2
<1>3. CASE Augmented(b, v) = InjectAugmentation(b)
    <2>1. CASE SystemMessages(b) = {}
        <3>1. Augmented(b, v) = Prepend(b)
            BY <1>3, <2>1, InjectIs
        <3> DEFINE a == Prepend(b)
        <3>2. Prepended(b, a)
            BY PrependIs
        <3>3. x \in DOMAIN a /\ a[x].word = "real"
            BY <3>1
        <3> HIDE DEF a
        <3>4. Node("object").word = "" /\ Word("system").word = "system" /\ Prompt.word = ""
            BY DEF Node, Word, Prompt
        <3>5. x # First /\ x # Append(First, "role") /\ x # Append(First, "content")
            BY <3>2, <3>3, <3>4 DEF Prepended
        <3>6. PICK p \in DOMAIN b : x = Pushed(p)
            BY <3>2, <3>3, <3>5 DEF Prepended
        <3>7. a[x] = b[p]
            BY <3>2, <3>6 DEF Prepended
        <3> QED BY <3>3, <3>6, <3>7
    <2>2. CASE SystemMessages(b) # {}
        <3>1. PICK m \in SystemMessages(b) : InjectAugmentation(b) = AppendPrompt(b, Append(m, "content"))
            BY <2>2, InjectIs
        <3>2. m \in Path /\ "content" \in Keys
            BY TreePaths, FixedKeysAreKeys DEF SystemMessages, Items
        <3>3. Append(m, "content") \in Path
            BY <3>2, StepProps
        <3> QED BY <1>0, <1>3, <3>1, <3>3
    <2> QED BY <2>1, <2>2
<1> QED BY <1>1, <1>2, <1>3 DEF Augmented

\* A body whose walk is accepted leaves no value behind where text stands.
LEMMA MaskedReals ==
    ASSUME NEW h, GoodHistory(h), RequestVisit(Body(h)).ok, NEW v,
           NEW p \in DOMAIN Body(h), Masked(Body(h), RequestVisit(Body(h)).at, v)[p].word = "real"
    PROVE  Opaque(p)
<1> DEFINE b == Body(h)
           at == RequestVisit(Body(h)).at
           a == Masked(b, at, v)
<1>1. /\ p \in at /\ b[p].word = "real" => a[p] = Mark(v[b[p].of])
      /\ ~(p \in at /\ b[p].word = "real") => a[p] = b[p]
    BY MaskedIs
<1>2. \A k : Mark(k).word = "mark"
    BY DEF Mark
<1>3. b[p].word = "real" /\ p \notin at
    <2>1. a[p].word = "real"
        OBVIOUS
    <2> HIDE DEF a, b, at
    <2>2. ~(p \in at /\ b[p].word = "real")
        <3> SUFFICES ASSUME p \in at /\ b[p].word = "real" PROVE FALSE
            OBVIOUS
        <3>1. a[p] = Mark(v[b[p].of])
            BY <1>1
        <3>2. a[p].word = "mark"
            BY <1>2, <3>1
        <3> QED BY <2>1, <3>2
    <2> QED BY <1>1, <2>1, <2>2
<1>4. b[p].is = "string" /\ (p \in SaidIn(b) \/ Opaque(p))
    BY <1>3, RealsAreSaid
<1>5. p \in SaidIn(b) => p \in at
    <2>1. IsTree(Body(h), 1)
        BY BodyTree
    <2>2. schema \in Schemas
        BY DEF GoodHistory
    <2> QED BY <1>4, <2>1, <2>2, RequestCovered
<1> QED BY <1>3, <1>4, <1>5

\* Both together: what is sent holds values only where nobody reads them.
LEMMA ForwardedReals ==
    ASSUME NEW h, GoodHistory(h), RequestVisit(Body(h)).ok, NEW v,
           NEW x \in DOMAIN Augmented(Masked(Body(h), RequestVisit(Body(h)).at, v), v),
           Augmented(Masked(Body(h), RequestVisit(Body(h)).at, v), v)[x].word = "real"
    PROVE  Opaque(x)
<1> DEFINE b == Masked(Body(h), RequestVisit(Body(h)).at, v)
<1>1. IsTree(b, 1) /\ DOMAIN b = DOMAIN Body(h) /\ \A p : Items(b, p) = Items(Body(h), p)
    BY MaskedTree
<1>2. x \in DOMAIN Augmented(b, v) /\ Augmented(b, v)[x].word = "real"
    OBVIOUS
<1>3. \A p \in DOMAIN Body(h) : b[p].word = "real" => Opaque(p)
    BY MaskedReals
<1> HIDE DEF b
<1>4. PICK p \in DOMAIN b : b[p].word = "real" /\ (x = p \/ x = Pushed(p))
    BY <1>1, <1>2, AugmentedReals
<1> QED BY <1>1, <1>3, <1>4, OpaquePushed

-----------------------------------------------------------------------------
(* Roles.  A content that the walk accepts is not replaced when the prompt *)
(* is added, and masking and appending keep every role.                    *)

\* A content that is accepted has a shape that keeps its text when the prompt is
\* added to it.
Keepable(b, c) == c \in DOMAIN b => b[c].is \in {"string", "null", "array"}

LEMMA ContentKeepable ==
    ASSUME NEW b, NEW c, MaskContent(b, c).ok
    PROVE  Keepable(b, c)
<1> SUFFICES ASSUME c \in DOMAIN b, b[c].is \notin {"string", "null", "array"} PROVE FALSE
    BY DEF Keepable
<1>1. ~Is(b, c, {"string"}) /\ ~Is(b, c, {"null"}) /\ ~Is(b, c, {"array"})
    BY DEF Is
<1>2. MaskContent(b, c) = Refuse
    BY <1>1, Zenon DEF MaskContent, StringOrArray
<1> QED BY <1>2, VisitIs

LEMMA SystemKeepable ==
    ASSUME NEW b, NEW c, MaskAnthropicSystem(b, c).ok
    PROVE  Keepable(b, c)
<1> SUFFICES ASSUME c \in DOMAIN b, b[c].is \notin {"string", "null", "array"} PROVE FALSE
    BY DEF Keepable
<1>1. ~Is(b, c, {"string"}) /\ ~Is(b, c, {"null"}) /\ ~Is(b, c, {"array"})
    BY DEF Is
<1>2. MaskAnthropicSystem(b, c) = Refuse
    BY <1>1, Zenon DEF MaskAnthropicSystem, StringOrArray
<1> QED BY <1>2, VisitIs

LEMMA NothingLost ==
    ASSUME NEW b, IsTree(b, 1), NEW c \in Path, Len(c) >= 1, Keepable(b, c),
           NEW q \in DOMAIN b, b[q].is = "string", IsPrefix(c, q)
    PROVE  Is(b, c, {"string", "array"})
<1>1. c \in DOMAIN b
    BY AncestorOf
<1>2. CASE b[c].is = "null"
    <2>1. q \in Under(b, c)
        BY DEF Under
    <2>2. b[c].is \notin {"array", "object"}
        BY <1>2
    <2>3. q = c
        BY <1>1, <2>1, <2>2, LeavesAreLast
    <2> QED BY <1>2, <2>3
<1> QED BY <1>1, <1>2 DEF Keepable, Is

\* An accepted request can be told about placeholders without losing text.
LEMMA RequestKeepable ==
    ASSUME NEW b, RequestVisit(b).ok
    PROVE  /\ schema = "OpenAi" => \A m \in Items(b, <<"messages">>) : Keepable(b, Append(m, "content"))
           /\ schema # "OpenAi" => Keepable(b, <<"system">>)
<1>1. ASSUME schema = "OpenAi", NEW m \in Items(b, <<"messages">>)
      PROVE  Keepable(b, Append(m, "content"))
    <2> DEFINE W == {Visit(TransformStringValue(b, Append(Append(t, "function"), "description"))
                         \cup MaskSchemaDescriptions(b, Append(Append(t, "function"), "parameters"))) :
                     t \in Items(b, <<"tools">>)}
               V == {MaskMessage(b, x) : x \in Items(b, <<"messages">>)} \cup W
               A == MaskContent(b, Append(m, "content"))
               U == {A, Visit(TransformStringValue(b, Append(m, "name"))),
                     Visit(TransformToolCallArgs(b, m)),
                     Visit(TransformStringValue(b, Append(Append(m, "function_call"), "arguments")))}
    <2>1. MaskRequest(b).ok
        BY <1>1 DEF RequestVisit
    <2>2. MaskMessage(b, m) = AllOf(U) /\ A \in U
        BY DEF MaskMessage
    <2>3. MaskMessage(b, m) \in V
        OBVIOUS
    <2>4. MaskRequest(b) = IF ~Is(b, <<"messages">>, {"array"}) THEN Refuse ELSE AllOf(V)
        BY DEF MaskRequest
    <2> HIDE DEF W, V, U
    <2>5. AllOf(V).ok
        BY <2>1, <2>4, VisitIs
    <2>6. MaskMessage(b, m).ok
        BY <2>3, <2>5, AllOfAt
    <2>7. A.ok
        <3> HIDE DEF A
        <3>1. AllOf(U).ok => A.ok
            BY <2>2, AllOfAt
        <3> QED BY <2>2, <2>6, <3>1
    <2> QED BY <2>7, ContentKeepable
<1>2. ASSUME schema # "OpenAi"
      PROVE  Keepable(b, <<"system">>)
    <2> DEFINE A == MaskAnthropicSystem(b, <<"system">>)
               V == {A} \cup {MaskAnthropicContent(b, Append(m, "content")) : m \in Items(b, <<"messages">>)}
                    \cup {Visit(TransformStringValue(b, Append(t, "description"))
                                \cup MaskSchemaDescriptions(b, Append(t, "input_schema"))) :
                          t \in Items(b, <<"tools">>)}
    <2>1. MaskAnthropicRequest(b).ok
        BY <1>2 DEF RequestVisit
    <2>2. MaskAnthropicRequest(b) = IF ~Is(b, <<"messages">>, {"array"}) THEN Refuse ELSE AllOf(V)
        BY DEF MaskAnthropicRequest
    <2>3. A \in V
        OBVIOUS
    <2> HIDE DEF V
    <2>4. AllOf(V).ok
        BY <2>1, <2>2, VisitIs
    <2>5. A.ok
        <3> HIDE DEF A
        <3> QED BY <2>3, <2>4, AllOfAt
    <2> QED BY <2>5, SystemKeepable
<1> QED BY <1>1, <1>2

\* Where the system messages are known the prompt is known.
LEMMA SameRoles ==
    ASSUME NEW a, NEW b, Items(a, <<"messages">>) = Items(b, <<"messages">>),
           \A m \in Items(b, <<"messages">>) :
             StringOf(a, Append(m, "role")) \in {"system", "developer"}
               <=> StringOf(b, Append(m, "role")) \in {"system", "developer"}
    PROVE  SystemMessages(a) = SystemMessages(b)
BY DEF SystemMessages

LEMMA MaskedRoles ==
    ASSUME NEW h, GoodHistory(h), NEW at, NEW v
    PROVE  SystemMessages(Masked(Body(h), at, v)) = SystemMessages(Body(h))
<1> DEFINE b == Body(h)
           a == Masked(b, at, v)
<1>1. DOMAIN a = DOMAIN b /\ (\A p : Items(a, p) = Items(b, p))
    BY MaskedTree
<1>1a. \A p : Is(a, p, {"string"}) <=> Is(b, p, {"string"})
    BY MaskedTree
<1>2. \A p \in DOMAIN b : \/ a[p] = b[p]
                          \/ b[p].word = "real" /\ a[p] = Mark(v[b[p].of])
    BY MaskedIs
<1>3. \A k : Mark(k).word = "mark"
    BY DEF Mark
<1> HIDE DEF a, b
<1>4. \A p : StringOf(a, p) \in {"system", "developer"} <=> StringOf(b, p) \in {"system", "developer"}
    <2> TAKE p
    <2>1. CASE Is(b, p, {"string"})
        <3>1. p \in DOMAIN b /\ StringOf(a, p) = a[p].word /\ StringOf(b, p) = b[p].word
            BY <1>1a, <2>1 DEF StringOf, Is
        <3>2. a[p] = b[p] \/ (b[p].word = "real" /\ a[p].word = "mark")
            BY <1>2, <1>3, <3>1
        <3> QED BY <3>1, <3>2
    <2>2. CASE ~Is(b, p, {"string"})
        BY <1>1a, <2>2 DEF StringOf
    <2> QED BY <2>1, <2>2
<1>5. SystemMessages(a) = SystemMessages(b)
    BY <1>1, <1>4, SameRoles
<1> QED BY <1>5 DEF a, b

\* Adding the prompt to the text at c leaves the roles alone.
LEMMA AppendedRoles ==
    ASSUME NEW b, IsTree(b, 1), NEW c \in Path, NEW a, Appended(b, c, a),
           \/ c = <<"system">>
           \/ \E m \in Items(b, <<"messages">>) : c = Append(m, "content")
    PROVE  SystemMessages(a) = SystemMessages(b)
<1> DEFINE M == <<"messages">>
           S == <<"system">>
<1>0. /\ "messages" \in Keys /\ "system" \in Keys /\ "content" \in Keys /\ "role" \in Keys
      /\ "messages" # "system" /\ "content" # "role"
    BY FixedKeysAreKeys
<1>1. M \in Path /\ Len(M) = 1 /\ M[1] = "messages" /\ S \in Path /\ Len(S) = 1 /\ S[1] = "system"
    BY <1>0, Top
<1>2. \A q \in Path : ~IsPrefix(c, q) => /\ q \in DOMAIN a <=> q \in DOMAIN b
                                         /\ q \in DOMAIN b => a[q] = b[q]
    BY DEF Appended
<1>3. (c = S \/ \E m \in Items(b, M) : c = Append(m, "content"))
    OBVIOUS
<1>4. DOMAIN b \subseteq Path /\ DOMAIN a \subseteq Path
    BY TreePaths DEF Appended
<1> HIDE DEF M, S
<1>5. ASSUME NEW k \in Keys
      PROVE  /\ Append(M, k) \in Path /\ Append(Append(M, k), "role") \in Path
             /\ ~IsPrefix(c, M) /\ ~IsPrefix(c, Append(M, k)) /\ ~IsPrefix(c, Append(Append(M, k), "role"))
    <2>1. /\ Append(M, k) \in Path /\ Len(Append(M, k)) = 2
          /\ (Append(M, k))[1] = "messages"
        <3>1. Append(M, k) \in Path /\ Len(Append(M, k)) = Len(M) + 1 /\ \A i \in 1..Len(M) : Append(M, k)[i] = M[i]
            BY <1>1, StepProps
        <3> QED BY <1>1, <3>1
    <2> DEFINE m == Append(M, k)
               r == Append(m, "role")
    <2>2. m \in Path /\ Len(m) = 2 /\ m[1] = "messages"
        BY <2>1
    <2> HIDE DEF m
    <2>3. r \in Path /\ Len(r) = 3 /\ r[1] = "messages" /\ r[3] = "role"
        <3>1. /\ Append(m, "role") \in Path /\ Len(Append(m, "role")) = Len(m) + 1 /\ Append(m, "role")[Len(m) + 1] = "role"
              /\ \A i \in 1..Len(m) : Append(m, "role")[i] = m[i]
            BY <1>0, <2>2, StepProps
        <3> QED BY <2>2, <3>1
    <2> HIDE DEF r
    <2>4. CASE c = S
        <3>1. Len(c) = 1 /\ c[1] = "system"
            BY <1>1, <2>4
        <3>2. c[1] # M[1] /\ c[1] # m[1] /\ c[1] # r[1]
            BY <1>0, <1>1, <2>2, <2>3, <3>1
        <3>3. \A q \in Path : IsPrefix(c, q) => c[1] = q[1]
            BY <3>1, PrefixIs
        <3> QED BY <1>1, <2>2, <2>3, <3>2, <3>3 DEF m, r
    <2>5. ASSUME NEW n \in Items(b, M), c = Append(n, "content")
          PROVE  ~IsPrefix(c, M) /\ ~IsPrefix(c, m) /\ ~IsPrefix(c, r)
        <3>1. n \in Path /\ Len(n) = 2
            BY <1>1, <1>4 DEF Items
        <3>2. Len(c) = 3 /\ c[3] = "content"
            <4>1. Len(Append(n, "content")) = Len(n) + 1 /\ Append(n, "content")[Len(n) + 1] = "content"
                BY <1>0, <3>1, StepProps
            <4> QED BY <3>1, <4>1, <2>5
        <3>3. \A q \in Path : IsPrefix(c, q) => 3 <= Len(q) /\ c[3] = q[3]
            <4> TAKE q \in Path
            <4> HAVE IsPrefix(c, q)
            <4>1. Len(c) <= Len(q) /\ \A i \in 1..Len(c) : c[i] = q[i]
                BY PrefixIs
            <4>2. 3 \in 1..Len(c)
                BY <3>2
            <4> QED BY <3>2, <4>1, <4>2
        <3> QED BY <1>0, <1>1, <2>2, <2>3, <3>2, <3>3
    <2> QED BY <1>3, <2>2, <2>3, <2>4, <2>5 DEF m, r
<1>6. ~IsPrefix(c, M)
    BY <1>0, <1>5
<1>7. Is(a, M, {"array"}) <=> Is(b, M, {"array"})
    BY <1>1, <1>2, <1>6 DEF Is
<1>8. \A q : q \in Items(a, M) <=> q \in Items(b, M)
    <2> TAKE q
    <2>1. q \in Items(a, M) <=> q \in DOMAIN a /\ Is(a, M, {"array"}) /\ \E k \in Keys : q = Append(M, k)
        BY <1>1, <1>4, ItemsAre
    <2>2. q \in Items(b, M) <=> q \in DOMAIN b /\ Is(b, M, {"array"}) /\ \E k \in Keys : q = Append(M, k)
        BY <1>1, <1>4, ItemsAre
    <2>3. \A k \in Keys : Append(M, k) \in DOMAIN a <=> Append(M, k) \in DOMAIN b
        BY <1>2, <1>5
    <2> QED BY <1>7, <2>1, <2>2, <2>3
<1>9. Items(a, M) = Items(b, M)
    BY <1>8
<1>10. ASSUME NEW m \in Items(b, M)
       PROVE  StringOf(a, Append(m, "role")) = StringOf(b, Append(m, "role"))
    <2>1. PICK k \in Keys : m = Append(M, k)
        BY <1>1, <1>4, ItemsAre
    <2>2. Append(m, "role") \in Path /\ ~IsPrefix(c, Append(m, "role"))
        BY <1>5, <2>1
    <2> DEFINE r == Append(m, "role")
    <2> HIDE DEF r
    <2>3. r \in Path /\ ~IsPrefix(c, r)
        BY <2>2 DEF r
    <2>4. StringOf(a, r) = StringOf(b, r)
        BY <1>2, <2>3 DEF StringOf, Is
    <2> QED BY <2>4 DEF r
<1>11. SystemMessages(a) = SystemMessages(b)
    BY <1>9, <1>10, SameRoles DEF M
<1> QED BY <1>11

-----------------------------------------------------------------------------
(* Roles after a message was put first.  The message put first is the one  *)
(* new system message.                                                     *)

LEMMA EmptyTail ==
    ASSUME NEW r \in Path, Len(r) + 2 = 2
    PROVE  r = <<>>
<1>1. Len(r) \in Nat
    BY DEF Path
<1>2. ~(Len(r) >= 1)
    BY <1>1
<1> QED BY <1>1, <1>2 DEF Path

\* Behind the new message stand the old ones.
LEMMA MovedFrom ==
    ASSUME NEW h, GoodHistory(h), NEW b, DOMAIN b = DOMAIN Body(h), NEW a, Prepended(b, a),
           NEW i \in DOMAIN h, NEW r \in Path, Place(i + 1, r) \in DOMAIN a
    PROVE  Place(i, r) \in DOMAIN b /\ a[Place(i + 1, r)] = b[Place(i, r)]
<1> DEFINE x == Place(i + 1, r)
<1>0. i \in DOMAIN Indices /\ i + 1 \in DOMAIN Indices /\ i + 1 # 1 /\ i \in Nat
    <2>1. i \in DOMAIN Indices /\ i + 1 \in DOMAIN Indices /\ i + 1 # 1
        BY PushedIs
    <2>2. DOMAIN Indices = 1..Len(Indices)
        BY KeyOrderIs
    <2> QED BY <2>1, <2>2
<1>1. x # First /\ x # Append(First, "role") /\ x # Append(First, "content")
    <2>1. <<>> \in Path
        BY EmptyPath
    <2>2. /\ 1 \in DOMAIN Indices /\ First = Place(1, <<>>)
          /\ Append(First, "role") = Place(1, <<"role">>) /\ Append(First, "content") = Place(1, <<"content">>)
          /\ <<"role">> \in Path /\ <<"content">> \in Path
        BY FirstIs
    <2>3. \A t \in Path : x # Place(1, t)
        BY <1>0, <2>2, PlacesUnique
    <2> HIDE DEF x
    <2> QED BY <2>1, <2>2, <2>3
<1>2. PICK p \in DOMAIN b : x = Pushed(p)
    BY <1>1 DEF Prepended
<1>3. a[x] = b[p]
    BY <1>2 DEF Prepended
<1>4. \/ p \in DOMAIN opening /\ Pushed(p) = p
      \/ p = <<"messages">> /\ Pushed(p) = p
      \/ \E j \in DOMAIN h : \E t \in DOMAIN h[j] : t \in Path /\ p = Place(j, t) /\ Pushed(p) = Place(j + 1, t)
    BY <1>2, PathOrigin
<1>5. ~(p \in DOMAIN opening /\ Pushed(p) = p)
    <2>1. i + 1 \in 1..Len(Indices)
        BY <1>0, KeyOrderIs
    <2> QED BY <1>2, <2>1, OpeningIs
<1>6. ~(p = <<"messages">> /\ Pushed(p) = p)
    BY <1>0, <1>2, PlaceIsNotMessages
<1>7. ASSUME NEW j \in DOMAIN h, NEW t \in Path, p = Place(j, t), Pushed(p) = Place(j + 1, t)
      PROVE  p = Place(i, r)
    <2>1. j + 1 \in DOMAIN Indices /\ j \in Nat
        <3>1. j \in DOMAIN Indices /\ j + 1 \in DOMAIN Indices
            BY PushedIs
        <3>2. DOMAIN Indices = 1..Len(Indices)
            BY KeyOrderIs
        <3> QED BY <3>1, <3>2
    <2>2. i + 1 = j + 1 /\ r = t
        BY <1>0, <1>2, <1>7, <2>1, PlacesUnique
    <2>3. i = j
        BY <1>0, <2>1, <2>2
    <2> QED BY <1>7, <2>2, <2>3
<1> QED BY <1>3, <1>4, <1>5, <1>6, <1>7

LEMMA PrependedPaths ==
    ASSUME NEW h, GoodHistory(h), NEW b, DOMAIN b = DOMAIN Body(h), NEW a, Prepended(b, a)
    PROVE  DOMAIN a \subseteq Path
<1>1. ASSUME NEW p \in DOMAIN b PROVE Pushed(p) \in Path
    <2>1. \/ p \in DOMAIN opening /\ Pushed(p) = p
          \/ p = <<"messages">> /\ Pushed(p) = p
          \/ \E j \in DOMAIN h : \E t \in DOMAIN h[j] : t \in Path /\ p = Place(j, t) /\ Pushed(p) = Place(j + 1, t)
        BY PathOrigin
    <2>2. \A j \in DOMAIN h : j + 1 \in 1..Len(Indices)
        BY PushedIs, KeyOrderIs
    <2>3. p \in Path
        BY BodyPaths
    <2>4. \A j \in 1..Len(Indices) : \A t \in Path : Place(j, t) \in Path
        BY PlaceIs
    <2> QED BY <2>1, <2>2, <2>3, <2>4
<1>2. First \in Path /\ Append(First, "role") \in Path /\ Append(First, "content") \in Path
    <2>1. 1 \in 1..Len(Indices)
        BY FirstIs, KeyOrderIs
    <2> QED BY <2>1, FirstIs, PlaceIs
<1> QED BY <1>1, <1>2 DEF Prepended

\* The new message is the only system message if there was none.
LEMMA PrependedRoles ==
    ASSUME NEW h, GoodHistory(h), NEW b, DOMAIN b = DOMAIN Body(h), Is(b, <<"messages">>, {"array"}),
           \A p : Items(b, p) = Items(Body(h), p), SystemMessages(b) = {},
           NEW a, Prepended(b, a)
    PROVE  SystemMessages(a) = {First}
<1> DEFINE M == <<"messages">>
<1>0. /\ "messages" \in Keys /\ "role" \in Keys
      /\ M \in Path /\ Len(M) = 1 /\ M[1] = "messages" /\ Pushed(M) = M
    BY FixedKeysAreKeys, Top, PushedIs
<1>1. 1 \in 1..Len(Indices) /\ 1 \in DOMAIN Indices
    BY FirstIs, KeyOrderIs
<1>2. Is(a, M, {"array"})
    <2>1. M \in DOMAIN b /\ b[M].is = "array"
        BY DEF Is
    <2>2. M \in DOMAIN a /\ a[M] = b[M]
        BY <1>0, <2>1 DEF Prepended
    <2> QED BY <2>1, <2>2 DEF Is
<1>3. DOMAIN a \subseteq Path
    BY PrependedPaths
<1>4. First = Append(M, Index(1)) /\ Index(1) \in Keys
    BY <1>1, MessageAtIs DEF First
<1>5. \A m : m \in SystemMessages(a) <=> m \in Items(a, M) /\ StringOf(a, Append(m, "role")) \in {"system", "developer"}
    BY DEF SystemMessages
<1>6. \A m : m \in Items(b, M) => StringOf(b, Append(m, "role")) \notin {"system", "developer"}
    BY DEF SystemMessages
<1>7. Items(b, M) = {MessageAt(i) : i \in 1..Len(h)} /\ DOMAIN h = 1..Len(h)
    BY BodyItems, HistoryIs
<1>8. \A p \in DOMAIN opening : p[1] # "messages"
    BY OpeningIs
<1> HIDE DEF M
<1>9. First \in SystemMessages(a)
    <2>1. First \in Items(a, M)
        <3>1. First \in DOMAIN a
            BY DEF Prepended
        <3> QED BY <1>0, <1>2, <1>3, <1>4, <3>1, ItemsAre
    <2> DEFINE r == Append(First, "role")
    <2>2. r \in DOMAIN a /\ a[r] = Word("system")
        BY DEF Prepended
    <2>3. Word("system").is = "string" /\ Word("system").word = "system"
        BY DEF Word
    <2> HIDE DEF r
    <2>4. a[r].is = "string" /\ a[r].word = "system"
        BY <2>2, <2>3, Zenon
    <2>5. StringOf(a, r) = "system"
        BY <2>2, <2>4 DEF StringOf, Is
    <2> QED BY <1>5, <2>1, <2>5 DEF r
<1>10. ASSUME NEW m \in SystemMessages(a), m # First
       PROVE  FALSE
    <2>1. m \in Items(a, M) /\ StringOf(a, Append(m, "role")) \in {"system", "developer"}
        BY <1>5
    <2>2. PICK k \in Keys : m \in DOMAIN a /\ m = Append(M, k)
        BY <1>0, <1>3, <2>1, ItemsAre
    <2>3. m \in Path /\ Len(m) = 2 /\ m[1] = "messages"
        <3>1. Append(M, k) \in Path /\ Len(Append(M, k)) = Len(M) + 1 /\ \A i \in 1..Len(M) : Append(M, k)[i] = M[i]
            BY <1>0, StepProps
        <3> QED BY <1>0, <2>2, <3>1
    <2>4. m # Append(First, "role") /\ m # Append(First, "content")
        <3>1. Len(First) = 2 /\ First \in Path /\ "content" \in Keys
            BY <1>1, MessageAtIs, FixedKeysAreKeys DEF First
        <3>2. Append(First, "role") \in Path /\ Len(Append(First, "role")) = Len(First) + 1
            BY <1>0, <3>1, StepProps
        <3>3. Append(First, "content") \in Path /\ Len(Append(First, "content")) = Len(First) + 1
            BY <3>1, StepProps
        <3> QED BY <2>3, <3>1, <3>2, <3>3
    <2>5. PICK p \in DOMAIN b : m = Pushed(p)
        BY <1>10, <2>2, <2>4 DEF Prepended
    <2>6. \/ p \in DOMAIN opening /\ Pushed(p) = p
          \/ p = M /\ Pushed(p) = p
          \/ \E j \in DOMAIN h : \E t \in DOMAIN h[j] : t \in Path /\ p = Place(j, t) /\ Pushed(p) = Place(j + 1, t)
        BY <2>5, PathOrigin DEF M
    <2>7. PICK j \in DOMAIN h : \E t \in DOMAIN h[j] : t \in Path /\ p = Place(j, t) /\ Pushed(p) = Place(j + 1, t)
        BY <1>0, <1>8, <2>3, <2>5, <2>6
    <2>8. PICK t \in Path : p = Place(j, t) /\ Pushed(p) = Place(j + 1, t)
        BY <2>7
    <2>9. j \in DOMAIN Indices /\ j + 1 \in DOMAIN Indices /\ j \in 1..Len(Indices) /\ j + 1 \in 1..Len(Indices)
        BY PushedIs, KeyOrderIs
    <2>10. t = <<>>
        <3>1. Len(Place(j + 1, t)) = Len(t) + 2 /\ Len(t) \in Nat
            BY <2>9, PlaceIs
        <3>2. Len(Place(j + 1, t)) = 2
            BY <2>3, <2>5, <2>8
        <3> QED BY <3>1, <3>2, EmptyTail
    <2>11. <<"role">> \in Path /\ <<>> \in Path /\ Append(<<>>, "role") = <<"role">>
        BY <1>0, Top, EmptyPath
    <2>12. Append(m, "role") = Place(j + 1, <<"role">>) /\ Append(p, "role") = Place(j, <<"role">>)
        <3>1. Append(Place(j + 1, <<>>), "role") = Place(j + 1, Append(<<>>, "role"))
            BY <1>0, <2>9, <2>11, PlaceAppend
        <3>2. Append(Place(j, <<>>), "role") = Place(j, Append(<<>>, "role"))
            BY <1>0, <2>9, <2>11, PlaceAppend
        <3> QED BY <2>5, <2>8, <2>10, <2>11, <3>1, <3>2
    <2> DEFINE x == Append(m, "role")
               y == Append(p, "role")
    <2>13. StringOf(a, x) \in {"system", "developer"}
        BY <2>1
    <2>14. x \in DOMAIN a => y \in DOMAIN b /\ a[x] = b[y]
        <3>1. Place(j + 1, <<"role">>) \in DOMAIN a =>
                /\ Place(j, <<"role">>) \in DOMAIN b
                /\ a[Place(j + 1, <<"role">>)] = b[Place(j, <<"role">>)]
            BY <2>11, MovedFrom
        <3> QED BY <2>12, <3>1
    <2> HIDE DEF x, y
    <2>15. StringOf(b, y) \in {"system", "developer"}
        BY <2>13, <2>14 DEF StringOf, Is
    <2>16. p \in Items(b, M)
        <3>1. p = MessageAt(j)
            BY <2>8, <2>9, <2>10, PlaceIs
        <3> QED BY <1>7, <3>1
    <2> QED BY <1>6, <2>15, <2>16 DEF y
<1> QED BY <1>9, <1>10

-----------------------------------------------------------------------------
(* The prompt is given once.  The prompt ends up in one string of the      *)
(* system part, and no other text changes.                                 *)

\* The prompt gets a message of its own.
OwnMessage(b, v) == schema = "OpenAi" /\ DOMAIN v # {} /\ SystemMessages(b) = {}

\* The prompt is added to a text that is there.
AddedTo(b, c, a) ==
  /\ c \in Path /\ Len(c) >= 1 /\ Appended(b, c, a)
  /\ c = <<"system">> \/ \E m \in Items(b, <<"messages">>) : c = Append(m, "content")

\* The three ways to tell: not at all, in a message of its own, in a text that
\* is there.
LEMMA AugmentedIs ==
    ASSUME NEW h, GoodHistory(h), RequestVisit(Body(h)).ok, NEW b, IsTree(b, 1), DOMAIN b = DOMAIN Body(h),
           \A p : Items(b, p) = Items(Body(h), p), SystemMessages(b) = SystemMessages(Body(h)), NEW v
    PROVE  \/ DOMAIN v = {} /\ ~OwnMessage(Body(h), v) /\ Augmented(b, v) = b
           \/ DOMAIN v # {} /\ OwnMessage(Body(h), v) /\ Prepended(b, Augmented(b, v))
           \/ /\ DOMAIN v # {} /\ ~OwnMessage(Body(h), v)
              /\ \E c \in Path : AddedTo(b, c, Augmented(b, v)) /\ Keepable(Body(h), c)
<1>1. CASE DOMAIN v = {}
    BY <1>1 DEF OwnMessage, Augmented
<1>2. CASE DOMAIN v # {} /\ schema # "OpenAi"
    <2>1. Augmented(b, v) = AppendPrompt(b, <<"system">>)
        BY <1>2 DEF Augmented, InjectAugmentationAnthropic
    <2>2. <<"system">> \in Path /\ Len(<<"system">>) = 1
        BY FixedKeysAreKeys, Top
    <2>3. Appended(b, <<"system">>, AppendPrompt(b, <<"system">>))
        BY <2>2, AppendPromptAppends
    <2>4. Keepable(Body(h), <<"system">>)
        BY <1>2, RequestKeepable
    <2>5. ~OwnMessage(Body(h), v)
        BY <1>2 DEF OwnMessage
    <2> DEFINE c == <<"system">>
               a == AppendPrompt(b, c)
    <2>6. c \in Path /\ Len(c) >= 1 /\ Appended(b, c, a) /\ Keepable(Body(h), c) /\ Augmented(b, v) = a
        BY <2>1, <2>2, <2>3, <2>4
    <2>7. c = <<"system">>
        OBVIOUS
    <2> HIDE DEF c, a
    <2>8. AddedTo(b, c, a)
        BY <2>6, <2>7 DEF AddedTo
    <2> QED BY <1>2, <2>5, <2>6, <2>8
<1>3. CASE DOMAIN v # {} /\ schema = "OpenAi" /\ SystemMessages(b) = {}
    <2>1. Augmented(b, v) = Prepend(b)
        BY <1>3, InjectIs DEF Augmented
    <2>2. Prepended(b, Prepend(b))
        BY PrependIs
    <2> QED BY <1>3, <2>1, <2>2 DEF OwnMessage
<1>4. CASE DOMAIN v # {} /\ schema = "OpenAi" /\ SystemMessages(b) # {}
    <2>1. PICK m \in SystemMessages(b) : InjectAugmentation(b) = AppendPrompt(b, Append(m, "content"))
        BY <1>4, InjectIs
    <2>2. m \in Items(b, <<"messages">>) /\ m \in Items(Body(h), <<"messages">>)
        BY DEF SystemMessages
    <2>3. m \in Path /\ "content" \in Keys
        BY <2>2, TreePaths, FixedKeysAreKeys DEF Items
    <2> DEFINE c == Append(m, "content")
               a == AppendPrompt(b, c)
    <2>4. c \in Path /\ Len(c) >= 1
        <3>1. Append(m, "content") \in Path /\ Len(m) \in Nat /\ Len(Append(m, "content")) = Len(m) + 1
            BY <2>3, StepProps
        <3> QED BY <3>1
    <2>5. Appended(b, c, a)
        BY <2>4, AppendPromptAppends
    <2>6. Keepable(Body(h), c)
        BY <1>4, <2>2, RequestKeepable
    <2>7. Augmented(b, v) = a
        BY <1>4, <2>1 DEF Augmented
    <2>8. \E x \in Items(b, <<"messages">>) : c = Append(x, "content")
        BY <2>2
    <2> HIDE DEF c, a
    <2>9. AddedTo(b, c, a)
        BY <2>4, <2>5, <2>8 DEF AddedTo
    <2>10. ~OwnMessage(Body(h), v)
        BY <1>4 DEF OwnMessage
    <2> QED BY <1>4, <2>4, <2>6, <2>7, <2>9, <2>10
<1> QED BY <1>1, <1>2, <1>3, <1>4

LEMMA OneOf ==
    ASSUME NEW S, NEW x, S = {x}
    PROVE  Cardinality(S) = 1
BY FS_Singleton

\* The provider is told once.
LEMMA PromptsIn ==
    ASSUME NEW h, GoodHistory(h), RequestVisit(Body(h)).ok, NEW b, IsTree(b, 1), DOMAIN b = DOMAIN Body(h),
           \A p : Items(b, p) = Items(Body(h), p), SystemMessages(b) = SystemMessages(Body(h)), NEW v
    PROVE  LET a == Augmented(b, v) IN
           Cardinality({p \in DOMAIN a : a[p].prompt}) = IF DOMAIN v = {} THEN 0 ELSE 1
<1> DEFINE a == Augmented(b, v)
           S == {p \in DOMAIN a : a[p].prompt}
<1>0. \A p \in DOMAIN b : b[p].prompt = FALSE
    BY NodesAre
<1>1. CASE DOMAIN v = {} /\ a = b
    <2>1. S = {}
        BY <1>0, <1>1
    <2> HIDE DEF S
    <2>2. Cardinality(S) = 0
        BY <2>1, FS_EmptySet
    <2> QED BY <1>1, <2>2 DEF S
<1>2. ASSUME DOMAIN v # {}, \E x : S = {x}
      PROVE  Cardinality(S) = IF DOMAIN v = {} THEN 0 ELSE 1
    <2> HIDE DEF S
    <2>1. Cardinality(S) = 1
        BY <1>2, OneOf
    <2> QED BY <1>2, <2>1
<1>3. CASE DOMAIN v # {} /\ Prepended(b, a)
    <2> DEFINE x == Append(First, "content")
               y == Append(First, "role")
    <2>1. /\ \A q \in DOMAIN b : Pushed(q) \in DOMAIN a /\ a[Pushed(q)] = b[q]
          /\ \A q \in DOMAIN a : q \in {Pushed(p) : p \in DOMAIN b} \/ q \in {First, y, x}
          /\ First \in DOMAIN a /\ a[First] = Node("object")
          /\ y \in DOMAIN a /\ a[y] = Word("system")
          /\ x \in DOMAIN a /\ a[x] = Prompt
        BY <1>3 DEF Prepended
    <2>2. Node("object").prompt = FALSE /\ Word("system").prompt = FALSE /\ Prompt.prompt = TRUE
        BY DEF Node, Word, Prompt
    <2> HIDE DEF x, y, a, S
    <2>3. a[First].prompt = FALSE /\ a[y].prompt = FALSE /\ a[x].prompt = TRUE
        BY <2>1, <2>2, Zenon
    <2>4. \A q \in DOMAIN a : a[q].prompt => q = x
        BY <1>0, <2>1, <2>3
    <2>5. S = {x}
        BY <2>1, <2>3, <2>4 DEF S
    <2> QED BY <1>2, <1>3, <2>5 DEF S, a
<1>4. ASSUME DOMAIN v # {}, NEW c \in Path, AddedTo(b, c, a)
      PROVE  Cardinality(S) = IF DOMAIN v = {} THEN 0 ELSE 1
    <2>1. \E x \in DOMAIN a : a[x].prompt /\ \A q \in DOMAIN a : a[q].prompt => q = x
        BY <1>4 DEF AddedTo, Appended
    <2> HIDE DEF a
    <2>2. \E x : S = {x}
        BY <2>1
    <2> QED BY <1>2, <1>4, <2>2
<1> QED BY <1>1, <1>3, <1>4, AugmentedIs

\* There is one system message more if and only if the client had none.
LEMMA RolesIn ==
    ASSUME NEW h, GoodHistory(h), RequestVisit(Body(h)).ok, NEW b, IsTree(b, 1), DOMAIN b = DOMAIN Body(h),
           \A p : Items(b, p) = Items(Body(h), p), SystemMessages(b) = SystemMessages(Body(h)), NEW v,
           Is(b, <<"messages">>, {"array"})
    PROVE  Cardinality(SystemMessages(Augmented(b, v))) =
             IF OwnMessage(Body(h), v) THEN 1 ELSE Cardinality(SystemMessages(Body(h)))
<1> DEFINE a == Augmented(b, v)
<1>1. CASE ~OwnMessage(Body(h), v) /\ a = b
    BY <1>1
<1>2. CASE OwnMessage(Body(h), v) /\ Prepended(b, a)
    <2>1. SystemMessages(b) = {}
        BY <1>2 DEF OwnMessage
    <2> HIDE DEF a
    <2>2. SystemMessages(a) = {First}
        BY <1>2, <2>1, PrependedRoles
    <2>3. Cardinality(SystemMessages(a)) = 1
        BY <2>2, OneOf
    <2> QED BY <1>2, <2>3 DEF a
<1>3. ASSUME ~OwnMessage(Body(h), v), NEW c \in Path, AddedTo(b, c, a)
      PROVE  SystemMessages(a) = SystemMessages(b)
    <2> HIDE DEF a
    <2> QED BY <1>3, AppendedRoles DEF AddedTo
<1> QED BY <1>1, <1>2, <1>3, AugmentedIs

\* Nothing of the conversation is lost.
LEMMA TextKept ==
    ASSUME NEW h, GoodHistory(h), RequestVisit(Body(h)).ok, NEW b, IsTree(b, 1), DOMAIN b = DOMAIN Body(h),
           \A p : Items(b, p) = Items(Body(h), p), SystemMessages(b) = SystemMessages(Body(h)), NEW v,
           \A p : \A kinds : Is(b, p, kinds) <=> Is(Body(h), p, kinds),
           NEW p \in DOMAIN Body(h), Body(h)[p].is = "string"
    PROVE  LET q == IF OwnMessage(Body(h), v) THEN Pushed(p) ELSE p
           IN  q \in DOMAIN Augmented(b, v) /\ Augmented(b, v)[q].word = b[p].word
<1> DEFINE a == Augmented(b, v)
<1>1. CASE ~OwnMessage(Body(h), v) /\ a = b
    BY <1>1
<1>2. CASE OwnMessage(Body(h), v) /\ Prepended(b, a)
    BY <1>2 DEF Prepended
<1>3. ASSUME ~OwnMessage(Body(h), v), NEW c \in Path, AddedTo(b, c, a), Keepable(Body(h), c)
      PROVE  p \in DOMAIN a /\ a[p].word = b[p].word
    <2>1. IsPrefix(c, p) => Is(b, c, {"string", "array"})
        <3>1. IsTree(Body(h), 1) /\ Len(c) >= 1
            BY <1>3, BodyTree DEF AddedTo
        <3>2. IsPrefix(c, p) => Is(Body(h), c, {"string", "array"})
            BY <1>3, <3>1, NothingLost
        <3> QED BY <3>2
    <2>2. \/ p \in DOMAIN a /\ a[p].word = b[p].word
          \/ IsPrefix(c, p) /\ ~Is(b, c, {"string", "array"})
        BY <1>3 DEF AddedTo, Appended
    <2> QED BY <2>1, <2>2
<1> HIDE DEF a
<1>4. \/ ~OwnMessage(Body(h), v) /\ a = b
      \/ OwnMessage(Body(h), v) /\ Prepended(b, a)
      \/ ~OwnMessage(Body(h), v) /\ \E c \in Path : AddedTo(b, c, a) /\ Keepable(Body(h), c)
    BY AugmentedIs DEF a
<1> QED BY <1>1, <1>2, <1>3, <1>4 DEF a

-----------------------------------------------------------------------------
(* What is forwarded.  The two claims about a request sent, for any        *)
(* history, vault and body: nothing real is in it, and the prompt is told  *)
(* once.                                                                   *)

VaultFor(h) == Numbered(Body(h), RequestVisit(Body(h)).at)

\* What the client is shown of a message m written under v.
Shown(m, v) ==
  Cut(IF DOMAIN v = {} THEN ResponseBody(m) ELSE Restored(ResponseBody(m), ResponseAt(ResponseBody(m)), v), ReplyAt)

\* The body f is what is forwarded of the messages h, with the vault v.
ForwardsAs(h, v, f) ==
  /\ RequestVisit(Body(h)).ok
  /\ v = VaultFor(h)
  /\ f = Augmented(Masked(Body(h), RequestVisit(Body(h)).at, v), v)
Forwards == ForwardsAs(history, vault, forwarded)

LEMMA NothingRealIsForwarded ==
    ASSUME GoodHistory(history), Sent => Forwards
    PROVE  NothingRealLeaves
<1> SUFFICES ASSUME Sent, NEW p \in InForwarded("real") PROVE Opaque(p)
    BY DEF NothingRealLeaves
<1> DEFINE a == Augmented(Masked(Body(history), RequestVisit(Body(history)).at, vault), vault)
<1>1. RequestVisit(Body(history)).ok /\ forwarded = a
    BY DEF Forwards, ForwardsAs
<1>2. p \in DOMAIN a /\ a[p].word = "real"
    BY <1>1 DEF InForwarded
<1> QED BY <1>1, <1>2, ForwardedReals

LEMMA MaskedKeeps ==
    ASSUME NEW h, GoodHistory(h), NEW at, NEW v
    PROVE  LET b == Masked(Body(h), at, v) IN
           /\ IsTree(b, 1) /\ DOMAIN b = DOMAIN Body(h)
           /\ SystemMessages(b) = SystemMessages(Body(h))
           /\ Is(b, <<"messages">>, {"array"})
<1>1. Is(Body(h), <<"messages">>, {"array"})
    <2>1. <<"messages">> \in DOMAIN Body(h) /\ Body(h)[<<"messages">>] = Node("array")
        BY BodyIs
    <2>2. Node("array").is = "array"
        BY ArrayNode
    <2>3. Body(h)[<<"messages">>].is = "array"
        BY <2>1, <2>2, Zenon
    <2> QED BY <2>1, <2>3 DEF Is
<1> QED BY <1>1, MaskedTree, MaskedRoles

\* The body a tells once what b means, with the numbers v.
TellsOnce(b, v, a) ==
  /\ Cardinality({p \in DOMAIN a : a[p].prompt}) = IF DOMAIN v = {} THEN 0 ELSE 1
  /\ Cardinality(SystemMessages(a)) = IF OwnMessage(b, v) THEN 1 ELSE Cardinality(SystemMessages(b))
  /\ \A p \in DOMAIN b : b[p].is = "string" =>
       LET q == IF OwnMessage(b, v) THEN Pushed(p) ELSE p IN
       /\ q \in DOMAIN a
       /\ a[q].word = b[p].word \/ (b[p].word = "real" /\ a[q].word = "mark")

\* All three for the masked body.
LEMMA ToldIs ==
    ASSUME NEW h, GoodHistory(h), RequestVisit(Body(h)).ok, NEW v
    PROVE  TellsOnce(Body(h), v, Augmented(Masked(Body(h), RequestVisit(Body(h)).at, v), v))
<1> DEFINE at == RequestVisit(Body(h)).at
           b == Masked(Body(h), at, v)
           a == Augmented(b, v)
<1>1. /\ IsTree(b, 1) /\ DOMAIN b = DOMAIN Body(h)
      /\ SystemMessages(b) = SystemMessages(Body(h))
      /\ Is(b, <<"messages">>, {"array"})
    BY MaskedKeeps
<1>2. \A p : Items(b, p) = Items(Body(h), p)
    BY MaskedTree
<1>3. \A p : \A kinds : Is(b, p, kinds) <=> Is(Body(h), p, kinds)
    BY MaskedTree
<1>4. \A p \in DOMAIN Body(h) : b[p].word = Body(h)[p].word \/ (Body(h)[p].word = "real" /\ b[p].word = "mark")
    <2>1. \A k : Mark(k).word = "mark"
        BY DEF Mark
    <2>2. \A p \in DOMAIN Body(h) : \/ b[p] = Body(h)[p]
                                    \/ Body(h)[p].word = "real" /\ b[p] = Mark(v[Body(h)[p].of])
        BY MaskedIs
    <2> HIDE DEF b
    <2> QED BY <2>1, <2>2
<1>5. a = Augmented(b, v)
    OBVIOUS
<1> HIDE DEF b, a
<1>6. Cardinality({p \in DOMAIN a : a[p].prompt}) = IF DOMAIN v = {} THEN 0 ELSE 1
    BY <1>1, <1>2, <1>5, PromptsIn
<1>7. Cardinality(SystemMessages(a)) =
        IF OwnMessage(Body(h), v) THEN 1 ELSE Cardinality(SystemMessages(Body(h)))
    BY <1>1, <1>2, <1>5, RolesIn
<1>8. ASSUME NEW p \in DOMAIN Body(h), Body(h)[p].is = "string"
      PROVE  LET q == IF OwnMessage(Body(h), v) THEN Pushed(p) ELSE p IN
             /\ q \in DOMAIN a
             /\ a[q].word = Body(h)[p].word \/ (Body(h)[p].word = "real" /\ a[q].word = "mark")
    <2> DEFINE q == IF OwnMessage(Body(h), v) THEN Pushed(p) ELSE p
    <2>1. q \in DOMAIN a /\ a[q].word = b[p].word
        BY <1>1, <1>2, <1>3, <1>5, <1>8, TextKept
    <2> QED BY <1>4, <2>1
<1>9. TellsOnce(Body(h), v, a)
    BY <1>6, <1>7, <1>8 DEF TellsOnce
<1> QED BY <1>9 DEF a, b

LEMMA ToldOnceIfForwarded ==
    ASSUME GoodHistory(history), Sent => Forwards
    PROVE  ToldOnce
<1> SUFFICES ASSUME Sent PROVE ToldOnce
    BY DEF ToldOnce
<1> DEFINE body == Body(history)
<1>1. RequestVisit(body).ok
      /\ forwarded = Augmented(Masked(body, RequestVisit(body).at, vault), vault)
    BY DEF Forwards, ForwardsAs
<1>2. TellsOnce(body, vault, forwarded)
    BY <1>1, ToldIs
<1> HIDE DEF body
<1> DEFINE own == schema = "OpenAi" /\ DOMAIN vault # {} /\ SystemMessages(body) = {}
           shift(p) == IF own THEN Pushed(p) ELSE p
<1>3. OwnMessage(body, vault) = own
    BY DEF OwnMessage
<1>4. \A p \in DOMAIN body : body[p].is = "string" =>
          /\ shift(p) \in DOMAIN forwarded
          /\ \/ forwarded[shift(p)].word = body[p].word
             \/ body[p].word = "real" /\ forwarded[shift(p)].word = "mark"
    BY <1>2, <1>3 DEF TellsOnce
<1>5. /\ Cardinality({p \in DOMAIN forwarded : forwarded[p].prompt}) = IF DOMAIN vault = {} THEN 0 ELSE 1
      /\ Cardinality(SystemMessages(forwarded)) = IF own THEN 1 ELSE Cardinality(SystemMessages(body))
    BY <1>2, <1>3 DEF TellsOnce
<1> QED BY <1>4, <1>5 DEF ToldOnce, body

-----------------------------------------------------------------------------
(* Paths of a response.  Where the answer of the provider lies in a        *)
(* response of either schema.                                              *)

\* Where the path r of a provider's message stands in the response body.
At(r) == ReplyAt \o r

LEMMA ReplyAtIs ==
    ASSUME 1 \in DOMAIN Indices, schema \in Schemas
    PROVE  /\ ReplyAt \in Path
           /\ schema = "OpenAi" => /\ Len(ReplyAt) = 3 /\ ReplyAt = Append(Choice, "message")
                                   /\ Choice \in Path /\ Len(Choice) = 2 /\ Choice = Append(<<"choices">>, Index(1))
           /\ schema = "Anthropic" => ReplyAt = <<>>
<1>0. "choices" \in Keys /\ "message" \in Keys /\ Index(1) \in Keys
    BY FixedKeysAreKeys, KeyOrderIs, MessageAtIs
<1>1. <<"choices">> \in Path /\ Len(<<"choices">>) = 1
    BY <1>0, Top
<1> DEFINE C == <<"choices">>
<1>2. C \in Path /\ Len(C) = 1
    BY <1>1
<1>3. Choice = Append(C, Index(1))
    BY DEF Choice
<1> HIDE DEF C
<1>4. Append(C, Index(1)) \in Path /\ Len(Append(C, Index(1))) = Len(C) + 1
    BY <1>0, <1>2, StepProps
<1>5. Choice \in Path /\ Len(Choice) = 2
    BY <1>2, <1>3, <1>4
<1>6. Append(Choice, "message") \in Path /\ Len(Append(Choice, "message")) = Len(Choice) + 1
    BY <1>0, <1>5, StepProps
<1>7. schema = "OpenAi" => ReplyAt = Append(Choice, "message")
    BY DEF ReplyAt
<1>8. schema = "Anthropic" => ReplyAt = <<>>
    BY DEF ReplyAt
<1>9. schema = "OpenAi" => Len(ReplyAt) = 3 /\ ReplyAt \in Path
    <2> HAVE schema = "OpenAi"
    <2> DEFINE x == Append(Choice, "message")
    <2>1. x \in Path /\ Len(x) = 3
        BY <1>5, <1>6
    <2> HIDE DEF x
    <2> QED BY <1>7, <2>1 DEF x
<1>10. schema = "Anthropic" => ReplyAt \in Path
    BY <1>8, EmptyPath
<1> QED BY <1>3, <1>5, <1>7, <1>8, <1>9, <1>10 DEF Schemas, C

LEMMA AtIs ==
    ASSUME 1 \in DOMAIN Indices, schema \in Schemas, NEW r \in Path
    PROVE  /\ At(r) \in Path /\ Len(r) \in Nat /\ Len(At(r)) = Len(ReplyAt) + Len(r)
           /\ IsPrefix(ReplyAt, At(r)) /\ After(ReplyAt, At(r)) = r
           /\ At(<<>>) = ReplyAt
           /\ schema = "Anthropic" => At(r) = r
<1>1. ReplyAt \in Path
    BY ReplyAtIs
<1>2. At(r) \in Path /\ Len(r) \in Nat /\ Len(At(r)) = Len(ReplyAt) + Len(r)
    BY <1>1, MovedIs DEF At
<1>3. IsPrefix(ReplyAt, At(r)) /\ After(ReplyAt, At(r)) = r
    BY <1>1, MovedBack DEF At
<1>4. At(<<>>) = ReplyAt
    <2>1. \A k \in Keys : ReplyAt \o <<>> = ReplyAt
        BY <1>1, EmptyPath, MovedStep
    <2>2. "text" \in Keys
        BY FixedKeysAreKeys
    <2> QED BY <2>1, <2>2 DEF At
<1>5. schema = "Anthropic" => At(r) = r
    <2>1. <<>> \o r = r
        <3>1. "text" \in Keys
            BY FixedKeysAreKeys
        <3> QED BY <3>1, MovedStep
    <2> QED BY <2>1, ReplyAtIs DEF At
<1> QED BY <1>2, <1>3, <1>4, <1>5

LEMMA AtStep ==
    ASSUME 1 \in DOMAIN Indices, schema \in Schemas, NEW r \in Path, NEW k \in Keys
    PROVE  At(Append(r, k)) = Append(At(r), k) /\ Append(r, k) \in Path
BY ReplyAtIs, MovedStep, StepProps DEF At

LEMMA AtUnique ==
    ASSUME 1 \in DOMAIN Indices, schema \in Schemas, NEW r \in Path, NEW t \in Path, At(r) = At(t)
    PROVE  r = t
BY ReplyAtIs, MovedUnique DEF At

LEMMA AtAll ==
    ASSUME 1 \in DOMAIN Indices, schema \in Schemas, NEW q \in Path, IsPrefix(ReplyAt, q)
    PROVE  \E r \in Path : q = At(r) /\ After(ReplyAt, q) = r
BY ReplyAtIs, PrefixMoves DEF At

\* The body of a response holds the message at its place, and nothing else there.
Holds(b, m) ==
  /\ DOMAIN b \subseteq Path
  /\ \A r \in Path : /\ At(r) \in DOMAIN b <=> r \in DOMAIN m
                     /\ r \in DOMAIN m => b[At(r)] = m[r]

LEMMA ResponseHolds ==
    ASSUME 1 \in DOMAIN Indices, schema \in Schemas, NEW m, DOMAIN m \subseteq Path
    PROVE  Holds(ResponseBody(m), m)
<1> DEFINE b == ResponseBody(m)
           C == <<"choices">>
<1>1. CASE schema = "Anthropic"
    <2>1. b = m
        BY <1>1 DEF ResponseBody
    <2>2. \A r \in Path : At(r) = r
        BY <1>1, AtIs
    <2> HIDE DEF b
    <2> QED BY <2>1, <2>2 DEF Holds, b
<1>2. CASE schema = "OpenAi"
    <2>1. C \in Path /\ Len(C) = 1
        BY FixedKeysAreKeys, Top
    <2>2. Choice \in Path /\ Len(Choice) = 2 /\ Len(ReplyAt) = 3 /\ ReplyAt \in Path
        BY <1>2, ReplyAtIs
    <2> DEFINE D == PathsAt(ReplyAt, m) \cup {C, Choice}
               f == [p \in D |-> CASE p = C -> Node("array")
                                   [] p = Choice -> Node("object")
                                   [] OTHER -> m[After(ReplyAt, p)]]
    <2>3. b = f
        BY <1>2 DEF ResponseBody
    <2>4. \A r \in Path : /\ At(r) \in Path /\ At(r) # C /\ At(r) # Choice
                          /\ After(ReplyAt, At(r)) = r
        <3> TAKE r \in Path
        <3>1. At(r) \in Path /\ Len(r) \in Nat /\ Len(At(r)) = Len(ReplyAt) + Len(r) /\ After(ReplyAt, At(r)) = r
            BY AtIs
        <3> HIDE DEF C
        <3>2. Len(At(r)) # Len(C) /\ Len(At(r)) # Len(Choice)
            BY <2>1, <2>2, <3>1
        <3> QED BY <3>1, <3>2
    <2>5. \A p : p \in D <=> p = C \/ p = Choice \/ \E r \in DOMAIN m : p = At(r)
        BY DEF PathsAt, At
    <2> HIDE DEF C
    <2>6. ASSUME NEW r \in DOMAIN m
          PROVE  At(r) \in D /\ f[At(r)] = m[r]
        <3>1. r \in Path /\ At(r) \in D
            BY <2>5
        <3>2. At(r) # C /\ At(r) # Choice /\ After(ReplyAt, At(r)) = r
            BY <2>4, <3>1
        <3> DEFINE p == At(r)
        <3> HIDE DEF D, p
        <3>3. p \in D /\ p # C /\ p # Choice /\ After(ReplyAt, p) = r
            BY <3>1, <3>2 DEF p
        <3>4. f[p] = CASE p = C -> Node("array")
                       [] p = Choice -> Node("object")
                       [] OTHER -> m[After(ReplyAt, p)]
            BY <3>3
        <3>5. f[p] = m[r]
            <4> HIDE DEF f
            <4> QED BY <3>3, <3>4, Zenon
        <3> QED BY <3>3, <3>5 DEF p
    <2>7. DOMAIN f = D
        OBVIOUS
    <2> HIDE DEF D, f
    <2>8. \A r \in Path : At(r) \in D <=> r \in DOMAIN m
        <3> TAKE r \in Path
        <3>1. At(r) \in D => \E t \in DOMAIN m : At(r) = At(t)
            BY <2>4, <2>5
        <3> QED BY <2>6, <3>1, AtUnique
    <2>9. D \subseteq Path
        BY <2>1, <2>2, <2>4, <2>5
    <2> HIDE DEF b
    <2>10. Holds(b, m)
        BY <2>3, <2>6, <2>7, <2>8, <2>9 DEF Holds
    <2> QED BY <2>10 DEF b
<1> QED BY <1>1, <1>2 DEF Schemas

-----------------------------------------------------------------------------
(* Showing an answer.  What a node of an answer is shown as, and the steps *)
(* by which paths are told apart: a thought is never restored.             *)

Meaning(v, k) == Real(CHOOSE x \in DOMAIN v : v[x] = k)

\* What becomes of the node at r.
NodeShown(m, v, r) ==
  IF At(r) \in ResponseAt(ResponseBody(m)) /\ m[r].word = "mark" /\ Known(v, m[r].of)
  THEN Meaning(v, m[r].of) ELSE m[r]

Shows(s, m, v) ==
  /\ DOMAIN s = DOMAIN m
  /\ s = [r \in DOMAIN s |-> s[r]]
  /\ \A r \in DOMAIN m : s[r] = NodeShown(m, v, r)

LEMMA ShownIs ==
    ASSUME 1 \in DOMAIN Indices, schema \in Schemas, NEW m, DOMAIN m \subseteq Path, NEW v
    PROVE  Shows(Shown(m, v), m, v)
<1> DEFINE b == ResponseBody(m)
           at == ResponseAt(b)
           R == IF DOMAIN v = {} THEN b ELSE Restored(b, at, v)
           s == Cut(R, ReplyAt)
<1>1. Holds(b, m)
    BY ResponseHolds
<1>2. s = Shown(m, v)
    BY DEF Shown
<1>3. DOMAIN R = DOMAIN b
    BY DEF Restored
<1>4. \A p \in DOMAIN b :
        R[p] = IF p \in at /\ b[p].word = "mark" /\ Known(v, b[p].of) THEN Meaning(v, b[p].of) ELSE b[p]
    <2>1. DOMAIN v = {} => \A k : ~Known(v, k)
        BY DEF Known
    <2>2. CASE DOMAIN v = {}
        BY <2>1, <2>2
    <2>3. CASE DOMAIN v # {}
        BY <2>3 DEF Restored, Meaning
    <2> QED BY <2>2, <2>3
<1>5. /\ DOMAIN s = {After(ReplyAt, q) : q \in Under(R, ReplyAt)}
      /\ \A r \in DOMAIN s : s[r] = R[At(r)]
      /\ s = [r \in DOMAIN s |-> s[r]]
    BY DEF Cut, At
<1> HIDE DEF R, s
<1>6. \A r : r \in DOMAIN s <=> r \in DOMAIN m
    <2> TAKE r
    <2>1. ASSUME r \in DOMAIN m PROVE r \in DOMAIN s
        <3>1. r \in Path /\ At(r) \in DOMAIN R
            BY <1>1, <1>3, <2>1 DEF Holds
        <3>2. IsPrefix(ReplyAt, At(r)) /\ After(ReplyAt, At(r)) = r
            BY <3>1, AtIs
        <3>3. At(r) \in Under(R, ReplyAt)
            BY <3>1, <3>2 DEF Under
        <3> QED BY <1>5, <3>2, <3>3
    <2>2. ASSUME r \in DOMAIN s PROVE r \in DOMAIN m
        <3>1. PICK q \in Under(R, ReplyAt) : r = After(ReplyAt, q)
            BY <1>5, <2>2
        <3>2. q \in DOMAIN b /\ q \in Path /\ IsPrefix(ReplyAt, q)
            BY <1>1, <1>3 DEF Under, Holds
        <3>3. PICK t \in Path : q = At(t) /\ After(ReplyAt, q) = t
            BY <3>2, AtAll
        <3> QED BY <1>1, <3>1, <3>2, <3>3 DEF Holds
    <2> QED BY <2>1, <2>2
<1>7. DOMAIN s = DOMAIN m
    BY <1>5, <1>6
<1>8. ASSUME NEW r \in DOMAIN m
      PROVE  s[r] = NodeShown(m, v, r)
    <2>1. s[r] = R[At(r)]
        BY <1>5, <1>7
    <2>2. At(r) \in DOMAIN b /\ b[At(r)] = m[r]
        BY <1>1 DEF Holds
    <2> HIDE DEF b
    <2>3. R[At(r)] = IF At(r) \in at /\ m[r].word = "mark" /\ Known(v, m[r].of) THEN Meaning(v, m[r].of) ELSE m[r]
        BY <1>4, <2>2
    <2> QED BY <2>1, <2>3 DEF NodeShown, b
<1>9. Shows(s, m, v)
    BY <1>5, <1>7, <1>8 DEF Shows
<1> QED BY <1>2, <1>9

-----------------------------------------------------------------------------
(* What is restored and what is not.                                       *)

LEMMA DeeperTree ==
    ASSUME NEW b, IsTree(b, 0)
    PROVE  IsTree(b, 1)
<1>1. ASSUME NEW p \in DOMAIN b
      PROVE  /\ p \in Seq(Keys) /\ IsNode(b[p])
             /\ Len(p) > 1 => MayHold(b, Front(p), Last(p))
             /\ b[p].is = "array" =>
                  \E k \in 0..(Len(Indices) - 1) : Items(b, p) = {Append(p, Index(i)) : i \in 1..k}
    <2>1. Len(p) > 1 => Len(p) > 0
        <3>1. p \in Seq(Keys)
            BY DEF IsTree
        <3> QED BY <3>1
    <2> QED BY <2>1 DEF IsTree
<1>2. IsFiniteSet(DOMAIN b) /\ b = [p \in DOMAIN b |-> b[p]]
    BY DEF IsTree
<1> QED BY <1>1, <1>2 DEF IsTree

\* p is a path of n steps.
Steps(p, n) == p \in Path /\ Len(p) = n

LEMMA StepsOne ==
    ASSUME NEW p, NEW n \in Nat, Steps(p, n), NEW k \in Keys
    PROVE  Steps(Append(p, k), n + 1)
<1>1. Append(p, k) \in Path /\ Len(Append(p, k)) = Len(p) + 1
    BY StepProps DEF Steps
<1> QED BY <1>1 DEF Steps

LEMMA StepsItem ==
    ASSUME NEW b, DOMAIN b \subseteq Path, NEW p, NEW n \in Nat, Steps(p, n), NEW q \in Items(b, p)
    PROVE  Steps(q, n + 1)
BY DEF Steps, Items

LEMMA StepsUnlike ==
    ASSUME NEW p, NEW q, NEW m, NEW n, Steps(p, m), Steps(q, n), m # n
    PROVE  p # q
BY DEF Steps

LEMMA StepsLast ==
    ASSUME NEW p, NEW n \in Nat, Steps(p, n), NEW k \in Keys
    PROVE  Append(p, k)[n + 1] = k
BY StepProps DEF Steps

LEMMA ThoughtsStay ==
    ASSUME 1 \in DOMAIN Indices, schema \in Schemas, NEW m, DOMAIN m \subseteq Path,
           NEW r \in Path, IsThought(r)
    PROVE  At(r) \notin ResponseAt(ResponseBody(m))
<1> DEFINE b == ResponseBody(m)
           x == At(r)
<1>0. /\ "content" \in Keys /\ "type" \in Keys /\ "text" \in Keys /\ "input" \in Keys /\ "choices" \in Keys
      /\ "message" \in Keys /\ "tool_calls" \in Keys /\ "function" \in Keys /\ "arguments" \in Keys
      /\ "function_call" \in Keys
    BY FixedKeysAreKeys
<1>1. Holds(b, m)
    BY ResponseHolds
<1>2. DOMAIN b \subseteq Path
    BY <1>1 DEF Holds
<1> HIDE DEF b
<1>5. Len(r) = 3 /\ r[3] = "thinking"
    BY DEF IsThought
<1>6. CASE schema = "Anthropic"
    <2>1. x = r
        BY <1>6, AtIs
    <2> DEFINE C == <<"content">>
    <2>2. C \in Path /\ Len(C) = 1
        BY <1>0, Top
    <2>2a. Steps(C, 1)
        BY <2>2 DEF Steps
    <2>3. ResponseAt(b) =
            UNION {CASE StringOf(b, Append(q, "type")) = "text"     -> TransformStringValue(b, Append(q, "text"))
                     [] StringOf(b, Append(q, "type")) = "tool_use" -> TransformStringLeaves(b, Append(q, "input"))
                     [] OTHER -> {} : q \in Items(b, C)}
        BY <1>6 DEF ResponseAt, DemaskAnthropicResponse
    <2> HIDE DEF C, x
    <2>4. ASSUME NEW q \in Items(b, C)
          PROVE  /\ x # Append(q, "text")
                 /\ ~IsPrefix(Append(q, "input"), x)
        <3>0. Steps(q, 1 + 1)
            BY <1>2, <2>2a, StepsItem
        <3>1. q \in Path /\ Len(q) = 2
            BY <3>0 DEF Steps
        <3>2. Append(q, "text")[Len(q) + 1] = "text"
            BY <1>0, <3>1, StepProps
        <3>3. x # Append(q, "text")
            BY <1>5, <2>1, <3>1, <3>2
        <3>4. IsPrefix(Append(q, "input"), x) => x[Len(q) + 1] = "input"
            BY <1>0, <2>1, <3>1, PrefixStep
        <3> QED BY <1>5, <2>1, <3>1, <3>3, <3>4
    <2> DEFINE T(q) == CASE StringOf(b, Append(q, "type")) = "text"     -> TransformStringValue(b, Append(q, "text"))
                         [] StringOf(b, Append(q, "type")) = "tool_use" -> TransformStringLeaves(b, Append(q, "input"))
                         [] OTHER -> {}
    <2>5. ASSUME NEW q \in Items(b, C)
          PROVE  x \notin T(q)
        <3> DEFINE type == StringOf(b, Append(q, "type"))
        <3>1. x \notin TransformStringValue(b, Append(q, "text"))
            BY <2>4 DEF TransformStringValue
        <3>2. x \notin TransformStringLeaves(b, Append(q, "input"))
            BY <2>4 DEF TransformStringLeaves, Under
        <3>3. CASE type = "text"
            <4>1. T(q) = TransformStringValue(b, Append(q, "text"))
                BY <3>3
            <4> QED BY <3>1, <4>1
        <3>4. CASE type = "tool_use"
            <4>1. T(q) = TransformStringLeaves(b, Append(q, "input"))
                BY <3>4
            <4> QED BY <3>2, <4>1
        <3>5. CASE type # "text" /\ type # "tool_use"
            <4>1. T(q) = {}
                <5> HIDE DEF type
                <5>1. T(q) = CASE type = "text"     -> TransformStringValue(b, Append(q, "text"))
                               [] type = "tool_use" -> TransformStringLeaves(b, Append(q, "input"))
                               [] OTHER -> {}
                    BY DEF type
                <5> QED BY <3>5, <5>1, Zenon
            <4> QED BY <4>1
        <3> QED BY <3>3, <3>4, <3>5
    <2> HIDE DEF T
    <2>6. ResponseAt(b) = UNION {T(q) : q \in Items(b, C)}
        BY <2>3 DEF T
    <2>7. x \notin ResponseAt(b)
        BY <2>5, <2>6
    <2> QED BY <2>7 DEF b, x
<1>7. CASE schema = "OpenAi"
    <2> DEFINE C == <<"choices">>
               M(c) == Append(c, "message")
               U(c) == DemaskContent(b, Append(M(c), "content"))
                       \cup TransformToolCallArgs(b, M(c))
                       \cup TransformStringValue(b, Append(Append(M(c), "function_call"), "arguments"))
    <2>1. ResponseAt(b) = UNION {U(c) : c \in Items(b, C)}
        BY <1>7 DEF ResponseAt, DemaskResponse
    <2>2. C \in Path /\ Len(C) = 1
        BY <1>0, Top
    <2>3. Len(ReplyAt) = 3
        BY <1>7, ReplyAtIs
    <2>2a. Steps(C, 1)
        BY <2>2 DEF Steps
    <2>4. Steps(x, 6) /\ x[6] = "thinking"
        <3>1. x \in Path /\ Len(x) = 6
            <4>1. x \in Path /\ Len(x) = Len(ReplyAt) + Len(r)
                BY AtIs
            <4> HIDE DEF x
            <4> QED BY <4>1, <1>5, <2>3
        <3>2. x[6] = r[3]
            <4>1. ReplyAt \in Path
                BY ReplyAtIs
            <4>2. \A i \in 1..Len(r) : (ReplyAt \o r)[Len(ReplyAt) + i] = r[i]
                BY <4>1, MovedIs
            <4>3. 3 \in 1..Len(r) /\ Len(ReplyAt) + 3 = 6
                BY <1>5, <2>3
            <4> QED BY <4>2, <4>3 DEF At
        <3> QED BY <1>5, <3>1, <3>2 DEF Steps
    <2> HIDE DEF C, x
    <2>5. ASSUME NEW c \in Items(b, C)
          PROVE  x \notin U(c)
        <3> DEFINE m1 == M(c)
                   K  == Append(m1, "content")
                   A  == Append(m1, "tool_calls")
                   f  == Append(m1, "function_call")
        <3>1. Steps(c, 1 + 1)
            BY <1>2, <2>2a, StepsItem
        <3>2. Steps(m1, 1 + 1 + 1)
            BY <1>0, <3>1, StepsOne
        <3>3. U(c) = DemaskContent(b, K) \cup TransformToolCallArgs(b, m1) \cup TransformStringValue(b, Append(f, "arguments"))
            OBVIOUS
        <3> HIDE DEF m1, U, M
        <3>4. Steps(m1, 3)
            BY <3>2
        <3>5. Steps(K, 3 + 1) /\ Steps(A, 3 + 1) /\ Steps(f, 3 + 1)
            BY <1>0, <3>4, StepsOne
        <3>6. x \notin DemaskContent(b, K)
            <4> HIDE DEF K
            <4>1. Steps(K, 4)
                BY <3>5
            <4>2. \A q \in Items(b, K) : Steps(q, 4 + 1)
                BY <1>2, <4>1, StepsItem
            <4>3. x # K /\ x \notin Items(b, K)
                BY <2>4, <4>1, <4>2, StepsUnlike
            <4>4. ASSUME NEW q \in Items(b, K)
                  PROVE  x \notin TransformStringValue(b, Append(q, "text"))
                <5>1. Steps(q, 5)
                    BY <4>2
                <5>2. Append(q, "text")[5 + 1] = "text"
                    BY <1>0, <5>1, StepsLast
                <5> DEFINE y == Append(q, "text")
                <5> HIDE DEF y
                <5>2a. y[5 + 1] = "text"
                    BY <5>2, Zenon DEF y
                <5>3. x # y
                    BY <2>4, <5>2a
                <5> QED BY <5>3 DEF TransformStringValue, y
            <4> QED BY <4>3, <4>4 DEF DemaskContent
        <3>7. x \notin TransformToolCallArgs(b, m1)
            <4>1. ASSUME NEW t \in Items(b, A)
                  PROVE  x \notin TransformStringValue(b, Append(Append(t, "function"), "arguments"))
                <5> HIDE DEF A
                <5>1. Steps(A, 4)
                    BY <3>5
                <5>2. Steps(t, 4 + 1)
                    BY <1>2, <5>1, StepsItem
                <5>3. Steps(t, 5)
                    BY <5>2
                <5> DEFINE g == Append(t, "function")
                <5>4. Steps(g, 5 + 1)
                    BY <1>0, <5>3, StepsOne
                <5> HIDE DEF g
                <5>5. Steps(g, 6)
                    BY <5>4
                <5>6. Steps(Append(g, "arguments"), 6 + 1)
                    BY <1>0, <5>5, StepsOne
                <5> DEFINE y == Append(g, "arguments")
                <5> HIDE DEF y
                <5>7. Steps(y, 7)
                    BY <5>6 DEF y
                <5>8. x # y
                    BY <2>4, <5>7, StepsUnlike
                <5> QED BY <5>8 DEF TransformStringValue, g, y
            <4> QED BY <4>1 DEF TransformToolCallArgs
        <3>8. x \notin TransformStringValue(b, Append(f, "arguments"))
            <4> HIDE DEF f
            <4>1. Steps(f, 4)
                BY <3>5
            <4>2. Steps(Append(f, "arguments"), 4 + 1)
                BY <1>0, <4>1, StepsOne
            <4> DEFINE y == Append(f, "arguments")
            <4> HIDE DEF y
            <4>3. Steps(y, 5)
                BY <4>2 DEF y
            <4>4. x # y
                BY <2>4, <4>3, StepsUnlike
            <4> QED BY <4>4 DEF TransformStringValue, y
        <3> QED BY <3>3, <3>6, <3>7, <3>8
    <2> HIDE DEF U
    <2>6. x \notin ResponseAt(b)
        BY <2>1, <2>5
    <2> QED BY <2>6 DEF b, x
<1> QED BY <1>6, <1>7 DEF Schemas

-----------------------------------------------------------------------------
(* Answers are restored.  The walk of a response visits every place where  *)
(* an answer may hold a placeholder that is to be restored.                *)

\* The places the Anthropic response walk looks at, without a CASE.
LEMMA AnswerTextIs ==
    ASSUME schema = "Anthropic", NEW m, NEW r
    PROVE  r \in AnswerText(schema, m) <=>
             \E q \in Elements(<<"content">>) :
               \/ StringOf(m, Append(q, "type")) = "text" /\ r = Append(q, "text")
               \/ StringOf(m, Append(q, "type")) = "tool_use" /\ r \in Under(m, Append(q, "input"))
<1> DEFINE T(q) == CASE StringOf(m, Append(q, "type")) = "text"     -> {Append(q, "text")}
                     [] StringOf(m, Append(q, "type")) = "tool_use" -> Under(m, Append(q, "input"))
                     [] OTHER -> {}
           W(q) == \/ StringOf(m, Append(q, "type")) = "text" /\ r = Append(q, "text")
                   \/ StringOf(m, Append(q, "type")) = "tool_use" /\ r \in Under(m, Append(q, "input"))
<1>1. AnswerText(schema, m) = UNION {T(q) : q \in Elements(<<"content">>)}
    BY DEF AnswerText
<1>2. ASSUME NEW q PROVE r \in T(q) <=> W(q)
    <2> DEFINE type == StringOf(m, Append(q, "type"))
    <2>1. T(q) = CASE type = "text"     -> {Append(q, "text")}
                   [] type = "tool_use" -> Under(m, Append(q, "input"))
                   [] OTHER -> {}
        OBVIOUS
    <2>2. W(q) <=> \/ type = "text" /\ r = Append(q, "text")
                   \/ type = "tool_use" /\ r \in Under(m, Append(q, "input"))
        OBVIOUS
    <2> HIDE DEF type, T, W
    <2>3. CASE type = "text"
        <3>1. type # "tool_use"
            BY <2>3
        <3>2. T(q) = {Append(q, "text")}
            BY <2>1, <2>3
        <3> QED BY <2>2, <2>3, <3>1, <3>2
    <2>4. CASE type = "tool_use"
        <3>1. type # "text"
            BY <2>4
        <3>2. T(q) = Under(m, Append(q, "input"))
            BY <2>1, <2>4, <3>1
        <3> QED BY <2>2, <2>4, <3>1, <3>2
    <2>5. CASE type # "text" /\ type # "tool_use"
        <3>1. T(q) = {}
            BY <2>1, <2>5, Zenon
        <3> QED BY <2>2, <2>5, <3>1
    <2> QED BY <2>3, <2>4, <2>5
<1> HIDE DEF T
<1>3. r \in AnswerText(schema, m) <=> \E q \in Elements(<<"content">>) : W(q)
    BY <1>1, <1>2
<1> QED BY <1>3

LEMMA DemaskedIs ==
    ASSUME NEW b, NEW r, NEW q \in Items(b, <<"content">>),
           \/ StringOf(b, Append(q, "type")) = "text" /\ r \in TransformStringValue(b, Append(q, "text"))
           \/ StringOf(b, Append(q, "type")) = "tool_use" /\ r \in TransformStringLeaves(b, Append(q, "input"))
    PROVE  r \in DemaskAnthropicResponse(b)
<1> DEFINE T(t) == CASE StringOf(b, Append(t, "type")) = "text"     -> TransformStringValue(b, Append(t, "text"))
                     [] StringOf(b, Append(t, "type")) = "tool_use" -> TransformStringLeaves(b, Append(t, "input"))
                     [] OTHER -> {}
<1>1. DemaskAnthropicResponse(b) = UNION {T(t) : t \in Items(b, <<"content">>)}
    BY DEF DemaskAnthropicResponse
<1> DEFINE type == StringOf(b, Append(q, "type"))
<1>2. r \in T(q)
    <2>1. T(q) = CASE type = "text"     -> TransformStringValue(b, Append(q, "text"))
                   [] type = "tool_use" -> TransformStringLeaves(b, Append(q, "input"))
                   [] OTHER -> {}
        OBVIOUS
    <2> HIDE DEF T
    <2>2. CASE type = "text" /\ r \in TransformStringValue(b, Append(q, "text"))
        BY <2>1, <2>2
    <2>3. CASE type = "tool_use" /\ r \in TransformStringLeaves(b, Append(q, "input"))
        <3>1. type # "text"
            BY <2>3
        <3>2. T(q) = TransformStringLeaves(b, Append(q, "input"))
            <4> HIDE DEF type
            <4> QED BY <2>1, <2>3, <3>1
        <3> QED BY <2>3, <3>2
    <2> QED BY <2>2, <2>3
<1> HIDE DEF T
<1> QED BY <1>1, <1>2

LEMMA ItemsLift ==
    ASSUME 1 \in DOMAIN Indices, schema \in Schemas, NEW b, NEW m, DOMAIN m \subseteq Path, Holds(b, m),
           NEW c \in Path, NEW q \in Items(m, c)
    PROVE  At(q) \in Items(b, At(c))
<1>1. Is(m, c, {"array"}) /\ q \in DOMAIN m /\ q \in Path /\ \E k \in Keys : q = Append(c, k)
    BY ItemsAre
<1>2. PICK k \in Keys : q = Append(c, k)
    BY <1>1
<1>3. At(q) \in DOMAIN b
    BY <1>1 DEF Holds
<1>4. Is(b, At(c), {"array"})
    BY <1>1 DEF Is, Holds
<1>5. At(q) = Append(At(c), k) /\ At(c) \in Path
    BY <1>2, AtStep, AtIs
<1>6. DOMAIN b \subseteq Path
    BY DEF Holds
<1> QED BY <1>3, <1>4, <1>5, <1>6, ItemsAre

LEMMA ChoiceIsThere ==
    ASSUME 1 \in DOMAIN Indices, schema = "OpenAi", NEW m, DOMAIN m \subseteq Path
    PROVE  Choice \in Items(ResponseBody(m), <<"choices">>)
<1> DEFINE C == <<"choices">>
           b == ResponseBody(m)
           D == PathsAt(ReplyAt, m) \cup {C, Choice}
<1>1. C \in Path /\ Len(C) = 1 /\ Choice = Append(C, Index(1)) /\ Index(1) \in Keys
    BY FixedKeysAreKeys, Top, ReplyAtIs, KeyOrderIs, MessageAtIs DEF Schemas
<1>2. b = [p \in D |-> CASE p = C -> Node("array")
                         [] p = Choice -> Node("object")
                         [] OTHER -> m[After(ReplyAt, p)]]
    BY DEF ResponseBody
<1>3. C \in D /\ Choice \in D
    OBVIOUS
<1> HIDE DEF D, b, C
<1>4. DOMAIN b = D /\ b[C] = Node("array")
    <2>1. DOMAIN b = D
        BY <1>2
    <2>2. b[C] = CASE C = C -> Node("array")
                   [] C = Choice -> Node("object")
                   [] OTHER -> m[After(ReplyAt, C)]
        BY <1>2, <1>3
    <2>3. C # Choice
        <3>1. Len(Choice) = 2
            BY ReplyAtIs DEF Schemas
        <3> QED BY <1>1, <3>1
    <2>4. C = C
        OBVIOUS
    <2> QED BY <2>1, <2>2, <2>3, <2>4
<1>5. Is(b, C, {"array"})
    <2>1. Node("array").is = "array"
        BY ArrayNode
    <2>2. b[C].is = "array"
        BY <1>4, <2>1, Zenon
    <2> QED BY <1>3, <1>4, <2>2 DEF Is
<1>6. DOMAIN b \subseteq Path
    BY ResponseHolds DEF Holds, Schemas, b
<1>7. Choice \in Items(b, C)
    BY <1>1, <1>3, <1>4, <1>5, <1>6, ItemsAre
<1> QED BY <1>7 DEF b, C

\* The answer is restored wherever the schema has it.
LEMMA AnswersAreRestored ==
    ASSUME 1 \in DOMAIN Indices, schema \in Schemas, NEW m, IsTree(m, 0),
           NEW r \in DOMAIN m, m[r].is = "string", r \in AnswerText(schema, m)
    PROVE  At(r) \in ResponseAt(ResponseBody(m))
<1> DEFINE b == ResponseBody(m)
<1>0. /\ "content" \in Keys /\ "type" \in Keys /\ "text" \in Keys /\ "input" \in Keys
      /\ "message" \in Keys /\ "tool_calls" \in Keys /\ "function" \in Keys /\ "arguments" \in Keys
      /\ "function_call" \in Keys
      /\ "text" \notin Numerals /\ "function" \notin Numerals
    BY FixedKeysAreKeys, FixedKeysAreNoNumerals
<1>1. IsTree(m, 1) /\ DOMAIN m \subseteq Path
    BY DeeperTree, TreePaths
<1>2. Holds(b, m)
    BY <1>1, ResponseHolds
<1>3. At(r) \in DOMAIN b /\ b[At(r)].is = "string"
    BY <1>1, <1>2 DEF Holds
<1>4. CASE schema = "Anthropic"
    <2>1. b = m /\ At(r) = r
        BY <1>1, <1>4, AtIs DEF ResponseBody
    <2>2. PICK q \in Elements(<<"content">>) :
            \/ StringOf(m, Append(q, "type")) = "text" /\ r = Append(q, "text")
            \/ StringOf(m, Append(q, "type")) = "tool_use" /\ r \in Under(m, Append(q, "input"))
        BY <1>4, AnswerTextIs
    <2>3. <<"content">> \in Path /\ Len(<<"content">>) = 1
        BY <1>0, Top
    <2>4. q \in Path /\ Len(q) >= 1
        BY <2>3, ElementPath
    <2>5. q \in DOMAIN m
        <3>1. StringOf(m, Append(q, "type")) # "none"
            BY <2>2
        <3> QED BY <1>1, <2>4, <3>1, TypedIs
    <2>6. q \in Items(m, <<"content">>)
        <3> DEFINE c1 == <<"content">>
        <3>1. c1 \in Path /\ Len(c1) >= 1 /\ q \in Elements(c1)
            BY <2>3
        <3> HIDE DEF c1
        <3>2. q \in Items(m, c1)
            BY <1>1, <2>5, <3>1, ElementOf
        <3> QED BY <3>2 DEF c1
    <2>7. r = Append(q, "text") => r \in TransformStringValue(m, Append(q, "text"))
        BY StringValue
    <2>8. r \in Under(m, Append(q, "input")) => r \in TransformStringLeaves(m, Append(q, "input"))
        BY DEF TransformStringLeaves, Is
    <2>9. r \in DemaskAnthropicResponse(m)
        BY <2>2, <2>6, <2>7, <2>8, DemaskedIs
    <2> QED BY <1>4, <2>1, <2>9 DEF ResponseAt
<1>5. CASE schema = "OpenAi"
    <2> DEFINE C == <<"choices">>
               U(c) == LET x == Append(c, "message") IN
                       DemaskContent(b, Append(x, "content"))
                       \cup TransformToolCallArgs(b, x)
                       \cup TransformStringValue(b, Append(Append(x, "function_call"), "arguments"))
               K == Append(ReplyAt, "content")
               L == Append(ReplyAt, "tool_calls")
               F == Append(Append(ReplyAt, "function_call"), "arguments")
               V == DemaskContent(b, K) \cup TransformToolCallArgs(b, ReplyAt) \cup TransformStringValue(b, F)
    <2>1. ResponseAt(b) = UNION {U(c) : c \in Items(b, C)}
        BY <1>5 DEF ResponseAt, DemaskResponse
    <2>2. Choice \in Items(b, C)
        BY <1>1, <1>5, ChoiceIsThere
    <2>3. U(Choice) = V
        <3>1. ReplyAt = Append(Choice, "message")
            BY <1>5, ReplyAtIs
        <3> QED BY <3>1
    <2> HIDE DEF U, V, C
    <2>4. V \subseteq ResponseAt(b)
        BY <2>1, <2>2, <2>3
    <2> HIDE DEF b
    <2>5. At(r) \in TransformStringValue(b, At(r))
        BY <1>3, StringValue
    <2>6. <<>> \in Path /\ ReplyAt \in Path /\ At(<<>>) = ReplyAt
        BY EmptyPath, AtIs, ReplyAtIs
    <2>7. \A k \in Keys : /\ <<k>> \in Path /\ Append(<<>>, k) = <<k>> /\ Len(<<k>>) >= 1
        <3> TAKE k \in Keys
        <3>1. <<k>> \in Path /\ Append(<<>>, k) = <<k>> /\ Len(<<k>>) = 1
            BY Top
        <3> QED BY <3>1
    <2>8. \A k \in Keys : At(<<k>>) = Append(ReplyAt, k)
        <3> TAKE k \in Keys
        <3>1. At(Append(<<>>, k)) = Append(At(<<>>), k)
            BY <2>6, AtStep
        <3> QED BY <2>6, <2>7, <3>1
    <2>9. \A q \in Path : \A k \in Keys : At(Append(q, k)) = Append(At(q), k) /\ Append(q, k) \in Path
        BY AtStep
    <2> DEFINE c1 == <<"content">>
               f1 == <<"function_call">>
               t1 == <<"tool_calls">>
    <2>10. c1 \in Path /\ f1 \in Path /\ t1 \in Path /\ Len(c1) >= 1 /\ Len(t1) >= 1
           /\ c1 = Append(<<>>, "content") /\ f1 = Append(<<>>, "function_call") /\ t1 = Append(<<>>, "tool_calls")
        BY <1>0, <2>7
    <2>11. At(c1) = K /\ At(t1) = L /\ At(Append(f1, "arguments")) = F
        <3>1. At(f1) = Append(ReplyAt, "function_call") /\ At(c1) = K /\ At(t1) = L
            BY <1>0, <2>8
        <3>2. At(Append(f1, "arguments")) = Append(At(f1), "arguments")
            BY <1>0, <2>9, <2>10
        <3> QED BY <3>1, <3>2
    <2>12. r \in OpenAiText(<<>>)
        BY <1>5 DEF AnswerText
    <2>13. \/ r \in Parts(c1)
           \/ r = Append(<<>>, "name")
           \/ r = Append(f1, "arguments")
           \/ \E t \in Elements(t1) : r = Append(Append(t, "function"), "arguments")
        <3>1. OpenAiText(<<>>) = Parts(Append(<<>>, "content"))
                 \cup {Append(<<>>, "name"), Append(Append(<<>>, "function_call"), "arguments")}
                 \cup {Append(Append(t, "function"), "arguments") : t \in Elements(Append(<<>>, "tool_calls"))}
            BY DEF OpenAiText
        <3>2. OpenAiText(<<>>) = Parts(c1)
                 \cup {Append(<<>>, "name"), Append(f1, "arguments")}
                 \cup {Append(Append(t, "function"), "arguments") : t \in Elements(t1)}
            BY <2>10, <3>1
        <3> HIDE DEF c1, f1, t1
        <3> QED BY <2>12, <3>2
    <2>14. r # Append(<<>>, "name")
        <3>1. "name" \in Keys
            BY FixedKeysAreKeys
        <3>2. Append(<<>>, "name") = <<"name">>
            BY <3>1, Top
        <3>3. r # <<"name">>
            BY <1>5 DEF AnswerText
        <3> QED BY <3>2, <3>3
    <2> HIDE DEF c1, f1, t1, K, L, F
    <2>15. ASSUME NEW q \in Items(m, c1)
           PROVE  At(q) \in Items(b, K) /\ q \in Path
        <3>1. q \in Path
            BY <1>1, <2>15 DEF Items
        <3>2. At(q) \in Items(b, At(c1))
            BY <1>1, <1>2, <2>10, <2>15, ItemsLift DEF b
        <3> QED BY <2>11, <3>1, <3>2
    <2>16. CASE r \in Parts(c1)
        <3>1. CASE r = c1
            <4>1. At(r) \in DemaskContent(b, K)
                BY <1>3, <2>11, <3>1 DEF DemaskContent, Is
            <4> QED BY <2>4, <4>1 DEF V, b
        <3>2. CASE r \in Elements(c1)
            <4>1. r \in Items(m, c1)
                BY <1>1, <2>10, <3>2, ElementOf
            <4>2. At(r) \in DemaskContent(b, K)
                BY <1>3, <2>15, <4>1 DEF DemaskContent, Is
            <4> QED BY <2>4, <4>2 DEF V, b
        <3>3. ASSUME NEW q \in Elements(c1), r = Append(q, "text")
              PROVE  At(r) \in ResponseAt(b)
            <4>1. q \in Path /\ Len(q) >= 1
                BY <2>10, ElementPath
            <4>2. q \in DOMAIN m
                BY <1>0, <1>1, <3>3, <4>1, ParentOf
            <4>3. q \in Items(m, c1)
                BY <1>1, <2>10, <4>2, ElementOf
            <4>4. At(q) \in Items(b, K) /\ At(r) = Append(At(q), "text")
                BY <1>0, <2>9, <2>15, <3>3, <4>1, <4>3
            <4>5. At(r) \in DemaskContent(b, K)
                BY <2>5, <4>4 DEF DemaskContent
            <4> QED BY <2>4, <4>5 DEF V
        <3> QED BY <2>16, <3>1, <3>2, <3>3 DEF Parts, b
    <2>17. CASE r = Append(f1, "arguments")
        <3>1. At(r) = F
            BY <2>11, <2>17
        <3> QED BY <2>4, <2>5, <3>1 DEF V, b
    <2>18. ASSUME NEW t \in Elements(t1), r = Append(Append(t, "function"), "arguments")
           PROVE  At(r) \in ResponseAt(b)
        <3> DEFINE f == Append(t, "function")
        <3>1. t \in Path /\ Len(t) >= 1
            BY <2>10, ElementPath
        <3>2. f \in Path /\ Len(f) >= 1
            <4>1. Append(t, "function") \in Path /\ Len(Append(t, "function")) = Len(t) + 1
                BY <1>0, <3>1, StepProps
            <4> QED BY <3>1, <4>1
        <3> HIDE DEF f
        <3>3. f \in DOMAIN m
            BY <1>0, <1>1, <2>18, <3>2, ParentOf DEF f
        <3>4. t \in DOMAIN m
            BY <1>0, <1>1, <3>1, <3>3, ParentOf DEF f
        <3>5. t \in Items(m, t1)
            BY <1>1, <2>10, <3>4, ElementOf
        <3>6. At(t) \in Items(b, L)
            BY <1>1, <1>2, <2>10, <2>11, <3>5, ItemsLift DEF b
        <3>7. At(r) = Append(Append(At(t), "function"), "arguments")
            <4>1. At(f) = Append(At(t), "function")
                BY <1>0, <2>9, <3>1 DEF f
            <4>2. At(Append(f, "arguments")) = Append(At(f), "arguments")
                BY <1>0, <2>9, <3>2
            <4>3. r = Append(f, "arguments")
                BY <2>18 DEF f
            <4> QED BY <4>1, <4>2, <4>3
        <3>8. At(r) \in TransformToolCallArgs(b, ReplyAt)
            BY <2>5, <3>6, <3>7 DEF TransformToolCallArgs, L
        <3> QED BY <2>4, <3>8 DEF V
    <2> QED BY <2>13, <2>14, <2>16, <2>17, <2>18 DEF b
<1> QED BY <1>4, <1>5 DEF Schemas

-----------------------------------------------------------------------------
(* What an answer is shown as.  Node by node, a thought included; and a    *)
(* message shown is a message the schema allows, so the history stays      *)
(* good.                                                                   *)

LEMMA MeaningIs ==
    ASSUME NEW v, NEW k, Known(v, k)
    PROVE  /\ Meaning(v, k).is = "string" /\ Meaning(v, k).word = "real"
           /\ Meaning(v, k) = Real(CHOOSE x \in DOMAIN v : v[x] = k)
           /\ DOMAIN v \subseteq Values => IsNode(Meaning(v, k))
<1> DEFINE y == CHOOSE x \in DOMAIN v : v[x] = k
<1>1. y \in DOMAIN v
    BY DEF Known
<1>2. Meaning(v, k) = Real(y)
    BY DEF Meaning
<1> HIDE DEF y
<1>3. Real(y).is = "string" /\ Real(y).word = "real" /\ (y \in Values => IsNode(Real(y)))
    BY DEF Real, IsNode
<1> QED BY <1>1, <1>2, <1>3 DEF y

\* What may be restored: an answer's placeholder.
LEMMA MarksAre ==
    ASSUME 1 \in DOMAIN Indices, schema \in Schemas, NEW m, GoodReply(schema, m),
           NEW r \in DOMAIN m, m[r].word = "mark"
    PROVE  /\ m[r].is = "string" /\ r \in Path
           /\ IsThought(r) <=> At(r) \notin ResponseAt(ResponseBody(m))
           /\ ~IsThought(r) => r \in AnswerText(schema, m)
<1>1. IsTree(m, 0) /\ (r \in AnswerText(schema, m) \/ IsThought(r))
    BY DEF GoodReply, IsFragment, Holding
<1>2. DOMAIN m \subseteq Path /\ r \in Path
    BY <1>1, TreePaths
<1>3. m[r].is = "string"
    <2>1. IsNode(m[r])
        BY <1>1 DEF IsTree
    <2> QED BY <2>1 DEF IsNode
<1>4. IsThought(r) => At(r) \notin ResponseAt(ResponseBody(m))
    BY <1>2, ThoughtsStay
<1>5. ~IsThought(r) => At(r) \in ResponseAt(ResponseBody(m))
    BY <1>1, <1>3, AnswersAreRestored
<1> QED BY <1>1, <1>2, <1>3, <1>4, <1>5

\* How a client sees a node of an answer.
SeenAs(s, m, v, r) ==
  s[r] = IF m[r].word = "mark" /\ ~IsThought(r) /\ Known(v, m[r].of) THEN Meaning(v, m[r].of) ELSE m[r]

\* Each node of an answer is shown as AnswerIsRestored says.
LEMMA ShownAs ==
    ASSUME 1 \in DOMAIN Indices, schema \in Schemas, NEW m, GoodReply(schema, m), NEW v, NEW r \in DOMAIN m
    PROVE  SeenAs(Shown(m, v), m, v, r) /\ r \in DOMAIN Shown(m, v)
<1>1. IsTree(m, 0) /\ DOMAIN m \subseteq Path
    BY TreePaths DEF GoodReply, IsFragment
<1>2. Shows(Shown(m, v), m, v)
    BY <1>1, ShownIs
<1>3. Shown(m, v)[r] = NodeShown(m, v, r) /\ r \in DOMAIN Shown(m, v)
    BY <1>2 DEF Shows
<1>4. m[r].word = "mark" => (IsThought(r) <=> At(r) \notin ResponseAt(ResponseBody(m)))
    BY MarksAre
<1> QED BY <1>3, <1>4 DEF NodeShown, SeenAs

\* A thought is shown and comes back as it is.
LEMMA ThoughtsAre ==
    ASSUME 1 \in DOMAIN Indices, schema \in Schemas, NEW m, GoodReply(schema, m), NEW v, NEW r \in Thinking(m)
    PROVE  r \in DOMAIN Shown(m, v) /\ Shown(m, v)[r] = m[r] /\ m[r].word # "real"
<1>1. r \in DOMAIN m /\ IsThought(r) /\ m[r].is = "string"
    BY DEF Thinking
<1>2. r \in DOMAIN Shown(m, v) /\ Shown(m, v)[r] = m[r]
    BY <1>1, ShownAs DEF SeenAs
<1>3. ASSUME m[r].word = "real" PROVE FALSE
    <2>1. IsTree(m, 0) /\ r \in AnswerText(schema, m)
        BY <1>1, <1>3 DEF GoodReply, IsFragment, Holding
    <2>2. At(r) \in ResponseAt(ResponseBody(m))
        BY <1>1, <2>1, AnswersAreRestored
    <2>3. DOMAIN m \subseteq Path
        BY <2>1, TreePaths
    <2>4. At(r) \notin ResponseAt(ResponseBody(m))
        BY <1>1, <2>3, ThoughtsStay
    <2> QED BY <2>2, <2>4
<1> QED BY <1>2, <1>3

\* What the schema has for an answer it has for a message of a request.
LEMMA AnswerIsText ==
    ASSUME schema \in Schemas, NEW m, NEW s, DOMAIN s = DOMAIN m,
           \A p \in DOMAIN m : \/ s[p] = m[p]
                               \/ m[p].word = "mark" /\ s[p].is = m[p].is,
           NEW r \in AnswerText(schema, m)
    PROVE  r \in MessageText(schema, s, <<>>)
<1>1. CASE schema = "OpenAi"
    BY <1>1 DEF AnswerText, MessageText
<1>2. CASE schema = "Anthropic"
    <2>1. PICK q \in Elements(<<"content">>) :
            \/ StringOf(m, Append(q, "type")) = "text" /\ r = Append(q, "text")
            \/ StringOf(m, Append(q, "type")) = "tool_use" /\ r \in Under(m, Append(q, "input"))
        BY <1>2, AnswerTextIs
    <2>2. \A p : StringOf(m, p) \in {"text", "tool_use"} => StringOf(s, p) = StringOf(m, p)
        <3> TAKE p
        <3> HAVE StringOf(m, p) \in {"text", "tool_use"}
        <3>1. Is(m, p, {"string"}) /\ m[p].word \in {"text", "tool_use"} /\ StringOf(m, p) = m[p].word
            BY DEF StringOf
        <3>2. p \in DOMAIN m /\ s[p] = m[p]
            BY <3>1 DEF Is
        <3> QED BY <3>1, <3>2 DEF StringOf, Is
    <2> DEFINE type == StringOf(s, Append(q, "type"))
    <2>3. \/ type = "text" /\ r = Append(q, "text")
          \/ type = "tool_use" /\ r \in Under(s, Append(q, "input"))
        BY <2>1, <2>2 DEF Under
    <2>4. r \in BlockText(s, q)
        BY <2>3, BlockTextIs
    <2>5. Append(<<>>, "content") = <<"content">>
        BY FixedKeysAreKeys, Top
    <2>6. r \in AnthropicText(s, <<>>)
        BY <2>4, <2>5 DEF AnthropicText
    <2> QED BY <1>2, <2>6 DEF MessageText
<1> QED BY <1>1, <1>2 DEF Schemas

\* An answer is shown as a message the client may send back.
LEMMA ShownIsGood ==
    ASSUME 1 \in DOMAIN Indices, schema \in Schemas, NEW m, GoodReply(schema, m), NEW v, DOMAIN v \subseteq Values
    PROVE  GoodMessage(schema, Shown(m, v))
<1> DEFINE s == Shown(m, v)
<1>1. IsTree(m, 0) /\ DOMAIN m \subseteq Path /\ <<>> \in DOMAIN m /\ m[<<>>].is = "object"
    BY TreePaths DEF GoodReply, IsFragment
<1>2. DOMAIN s = DOMAIN m /\ s = [r \in DOMAIN s |-> s[r]]
    BY <1>1, ShownIs DEF Shows
<1>3. \A r \in DOMAIN m : SeenAs(s, m, v, r)
    BY ShownAs
<1>4. \A r \in DOMAIN m : m[r].word = "mark" => m[r].is = "string" /\ (~IsThought(r) => r \in AnswerText(schema, m))
    BY MarksAre
<1>5. \A r \in DOMAIN m : IsNode(m[r])
    BY <1>1 DEF IsTree
<1>6. \A k : Known(v, k) => Meaning(v, k).is = "string" /\ Meaning(v, k).word = "real" /\ IsNode(Meaning(v, k))
    BY MeaningIs
<1> HIDE DEF s
<1>7. \A r \in DOMAIN m : /\ s[r].is = m[r].is /\ IsNode(s[r])
                          /\ s[r] = m[r] \/ (m[r].word = "mark" /\ ~IsThought(r) /\ s[r].word = "real")
    <2> TAKE r \in DOMAIN m
    <2>1. CASE m[r].word = "mark" /\ ~IsThought(r) /\ Known(v, m[r].of)
        <3>1. s[r] = Meaning(v, m[r].of)
            BY <1>3, <2>1 DEF SeenAs
        <3> QED BY <1>4, <1>6, <2>1, <3>1
    <2>2. CASE ~(m[r].word = "mark" /\ ~IsThought(r) /\ Known(v, m[r].of))
        <3>1. s[r] = m[r]
            BY <1>3, <2>2 DEF SeenAs
        <3> QED BY <1>5, <3>1
    <2> QED BY <2>1, <2>2
<1>8. IsTree(s, 0)
    BY <1>1, <1>2, <1>7, ShapeKept
<1>9. IsFragment(s)
    BY <1>1, <1>2, <1>7, <1>8 DEF IsFragment
<1>10. ASSUME NEW p \in Holding(s, "real")
       PROVE  p \in MessageText(schema, s, <<>>)
    <2>1. p \in DOMAIN m /\ s[p].word = "real"
        BY <1>2 DEF Holding
    <2>2. p \in AnswerText(schema, m)
        <3>1. CASE s[p] = m[p]
            <4>1. p \in Holding(m, "real")
                BY <2>1, <3>1 DEF Holding
            <4> QED BY <4>1 DEF GoodReply
        <3>2. CASE m[p].word = "mark" /\ ~IsThought(p)
            BY <1>4, <2>1, <3>2
        <3> QED BY <1>7, <2>1, <3>1, <3>2
    <2> QED BY <1>2, <1>7, <2>2, AnswerIsText
<1>11. GoodMessage(schema, s)
    BY <1>9, <1>10 DEF GoodMessage
<1> QED BY <1>11 DEF s

-----------------------------------------------------------------------------
(* Reads of the walk: parts.  The other bound: the walk rewrites nothing   *)
(* but text of the schema.  Here optional strings, and the strings of      *)
(* lists.                                                                  *)

\* What a walk reads is a text of its schema.

LEMMA AllOfReads ==
    ASSUME NEW V, NEW p \in AllOf(V).at
    PROVE  \E v \in V : p \in v.at
BY DEF AllOf

LEMMA StringValueReads ==
    ASSUME NEW b, NEW q, NEW p \in TransformStringValue(b, q)
    PROVE  p = q /\ Is(b, p, {"string"})
BY DEF TransformStringValue

LEMMA LeavesRead ==
    ASSUME NEW b, NEW q, NEW p \in TransformStringLeaves(b, q)
    PROVE  p \in Under(b, q) /\ Is(b, p, {"string"})
BY DEF TransformStringLeaves

LEMMA ItemsAreElements ==
    ASSUME NEW b, IsTree(b, 1), NEW c \in Path, Len(c) >= 1, NEW q \in Items(b, c)
    PROVE  q \in Elements(c) /\ q \in Path /\ q \in DOMAIN b
<1>1. DOMAIN b \subseteq Path
    BY TreePaths
<1>2. q \in DOMAIN b /\ Is(b, c, {"array"}) /\ \E k \in Keys : q = Append(c, k)
    BY <1>1, ItemsAre
<1>3. PICK k \in Keys : q = Append(c, k)
    BY <1>2
<1>4. k \in Numerals
    <2>1. k \notin Numerals => b[c].is = "object"
        BY <1>2, <1>3, ParentOf
    <2> QED BY <1>2, <2>1 DEF Is
<1> QED BY <1>1, <1>2, <1>3, <1>4 DEF Elements

LEMMA ContentReads ==
    ASSUME NEW b, IsTree(b, 1), NEW c \in Path, Len(c) >= 1, NEW p \in MaskContent(b, c).at
    PROVE  p \in Parts(c) /\ Is(b, p, {"string"})
<1> DEFINE E(q) == CASE Is(b, q, {"string"}) -> Visit({q})
                     [] Is(b, q, {"object"}) -> Visit(TransformStringValue(b, Append(q, "text")))
                     [] OTHER                -> Refuse
           V == {E(q) : q \in Items(b, c)}
<1>1. \/ MaskContent(b, c) = Visit({})
      \/ MaskContent(b, c) = Refuse
      \/ MaskContent(b, c) = Visit({c}) /\ Is(b, c, {"string"})
      \/ MaskContent(b, c) = AllOf(V)
    <2>1. CASE c \notin DOMAIN b
        <3>1. \A kinds : ~Is(b, c, kinds)
            BY <2>1 DEF Is
        <3> QED BY <2>1, <3>1 DEF MaskContent, StringOrArray
    <2>2. CASE c \in DOMAIN b /\ Is(b, c, {"string"})
        <3>1. ~Is(b, c, {"null"}) /\ ~Is(b, c, {"array"})
            BY <2>2 DEF Is
        <3> QED BY <2>2, <3>1 DEF MaskContent, StringOrArray
    <2>3. CASE c \in DOMAIN b /\ Is(b, c, {"null"})
        <3>1. ~Is(b, c, {"string"}) /\ ~Is(b, c, {"array"})
            BY <2>3 DEF Is
        <3> QED BY <2>3, <3>1 DEF MaskContent, StringOrArray
    <2>4. CASE c \in DOMAIN b /\ Is(b, c, {"array"})
        <3>1. ~Is(b, c, {"string"}) /\ ~Is(b, c, {"null"})
            BY <2>4 DEF Is
        <3> QED BY <2>4, <3>1 DEF MaskContent, StringOrArray
    <2>5. CASE c \in DOMAIN b /\ ~Is(b, c, {"string"}) /\ ~Is(b, c, {"null"}) /\ ~Is(b, c, {"array"})
        <3> DEFINE A == AllOf({E(q) : q \in Items(b, c)})
        <3>1. MaskContent(b, c) = Refuse
            BY <2>5, Zenon DEF MaskContent, StringOrArray
        <3> QED BY <3>1
    <2> QED BY <2>1, <2>2, <2>3, <2>4, <2>5
<1> HIDE DEF E, V
<1>2. (p = c /\ Is(b, c, {"string"})) \/ p \in AllOf(V).at
    BY <1>1, VisitIs
<1>3. ASSUME NEW q \in Items(b, c), p \in E(q).at
      PROVE  p \in Parts(c) /\ Is(b, p, {"string"})
    <2>0. q \in Elements(c)
        BY ItemsAreElements
    <2>1. \/ E(q) = Visit({q}) /\ Is(b, q, {"string"})
          \/ E(q) = Visit(TransformStringValue(b, Append(q, "text")))
          \/ E(q) = Refuse
        <3>1. CASE Is(b, q, {"string"})
            <4>1. ~Is(b, q, {"object"})
                BY <3>1 DEF Is
            <4> QED BY <3>1, <4>1, Zenon DEF E
        <3>2. CASE Is(b, q, {"object"})
            <4>1. ~Is(b, q, {"string"})
                BY <3>2 DEF Is
            <4> QED BY <3>2, <4>1, Zenon DEF E
        <3>3. CASE ~Is(b, q, {"string"}) /\ ~Is(b, q, {"object"})
            BY <3>3, Zenon DEF E
        <3> QED BY <3>1, <3>2, <3>3
    <2>2. (p = q /\ Is(b, q, {"string"})) \/ p \in TransformStringValue(b, Append(q, "text"))
        BY <1>3, <2>1, VisitIs
    <2>3. p \in TransformStringValue(b, Append(q, "text")) => p = Append(q, "text") /\ Is(b, p, {"string"})
        BY StringValueReads
    <2> QED BY <2>0, <2>2, <2>3 DEF Parts
<1>4. ASSUME p \in AllOf(V).at
      PROVE  \E q \in Items(b, c) : p \in E(q).at
    <2>1. \E v \in V : p \in v.at
        BY <1>4, AllOfReads
    <2> QED BY <2>1 DEF V
<1>5. c \in Parts(c)
    BY DEF Parts
<1> QED BY <1>2, <1>3, <1>4, <1>5

-----------------------------------------------------------------------------
(* Reads of the walk: blocks inside a block.  The same of a tool_result's  *)
(* content, of the system part and of documents.                           *)

LEMMA InnerReads ==
    ASSUME NEW b, IsTree(b, 1), NEW c \in Path, Len(c) >= 1, NEW p \in MaskContentBlockArray(b, c).at
    PROVE  p \in InnerText(b, c) /\ Is(b, p, {"string"})
<1> DEFINE T(q) == StringOf(b, Append(q, "type"))
           E(q) == CASE Is(b, q, {"string"}) -> Visit({q})
                     [] T(q) = "text"        -> Visit(TransformStringValue(b, Append(q, "text")))
                     [] T(q) = "image"       -> Visit({})
                     [] OTHER                -> Refuse
           V == {E(q) : q \in Items(b, c)}
<1>1. \/ MaskContentBlockArray(b, c) = Visit({})
      \/ MaskContentBlockArray(b, c) = Refuse
      \/ MaskContentBlockArray(b, c) = Visit({c}) /\ Is(b, c, {"string"})
      \/ MaskContentBlockArray(b, c) = AllOf(V)
    <2>1. CASE c \notin DOMAIN b
        <3>1. \A kinds : ~Is(b, c, kinds)
            BY <2>1 DEF Is
        <3> QED BY <2>1, <3>1 DEF MaskContentBlockArray, StringOrArray
    <2>2. CASE c \in DOMAIN b /\ Is(b, c, {"string"})
        <3>1. ~Is(b, c, {"null"}) /\ ~Is(b, c, {"array"})
            BY <2>2 DEF Is
        <3> QED BY <2>2, <3>1 DEF MaskContentBlockArray, StringOrArray
    <2>3. CASE c \in DOMAIN b /\ Is(b, c, {"null"})
        <3>1. ~Is(b, c, {"string"}) /\ ~Is(b, c, {"array"})
            BY <2>3 DEF Is
        <3> QED BY <2>3, <3>1 DEF MaskContentBlockArray, StringOrArray
    <2>4. CASE c \in DOMAIN b /\ Is(b, c, {"array"})
        <3>1. ~Is(b, c, {"string"}) /\ ~Is(b, c, {"null"})
            BY <2>4 DEF Is
        <3> QED BY <2>4, <3>1 DEF MaskContentBlockArray, StringOrArray
    <2>5. CASE c \in DOMAIN b /\ ~Is(b, c, {"string"}) /\ ~Is(b, c, {"null"}) /\ ~Is(b, c, {"array"})
        <3>1. MaskContentBlockArray(b, c) = Refuse
            BY <2>5, Zenon DEF MaskContentBlockArray, StringOrArray
        <3> QED BY <3>1
    <2> QED BY <2>1, <2>2, <2>3, <2>4, <2>5
<1> HIDE DEF E, V
<1>2. (p = c /\ Is(b, c, {"string"})) \/ p \in AllOf(V).at
    BY <1>1, VisitIs
<1>3. ASSUME NEW q \in Items(b, c), p \in E(q).at
      PROVE  p \in InnerText(b, c) /\ Is(b, p, {"string"})
    <2>0. q \in Elements(c) /\ q \in Path /\ Len(q) >= 1
        BY ItemsAreElements, ElementPath
    <2>1. \/ E(q) = Visit({q}) /\ Is(b, q, {"string"})
          \/ E(q) = Visit(TransformStringValue(b, Append(q, "text"))) /\ T(q) = "text"
          \/ E(q) = Visit({})
          \/ E(q) = Refuse
        <3>1. CASE Is(b, q, {"string"})
            <4>1. T(q) # "text" /\ T(q) # "image"
                <5>1. ~(T(q) # "none")
                    BY <2>0, <3>1, TypedIs DEF Is
                <5> QED BY <5>1
            <4> QED BY <3>1, <4>1, Zenon DEF E
        <3>2. CASE ~Is(b, q, {"string"}) /\ T(q) = "text"
            <4>1. T(q) # "image"
                BY <3>2
            <4> QED BY <3>2, <4>1, Zenon DEF E
        <3>3. CASE ~Is(b, q, {"string"}) /\ T(q) = "image"
            <4>1. T(q) # "text"
                BY <3>3
            <4> QED BY <3>3, <4>1, Zenon DEF E
        <3>4. CASE ~Is(b, q, {"string"}) /\ T(q) # "text" /\ T(q) # "image"
            BY <3>4, Zenon DEF E
        <3> QED BY <3>1, <3>2, <3>3, <3>4
    <2>2. \/ p = q /\ Is(b, q, {"string"})
          \/ p \in TransformStringValue(b, Append(q, "text")) /\ T(q) = "text"
        BY <1>3, <2>1, VisitIs
    <2>3. p \in TransformStringValue(b, Append(q, "text")) => p = Append(q, "text") /\ Is(b, p, {"string"})
        BY StringValueReads
    <2> QED BY <2>0, <2>2, <2>3, InnerTextIs
<1>4. ASSUME p \in AllOf(V).at
      PROVE  \E q \in Items(b, c) : p \in E(q).at
    <2>1. \E v \in V : p \in v.at
        BY <1>4, AllOfReads
    <2> QED BY <2>1 DEF V
<1>5. c \in InnerText(b, c)
    BY InnerTextIs
<1> QED BY <1>2, <1>3, <1>4, <1>5

LEMMA SystemReads ==
    ASSUME NEW b, IsTree(b, 1), NEW c \in Path, Len(c) >= 1, NEW p \in MaskAnthropicSystem(b, c).at
    PROVE  p \in Parts(c) /\ Is(b, p, {"string"})
<1> DEFINE E(q) == IF Append(q, "text") \in DOMAIN b THEN Visit(TransformStringValue(b, Append(q, "text"))) ELSE Refuse
           V == {E(q) : q \in Items(b, c)}
<1>1. \/ MaskAnthropicSystem(b, c) = Visit({})
      \/ MaskAnthropicSystem(b, c) = Refuse
      \/ MaskAnthropicSystem(b, c) = Visit({c}) /\ Is(b, c, {"string"})
      \/ MaskAnthropicSystem(b, c) = AllOf(V)
    <2>1. CASE c \notin DOMAIN b
        <3>1. \A kinds : ~Is(b, c, kinds)
            BY <2>1 DEF Is
        <3> QED BY <2>1, <3>1 DEF MaskAnthropicSystem, StringOrArray
    <2>2. CASE c \in DOMAIN b /\ Is(b, c, {"string"})
        <3>1. ~Is(b, c, {"null"}) /\ ~Is(b, c, {"array"})
            BY <2>2 DEF Is
        <3> QED BY <2>2, <3>1 DEF MaskAnthropicSystem, StringOrArray
    <2>3. CASE c \in DOMAIN b /\ Is(b, c, {"null"})
        <3>1. ~Is(b, c, {"string"}) /\ ~Is(b, c, {"array"})
            BY <2>3 DEF Is
        <3> QED BY <2>3, <3>1 DEF MaskAnthropicSystem, StringOrArray
    <2>4. CASE c \in DOMAIN b /\ Is(b, c, {"array"})
        <3>1. ~Is(b, c, {"string"}) /\ ~Is(b, c, {"null"})
            BY <2>4 DEF Is
        <3> QED BY <2>4, <3>1 DEF MaskAnthropicSystem, StringOrArray
    <2>5. CASE c \in DOMAIN b /\ ~Is(b, c, {"string"}) /\ ~Is(b, c, {"null"}) /\ ~Is(b, c, {"array"})
        <3>1. MaskAnthropicSystem(b, c) = Refuse
            BY <2>5, Zenon DEF MaskAnthropicSystem, StringOrArray
        <3> QED BY <3>1
    <2> QED BY <2>1, <2>2, <2>3, <2>4, <2>5
<1> HIDE DEF E, V
<1>2. (p = c /\ Is(b, c, {"string"})) \/ p \in AllOf(V).at
    BY <1>1, VisitIs
<1>3. ASSUME NEW q \in Items(b, c), p \in E(q).at
      PROVE  p \in Parts(c) /\ Is(b, p, {"string"})
    <2>0. q \in Elements(c)
        BY ItemsAreElements
    <2>1. E(q) = Visit(TransformStringValue(b, Append(q, "text"))) \/ E(q) = Refuse
        BY DEF E
    <2>2. p \in TransformStringValue(b, Append(q, "text"))
        BY <1>3, <2>1, VisitIs
    <2>3. p = Append(q, "text") /\ Is(b, p, {"string"})
        BY <2>2, StringValueReads
    <2> QED BY <2>0, <2>3 DEF Parts
<1>4. ASSUME p \in AllOf(V).at
      PROVE  \E q \in Items(b, c) : p \in E(q).at
    <2>1. \E v \in V : p \in v.at
        BY <1>4, AllOfReads
    <2> QED BY <2>1 DEF V
<1>5. c \in Parts(c)
    BY DEF Parts
<1> QED BY <1>2, <1>3, <1>4, <1>5

LEMMA SourceReads ==
    ASSUME NEW b, IsTree(b, 1), NEW s \in Path, Len(s) >= 1, NEW B,
           B = (LET type == StringOf(b, Append(s, "type")) IN
                CASE s \notin DOMAIN b             -> Visit({})
                  [] type = "text"                 -> Visit(TransformStringValue(b, Append(s, "data")))
                  [] type = "content"              -> MaskContentBlockArray(b, Append(s, "content"))
                  [] type \in {"base64", "url"}    -> Visit({})
                  [] OTHER                         -> Refuse),
           NEW p \in B.at
    PROVE  p \in SourceText(b, s) /\ Is(b, p, {"string"})
<1> DEFINE type == StringOf(b, Append(s, "type"))
<1>0. "content" \in Keys
    BY FixedKeysAreKeys
<1>1. s \in DOMAIN b
    <2>1. CASE s \notin DOMAIN b
        <3>1. ~(type # "none")
            BY <2>1, TypedIs
        <3>2. type # "text" /\ type # "content" /\ type \notin {"base64", "url"}
            BY <3>1
        <3>3. B = Visit({})
            BY <2>1, <3>2, Zenon
        <3> QED BY <3>3, VisitIs
    <2> QED BY <2>1
<1>2. CASE type = "text"
    <2>1. type # "content" /\ type \notin {"base64", "url"}
        BY <1>2
    <2>2. B = Visit(TransformStringValue(b, Append(s, "data")))
        BY <1>1, <1>2, <2>1, Zenon
    <2>3. p = Append(s, "data") /\ Is(b, p, {"string"})
        <3>1. p \in TransformStringValue(b, Append(s, "data"))
            BY <2>2, VisitIs
        <3> QED BY <3>1, StringValueReads
    <2> QED BY <1>2, <2>3, SourceTextIs
<1>3. CASE type = "content"
    <2>1. type # "text" /\ type \notin {"base64", "url"}
        BY <1>3
    <2>2. B = MaskContentBlockArray(b, Append(s, "content"))
        BY <1>1, <1>3, <2>1, Zenon
    <2>3. Append(s, "content") \in Path /\ Len(Append(s, "content")) >= 1
        BY <1>0, ChildFacts
    <2>4. p \in InnerText(b, Append(s, "content")) /\ Is(b, p, {"string"})
        BY <2>2, <2>3, InnerReads
    <2> QED BY <1>3, <2>4, SourceTextIs
<1>4. CASE type \in {"base64", "url"}
    <2>1. type # "text" /\ type # "content"
        BY <1>4
    <2>2. B = Visit({})
        BY <1>1, <1>4, <2>1, Zenon
    <2> QED BY <2>2, VisitIs
<1>5. CASE type \notin {"text", "content", "base64", "url"}
    <2>1. type # "text" /\ type # "content" /\ type \notin {"base64", "url"}
        BY <1>5
    <2>2. B = Refuse
        BY <1>1, <2>1, Zenon
    <2> QED BY <2>2, VisitIs
<1> QED BY <1>2, <1>3, <1>4, <1>5

LEMMA DocumentReads ==
    ASSUME NEW b, IsTree(b, 1), NEW q \in Path, Len(q) >= 1, NEW p \in MaskAnthropicDocument(b, q).at
    PROVE  /\ p \in {Append(q, "title"), Append(q, "context")} \cup SourceText(b, Append(q, "source"))
           /\ Is(b, p, {"string"})
<1> DEFINE s == Append(q, "source")
           U == UNION {TransformStringValue(b, Append(q, k)) : k \in {"title", "context"}}
           B == LET type == StringOf(b, Append(s, "type")) IN
                CASE s \notin DOMAIN b             -> Visit({})
                  [] type = "text"                 -> Visit(TransformStringValue(b, Append(s, "data")))
                  [] type = "content"              -> MaskContentBlockArray(b, Append(s, "content"))
                  [] type \in {"base64", "url"}    -> Visit({})
                  [] OTHER                         -> Refuse
<1>1. "source" \in Keys
    BY FixedKeysAreKeys
<1>2. s \in Path /\ Len(s) >= 1
    BY <1>1, ChildFacts
<1>3. MaskAnthropicDocument(b, q) = AllOf({Visit(U), B})
    BY DEF MaskAnthropicDocument
<1>5. ASSUME p \in U PROVE p \in {Append(q, "title"), Append(q, "context")} /\ Is(b, p, {"string"})
    <2>1. PICK k \in {"title", "context"} : p \in TransformStringValue(b, Append(q, k))
        BY <1>5
    <2>2. p = Append(q, k) /\ Is(b, p, {"string"})
        BY <2>1, StringValueReads
    <2> QED BY <2>2
<1>6. p \in B.at => p \in SourceText(b, s) /\ Is(b, p, {"string"})
    <2>1. B = B
        OBVIOUS
    <2> QED BY <1>2, <2>1, SourceReads
<1> HIDE DEF B, U, s
<1>4. p \in U \/ p \in B.at
    BY <1>3, AllOfReads, VisitIs
<1> QED BY <1>4, <1>5, <1>6 DEF s

-----------------------------------------------------------------------------
(* Reads of the walk: messages.  The same of every block and so of a       *)
(* message.                                                                *)

LEMMA BlockReads ==
    ASSUME NEW b, IsTree(b, 1), NEW q \in Path, Len(q) >= 1, NEW p \in MaskAnthropicBlock(b, q).at
    PROVE  p \in BlockText(b, q) /\ Is(b, p, {"string"})
<1> DEFINE type == StringOf(b, Append(q, "type"))
           W == MaskAnthropicBlock(b, q)
<1>0. "content" \in Keys
    BY FixedKeysAreKeys
<1>1. CASE Is(b, q, {"string"})
    <2>1. ~(type # "none")
        BY <1>1, TypedIs DEF Is
    <2>2. /\ type # "text" /\ type # "thinking" /\ type # "tool_use" /\ type # "tool_result"
          /\ type # "document" /\ type \notin {"image", "redacted_thinking"}
        BY <2>1
    <2>3. W = Visit({q})
        BY <1>1, <2>2, Zenon DEF MaskAnthropicBlock
    <2>4. p = q
        BY <2>3, VisitIs
    <2> QED BY <1>1, <2>4, BlockTextIs
<1>2. CASE ~Is(b, q, {"string"}) /\ type = "text"
    <2>1. /\ type # "thinking" /\ type # "tool_use" /\ type # "tool_result" /\ type # "document"
          /\ type \notin {"image", "redacted_thinking"}
        BY <1>2
    <2>2. W = Visit(TransformStringValue(b, Append(q, "text")))
        BY <1>2, <2>1, Zenon DEF MaskAnthropicBlock
    <2>3. p \in TransformStringValue(b, Append(q, "text"))
        BY <2>2, VisitIs
    <2>4. p = Append(q, "text") /\ Is(b, p, {"string"})
        BY <2>3, StringValueReads
    <2> HIDE DEF W
    <2> QED BY <1>2, <2>4, BlockTextIs
<1>3. CASE ~Is(b, q, {"string"}) /\ type = "thinking"
    <2>1. /\ type # "text" /\ type # "tool_use" /\ type # "tool_result" /\ type # "document"
          /\ type \notin {"image", "redacted_thinking"}
        BY <1>3
    <2>2. W = Visit(TransformStringValue(b, Append(q, "thinking")))
        BY <1>3, <2>1, Zenon DEF MaskAnthropicBlock
    <2>3. p \in TransformStringValue(b, Append(q, "thinking"))
        BY <2>2, VisitIs
    <2>4. p = Append(q, "thinking") /\ Is(b, p, {"string"})
        BY <2>3, StringValueReads
    <2> HIDE DEF W
    <2> QED BY <1>3, <2>4, BlockTextIs
<1>4. CASE ~Is(b, q, {"string"}) /\ type = "tool_use"
    <2>1. /\ type # "text" /\ type # "thinking" /\ type # "tool_result" /\ type # "document"
          /\ type \notin {"image", "redacted_thinking"}
        BY <1>4
    <2>2. W = Visit(TransformStringLeaves(b, Append(q, "input")))
        BY <1>4, <2>1, Zenon DEF MaskAnthropicBlock
    <2>3. p \in TransformStringLeaves(b, Append(q, "input"))
        BY <2>2, VisitIs
    <2>4. p \in Under(b, Append(q, "input")) /\ Is(b, p, {"string"})
        BY <2>3, LeavesRead
    <2> HIDE DEF W
    <2> QED BY <1>4, <2>4, BlockTextIs
<1>5. CASE ~Is(b, q, {"string"}) /\ type = "tool_result"
    <2>1. /\ type # "text" /\ type # "thinking" /\ type # "tool_use" /\ type # "document"
          /\ type \notin {"image", "redacted_thinking"}
        BY <1>5
    <2>2. W = MaskContentBlockArray(b, Append(q, "content"))
        BY <1>5, <2>1, Zenon DEF MaskAnthropicBlock
    <2>3. Append(q, "content") \in Path /\ Len(Append(q, "content")) >= 1
        BY <1>0, ChildFacts
    <2>4. p \in InnerText(b, Append(q, "content")) /\ Is(b, p, {"string"})
        BY <2>2, <2>3, InnerReads
    <2> HIDE DEF W
    <2> QED BY <1>5, <2>4, BlockTextIs
<1>6. CASE ~Is(b, q, {"string"}) /\ type = "document"
    <2>1. /\ type # "text" /\ type # "thinking" /\ type # "tool_use" /\ type # "tool_result"
          /\ type \notin {"image", "redacted_thinking"}
        BY <1>6
    <2>2. W = MaskAnthropicDocument(b, q)
        BY <1>6, <2>1, Zenon DEF MaskAnthropicBlock
    <2>4. /\ p \in {Append(q, "title"), Append(q, "context")} \cup SourceText(b, Append(q, "source"))
          /\ Is(b, p, {"string"})
        BY <2>2, DocumentReads
    <2> HIDE DEF W
    <2> QED BY <1>6, <2>4, BlockTextIs
<1>7. CASE ~Is(b, q, {"string"}) /\ type \in {"image", "redacted_thinking"}
    <2>1. type # "text" /\ type # "thinking" /\ type # "tool_use" /\ type # "tool_result" /\ type # "document"
        BY <1>7
    <2>2. W = Visit({})
        BY <1>7, <2>1, Zenon DEF MaskAnthropicBlock
    <2> QED BY <2>2, VisitIs
<1>8. CASE /\ ~Is(b, q, {"string"})
           /\ type \notin {"text", "thinking", "tool_use", "tool_result", "document", "image", "redacted_thinking"}
    <2>1. /\ type # "text" /\ type # "thinking" /\ type # "tool_use" /\ type # "tool_result" /\ type # "document"
          /\ type \notin {"image", "redacted_thinking"}
        BY <1>8
    <2>2. W = Refuse
        BY <1>8, <2>1, Zenon DEF MaskAnthropicBlock
    <2> QED BY <2>2, VisitIs
<1> HIDE DEF type, W
<1> QED BY <1>1, <1>2, <1>3, <1>4, <1>5, <1>6, <1>7, <1>8

LEMMA AnthropicContentReads ==
    ASSUME NEW b, IsTree(b, 1), NEW c \in Path, Len(c) >= 1, NEW p \in MaskAnthropicContent(b, c).at
    PROVE  p \in {c} \cup UNION {BlockText(b, q) : q \in Elements(c)} /\ Is(b, p, {"string"})
<1> DEFINE E(q) == MaskAnthropicBlock(b, q)
           V == {E(q) : q \in Items(b, c)}
<1>1. \/ MaskAnthropicContent(b, c) = Visit({})
      \/ MaskAnthropicContent(b, c) = Refuse
      \/ MaskAnthropicContent(b, c) = Visit({c}) /\ Is(b, c, {"string"})
      \/ MaskAnthropicContent(b, c) = AllOf(V)
    <2>1. CASE c \notin DOMAIN b
        <3>1. \A kinds : ~Is(b, c, kinds)
            BY <2>1 DEF Is
        <3> QED BY <2>1, <3>1 DEF MaskAnthropicContent, StringOrArray
    <2>2. CASE c \in DOMAIN b /\ Is(b, c, {"string"})
        <3>1. ~Is(b, c, {"null"}) /\ ~Is(b, c, {"array"})
            BY <2>2 DEF Is
        <3> QED BY <2>2, <3>1 DEF MaskAnthropicContent, StringOrArray
    <2>3. CASE c \in DOMAIN b /\ Is(b, c, {"null"})
        <3>1. ~Is(b, c, {"string"}) /\ ~Is(b, c, {"array"})
            BY <2>3 DEF Is
        <3> QED BY <2>3, <3>1 DEF MaskAnthropicContent, StringOrArray
    <2>4. CASE c \in DOMAIN b /\ Is(b, c, {"array"})
        <3>1. ~Is(b, c, {"string"}) /\ ~Is(b, c, {"null"})
            BY <2>4 DEF Is
        <3> QED BY <2>4, <3>1 DEF MaskAnthropicContent, StringOrArray
    <2>5. CASE c \in DOMAIN b /\ ~Is(b, c, {"string"}) /\ ~Is(b, c, {"null"}) /\ ~Is(b, c, {"array"})
        <3>1. MaskAnthropicContent(b, c) = Refuse
            BY <2>5, Zenon DEF MaskAnthropicContent, StringOrArray
        <3> QED BY <3>1
    <2> QED BY <2>1, <2>2, <2>3, <2>4, <2>5
<1> HIDE DEF E, V
<1>2. (p = c /\ Is(b, c, {"string"})) \/ p \in AllOf(V).at
    BY <1>1, VisitIs
<1>3. ASSUME NEW q \in Items(b, c), p \in E(q).at
      PROVE  p \in UNION {BlockText(b, x) : x \in Elements(c)} /\ Is(b, p, {"string"})
    <2>0. q \in Elements(c) /\ q \in Path /\ Len(q) >= 1
        BY ItemsAreElements, ElementPath
    <2>1. p \in BlockText(b, q) /\ Is(b, p, {"string"})
        BY <2>0, <1>3, BlockReads DEF E
    <2> QED BY <2>0, <2>1
<1>4. ASSUME p \in AllOf(V).at
      PROVE  \E q \in Items(b, c) : p \in E(q).at
    <2>1. \E v \in V : p \in v.at
        BY <1>4, AllOfReads
    <2> QED BY <2>1 DEF V
<1> QED BY <1>2, <1>3, <1>4

LEMMA MessageReads ==
    ASSUME NEW b, IsTree(b, 1), NEW m \in Path, NEW p \in MaskMessage(b, m).at
    PROVE  p \in OpenAiText(m) /\ Is(b, p, {"string"})
<1> DEFINE c == Append(m, "content")
           n == Append(m, "name")
           t == Append(m, "tool_calls")
           f == Append(Append(m, "function_call"), "arguments")
<1>1. {"content", "tool_calls"} \subseteq Keys
    BY FixedKeysAreKeys
<1>2. c \in Path /\ Len(c) >= 1 /\ t \in Path /\ Len(t) >= 1
    BY <1>1, ChildFacts
<1>3. MaskMessage(b, m) = AllOf({MaskContent(b, c), Visit(TransformStringValue(b, n)),
                                 Visit(TransformToolCallArgs(b, m)), Visit(TransformStringValue(b, f))})
    BY DEF MaskMessage
<1>4. OpenAiText(m) = Parts(c) \cup {n, f} \cup {Append(Append(x, "function"), "arguments") : x \in Elements(t)}
    BY DEF OpenAiText
<1>5. ASSUME p \in TransformToolCallArgs(b, m) PROVE p \in OpenAiText(m) /\ Is(b, p, {"string"})
    <2>1. PICK x \in Items(b, t) : p \in TransformStringValue(b, Append(Append(x, "function"), "arguments"))
        BY <1>5 DEF TransformToolCallArgs
    <2>2. p = Append(Append(x, "function"), "arguments") /\ Is(b, p, {"string"})
        BY <2>1, StringValueReads
    <2> HIDE DEF c, n, t, f
    <2>3. x \in Elements(t)
        BY <1>2, ItemsAreElements
    <2> QED BY <1>4, <2>2, <2>3
<1> HIDE DEF c, n, t, f
<1>6. \/ p \in MaskContent(b, c).at \/ p \in TransformStringValue(b, n)
      \/ p \in TransformToolCallArgs(b, m) \/ p \in TransformStringValue(b, f)
    BY <1>3, AllOfReads, VisitIs
<1>7. CASE p \in MaskContent(b, c).at
    BY <1>2, <1>4, <1>7, ContentReads
<1>8. CASE p \in TransformStringValue(b, n)
    BY <1>4, <1>8, StringValueReads
<1>9. CASE p \in TransformStringValue(b, f)
    BY <1>4, <1>9, StringValueReads
<1> QED BY <1>5, <1>6, <1>7, <1>8, <1>9

-----------------------------------------------------------------------------
(* Reads of the walk: requests.  The same of tools, and so of whole        *)
(* requests.                                                               *)

LEMMA SchemaReads ==
    ASSUME NEW b, IsTree(b, 1), NEW s \in Path, Len(s) \in Nat, \A i \in 1..Len(s) : s[i] # "description",
           NEW p \in MaskSchemaDescriptions(b, s)
    PROVE  p \in SchemaText(b, s) /\ Is(b, p, {"string"})
<1>1. /\ p \in TransformStringLeaves(b, s) /\ Len(p) > Len(s) /\ Last(p) = "description"
      /\ \A i \in (Len(s) + 1)..(Len(p) - 1) : p[i] # "description"
    BY DEF MaskSchemaDescriptions
<1>2. p \in Under(b, s) /\ Is(b, p, {"string"})
    BY <1>1, LeavesRead
<1>3. p \in Path /\ IsPrefix(s, p)
    BY <1>2, TreePaths DEF Under
<1>4. Len(p) \in Nat
    BY <1>3 DEF Path
<1>5. \A i \in 1..Len(s) : p[i] # "description"
    BY <1>3, PrefixIs
<1>6. \A i \in 1..(Len(p) - 1) : p[i] # "description"
    <2>1. \A i \in 1..(Len(p) - 1) : i \in 1..Len(s) \/ i \in (Len(s) + 1)..(Len(p) - 1)
        BY <1>4
    <2> QED BY <1>1, <1>5, <2>1
<1> QED BY <1>1, <1>2, <1>6 DEF SchemaText

\* No key before a tool's schema is called "description".
LEMMA PlainSteps ==
    ASSUME NEW p \in Path, NEW k \in Keys, k # "description", \A i \in 1..Len(p) : p[i] # "description"
    PROVE  \A i \in 1..Len(Append(p, k)) : Append(p, k)[i] # "description"
<1>1. /\ Len(p) \in Nat /\ Len(Append(p, k)) = Len(p) + 1 /\ Append(p, k)[Len(p) + 1] = k
      /\ \A i \in 1..Len(p) : Append(p, k)[i] = p[i]
    BY StepProps
<1> DEFINE q == Append(p, k)
<1> HIDE DEF q
<1>2. \A i \in 1..Len(q) : i \in 1..Len(p) \/ i = Len(p) + 1
    BY <1>1 DEF q
<1>3. \A i \in 1..Len(q) : q[i] # "description"
    BY <1>1, <1>2 DEF q
<1> QED BY <1>3 DEF q

LEMMA ToolIs ==
    ASSUME NEW b, IsTree(b, 1), NEW t \in Items(b, <<"tools">>)
    PROVE  /\ t \in Elements(<<"tools">>) /\ t \in Path
           /\ \A i \in 1..Len(t) : t[i] # "description"
<1>1. "tools" \in Keys /\ "description" \notin Numerals /\ "tools" # "description"
    BY FixedKeysAreKeys, FixedKeysAreNoNumerals
<1> DEFINE c == <<"tools">>
<1>2. c \in Path /\ Len(c) = 1 /\ c[1] = "tools"
    BY <1>1, Top
<1> HIDE DEF c
<1>3. \A i \in 1..Len(c) : c[i] # "description"
    BY <1>1, <1>2
<1>4. t \in Elements(c)
    BY <1>2, ItemsAreElements DEF c
<1>5. PICK k \in Numerals : t = Append(c, k)
    BY <1>4 DEF Elements
<1>6. k \in Keys /\ k # "description"
    BY <1>1, NumeralsAreKeys
<1>7. t \in Path
    BY <1>2, <1>5, <1>6, StepProps
<1> QED BY <1>2, <1>3, <1>4, <1>5, <1>6, <1>7, PlainSteps DEF c

LEMMA OpenAiReads ==
    ASSUME schema = "OpenAi", NEW b, IsTree(b, 1), NEW p \in MaskRequest(b).at
    PROVE  p \in SaidIn(b) /\ Is(b, p, {"string"})
<1> DEFINE D(t) == Append(Append(t, "function"), "description")
           S(t) == Append(Append(t, "function"), "parameters")
           X(t) == TransformStringValue(b, D(t)) \cup MaskSchemaDescriptions(b, S(t))
           V == {MaskMessage(b, m) : m \in Items(b, <<"messages">>)} \cup {Visit(X(t)) : t \in Items(b, <<"tools">>)}
<1>0. /\ {"messages", "tools", "function", "description", "parameters"} \subseteq Keys
      /\ "parameters" # "description" /\ "function" # "description"
    BY FixedKeysAreKeys
<1>1. MaskRequest(b) = AllOf(V) \/ MaskRequest(b) = Refuse
    BY DEF MaskRequest
<1>2. p \in AllOf(V).at
    <2> HIDE DEF V
    <2> QED BY <1>1, VisitIs
<1>3. PICK v \in V : p \in v.at
    <2> HIDE DEF V
    <2> QED BY <1>2, AllOfReads
<1>s. SaidIn(b) = OpeningText("OpenAi", b) \cup UNION {OpenAiText(m) : m \in Items(b, <<"messages">>)}
    <2>1. \A m : MessageText("OpenAi", b, m) = OpenAiText(m)
        BY DEF MessageText
    <2> QED BY <2>1 DEF SaidIn
<1>o. OpeningText("OpenAi", b) = UNION {{D(t)} \cup SchemaText(b, S(t)) : t \in Elements(<<"tools">>)}
    BY DEF OpeningText
<1>4. CASE v \in {MaskMessage(b, m) : m \in Items(b, <<"messages">>)}
    <2>1. PICK m \in Items(b, <<"messages">>) : p \in MaskMessage(b, m).at
        BY <1>3, <1>4
    <2>2. m \in Path
        BY TreePaths DEF Items
    <2>3. p \in OpenAiText(m) /\ Is(b, p, {"string"})
        BY <2>1, <2>2, MessageReads
    <2> QED BY <1>s, <2>3
<1>5. CASE v \in {Visit(X(t)) : t \in Items(b, <<"tools">>)}
    <2>1. PICK t \in Items(b, <<"tools">>) : v = Visit(X(t))
        BY <1>5
    <2>2. p \in X(t)
        <3> HIDE DEF X
        <3> QED BY <1>3, <2>1, VisitIs
    <2>3. t \in Elements(<<"tools">>) /\ t \in Path /\ \A i \in 1..Len(t) : t[i] # "description"
        BY ToolIs
    <2>4. CASE p \in TransformStringValue(b, D(t))
        <3>1. p = D(t) /\ Is(b, p, {"string"})
            BY <2>4, StringValueReads
        <3> HIDE DEF D, S
        <3> QED BY <1>s, <1>o, <2>3, <3>1
    <2>5. CASE p \in MaskSchemaDescriptions(b, S(t))
        <3>1. /\ Append(t, "function") \in Path
              /\ \A i \in 1..Len(Append(t, "function")) : Append(t, "function")[i] # "description"
            BY <1>0, <2>3, StepProps, PlainSteps
        <3>2. S(t) \in Path /\ Len(S(t)) \in Nat
            BY <1>0, <3>1, StepProps DEF Path
        <3>3. \A i \in 1..Len(S(t)) : S(t)[i] # "description"
            BY <1>0, <3>1, PlainSteps
        <3> HIDE DEF D, S
        <3>4. p \in SchemaText(b, S(t)) /\ Is(b, p, {"string"})
            BY <2>5, <3>2, <3>3, SchemaReads
        <3> QED BY <1>s, <1>o, <2>3, <3>4
    <2> QED BY <2>2, <2>4, <2>5
<1> QED BY <1>4, <1>5

LEMMA AnthropicReads ==
    ASSUME schema = "Anthropic", NEW b, IsTree(b, 1), NEW p \in MaskAnthropicRequest(b).at
    PROVE  p \in SaidIn(b) /\ Is(b, p, {"string"})
<1> DEFINE D(t) == Append(t, "description")
           S(t) == Append(t, "input_schema")
           X(t) == TransformStringValue(b, D(t)) \cup MaskSchemaDescriptions(b, S(t))
           Y == MaskAnthropicSystem(b, <<"system">>)
           V == {Y} \cup {MaskAnthropicContent(b, Append(m, "content")) : m \in Items(b, <<"messages">>)}
                \cup {Visit(X(t)) : t \in Items(b, <<"tools">>)}
<1>0. /\ {"messages", "tools", "system", "content", "description", "input_schema"} \subseteq Keys
      /\ "input_schema" # "description"
    BY FixedKeysAreKeys
<1>1. MaskAnthropicRequest(b) = AllOf(V) \/ MaskAnthropicRequest(b) = Refuse
    BY DEF MaskAnthropicRequest
<1>2. p \in AllOf(V).at
    <2> HIDE DEF V
    <2> QED BY <1>1, VisitIs
<1>3. PICK v \in V : p \in v.at
    <2> HIDE DEF V
    <2> QED BY <1>2, AllOfReads
<1>s. SaidIn(b) = OpeningText("Anthropic", b) \cup UNION {AnthropicText(b, m) : m \in Items(b, <<"messages">>)}
    <2>1. \A m : MessageText("Anthropic", b, m) = AnthropicText(b, m)
        BY DEF MessageText
    <2> QED BY <2>1 DEF SaidIn
<1>o. OpeningText("Anthropic", b) =
        Parts(<<"system">>) \cup UNION {{D(t)} \cup SchemaText(b, S(t)) : t \in Elements(<<"tools">>)}
    BY DEF OpeningText
<1>6. CASE v = Y
    <2>1. <<"system">> \in Path /\ Len(<<"system">>) >= 1
        BY <1>0, Top
    <2>2. p \in Parts(<<"system">>) /\ Is(b, p, {"string"})
        BY <1>3, <1>6, <2>1, SystemReads
    <2> HIDE DEF D, S
    <2> QED BY <1>s, <1>o, <2>2
<1>4. CASE v \in {MaskAnthropicContent(b, Append(m, "content")) : m \in Items(b, <<"messages">>)}
    <2>1. PICK m \in Items(b, <<"messages">>) : p \in MaskAnthropicContent(b, Append(m, "content")).at
        BY <1>3, <1>4
    <2>2. m \in Path
        BY TreePaths DEF Items
    <2>3. Append(m, "content") \in Path /\ Len(Append(m, "content")) >= 1
        BY <1>0, <2>2, ChildFacts
    <2>4. p \in AnthropicText(b, m) /\ Is(b, p, {"string"})
        BY <2>1, <2>3, AnthropicContentReads DEF AnthropicText
    <2> QED BY <1>s, <2>4
<1>5. CASE v \in {Visit(X(t)) : t \in Items(b, <<"tools">>)}
    <2>1. PICK t \in Items(b, <<"tools">>) : v = Visit(X(t))
        BY <1>5
    <2>2. p \in X(t)
        <3> HIDE DEF X
        <3> QED BY <1>3, <2>1, VisitIs
    <2>3. t \in Elements(<<"tools">>) /\ t \in Path /\ \A i \in 1..Len(t) : t[i] # "description"
        BY ToolIs
    <2>4. CASE p \in TransformStringValue(b, D(t))
        <3>1. p = D(t) /\ Is(b, p, {"string"})
            BY <2>4, StringValueReads
        <3> HIDE DEF D, S
        <3> QED BY <1>s, <1>o, <2>3, <3>1
    <2>5. CASE p \in MaskSchemaDescriptions(b, S(t))
        <3>2. S(t) \in Path /\ Len(S(t)) \in Nat
            BY <1>0, <2>3, StepProps DEF Path
        <3>3. \A i \in 1..Len(S(t)) : S(t)[i] # "description"
            BY <1>0, <2>3, PlainSteps
        <3> HIDE DEF D, S
        <3>4. p \in SchemaText(b, S(t)) /\ Is(b, p, {"string"})
            BY <2>5, <3>2, <3>3, SchemaReads
        <3> QED BY <1>s, <1>o, <2>3, <3>4
    <2> QED BY <2>2, <2>4, <2>5
<1> HIDE DEF Y
<1> QED BY <1>4, <1>5, <1>6

\* The walk reads texts of the schema, and nothing else.
LEMMA RequestReads ==
    ASSUME schema \in Schemas, NEW b, IsTree(b, 1), NEW p \in RequestVisit(b).at
    PROVE  p \in SaidIn(b) /\ Is(b, p, {"string"})
<1>1. CASE schema = "OpenAi"
    BY <1>1, OpenAiReads DEF RequestVisit
<1>2. CASE schema = "Anthropic"
    BY <1>2, AnthropicReads DEF RequestVisit
<1> QED BY <1>1, <1>2 DEF Schemas

-----------------------------------------------------------------------------
(* Prefixes of a history.  The history as it was before its last turns,    *)
(* and the vault it has.                                                   *)

\* The messages before place n + 1.
Before(h, n) == SubSeq(h, 1, n)

LEMMA HistorySeq ==
    ASSUME NEW h, GoodHistory(h)
    PROVE  h \in Seq({h[i] : i \in DOMAIN h})
<1> DEFINE S == {h[i] : i \in DOMAIN h}
<1>1. h = [i \in 1..Len(h) |-> h[i]] /\ DOMAIN h = 1..Len(h) /\ Len(h) \in Nat
    BY HistoryIs DEF GoodHistory
<1>2. \A i \in 1..Len(h) : h[i] \in S
    BY <1>1
<1> HIDE DEF S
<1>3. h \in [1..Len(h) -> S]
    BY <1>1, <1>2
<1>4. h \in Seq(S)
    <2>1. \A n \in Nat : \A f \in [1..n -> S] : f \in Seq(S)
        OBVIOUS
    <2> QED BY <1>1, <1>3, <2>1
<1> QED BY <1>4 DEF S

LEMMA BeforeIs ==
    ASSUME NEW h, GoodHistory(h), NEW n \in 0..Len(h)
    PROVE  /\ GoodHistory(Before(h, n)) /\ Len(Before(h, n)) = n /\ n \in Nat
           /\ DOMAIN Before(h, n) = 1..n
           /\ \A i \in 1..n : Before(h, n)[i] = h[i] /\ i \in DOMAIN h
<1> DEFINE S == {h[i] : i \in DOMAIN h}
           g == Before(h, n)
<1>1. DOMAIN h = 1..Len(h) /\ Len(h) \in Nat /\ Len(h) <= MaxMessages /\ MaxMessages \in Nat
    BY HistoryIs
<1>2. n \in Nat /\ n \in Int /\ 1 \in Int /\ n <= Len(h)
    BY <1>1
<1>3. \A i \in 1..n : i \in DOMAIN h
    BY <1>1, <1>2
<1>4. \A i \in 1..n : h[i] \in S
    BY <1>3
<1> HIDE DEF S
<1>5. /\ g \in Seq(S) /\ Len(g) = (IF 1 <= n THEN n - 1 + 1 ELSE 0)
      /\ \A i \in 1..(n - 1 + 1) : g[i] = h[1 + i - 1]
    BY <1>2, <1>4, SubSeqProperties DEF Before
<1>6. Len(g) = n
    BY <1>2, <1>5
<1>7. \A i \in 1..n : g[i] = h[i]
    <2> SUFFICES ASSUME NEW i \in 1..n PROVE g[i] = h[i]
        OBVIOUS
    <2>1. 1 + i - 1 = i /\ n - 1 + 1 = n
        BY <1>2
    <2> QED BY <1>5, <2>1
<1> HIDE DEF g
<1>8. DOMAIN g = 1..n /\ g = [i \in 1..Len(g) |-> g[i]]
    BY <1>5, <1>6
<1>9. GoodHistory(g)
    <2>1. Len(g) \in 0..MaxMessages
        BY <1>1, <1>2, <1>6
    <2>2. \A i \in 1..Len(g) : GoodMessage(schema, g[i])
        BY <1>3, <1>6, <1>7, HistoryIs
    <2>3. schema \in Schemas /\ GoodOpening(schema, opening)
        BY DEF GoodHistory
    <2> QED BY <1>8, <2>1, <2>2, <2>3 DEF GoodHistory
<1> QED BY <1>2, <1>3, <1>6, <1>7, <1>8, <1>9 DEF g

LEMMA LongerIs ==
    ASSUME NEW h, GoodHistory(h), Len(h) < MaxMessages, NEW m, GoodMessage(schema, m)
    PROVE  /\ GoodHistory(Append(h, m)) /\ Len(Append(h, m)) = Len(h) + 1 /\ Len(h) \in Nat
           /\ \A i \in 1..Len(h) : Append(h, m)[i] = h[i]
           /\ Append(h, m)[Len(h) + 1] = m
           /\ \A n \in 0..Len(h) : Before(Append(h, m), n) = Before(h, n)
<1> DEFINE S == {h[i] : i \in DOMAIN h} \cup {m}
           g == Append(h, m)
<1>1. Len(h) \in Nat /\ MaxMessages \in Nat /\ DOMAIN h = 1..Len(h)
    BY HistoryIs
<1>2. h \in Seq({h[i] : i \in DOMAIN h})
    BY HistorySeq
<1>3. h \in Seq(S)
    BY <1>2, SeqMonotonic
<1>4. m \in S
    OBVIOUS
<1> HIDE DEF S
<1>5. /\ g \in Seq(S) /\ Len(g) = Len(h) + 1 /\ g[Len(h) + 1] = m /\ \A i \in 1..Len(h) : g[i] = h[i]
      /\ DOMAIN g = 1..(Len(h) + 1)
    BY <1>3, <1>4
<1> HIDE DEF g
<1>6. g = [i \in 1..Len(g) |-> g[i]]
    BY <1>5
<1>7. GoodHistory(g)
    <2>1. Len(g) \in 0..MaxMessages
        BY <1>1, <1>5
    <2>2. ASSUME NEW i \in 1..Len(g) PROVE GoodMessage(schema, g[i])
        <3>1. CASE i \in 1..Len(h)
            BY <1>1, <1>5, <3>1, HistoryIs
        <3>2. CASE i = Len(h) + 1
            BY <1>5, <3>2
        <3> QED BY <1>1, <1>5, <3>1, <3>2
    <2>3. schema \in Schemas /\ GoodOpening(schema, opening)
        BY DEF GoodHistory
    <2> QED BY <1>6, <2>1, <2>2, <2>3 DEF GoodHistory
<1>8. ASSUME NEW n \in 0..Len(h) PROVE Before(g, n) = Before(h, n)
    <2>0. n \in 0..Len(g) /\ n \in Nat
        BY <1>1, <1>5
    <2>1. GoodHistory(Before(g, n)) /\ GoodHistory(Before(h, n))
        BY <1>7, <2>0, BeforeIs
    <2>2. /\ Len(Before(g, n)) = n /\ Len(Before(h, n)) = n
          /\ \A i \in 1..n : Before(g, n)[i] = g[i] /\ Before(h, n)[i] = h[i]
        BY <1>7, <2>0, BeforeIs
    <2>3. \A i \in 1..n : g[i] = h[i]
        BY <1>1, <1>5, <2>0
    <2> DEFINE x == Before(g, n)
               y == Before(h, n)
    <2>4. x = [i \in 1..Len(x) |-> x[i]] /\ y = [i \in 1..Len(y) |-> y[i]]
        BY <2>1 DEF GoodHistory
    <2>5. Len(x) = n /\ Len(y) = n /\ \A i \in 1..n : x[i] = y[i]
        BY <2>2, <2>3
    <2> HIDE DEF x, y
    <2>6. x = y
        BY <2>4, <2>5
    <2> QED BY <2>6 DEF x, y
<1>9. /\ GoodHistory(g) /\ Len(g) = Len(h) + 1 /\ Len(h) \in Nat
      /\ \A i \in 1..Len(h) : g[i] = h[i]
      /\ g[Len(h) + 1] = m
      /\ \A n \in 0..Len(h) : Before(g, n) = Before(h, n)
    BY <1>1, <1>5, <1>7, <1>8
<1> QED BY <1>9 DEF g

\* A vault numbers values from 1 on.
LEMMA VaultIs ==
    ASSUME NEW h, GoodHistory(h)
    PROVE  /\ DOMAIN VaultFor(h) \subseteq Values
           /\ {VaultFor(h)[v] : v \in DOMAIN VaultFor(h)} \subseteq 1..Cardinality(Values)
<1> DEFINE b == Body(h)
           at == RequestVisit(b).at
           S == Secrets(b, at)
           W(v) == {w \in S : v = w \/ ReadBefore(FirstOf(b, at, w), FirstOf(b, at, v))}
<1>1. VaultFor(h) = [v \in S |-> Cardinality(W(v))]
    BY DEF VaultFor, Numbered
<1>2. S \subseteq Values
    <2> SUFFICES ASSUME NEW p \in at, b[p].word = "real" PROVE b[p].of \in Values
        BY DEF Secrets
    <2>1. IsTree(b, 1)
        BY BodyTree
    <2>2. Is(b, p, {"string"})
        BY <2>1, RequestReads DEF GoodHistory
    <2>3. p \in DOMAIN b
        BY <2>2 DEF Is
    <2> QED BY <2>1, <2>3, NodesAre
<1>3. IsFiniteSet(Values)
    BY WireAssumption
<1>4. ASSUME NEW v \in S PROVE Cardinality(W(v)) \in 1..Cardinality(Values)
    <2>1. W(v) \subseteq Values /\ v \in W(v)
        BY <1>2
    <2> DEFINE T == W(v)
    <2>2. T \subseteq Values /\ v \in T
        BY <2>1
    <2> HIDE DEF T
    <2>3. IsFiniteSet(T) /\ Cardinality(T) <= Cardinality(Values)
        BY <1>3, <2>2, FS_Subset
    <2>4. Cardinality(T) \in Nat /\ Cardinality(Values) \in Nat /\ Cardinality(T) # 0
        BY <1>3, <2>2, <2>3, FS_CardinalityType, FS_EmptySet
    <2>5. Cardinality(T) \in 1..Cardinality(Values)
        BY <2>3, <2>4
    <2> QED BY <2>5 DEF T
<1> HIDE DEF S, W
<1>5. DOMAIN VaultFor(h) = S /\ \A v \in S : VaultFor(h)[v] = Cardinality(W(v))
    BY <1>1
<1> QED BY <1>2, <1>4, <1>5

-----------------------------------------------------------------------------
(* The inductive invariant.  ConvInv, and what each of the four steps does *)
(* to it, for any values of the variables.                                 *)

\* What is known of the message x that the provider gave place i: it was written
\* under the vault of the messages before it, and is kept as it was shown.
Remembers(h, x, v, i) ==
  /\ GoodReply(schema, x)
  /\ RequestVisit(Body(Before(h, i - 1))).ok
  /\ v = VaultFor(Before(h, i - 1))
  /\ i \in DOMAIN h => h[i] = Shown(x, v)

\* The inductive invariant, of the values of the variables.
InvOf(h, ph, v, f, r, s, m) ==
  /\ GoodHistory(h)
  /\ ph \in {"idle", "asked", "sent", "answered", "blocked"}
  /\ ph \in {"sent", "answered"} => ForwardsAs(h, v, f)
  /\ DOMAIN m = DOMAIN s
  /\ \A i \in DOMAIN s : i \in 1..Len(h) \/ (ph = "answered" /\ i = Len(h) + 1)
  /\ \A i \in DOMAIN s : Remembers(h, s[i], m[i], i)
  /\ ph = "answered" => /\ Len(h) < MaxMessages /\ Len(h) + 1 \in DOMAIN s
                        /\ s[Len(h) + 1] = r /\ m[Len(h) + 1] = v
ConvInv == InvOf(history, phase, vault, forwarded, reply, said, meant)

\* The client adds a message.
LEMMA AskStep ==
    ASSUME NEW h, NEW v, NEW f, NEW r, NEW s, NEW m, InvOf(h, "idle", v, f, r, s, m),
           Len(h) < MaxMessages, NEW x, GoodMessage(schema, x)
    PROVE  InvOf(Append(h, x), "asked", v, f, r, s, m)
<1> DEFINE g == Append(h, x)
<1>1. /\ GoodHistory(h) /\ DOMAIN m = DOMAIN s
      /\ \A i \in DOMAIN s : i \in 1..Len(h) /\ Remembers(h, s[i], m[i], i)
    BY DEF InvOf
<1>2. /\ GoodHistory(g) /\ Len(g) = Len(h) + 1 /\ Len(h) \in Nat
      /\ \A i \in 1..Len(h) : g[i] = h[i]
      /\ \A n \in 0..Len(h) : Before(g, n) = Before(h, n)
    BY <1>1, LongerIs
<1>3. DOMAIN h = 1..Len(h)
    BY <1>1, HistoryIs
<1> HIDE DEF g
<1>4. ASSUME NEW i \in DOMAIN s PROVE i \in 1..Len(g) /\ Remembers(g, s[i], m[i], i)
    <2>1. i \in 1..Len(h) /\ Remembers(h, s[i], m[i], i)
        BY <1>1
    <2>2. i - 1 \in 0..Len(h) /\ i \in 1..Len(g)
        BY <1>2, <2>1
    <2>3. Before(g, i - 1) = Before(h, i - 1) /\ g[i] = h[i] /\ i \in DOMAIN h
        BY <1>2, <1>3, <2>1, <2>2
    <2> QED BY <2>1, <2>2, <2>3 DEF Remembers
<1>5. InvOf(g, "asked", v, f, r, s, m)
    BY <1>1, <1>2, <1>4 DEF InvOf
<1> QED BY <1>5 DEF g

\* The request is masked and sent, or blocked.
LEMMA RequestStep ==
    ASSUME NEW h, NEW v, NEW f, NEW r, NEW s, NEW m, InvOf(h, "asked", v, f, r, s, m),
           NEW ph, NEW w, NEW a, (ph = "sent" /\ ForwardsAs(h, w, a)) \/ ph = "blocked"
    PROVE  InvOf(h, ph, w, a, r, s, m)
BY DEF InvOf

\* The provider answers.
LEMMA AnswerStep ==
    ASSUME NEW h, NEW v, NEW f, NEW r, NEW s, NEW m, InvOf(h, "sent", v, f, r, s, m),
           Len(h) + 1 <= MaxMessages, NEW x, GoodReply(schema, x)
    PROVE  InvOf(h, "answered", v, f, x, With(s, Len(h) + 1, x), With(m, Len(h) + 1, v))
<1> DEFINE n == Len(h) + 1
           t == With(s, n, x)
           u == With(m, n, v)
<1>1. /\ GoodHistory(h) /\ ForwardsAs(h, v, f) /\ DOMAIN m = DOMAIN s
      /\ \A i \in DOMAIN s : i \in 1..Len(h) /\ Remembers(h, s[i], m[i], i)
    BY DEF InvOf
<1>2. DOMAIN h = 1..Len(h) /\ Len(h) \in Nat /\ MaxMessages \in Nat
    BY <1>1, HistoryIs
<1>3. n \notin DOMAIN s /\ n \notin DOMAIN h /\ n - 1 = Len(h) /\ Len(h) < MaxMessages
    BY <1>1, <1>2
<1>4. /\ DOMAIN t = DOMAIN s \cup {n} /\ t[n] = x /\ \A i \in DOMAIN s : i # n => t[i] = s[i]
    <2> HIDE DEF n
    <2> QED BY DEF With
<1>5. /\ DOMAIN u = DOMAIN m \cup {n} /\ u[n] = v /\ \A i \in DOMAIN m : i # n => u[i] = m[i]
    <2> HIDE DEF n
    <2> QED BY DEF With
<1>6. Before(h, Len(h)) = h
    <2>1. h \in Seq({h[i] : i \in DOMAIN h})
        BY <1>1, HistorySeq
    <2> QED BY <2>1, SubSeqFull DEF Before
<1>7. Remembers(h, x, v, n)
    BY <1>1, <1>3, <1>6 DEF Remembers, ForwardsAs
<1> HIDE DEF t, u
<1>8. ASSUME NEW i \in DOMAIN t PROVE (i \in 1..Len(h) \/ i = n) /\ Remembers(h, t[i], u[i], i)
    <2>1. CASE i = n
        BY <1>4, <1>5, <1>7, <2>1
    <2>2. CASE i # n
        BY <1>1, <1>4, <1>5, <2>2
    <2> QED BY <2>1, <2>2
<1>9. InvOf(h, "answered", v, f, x, t, u)
    BY <1>1, <1>3, <1>4, <1>5, <1>8 DEF InvOf
<1> QED BY <1>9 DEF t, u

\* The answer is restored and kept.
LEMMA ResponseStep ==
    ASSUME NEW h, NEW v, NEW f, NEW r, NEW s, NEW m, InvOf(h, "answered", v, f, r, s, m)
    PROVE  InvOf(Append(h, Shown(r, v)), "idle", v, f, r, s, m)
<1> DEFINE x == Shown(r, v)
           g == Append(h, x)
           n == Len(h) + 1
<1>1. /\ GoodHistory(h) /\ ForwardsAs(h, v, f) /\ DOMAIN m = DOMAIN s /\ Len(h) < MaxMessages
      /\ n \in DOMAIN s /\ s[n] = r /\ m[n] = v
      /\ \A i \in DOMAIN s : (i \in 1..Len(h) \/ i = n) /\ Remembers(h, s[i], m[i], i)
    BY DEF InvOf
<1>2. GoodMessage(schema, x)
    <2>1. 1 \in DOMAIN Indices /\ schema \in Schemas
        BY <1>1, FirstIs DEF GoodHistory
    <2>2. GoodReply(schema, r)
        BY <1>1 DEF Remembers
    <2>3. DOMAIN v \subseteq Values
        BY <1>1, VaultIs DEF ForwardsAs
    <2> QED BY <2>1, <2>2, <2>3, ShownIsGood
<1> HIDE DEF x
<1>3. /\ GoodHistory(g) /\ Len(g) = n /\ Len(h) \in Nat
      /\ \A i \in 1..Len(h) : g[i] = h[i]
      /\ g[n] = x
      /\ \A k \in 0..Len(h) : Before(g, k) = Before(h, k)
    BY <1>1, <1>2, LongerIs
<1>4. DOMAIN h = 1..Len(h)
    BY <1>1, HistoryIs
<1> HIDE DEF g
<1>5. ASSUME NEW i \in DOMAIN s PROVE i \in 1..Len(g) /\ Remembers(g, s[i], m[i], i)
    <2>1. (i \in 1..Len(h) \/ i = n) /\ Remembers(h, s[i], m[i], i)
        BY <1>1
    <2>2. i - 1 \in 0..Len(h) /\ i \in 1..Len(g)
        BY <1>3, <2>1
    <2>3. Before(g, i - 1) = Before(h, i - 1)
        BY <1>3, <2>2
    <2>4. g[i] = Shown(s[i], m[i])
        <3>1. CASE i \in 1..Len(h)
            BY <1>3, <1>4, <2>1, <3>1 DEF Remembers
        <3>2. CASE i = n
            BY <1>1, <1>3, <3>2 DEF x
        <3> QED BY <2>1, <3>1, <3>2
    <2> QED BY <2>1, <2>2, <2>3, <2>4 DEF Remembers
<1>6. InvOf(g, "idle", v, f, r, s, m)
    BY <1>1, <1>3, <1>5 DEF InvOf
<1> QED BY <1>6 DEF g, x

-----------------------------------------------------------------------------
(* What only reads the opening.  With schema and opening unchanged, the    *)
(* invariant of the new values is the invariant primed.                    *)

\* The schema and the opening stay, and with them all that is said of a history.
LEMMA BodyStays ==
    ASSUME UNCHANGED <<schema, opening>>, NEW h
    PROVE  Body(h)' = Body(h)
BY DEF Body

LEMMA VisitStays ==
    ASSUME UNCHANGED <<schema, opening>>, NEW b
    PROVE  RequestVisit(b)' = RequestVisit(b)
BY DEF RequestVisit

LEMMA AskedStays ==
    ASSUME UNCHANGED <<schema, opening>>, NEW h
    PROVE  RequestVisit(Body(h))' = RequestVisit(Body(h))
BY DEF RequestVisit, Body

LEMMA GoodStays ==
    ASSUME UNCHANGED <<schema, opening>>, NEW h
    PROVE  GoodHistory(h)' = GoodHistory(h)
BY DEF GoodHistory

LEMMA VaultStays ==
    ASSUME UNCHANGED <<schema, opening>>, NEW h
    PROVE  VaultFor(h)' = VaultFor(h)
BY DEF VaultFor, Body, RequestVisit

LEMMA ShownStays ==
    ASSUME UNCHANGED <<schema, opening>>, NEW m, NEW v
    PROVE  Shown(m, v)' = Shown(m, v)
BY DEF Shown, ResponseBody, ReplyAt, ResponseAt, Cut

LEMMA AugmentedStays ==
    ASSUME UNCHANGED <<schema, opening>>, NEW b, NEW v
    PROVE  Augmented(b, v)' = Augmented(b, v)
BY DEF Augmented

LEMMA ForwardsStays ==
    ASSUME UNCHANGED <<schema, opening>>, NEW h, NEW v, NEW f
    PROVE  ForwardsAs(h, v, f)' = ForwardsAs(h, v, f)
BY AskedStays, VaultStays, BodyStays DEF ForwardsAs, Augmented

LEMMA RemembersStays ==
    ASSUME UNCHANGED <<schema, opening>>, NEW h, NEW x, NEW v, NEW i
    PROVE  Remembers(h, x, v, i)' = Remembers(h, x, v, i)
BY AskedStays, VaultStays, ShownStays DEF Remembers

\* The invariant of given values is about constants and the opening only.
LEMMA InvStays ==
    ASSUME UNCHANGED <<schema, opening>>,
           NEW h, NEW ph, NEW v, NEW f, NEW r, NEW s, NEW m, InvOf(h, ph, v, f, r, s, m)
    PROVE  InvOf(h, ph, v, f, r, s, m)'
BY GoodStays, ForwardsStays, RemembersStays DEF InvOf

-----------------------------------------------------------------------------
(* ConvInv is inductive.  Initial states, every step, and the invariants   *)
(* that follow from it directly.                                           *)

LEMMA InvPrimed ==
    ASSUME UNCHANGED <<schema, opening>>,
           NEW h, NEW ph, NEW v, NEW f, NEW r, NEW s, NEW m, InvOf(h, ph, v, f, r, s, m),
           history' = h, phase' = ph, vault' = v, forwarded' = f, reply' = r, said' = s, meant' = m
    PROVE  ConvInv'
<1>1. InvOf(h, ph, v, f, r, s, m)'
    BY InvStays
<1> QED BY <1>1 DEF ConvInv

LEMMA ConvInit ==
    ASSUME Init
    PROVE  opening \in Openings(schema) /\ ConvInv
<1>1. schema \in Schemas /\ GoodOpening(schema, opening) /\ MaxMessages \in Nat
    BY WireAssumption DEF Init, Schemas
<1>2. history = <<>> /\ phase = "idle" /\ DOMAIN said = {} /\ DOMAIN meant = {}
    BY DEF Init, Empty
<1>3. GoodHistory(history)
    <2>1. Len(history) = 0 /\ Len(history) \in 0..MaxMessages /\ \A i \in 1..Len(history) : FALSE
        BY <1>1, <1>2
    <2>2. history = [i \in 1..Len(history) |-> history[i]]
        BY <1>2
    <2> QED BY <1>1, <2>1, <2>2 DEF GoodHistory
<1>4. ConvInv
    BY <1>2, <1>3 DEF ConvInv, InvOf
<1> QED BY <1>4 DEF Init

LEMMA NextKeeps ==
    ASSUME [Next]_vars
    PROVE  UNCHANGED <<schema, opening>>
BY DEF Next, vars, Ask, OnRequest, Answer, OnResponse, Settled

\* One step per action.
LEMMA ConvStep ==
    ASSUME ConvInv, [Next]_vars
    PROVE  ConvInv'
<1> UNCHANGED <<schema, opening>>
    BY NextKeeps
<1>0. InvOf(history, phase, vault, forwarded, reply, said, meant) /\ GoodHistory(history) /\ schema \in Schemas
    BY DEF ConvInv, InvOf, GoodHistory
<1>i. Len(history) \in 0..MaxMessages
    BY <1>0 DEF GoodHistory
<1>1. ASSUME NEW x \in Messages(schema, Len(history)), Ask(x) PROVE ConvInv'
    <2>1. /\ phase = "idle" /\ Len(history) < MaxMessages /\ history' = Append(history, x) /\ phase' = "asked"
          /\ UNCHANGED <<vault, forwarded, reply, said, meant>>
        BY <1>1 DEF Ask
    <2>2. GoodMessage(schema, x)
        BY <1>0, <1>i, WireAssumption
    <2>3. InvOf(Append(history, x), "asked", vault, forwarded, reply, said, meant)
        BY <1>0, <2>1, <2>2, AskStep
    <2> QED BY <2>1, <2>3, InvPrimed
<1>2. ASSUME OnRequest PROVE ConvInv'
    <2>1. /\ phase = "asked" /\ UNCHANGED <<history, reply, said, meant>>
          /\ \/ phase' = "sent" /\ ForwardsAs(history, vault', forwarded')
             \/ phase' = "blocked"
        BY <1>2 DEF OnRequest, ForwardsAs, VaultFor
    <2>2. InvOf(history, phase', vault', forwarded', reply, said, meant)
        BY <1>0, <2>1, RequestStep
    <2> QED BY <2>1, <2>2, InvPrimed
<1>3. ASSUME NEW x \in Replies(schema, {vault[v] : v \in DOMAIN vault}), Answer(x) PROVE ConvInv'
    <2>1. /\ phase = "sent" /\ Len(history) + 1 <= MaxMessages /\ reply' = x /\ phase' = "answered"
          /\ said' = With(said, Len(history) + 1, x) /\ meant' = With(meant, Len(history) + 1, vault)
          /\ UNCHANGED <<history, vault, forwarded>>
        BY <1>3 DEF Answer
    <2>2. GoodReply(schema, x)
        <3>1. vault = VaultFor(history)
            BY <1>0, <2>1 DEF InvOf, ForwardsAs
        <3>2. {vault[v] : v \in DOMAIN vault} \in SUBSET (1..Cardinality(Values))
            BY <1>0, <3>1, VaultIs
        <3> QED BY <1>0, <3>2, WireAssumption
    <2>3. InvOf(history, "answered", vault, forwarded, x, With(said, Len(history) + 1, x),
                With(meant, Len(history) + 1, vault))
        BY <1>0, <2>1, <2>2, AnswerStep
    <2> QED BY <2>1, <2>3, InvPrimed
<1>4. ASSUME OnResponse PROVE ConvInv'
    <2>1. /\ phase = "answered" /\ phase' = "idle" /\ history' = Append(history, Shown(reply, vault))
          /\ UNCHANGED <<vault, forwarded, reply, said, meant>>
        BY <1>4 DEF OnResponse, Shown
    <2>2. InvOf(Append(history, Shown(reply, vault)), "idle", vault, forwarded, reply, said, meant)
        BY <1>0, <2>1, ResponseStep
    <2> QED BY <2>1, <2>2, InvPrimed
<1>5. ASSUME UNCHANGED vars PROVE ConvInv'
    BY <1>0, <1>5, InvPrimed DEF vars
<1>6. CASE Settled
    BY <1>5, <1>6 DEF Settled
<1> QED BY <1>1, <1>2, <1>3, <1>4, <1>5, <1>6 DEF Next

\* The invariant holds: on_request and on_response keep what it knows of the
\* history, of what was sent and of every answer.
THEOREM ConvCorrect == Spec => []ConvInv
<1>1. Init => ConvInv
    BY ConvInit
<1>2. ConvInv /\ [Next]_vars => ConvInv'
    BY ConvStep
<1> QED BY <1>1, <1>2, PTL DEF Spec

LEMMA ConvForwards ==
    ASSUME ConvInv
    PROVE  GoodHistory(history) /\ (Sent => Forwards)
BY DEF ConvInv, InvOf, Sent, Forwards

\* mask_request and mask_anthropic_request pass over no text of a body they
\* accept, so nothing of the client's is left in what on_request forwards,
\* whatever is in the conversation by then.
THEOREM NothingRealLeavesAlways == Spec => []NothingRealLeaves
<1>1. ConvInv => NothingRealLeaves
    BY ConvForwards, NothingRealIsForwarded
<1> QED BY <1>1, ConvCorrect, PTL

\* inject_augmentation and inject_augmentation_anthropic put the prompt into
\* one place, and only if something was masked; every role and every text
\* stays, moved at most by the message put first.
THEOREM ToldOnceAlways == Spec => []ToldOnce
<1>1. ConvInv => ToldOnce
    BY ConvForwards, ToldOnceIfForwarded
<1> QED BY <1>1, ConvCorrect, PTL

-----------------------------------------------------------------------------
(* Answers and thinking.  Two more that follow from it.                    *)

LEMMA KeptAsShown ==
    ASSUME ConvInv, NEW i \in DOMAIN said \cap DOMAIN history
    PROVE  /\ GoodReply(schema, said[i]) /\ history[i] = Shown(said[i], meant[i])
           /\ 1 \in DOMAIN Indices /\ schema \in Schemas
<1>1. GoodHistory(history) /\ Remembers(history, said[i], meant[i], i)
    BY DEF ConvInv, InvOf
<1>2. 1 \in DOMAIN Indices /\ schema \in Schemas
    BY <1>1, FirstIs DEF GoodHistory
<1> QED BY <1>1, <1>2 DEF Remembers

\* demask_response and demask_anthropic_response restore every placeholder of
\* an answer to the value it stood for when it was written, and leave the rest,
\* a thought included, as it was.
THEOREM AnswerIsRestoredAlways == Spec => []AnswerIsRestored
<1>1. ASSUME ConvInv, NEW i \in DOMAIN said \cap DOMAIN history, NEW p \in DOMAIN said[i]
      PROVE  LET node == said[i][p] IN
             history[i][p] = IF node.word = "mark" /\ ~IsThought(p) /\ Known(meant[i], node.of)
                             THEN Real(CHOOSE v \in DOMAIN meant[i] : meant[i][v] = node.of)
                             ELSE node
    <2>1. GoodReply(schema, said[i]) /\ 1 \in DOMAIN Indices /\ schema \in Schemas
        BY <1>1, KeptAsShown
    <2>2. SeenAs(Shown(said[i], meant[i]), said[i], meant[i], p)
        BY <2>1, ShownAs
    <2>3. SeenAs(history[i], said[i], meant[i], p)
        BY <1>1, <2>2, KeptAsShown
    <2> QED BY <2>3 DEF SeenAs, Meaning
<1>2. ConvInv => AnswerIsRestored
    BY <1>1 DEF AnswerIsRestored
<1> QED BY <1>2, ConvCorrect, PTL

\* What is under a message is forwarded as it is masked, for Anthropic.
LEMMA UnderMessages ==
    ASSUME schema = "Anthropic", NEW b, IsTree(b, 1), NEW v, NEW i \in 1..Len(Indices), NEW r \in Path,
           Place(i, r) \in DOMAIN b
    PROVE  Augmented(b, v)[Place(i, r)] = b[Place(i, r)]
<1> DEFINE c == <<"system">>
           q == Place(i, r)
<1>0. "system" \in Keys
    BY FixedKeysAreKeys
<1>1. c \in Path /\ Len(c) = 1 /\ c[1] = "system"
    BY <1>0, Top
<1>2. q \in Path /\ q[1] = "messages" /\ Len(q) = Len(r) + 2 /\ Len(r) \in Nat
    BY PlaceIs
<1>3. \/ Augmented(b, v) = b
      \/ Augmented(b, v) = AppendPrompt(b, c)
    BY DEF Augmented, InjectAugmentationAnthropic
<1> HIDE DEF c, q
<1>4. ~IsPrefix(c, q)
    <2>1. 1 \in 1..Len(c) /\ c[1] # q[1]
        BY <1>1, <1>2
    <2> QED BY <1>1, <1>2, <2>1, PrefixIs
<1>5. Appended(b, c, AppendPrompt(b, c))
    BY <1>1, AppendPromptAppends
<1>6. AppendPrompt(b, c)[q] = b[q]
    <2> DEFINE a == AppendPrompt(b, c)
    <2>1. Appended(b, c, a)
        BY <1>5
    <2> HIDE DEF a
    <2>2. a[q] = b[q]
        BY <1>2, <1>4, <2>1 DEF Appended, q
    <2> QED BY <2>2 DEF a
<1> QED BY <1>3, <1>6 DEF q

\* A thought goes through the response walk and every later request walk
\* unchanged: it holds no value to mask, and neither the message put first nor
\* the prompt falls on it.
THEOREM ThinkingComesBackAlways == Spec => []ThinkingComesBack
<1>1. ASSUME ConvInv, Sent, schema = "Anthropic",
             NEW i \in DOMAIN said \cap DOMAIN history, NEW p \in Thinking(said[i])
      PROVE  forwarded[MessageAt(i) \o p] = said[i][p]
    <2> DEFINE m == said[i]
               b == Body(history)
               at == RequestVisit(b).at
               k == Masked(b, at, vault)
               q == Place(i, p)
    <2>1. GoodReply(schema, m) /\ history[i] = Shown(m, meant[i]) /\ 1 \in DOMAIN Indices /\ schema \in Schemas
        BY <1>1, KeptAsShown
    <2>2. p \in DOMAIN history[i] /\ history[i][p] = m[p] /\ m[p].word # "real"
        BY <2>1, ThoughtsAre
    <2>3. GoodHistory(history) /\ forwarded = Augmented(k, vault)
        BY <1>1, ConvForwards DEF Forwards, ForwardsAs
    <2>4. q \in DOMAIN b /\ b[q] = m[p]
        BY <2>2, <2>3, BodyIs
    <2>5. k[q] = b[q]
        BY <2>2, <2>4, MaskedIs
    <2>6. IsTree(k, 1) /\ DOMAIN k = DOMAIN b
        BY <2>3, MaskedTree
    <2>7. i \in 1..Len(Indices) /\ p \in Path
        BY <2>2, <2>3, HistoryIs
    <2> HIDE DEF k
    <2>8. Augmented(k, vault)[q] = k[q]
        BY <1>1, <2>4, <2>6, <2>7, UnderMessages
    <2> QED BY <2>3, <2>4, <2>5, <2>8 DEF Place
<1>2. ConvInv => ThinkingComesBack
    BY <1>1 DEF ThinkingComesBack
<1> QED BY <1>2, ConvCorrect, PTL

-----------------------------------------------------------------------------
(* Order of reading.  Of two paths neither of which leads on to the other, *)
(* one is read first; in a finite set of such paths there is one read      *)
(* before all others.                                                      *)

\* The walk reads in a strict order.
LEMMA RankIs ==
    ASSUME NEW k \in Keys
    PROVE  Rank(k) \in DOMAIN KeyOrder /\ Rank(k) \in Nat /\ KeyOrder[Rank(k)] = k
<1>1. \E i \in DOMAIN KeyOrder : KeyOrder[i] = k
    BY DEF Keys
<1>2. Rank(k) \in DOMAIN KeyOrder /\ KeyOrder[Rank(k)] = k
    BY <1>1 DEF Rank
<1>3. DOMAIN KeyOrder = 1..Len(KeyOrder) /\ Len(KeyOrder) \in Nat
    BY KeyOrderIs
<1> QED BY <1>2, <1>3

\* p comes before q from the step i on.
DifferAt(p, q, i) ==
  /\ i \in 1..Len(p) /\ i \in 1..Len(q)
  /\ \A j \in 1..(i - 1) : p[j] = q[j]
  /\ Rank(p[i]) < Rank(q[i])

LEMMA ReadIs ==
    ASSUME NEW p \in Path, NEW q \in Path
    PROVE  ReadBefore(p, q) <=> \E i \in Nat : DifferAt(p, q, i)
<1>1. DOMAIN p = 1..Len(p) /\ DOMAIN q = 1..Len(q) /\ Len(p) \in Nat /\ Len(q) \in Nat
    BY DEF Path
<1>2. 1..Len(p) \subseteq Nat
    BY <1>1
<1>3. ReadBefore(p, q) => \E i \in Nat : DifferAt(p, q, i)
    BY <1>1, <1>2 DEF ReadBefore, DifferAt
<1>4. (\E i \in Nat : DifferAt(p, q, i)) => ReadBefore(p, q)
    BY <1>1 DEF ReadBefore, DifferAt
<1> QED BY <1>3, <1>4

LEMMA StepRank ==
    ASSUME NEW p \in Path, NEW i \in 1..Len(p)
    PROVE  p[i] \in Keys /\ Rank(p[i]) \in Nat
<1>1. p[i] \in Keys
    BY ElementOfSeq DEF Path
<1> QED BY <1>1, RankIs

LEMMA ReadTransitive ==
    ASSUME NEW p \in Path, NEW q \in Path, NEW t \in Path, ReadBefore(p, q), ReadBefore(q, t)
    PROVE  ReadBefore(p, t)
<1>1. PICK i \in Nat : DifferAt(p, q, i)
    BY ReadIs
<1>2. PICK k \in Nat : DifferAt(q, t, k)
    BY ReadIs
<1>0. Len(p) \in Nat /\ Len(q) \in Nat /\ Len(t) \in Nat
    BY DEF Path
<1>3. /\ i \in 1..Len(p) /\ i \in 1..Len(q) /\ (\A j \in 1..(i - 1) : p[j] = q[j]) /\ Rank(p[i]) < Rank(q[i])
      /\ k \in 1..Len(q) /\ k \in 1..Len(t) /\ (\A j \in 1..(k - 1) : q[j] = t[j]) /\ Rank(q[k]) < Rank(t[k])
    BY <1>1, <1>2 DEF DifferAt
<1>4. Rank(p[i]) \in Nat /\ Rank(q[i]) \in Nat /\ Rank(q[k]) \in Nat /\ Rank(t[k]) \in Nat
    BY <1>3, StepRank
<1>5. CASE i < k
    <2>1. i \in 1..Len(t) /\ i \in 1..(k - 1) /\ \A j \in 1..(i - 1) : j \in 1..(k - 1)
        BY <1>0, <1>3, <1>5
    <2>2. DifferAt(p, t, i)
        BY <1>3, <2>1 DEF DifferAt
    <2> QED BY <2>2, ReadIs
<1>6. CASE k < i
    <2>1. k \in 1..Len(p) /\ k \in 1..(i - 1) /\ \A j \in 1..(k - 1) : j \in 1..(i - 1)
        BY <1>0, <1>3, <1>6
    <2>2. DifferAt(p, t, k)
        BY <1>3, <2>1 DEF DifferAt
    <2> QED BY <2>2, ReadIs
<1>7. CASE i = k
    <2>1. Rank(p[i]) < Rank(t[i])
        BY <1>3, <1>4, <1>7
    <2>2. DifferAt(p, t, i)
        BY <1>3, <1>7, <2>1 DEF DifferAt
    <2> QED BY <2>2, ReadIs
<1> QED BY <1>5, <1>6, <1>7

LEMMA NotBeforeItself ==
    ASSUME NEW p \in Path
    PROVE  ~ReadBefore(p, p)
<1>1. SUFFICES ASSUME NEW i \in Nat, DifferAt(p, p, i) PROVE FALSE
    BY ReadIs
<1>2. i \in 1..Len(p) /\ Rank(p[i]) < Rank(p[i])
    BY <1>1 DEF DifferAt
<1>3. Rank(p[i]) \in Nat
    BY <1>2, StepRank
<1> QED BY <1>2, <1>3

LEMMA NotBothWays ==
    ASSUME NEW p \in Path, NEW q \in Path, ReadBefore(p, q)
    PROVE  ~ReadBefore(q, p) /\ p # q
<1>1. ReadBefore(q, p) => ReadBefore(p, p)
    BY ReadTransitive
<1> QED BY <1>1, NotBeforeItself

\* Two paths, neither leading on to the other: one is read first.
LEMMA ReadTotal ==
    ASSUME NEW p \in Path, NEW q \in Path, ~IsPrefix(p, q), ~IsPrefix(q, p)
    PROVE  ReadBefore(p, q) \/ ReadBefore(q, p)
<1> DEFINE T == {i \in Nat : i \in 1..Len(p) /\ i \in 1..Len(q) /\ p[i] # q[i]}
<1>0. Len(p) \in Nat /\ Len(q) \in Nat
    BY DEF Path
<1>1. T # {}
    <2>1. CASE Len(p) <= Len(q)
        <3>1. \E i \in 1..Len(p) : p[i] # q[i]
            BY <2>1, PrefixIs
        <3> QED BY <1>0, <2>1, <3>1
    <2>2. CASE Len(q) <= Len(p)
        <3>1. \E i \in 1..Len(q) : p[i] # q[i]
            BY <2>2, PrefixIs
        <3> QED BY <1>0, <2>2, <3>1
    <2> QED BY <1>0, <2>1, <2>2
<1>2. T \subseteq Nat
    OBVIOUS
<1>3. \A i \in T : i \in 1..Len(p) /\ i \in 1..Len(q) /\ p[i] # q[i]
    OBVIOUS
<1>4. \A i \in Nat : i \in 1..Len(p) /\ i \in 1..Len(q) /\ p[i] # q[i] => i \in T
    OBVIOUS
<1> HIDE DEF T
<1>5. PICK i \in T : \A j \in T : i <= j
    BY <1>1, <1>2, LeastNat
<1>6. i \in Nat /\ i \in 1..Len(p) /\ i \in 1..Len(q) /\ p[i] # q[i]
    BY <1>2, <1>3
<1>7. \A j \in 1..(i - 1) : p[j] = q[j]
    <2> SUFFICES ASSUME NEW j \in 1..(i - 1), p[j] # q[j] PROVE FALSE
        OBVIOUS
    <2>1. j \in Nat /\ j \in 1..Len(p) /\ j \in 1..Len(q) /\ ~(i <= j)
        BY <1>0, <1>6
    <2>2. j \in T
        BY <1>4, <2>1
    <2> QED BY <1>5, <2>1, <2>2
<1>8. /\ Rank(p[i]) \in Nat /\ Rank(q[i]) \in Nat /\ KeyOrder[Rank(p[i])] = p[i] /\ KeyOrder[Rank(q[i])] = q[i]
    BY <1>6, StepRank, RankIs
<1>9. Rank(p[i]) # Rank(q[i])
    BY <1>6, <1>8
<1>10. CASE Rank(p[i]) < Rank(q[i])
    <2>1. DifferAt(p, q, i)
        BY <1>6, <1>7, <1>10 DEF DifferAt
    <2> QED BY <1>6, <2>1, ReadIs
<1>11. CASE Rank(q[i]) < Rank(p[i])
    <2>1. DifferAt(q, p, i)
        BY <1>6, <1>7, <1>11 DEF DifferAt
    <2> QED BY <1>6, <2>1, ReadIs
<1> QED BY <1>8, <1>9, <1>10, <1>11

\* Of some places, one is read first.
LEMMA LeastRead ==
    ASSUME NEW P, P \subseteq Path, IsFiniteSet(P), P # {},
           \A p, q \in P : p = q \/ ReadBefore(p, q) \/ ReadBefore(q, p)
    PROVE  \E p \in P : \A q \in P : p = q \/ ReadBefore(p, q)
<1> DEFINE Pred(p) == {q \in P : ReadBefore(q, p)}
           N == {Cardinality(Pred(p)) : p \in P}
<1>1. ASSUME NEW p \in P
      PROVE  IsFiniteSet(Pred(p)) /\ Cardinality(Pred(p)) \in Nat
    <2> DEFINE S == Pred(p)
    <2>1. S \subseteq P
        OBVIOUS
    <2> HIDE DEF S
    <2>2. IsFiniteSet(S) /\ Cardinality(S) \in Nat
        BY <2>1, FS_Subset, FS_CardinalityType
    <2> QED BY <2>2 DEF S
<1>2. N \subseteq Nat /\ N # {}
    BY <1>1
<1>3. PICK k \in N : \A j \in N : k <= j
    <2> HIDE DEF N
    <2> QED BY <1>2, LeastNat
<1>4. PICK p \in P : k = Cardinality(Pred(p))
    BY <1>3
<1>5. ASSUME NEW q \in P, p # q, ~ReadBefore(p, q) PROVE FALSE
    <2>1. ReadBefore(q, p)
        BY <1>5
    <2>2. ASSUME NEW t \in Pred(q) PROVE t \in Pred(p)
        <3>1. t \in P /\ ReadBefore(t, q) /\ t \in Path /\ q \in Path /\ p \in Path
            OBVIOUS
        <3>2. ReadBefore(t, p)
            BY <2>1, <3>1, ReadTransitive
        <3> QED BY <3>1, <3>2
    <2>3. q \in Pred(p) /\ q \notin Pred(q)
        <3>1. q \in Path
            OBVIOUS
        <3>2. ~ReadBefore(q, q)
            BY <3>1, NotBeforeItself
        <3> QED BY <2>1, <3>2
    <2> DEFINE S == Pred(p)
               T == Pred(q)
    <2>4. T \subseteq S /\ T # S /\ IsFiniteSet(S) /\ Cardinality(S) \in Nat /\ Cardinality(T) \in Nat
        BY <1>1, <2>2, <2>3
    <2>5. Cardinality(S) <= Cardinality(T)
        BY <1>3, <1>4
    <2> HIDE DEF S, T
    <2>6. Cardinality(T) <= Cardinality(S) /\ (Cardinality(S) = Cardinality(T) => S = T)
        BY <2>4, FS_Subset
    <2> QED BY <2>4, <2>5, <2>6
<1> QED BY <1>5

-----------------------------------------------------------------------------
(* Numbers.  The number a value has is one more than the number of values  *)
(* read before the first place it is read at; so it depends on nothing     *)
(* read after that place.                                                  *)

\* The places at in b can be read one after the other, and say whose values they hold.
Readable(b, at) ==
  /\ at \subseteq Path /\ IsFiniteSet(at)
  /\ \A p, q \in at : p = q \/ ReadBefore(p, q) \/ ReadBefore(q, p)
  /\ \A p \in at : b[p].word = "real" <=> b[p] = Real(b[p].of)

LEMMA RealFields ==
    ASSUME NEW v
    PROVE  Real(v).word = "real" /\ Real(v).of = v
BY DEF Real

LEMMA SecretsAre ==
    ASSUME NEW b, NEW at, Readable(b, at), NEW v
    PROVE  v \in Secrets(b, at) <=> \E p \in at : b[p] = Real(v)
<1>1. v \in Secrets(b, at) <=> \E p \in at : b[p].word = "real" /\ b[p].of = v
    BY DEF Secrets
<1>2. \A p \in at : b[p].word = "real" /\ b[p].of = v <=> b[p] = Real(v)
    BY RealFields DEF Readable
<1> QED BY <1>1, <1>2

\* f is the first place with the value v.
FirstAt(b, at, v, f) == f \in at /\ b[f] = Real(v) /\ \A q \in at : b[q] = Real(v) => f = q \/ ReadBefore(f, q)

LEMMA FirstOfIs ==
    ASSUME NEW b, NEW at, Readable(b, at), NEW v, v \in Secrets(b, at)
    PROVE  FirstAt(b, at, v, FirstOf(b, at, v))
<1> DEFINE P == {p \in at : b[p] = Real(v)}
<1>1. P # {}
    BY SecretsAre
<1>2. P \subseteq Path /\ IsFiniteSet(P) /\ \A p, q \in P : p = q \/ ReadBefore(p, q) \/ ReadBefore(q, p)
    <2>1. IsFiniteSet(at) /\ P \subseteq at
        BY DEF Readable
    <2> HIDE DEF P
    <2>2. IsFiniteSet(P)
        BY <2>1, FS_Subset
    <2> QED BY <2>1, <2>2 DEF Readable
<1>3. \E p \in P : \A q \in P : p = q \/ ReadBefore(p, q)
    <2> HIDE DEF P
    <2> QED BY <1>1, <1>2, LeastRead
<1>4. \E p \in at : b[p] = Real(v) /\ \A q \in at : b[q] = Real(v) => p = q \/ ReadBefore(p, q)
    BY <1>3
<1> QED BY <1>4 DEF FirstOf, FirstAt

LEMMA FirstAtUnique ==
    ASSUME NEW b, NEW at, Readable(b, at), NEW v, NEW f, NEW g, FirstAt(b, at, v, f), FirstAt(b, at, v, g)
    PROVE  f = g
<1>1. f \in Path /\ g \in Path
    BY DEF FirstAt, Readable
<1>2. f = g \/ (ReadBefore(f, g) /\ ReadBefore(g, f))
    BY DEF FirstAt
<1> QED BY <1>1, <1>2, NotBothWays

\* H has all that G has, and what else it has is read after x.
Continues(G, A, H, B, x) ==
  /\ Readable(G, A) /\ Readable(H, B) /\ A \subseteq B /\ x \in A
  /\ \A p \in A : H[p] = G[p]
  /\ \A q \in B \ A : ReadBefore(x, q)

\* A body that continues another behind x has the same first places up to x.
LEMMA FirstStays ==
    ASSUME NEW G, NEW A, NEW H, NEW B, NEW x, Continues(G, A, H, B, x), NEW w,
           w \in Secrets(G, A), FirstOf(G, A, w) = x \/ ReadBefore(FirstOf(G, A, w), x)
    PROVE  w \in Secrets(H, B) /\ FirstOf(H, B, w) = FirstOf(G, A, w)
<1> DEFINE f == FirstOf(G, A, w)
<1>1. FirstAt(G, A, w, f)
    BY FirstOfIs DEF Continues
<1>2. f = x \/ ReadBefore(f, x)
    OBVIOUS
<1> HIDE DEF f
<1>3. /\ f \in A /\ f \in B /\ G[f] = Real(w) /\ H[f] = Real(w) /\ A \subseteq Path /\ B \subseteq Path
      /\ f \in Path /\ x \in Path
    BY <1>1 DEF FirstAt, Continues, Readable
<1>4. ASSUME NEW q \in B, H[q] = Real(w) PROVE f = q \/ ReadBefore(f, q)
    <2>1. CASE q \in A
        BY <1>1, <1>4, <2>1 DEF FirstAt, Continues
    <2>2. CASE q \notin A
        <3>1. ReadBefore(x, q) /\ q \in Path
            BY <1>3, <2>2 DEF Continues
        <3> QED BY <1>2, <1>3, <3>1, ReadTransitive
    <2> QED BY <2>1, <2>2
<1>5. FirstAt(H, B, w, f)
    BY <1>3, <1>4 DEF FirstAt
<1>6. Readable(H, B)
    BY DEF Continues
<1>7. w \in Secrets(H, B)
    BY <1>3, <1>6, SecretsAre
<1>8. FirstAt(H, B, w, FirstOf(H, B, w))
    BY <1>6, <1>7, FirstOfIs
<1>9. FirstOf(H, B, w) = f
    BY <1>5, <1>6, <1>8, FirstAtUnique
<1> QED BY <1>7, <1>9 DEF f

\* A value read no later than x keeps its number.
LEMMA NumberStays ==
    ASSUME NEW G, NEW A, NEW H, NEW B, NEW x, Continues(G, A, H, B, x), NEW v, G[x] = Real(v)
    PROVE  /\ v \in DOMAIN Numbered(H, B)
           /\ v \in DOMAIN Numbered(G, A)
           /\ Numbered(H, B)[v] = Numbered(G, A)[v]
<1> DEFINE f == FirstOf(G, A, v)
           W == {w \in Secrets(G, A) : v = w \/ ReadBefore(FirstOf(G, A, w), FirstOf(G, A, v))}
           X == {w \in Secrets(H, B) : v = w \/ ReadBefore(FirstOf(H, B, w), FirstOf(H, B, v))}
<1>0. /\ Readable(G, A) /\ Readable(H, B) /\ A \subseteq B /\ x \in A /\ A \subseteq Path /\ B \subseteq Path
      /\ x \in Path
    BY DEF Continues, Readable
<1>1. v \in Secrets(G, A)
    BY <1>0, SecretsAre
<1>2. FirstAt(G, A, v, f)
    BY <1>0, <1>1, FirstOfIs
<1>3. f = x \/ ReadBefore(f, x)
    BY <1>0, <1>2 DEF FirstAt
<1>4. v \in Secrets(H, B) /\ FirstOf(H, B, v) = f
    BY <1>1, <1>3, FirstStays
<1>5. f \in Path
    BY <1>0, <1>2 DEF FirstAt
<1> HIDE DEF f
<1>6. ASSUME NEW w \in W PROVE w \in X
    <2>1. CASE w = v
        BY <1>4, <2>1
    <2>2. CASE w # v
        <3>1. w \in Secrets(G, A) /\ ReadBefore(FirstOf(G, A, w), f)
            BY <2>2 DEF f
        <3>2. FirstOf(G, A, w) \in Path
            BY <1>0, <3>1, FirstOfIs DEF FirstAt
        <3>3. FirstOf(G, A, w) = x \/ ReadBefore(FirstOf(G, A, w), x)
            BY <1>0, <1>3, <1>5, <3>1, <3>2, ReadTransitive
        <3>4. w \in Secrets(H, B) /\ FirstOf(H, B, w) = FirstOf(G, A, w)
            BY <3>1, <3>3, FirstStays
        <3> QED BY <1>4, <3>1, <3>4
    <2> QED BY <2>1, <2>2
<1>7. ASSUME NEW w \in X PROVE w \in W
    <2>1. CASE w = v
        BY <1>1, <2>1
    <2>2. CASE w # v
        <3> DEFINE g == FirstOf(H, B, w)
                   e == FirstOf(G, A, w)
        <3>1. w \in Secrets(H, B) /\ ReadBefore(g, f)
            BY <1>4, <2>2
        <3>2. FirstAt(H, B, w, g)
            BY <1>0, <3>1, FirstOfIs
        <3> HIDE DEF g
        <3>3. g \in B /\ g \in Path /\ H[g] = Real(w)
            BY <1>0, <3>2 DEF FirstAt
        <3>4. g \in A
            <4>1. ASSUME g \notin A PROVE FALSE
                <5>1. ReadBefore(x, g)
                    BY <3>3, <4>1 DEF Continues
                <5>2. ReadBefore(f, g)
                    BY <1>0, <1>3, <1>5, <3>3, <5>1, ReadTransitive
                <5> QED BY <1>5, <3>1, <3>3, <5>2, NotBothWays
            <4> QED BY <4>1
        <3>5. G[g] = Real(w)
            BY <3>3, <3>4 DEF Continues
        <3>6. w \in Secrets(G, A)
            BY <1>0, <3>4, <3>5, SecretsAre
        <3>7. FirstAt(G, A, w, e)
            BY <1>0, <3>6, FirstOfIs
        <3> HIDE DEF e
        <3>8. e \in A /\ e \in B /\ e \in Path /\ G[e] = Real(w) /\ H[e] = Real(w)
            BY <1>0, <3>7 DEF FirstAt, Continues
        <3>9. (g = e \/ ReadBefore(g, e)) /\ (e = g \/ ReadBefore(e, g))
            BY <3>2, <3>4, <3>5, <3>7, <3>8 DEF FirstAt
        <3>10. e = g
            BY <3>3, <3>8, <3>9, NotBothWays
        <3>11. ReadBefore(FirstOf(G, A, w), FirstOf(G, A, v))
            BY <3>1, <3>10 DEF e, f
        <3> QED BY <3>6, <3>11
    <2> QED BY <2>1, <2>2
<1>8. W = X
    <2> HIDE DEF W, X
    <2>1. \A w : w \in W <=> w \in X
        BY <1>6, <1>7
    <2> QED BY <2>1
<1>9. /\ DOMAIN Numbered(H, B) = Secrets(H, B) /\ DOMAIN Numbered(G, A) = Secrets(G, A)
    BY DEF Numbered
<1>10. Numbered(H, B)[v] = Cardinality(X)
    BY <1>4 DEF Numbered
<1>11. Numbered(G, A)[v] = Cardinality(W)
    BY <1>1 DEF Numbered
<1> QED BY <1>1, <1>4, <1>8, <1>9, <1>10, <1>11

-----------------------------------------------------------------------------
(* Later messages.  What the walk reads lies under the system part, the    *)
(* messages or the tools.                                                  *)

\* No place of a body is the body itself.
LEMMA BodyDeep ==
    ASSUME NEW h, GoodHistory(h), NEW p \in DOMAIN Body(h)
    PROVE  p \in Path /\ Len(p) \in Nat /\ Len(p) >= 1
<1>1. CASE p \in DOMAIN opening
    BY <1>1, OpeningIs
<1>2. CASE p = <<"messages">>
    <2>1. <<"messages">> \in Path /\ Len(<<"messages">>) = 1
        BY BodyPaths
    <2> QED BY <1>2, <2>1
<1>3. CASE \E i \in DOMAIN h : \E r \in DOMAIN h[i] : p = Place(i, r)
    <2>1. PICK i \in DOMAIN h : \E r \in DOMAIN h[i] : p = Place(i, r)
        BY <1>3
    <2>2. PICK r \in DOMAIN h[i] : p = Place(i, r)
        BY <2>1
    <2>3. i \in 1..Len(Indices) /\ r \in Path
        BY HistoryIs
    <2>4. Place(i, r) \in Path /\ Len(Place(i, r)) = Len(r) + 2 /\ Len(r) \in Nat
        BY <2>3, PlaceIs
    <2> QED BY <2>2, <2>4
<1> QED BY <1>1, <1>2, <1>3, BodyIs

\* The strings of a request are read in a total order.
LEMMA VisitIsReadable ==
    ASSUME NEW h, GoodHistory(h)
    PROVE  Readable(Body(h), RequestVisit(Body(h)).at)
<1> DEFINE b == Body(h)
           at == RequestVisit(b).at
<1>1. IsTree(b, 1) /\ IsFiniteSet(DOMAIN b) /\ schema \in Schemas
    BY BodyTree, BodyFinite DEF GoodHistory
<1>2. \A p \in DOMAIN b : p \in Path /\ Len(p) \in Nat /\ Len(p) >= 1
    BY BodyDeep
<1>3. \A p \in DOMAIN b : IsNode(b[p])
    BY <1>1, NodesAre
<1> HIDE DEF b
<1>4. ASSUME NEW p \in at PROVE p \in DOMAIN b /\ b[p].is = "string"
    BY <1>1, RequestReads DEF Is
<1> HIDE DEF at
<1>5. at \subseteq Path /\ at \subseteq DOMAIN b
    BY <1>2, <1>4
<1>6. IsFiniteSet(at)
    BY <1>1, <1>5, FS_Subset
<1>7. ASSUME NEW p \in at, NEW q \in at, IsPrefix(q, p) PROVE p = q
    <2>1. p \in Under(b, q)
        BY <1>4, <1>7 DEF Under
    <2>2. q \in Path /\ Len(q) >= 1 /\ q \in DOMAIN b /\ b[q].is \notin {"array", "object"}
        BY <1>2, <1>4
    <2> QED BY <1>1, <2>1, <2>2, LeavesAreLast
<1>8. \A p, q \in at : p = q \/ ReadBefore(p, q) \/ ReadBefore(q, p)
    BY <1>5, <1>7, ReadTotal
<1>9. ASSUME NEW p \in at PROVE b[p].word = "real" <=> b[p] = Real(b[p].of)
    <2>1. b[p] = [is |-> b[p].is, word |-> b[p].word, of |-> b[p].of, prompt |-> FALSE] /\ b[p].is = "string"
        BY <1>3, <1>4 DEF IsNode
    <2>2. Real(b[p].of) = [is |-> "string", word |-> "real", of |-> b[p].of, prompt |-> FALSE]
        BY DEF Real
    <2>3. ASSUME b[p].word = "real" PROVE b[p] = Real(b[p].of)
        BY <2>1, <2>2, <2>3, Zenon
    <2>4. ASSUME b[p] = Real(b[p].of) PROVE b[p].word = "real"
        <3>1. Real(b[p].of).word = "real"
            BY RealFields
        <3> QED BY <2>4, <3>1, Zenon
    <2> QED BY <2>3, <2>4
<1>10. Readable(b, at)
    BY <1>5, <1>6, <1>8, <1>9 DEF Readable
<1> QED BY <1>10 DEF at, b

\* What a message says stands in it.
LEMMA PartsUnder ==
    ASSUME NEW c \in Path, NEW p \in Parts(c)
    PROVE  p \in Path /\ IsPrefix(c, p)
<1>0. "text" \in Keys /\ Numerals \subseteq Keys
    BY FixedKeysAreKeys, NumeralsAreKeys
<1>1. ASSUME NEW q \in Elements(c) PROVE q \in Path /\ IsPrefix(c, q)
    <2>1. PICK k \in Numerals : q = Append(c, k)
        BY DEF Elements
    <2> QED BY <1>0, <2>1, StepProps, PrefixStep
<1>2. ASSUME NEW q \in Elements(c) PROVE Append(q, "text") \in Path /\ IsPrefix(c, Append(q, "text"))
    <2>1. q \in Path /\ IsPrefix(c, q)
        BY <1>1
    <2> QED BY <1>0, <2>1, StepProps, PrefixStep
<1>3. IsPrefix(c, c)
    BY <1>0, PrefixStep
<1> QED BY <1>1, <1>2, <1>3 DEF Parts

LEMMA OpenAiUnder ==
    ASSUME NEW m \in Path, NEW p \in OpenAiText(m)
    PROVE  p \in Path /\ IsPrefix(m, p)
<1>0. {"content", "name", "function_call", "arguments", "tool_calls", "function"} \subseteq Keys
    BY FixedKeysAreKeys
<1>1. \A q \in Path : IsPrefix(m, q) => \A k \in Keys : Append(q, k) \in Path /\ IsPrefix(m, Append(q, k))
    BY StepProps, PrefixStep
<1>2. IsPrefix(m, m)
    BY <1>0, PrefixStep
<1>3. \A k \in Keys : Append(m, k) \in Path /\ IsPrefix(m, Append(m, k))
    BY <1>1, <1>2
<1>4. \A q \in Elements(Append(m, "tool_calls")) : q \in Path /\ IsPrefix(m, q)
    <2>1. ASSUME NEW q \in Elements(Append(m, "tool_calls")) PROVE q \in Path /\ IsPrefix(m, q)
        <3>1. PICK k \in Numerals : q = Append(Append(m, "tool_calls"), k)
            BY DEF Elements
        <3>2. k \in Keys
            BY NumeralsAreKeys
        <3> QED BY <1>0, <1>1, <1>3, <3>1, <3>2
    <2> QED BY <2>1
<1>5. CASE p \in Parts(Append(m, "content"))
    <2>1. Append(m, "content") \in Path /\ IsPrefix(m, Append(m, "content"))
        BY <1>0, <1>3
    <2>2. p \in Path /\ IsPrefix(Append(m, "content"), p)
        BY <1>5, <2>1, PartsUnder
    <2> QED BY <2>1, <2>2, PrefixTrans
<1>6. CASE p \in {Append(m, "name"), Append(Append(m, "function_call"), "arguments")}
    BY <1>0, <1>1, <1>3, <1>6
<1>7. CASE \E t \in Elements(Append(m, "tool_calls")) : p = Append(Append(t, "function"), "arguments")
    BY <1>0, <1>1, <1>4, <1>7
<1> QED BY <1>5, <1>6, <1>7 DEF OpenAiText

LEMMA TextUnder ==
    ASSUME NEW b, IsTree(b, 1), NEW s, NEW m \in Path, NEW p \in DOMAIN b, p \in MessageText(s, b, m)
    PROVE  IsPrefix(m, p)
<1> DEFINE c == Append(m, "content")
<1>0. "content" \in Keys
    BY FixedKeysAreKeys
<1>1. c \in Path /\ Len(c) >= 1 /\ IsPrefix(m, c)
    BY <1>0, ChildFacts, PrefixStep
<1>p. p \in Path
    BY TreePaths
<1> HIDE DEF c
<1>2. CASE s = "OpenAi"
    BY <1>2, OpenAiUnder DEF MessageText
<1>3. CASE s # "OpenAi"
    <2>1. p = c \/ \E q \in Elements(c) : p \in BlockText(b, q)
        BY <1>3 DEF MessageText, AnthropicText, c
    <2>2. ASSUME NEW q \in Elements(c), p \in BlockText(b, q) PROVE IsPrefix(c, p)
        <3>1. q \in Path /\ Len(q) >= 1
            BY <1>1, ElementPath
        <3>2. IsPrefix(q, p)
            BY <2>2, <3>1, BlockIsThere
        <3>3. q \in Parts(c)
            BY DEF Parts
        <3>4. IsPrefix(c, q)
            BY <1>1, <3>3, PartsUnder
        <3> QED BY <1>1, <1>p, <3>1, <3>2, <3>4, PrefixTrans
    <2>3. p = c \/ IsPrefix(c, p)
        BY <2>1, <2>2
    <2> QED BY <1>1, <1>p, <2>3, PrefixTrans
<1> QED BY <1>2, <1>3

-----------------------------------------------------------------------------
(* Earlier text.  What an earlier body said, the later one says at the     *)
(* same place.                                                             *)

\* The body of the first messages of a conversation is the beginning of its body.
LEMMA EarlierBody ==
    ASSUME NEW h, GoodHistory(h), NEW n \in 0..Len(h)
    PROVE  /\ \A p \in DOMAIN Body(Before(h, n)) : p \in DOMAIN Body(h) /\ Body(h)[p] = Body(Before(h, n))[p]
           /\ \A p \in DOMAIN Body(h) \ DOMAIN Body(Before(h, n)) :
                \E j \in DOMAIN h : j > n /\ \E r \in Path : p = Place(j, r)
<1> DEFINE g == Before(h, n)
<1>1. GoodHistory(g) /\ DOMAIN g = 1..n /\ n \in Nat
    BY BeforeIs
<1>2. \A i \in DOMAIN g : i \in DOMAIN h /\ g[i] = h[i]
    BY BeforeIs
<1>3. DOMAIN h = 1..Len(h) /\ Len(h) \in Nat /\ \A i \in DOMAIN h : DOMAIN h[i] \subseteq Path
    BY HistoryIs
<1> HIDE DEF g
<1> DEFINE G == Body(g)
           H == Body(h)
<1>g. \A p : p \in DOMAIN G <=> \/ p \in DOMAIN opening
                                \/ p = <<"messages">>
                                \/ \E i \in DOMAIN g : \E r \in DOMAIN g[i] : p = Place(i, r)
    BY <1>1, BodyIs
<1>h. \A p : p \in DOMAIN H <=> \/ p \in DOMAIN opening
                                \/ p = <<"messages">>
                                \/ \E i \in DOMAIN h : \E r \in DOMAIN h[i] : p = Place(i, r)
    BY BodyIs
<1>4. ASSUME NEW p \in DOMAIN G PROVE p \in DOMAIN H /\ H[p] = G[p]
    <2>1. CASE p \in DOMAIN opening
        <3>1. G[p] = opening[p] /\ H[p] = opening[p]
            BY <1>1, <2>1, BodyIs
        <3> QED BY <1>h, <2>1, <3>1
    <2>2. CASE p = <<"messages">>
        <3>1. G[p] = Node("array") /\ H[p] = Node("array")
            BY <1>1, <2>2, BodyIs
        <3> QED BY <1>h, <2>2, <3>1
    <2>3. CASE \E i \in DOMAIN g : \E r \in DOMAIN g[i] : p = Place(i, r)
        <3>1. PICK i \in DOMAIN g : \E r \in DOMAIN g[i] : p = Place(i, r)
            BY <2>3
        <3>2. PICK r \in DOMAIN g[i] : p = Place(i, r)
            BY <3>1
        <3>3. i \in DOMAIN h /\ g[i] = h[i] /\ r \in DOMAIN h[i]
            BY <1>2
        <3>4. G[Place(i, r)] = g[i][r]
            BY <1>1, BodyIs
        <3>5. Place(i, r) \in DOMAIN H /\ H[Place(i, r)] = h[i][r]
            BY <3>3, BodyIs
        <3> QED BY <3>2, <3>3, <3>4, <3>5
    <2> QED BY <1>g, <2>1, <2>2, <2>3
<1>5. ASSUME NEW p \in DOMAIN H, p \notin DOMAIN G
      PROVE  \E j \in DOMAIN h : j > n /\ \E r \in Path : p = Place(j, r)
    <2>1. \E i \in DOMAIN h : \E r \in DOMAIN h[i] : p = Place(i, r)
        BY <1>g, <1>h, <1>5
    <2>2. PICK i \in DOMAIN h : \E r \in DOMAIN h[i] : p = Place(i, r)
        BY <2>1
    <2>3. PICK r \in DOMAIN h[i] : p = Place(i, r)
        BY <2>2
    <2>4. i \notin DOMAIN g
        <3>1. ASSUME i \in DOMAIN g PROVE FALSE
            <4>1. r \in DOMAIN g[i]
                BY <1>2, <3>1
            <4> QED BY <1>g, <1>5, <2>3, <3>1, <4>1
        <3> QED BY <3>1
    <2>5. i > n
        BY <1>1, <1>3, <2>4
    <2>6. r \in Path
        BY <1>3
    <2> QED BY <2>3, <2>5, <2>6
<1>6. /\ \A p \in DOMAIN G : p \in DOMAIN H /\ H[p] = G[p]
      /\ \A p \in DOMAIN H \ DOMAIN G : \E j \in DOMAIN h : j > n /\ \E r \in Path : p = Place(j, r)
    BY <1>4, <1>5
<1> QED BY <1>6 DEF g

\* Which text of a body a message says depends on that message only.
LEMMA SaidAt ==
    ASSUME NEW h, GoodHistory(h), NEW i \in DOMAIN h, NEW p \in DOMAIN Body(h)
    PROVE  p \in MessageText(schema, Body(h), MessageAt(i)) <=>
             \E r \in Path : p = Place(i, r) /\ r \in MessageText(schema, h[i], <<>>)
<1> DEFINE b == Body(h)
           M == MessageAt(i)
<1>1. IsTree(b, 1) /\ p \in Path
    BY BodyTree, BodyDeep
<1>2. M \in Path
    BY HistoryIs, MessageAtIs
<1>3. Mirrors(b, i, h[i])
    BY BodyMirrors
<1>4. \A r \in Path : Place(i, r) \in MessageText(schema, b, M) <=> r \in MessageText(schema, h[i], <<>>)
    BY <1>3, MessageLift
<1>5. ASSUME p \in MessageText(schema, b, M) PROVE \E r \in Path : p = Place(i, r)
    <2>1. IsPrefix(M, p)
        BY <1>1, <1>2, <1>5, TextUnder
    <2>2. \E r \in Path : p = M \o r /\ After(M, p) = r
        BY <1>1, <1>2, <2>1, PrefixMoves
    <2> QED BY <2>2 DEF Place
<1> QED BY <1>4, <1>5

\* What was text is text.
LEMMA SaidAgrees ==
    ASSUME NEW h, GoodHistory(h), NEW n \in 0..Len(h), NEW p \in DOMAIN Body(Before(h, n))
    PROVE  p \in SaidIn(Body(Before(h, n))) <=> p \in SaidIn(Body(h))
<1> DEFINE g == Before(h, n)
           G == Body(g)
           H == Body(h)
           Said(b, k) == \E i \in DOMAIN k : p \in MessageText(schema, b, MessageAt(i))
<1>1. GoodHistory(g) /\ DOMAIN g = 1..n /\ n \in Nat /\ \A i \in DOMAIN g : i \in DOMAIN h /\ g[i] = h[i]
    BY BeforeIs
<1>2. p \in DOMAIN H
    BY EarlierBody
<1> HIDE DEF g
<1>3. ASSUME NEW k, GoodHistory(k)
      PROVE  p \in SaidIn(Body(k)) <=> p \in OpeningText(schema, Body(k)) \/ Said(Body(k), k)
    <2>1. Items(Body(k), <<"messages">>) = {MessageAt(i) : i \in 1..Len(k)} /\ DOMAIN k = 1..Len(k)
        BY <1>3, BodyItems, HistoryIs
    <2> QED BY <2>1 DEF SaidIn
<1>4. p \in OpeningText(schema, G) <=> p \in OpeningText(schema, H)
    BY <1>2, OpeningLift DEF g
<1>5. ASSUME Said(G, g) PROVE Said(H, h)
    <2>1. PICK i \in DOMAIN g : p \in MessageText(schema, G, MessageAt(i))
        BY <1>5
    <2>2. \E r \in Path : p = Place(i, r) /\ r \in MessageText(schema, g[i], <<>>)
        BY <1>1, <2>1, SaidAt DEF g
    <2>3. p \in MessageText(schema, H, MessageAt(i))
        BY <1>1, <1>2, <2>2, SaidAt
    <2> QED BY <1>1, <2>3
<1>6. ASSUME Said(H, h) PROVE Said(G, g)
    <2>1. PICK i \in DOMAIN h : p \in MessageText(schema, H, MessageAt(i))
        BY <1>6
    <2>2. PICK r \in Path : p = Place(i, r) /\ r \in MessageText(schema, h[i], <<>>)
        BY <1>2, <2>1, SaidAt
    <2>3. i \in DOMAIN Indices
        BY PushedIs
    <2>4. i \in DOMAIN g
        <3>1. \/ p \in DOMAIN opening
              \/ p = <<"messages">>
              \/ \E j \in DOMAIN g : \E t \in DOMAIN g[j] : p = Place(j, t)
            BY <1>1, BodyIs DEF g
        <3>2. p \notin DOMAIN opening
            <4>1. DOMAIN Indices = 1..Len(Indices)
                BY KeyOrderIs
            <4> QED BY <2>2, <2>3, <4>1, OpeningIs
        <3>3. p # <<"messages">>
            BY <2>2, <2>3, PlaceIsNotMessages
        <3>4. PICK j \in DOMAIN g : \E t \in DOMAIN g[j] : p = Place(j, t)
            BY <3>1, <3>2, <3>3
        <3>5. PICK t \in DOMAIN g[j] : p = Place(j, t)
            BY <3>4
        <3>6. t \in Path /\ j \in DOMAIN Indices
            BY <1>1, HistoryIs, PushedIs
        <3>7. i = j
            BY <2>2, <2>3, <3>5, <3>6, PlacesUnique
        <3> QED BY <3>7
    <2>5. r \in MessageText(schema, g[i], <<>>)
        BY <1>1, <2>2, <2>4
    <2>6. p \in MessageText(schema, G, MessageAt(i))
        BY <1>1, <2>2, <2>4, <2>5, SaidAt DEF g
    <2> QED BY <2>4, <2>6
<1> HIDE DEF Said
<1>7. p \in SaidIn(G) <=> p \in SaidIn(H)
    BY <1>1, <1>3, <1>4, <1>5, <1>6
<1> QED BY <1>7 DEF g

-----------------------------------------------------------------------------
(* Numbers last.  A value of an earlier body has its first place there     *)
(* before every message that came since, or in the tools, which no turn    *)
(* changes; so no number changes from one turn to the next.                *)

\* What is read before the tools is read before any later message.
LEMMA LaterIsAfter ==
    ASSUME NEW h, GoodHistory(h), NEW n \in 0..Len(h), NEW x \in DOMAIN Body(Before(h, n)),
           Body(Before(h, n))[x].is = "string", Head(x) # "tools",
           NEW j \in DOMAIN h, j > n, NEW r \in Path
    PROVE  ReadBefore(x, Place(j, r))
<1> DEFINE g == Before(h, n)
           q == Place(j, r)
<1>1. GoodHistory(g) /\ DOMAIN g = 1..n /\ n \in Nat
    BY BeforeIs
<1>2. j \in 1..Len(Indices) /\ DOMAIN Indices = 1..Len(Indices) /\ Len(Indices) \in Nat
    BY HistoryIs, KeyOrderIs
<1>3. q \in Path /\ Len(q) = Len(r) + 2 /\ Len(r) \in Nat /\ q[1] = "messages" /\ q[2] = Index(j)
    BY <1>2, PlaceIs
<1>x. x \in Path /\ Len(x) \in Nat /\ Len(x) >= 1
    BY <1>1, BodyDeep
<1>4. CASE x \in DOMAIN opening
    <2>1. x[1] \in {"system", "tools"}
        BY <1>1, <1>4, OpeningIs
    <2>2. Head(x) = x[1]
        BY <1>x DEF Path
    <2>3. x[1] = "system"
        BY <2>1, <2>2
    <2>4. Rank("system") < Rank("messages")
        <3> DEFINE n1 == Len(Indices) + 1
                   n2 == Len(Indices) + 2
        <3>1. /\ Len(KeyOrder) \in Nat /\ DOMAIN KeyOrder = 1..Len(KeyOrder) /\ Len(KeyOrder) >= Len(Indices) + 25
            BY KeyOrderIs
        <3>2. \A i \in 1..25 : KeyOrder[Len(Indices) + i] = FixedKeys[i]
            BY KeyOrderIs
        <3>3. KeyOrder[n1] = "system" /\ KeyOrder[n2] = "messages"
            <4>1. KeyOrder[Len(Indices) + 1] = FixedKeys[1] /\ KeyOrder[Len(Indices) + 2] = FixedKeys[2]
                BY <3>2
            <4> QED BY <4>1, FixedKeyAt
        <3>4. n1 \in DOMAIN KeyOrder /\ n2 \in DOMAIN KeyOrder
            BY <1>2, <3>1
        <3>5. "system" \in Keys /\ "messages" \in Keys
            BY FixedKeysAreKeys
        <3>6. /\ Rank("system") \in DOMAIN KeyOrder /\ KeyOrder[Rank("system")] = "system"
              /\ Rank("messages") \in DOMAIN KeyOrder /\ KeyOrder[Rank("messages")] = "messages"
            BY <3>5, RankIs
        <3> HIDE DEF n1, n2
        <3>7. Rank("system") = n1 /\ Rank("messages") = n2
            BY <3>3, <3>4, <3>6, KeysAssumption
        <3> QED BY <1>2, <3>7 DEF n1, n2
    <2> HIDE DEF q
    <2>5. DifferAt(x, q, 1)
        BY <1>3, <1>x, <2>3, <2>4 DEF DifferAt
    <2>6. ReadBefore(x, q)
        BY <1>3, <1>x, <2>5, ReadIs
    <2> QED BY <2>6 DEF q
<1>5. CASE x = <<"messages">>
    <2>1. Body(g)[x] = Node("array")
        BY <1>1, <1>5, BodyIs
    <2>2. Body(g)[x].is = "array"
        BY <2>1, ArrayNode, Zenon
    <2>3. Body(g)[x].is = "string"
        OBVIOUS
    <2> HIDE DEF g
    <2> QED BY <2>2, <2>3
<1>6. CASE \E i \in DOMAIN g : \E t \in DOMAIN g[i] : x = Place(i, t)
    <2>1. PICK i \in DOMAIN g : \E t \in DOMAIN g[i] : x = Place(i, t)
        BY <1>6
    <2>2. PICK t \in DOMAIN g[i] : x = Place(i, t)
        BY <2>1
    <2>3. t \in Path /\ i \in 1..Len(Indices) /\ i < j
        <3>1. t \in Path /\ i \in 1..Len(Indices)
            BY <1>1, HistoryIs
        <3>2. i \in 1..n
            BY <1>1
        <3> QED BY <1>1, <1>2, <3>1, <3>2
    <2>4. Len(x) = Len(t) + 2 /\ Len(t) \in Nat /\ x[1] = "messages" /\ x[2] = Index(i)
        BY <2>2, <2>3, PlaceIs
    <2>5. Rank(Index(i)) = i /\ Rank(Index(j)) = j
        BY <1>2, <2>3, RankOfIndex
    <2> HIDE DEF q
    <2>6. DifferAt(x, q, 2)
        BY <1>3, <2>3, <2>4, <2>5 DEF DifferAt
    <2>7. ReadBefore(x, q)
        BY <1>3, <1>x, <2>6, ReadIs
    <2> QED BY <2>7 DEF q
<1> QED BY <1>1, <1>4, <1>5, <1>6, BodyIs

\* The walk of a later request reads what the earlier one read, and the rest
\* behind what stands ahead of the tools.
LEMMA VisitContinues ==
    ASSUME NEW h, GoodHistory(h), NEW n \in 0..Len(h),
           RequestVisit(Body(h)).ok, RequestVisit(Body(Before(h, n))).ok,
           NEW x \in DOMAIN Body(Before(h, n)), NEW v, Body(Before(h, n))[x] = Real(v),
           Head(x) # "tools", ~Opaque(x)
    PROVE  Continues(Body(Before(h, n)), RequestVisit(Body(Before(h, n))).at, Body(h), RequestVisit(Body(h)).at, x)
<1> DEFINE g == Before(h, n)
           G == Body(g)
           H == Body(h)
           A == RequestVisit(G).at
           B == RequestVisit(H).at
<1>1. GoodHistory(g) /\ schema \in Schemas
    BY BeforeIs DEF GoodHistory
<1>2. IsTree(G, 1) /\ IsTree(H, 1)
    BY <1>1, BodyTree
<1>3. Readable(G, A) /\ Readable(H, B)
    BY <1>1, VisitIsReadable
<1>4. \A p \in DOMAIN G : p \in DOMAIN H /\ H[p] = G[p]
    BY EarlierBody
<1>5. \A p \in DOMAIN H \ DOMAIN G : \E j \in DOMAIN h : j > n /\ \E r \in Path : p = Place(j, r)
    BY EarlierBody
<1>6. \A p \in DOMAIN G : p \in SaidIn(G) <=> p \in SaidIn(H)
    BY SaidAgrees
<1>a. \A p \in A : p \in SaidIn(G) /\ p \in DOMAIN G /\ G[p].is = "string"
    BY <1>1, <1>2, RequestReads DEF Is
<1>b. \A p \in B : p \in SaidIn(H) /\ p \in DOMAIN H /\ H[p].is = "string"
    BY <1>1, <1>2, RequestReads DEF Is
<1>c. \A p \in SaidIn(G) : p \in DOMAIN G /\ G[p].is = "string" => p \in A
    BY <1>1, <1>2, RequestCovered
<1>d. \A p \in SaidIn(H) : p \in DOMAIN H /\ H[p].is = "string" => p \in B
    BY <1>1, <1>2, RequestCovered
<1>7. x \in A /\ G[x].is = "string"
    <2>1. G[x].word = "real"
        <3>1. Real(v).word = "real"
            BY RealFields
        <3> QED BY <3>1, Zenon
    <2>2. G[x].is = "string" /\ x \in SaidIn(G)
        BY <1>1, <2>1, RealsAreSaid
    <2> QED BY <1>c, <2>2
<1>e. \A j \in DOMAIN h : \A r \in Path : j > n => ReadBefore(x, Place(j, r))
    BY <1>7, LaterIsAfter
<1> HIDE DEF A, B, G, H
<1>8. A \subseteq B /\ \A p \in A : H[p] = G[p]
    BY <1>4, <1>6, <1>a, <1>d
<1>9. ASSUME NEW q \in B, q \notin A PROVE ReadBefore(x, q)
    <2>1. q \notin DOMAIN G
        BY <1>4, <1>6, <1>9, <1>b, <1>c
    <2>2. q \in DOMAIN H \ DOMAIN G
        BY <1>b, <2>1
    <2>3. PICK j \in DOMAIN h : j > n /\ \E r \in Path : q = Place(j, r)
        BY <1>5, <2>2
    <2> QED BY <1>e, <2>3
<1>10. Continues(G, A, H, B, x)
    BY <1>3, <1>7, <1>8, <1>9 DEF Continues
<1> QED BY <1>10 DEF A, B, G, H

\* placeholder_for numbers values by first occurrence and a conversation grows
\* at its end only, so a value that is read ahead of the tools has the same
\* number in every later request.
THEOREM NumbersOutliveTheTurnAlways == Spec => []NumbersOutliveTheTurn
<1>1. ASSUME ConvInv, Sent, NEW i \in DOMAIN meant, NEW v \in DOMAIN meant[i], ReadAheadOfTools(i, v)
      PROVE  v \in DOMAIN vault /\ vault[v] = meant[i][v]
    <2> DEFINE n == i - 1
               g == Before(history, n)
    <2>1. GoodHistory(history) /\ RequestVisit(Body(history)).ok /\ vault = VaultFor(history)
        BY <1>1, ConvForwards DEF Forwards, ForwardsAs
    <2>2. /\ RequestVisit(Body(g)).ok /\ meant[i] = VaultFor(g)
          /\ i \in 1..Len(history) \/ i = Len(history) + 1
        BY <1>1 DEF ConvInv, InvOf, Remembers
    <2>3. n \in 0..Len(history)
        BY <2>1, <2>2, HistoryIs
    <2>4. PICK x \in DOMAIN Body(g) : Body(g)[x] = Real(v) /\ Head(x) # "tools" /\ ~Opaque(x)
        BY <1>1 DEF ReadAheadOfTools, Before
    <2> HIDE DEF n
    <2>5. Continues(Body(g), RequestVisit(Body(g)).at, Body(history), RequestVisit(Body(history)).at, x)
        BY <2>1, <2>2, <2>3, <2>4, VisitContinues
    <2>6. v \in DOMAIN VaultFor(history) /\ VaultFor(history)[v] = VaultFor(g)[v]
        BY <2>4, <2>5, NumberStays DEF VaultFor
    <2> QED BY <2>1, <2>2, <2>6
<1>2. ConvInv => NumbersOutliveTheTurn
    BY <1>1 DEF NumbersOutliveTheTurn
<1> QED BY <1>2, ConvCorrect, PTL
=============================================================================
