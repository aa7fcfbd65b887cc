------------------------------- MODULE Vault -------------------------------
(***************************************************************************)
(* The placeholder store of one request (src/pii/anonymizer.rs, struct     *)
(* Vault).  Two hash maps are kept in step: placeholder -> original value  *)
(* and original value -> placeholder, with one counter per kind numbering  *)
(* the placeholders [KIND_1], [KIND_2], ...                                *)
(*                                                                         *)
(* A placeholder is the pair <<kind, number>>; its bracketed spelling, and *)
(* the tolerant spellings demask accepts, are left out.  PiiKind::label is *)
(* injective, so the kind stands for its label.                            *)
(***************************************************************************)
EXTENDS Naturals

CONSTANTS
    Kinds,      \* PiiKind: what a detection can be
    Values      \* the texts a detection can carry

VARIABLES
    toOriginal,     \* placeholder -> original value
    toPlaceholder,  \* original value -> placeholder
    counters        \* kind -> how many placeholders it has

vaultVars == <<toOriginal, toPlaceholder, counters>>

Placeholders == Kinds \X (Nat \ {0})

\* A HashMap is a function on the keys it holds.
EmptyMap == [k \in {} |-> k]

\* HashMap::insert: adds the key, or overwrites what it had.
Insert(map, key, value) ==
    [k \in DOMAIN map \cup {key} |-> IF k = key THEN value ELSE map[k]]

-----------------------------------------------------------------------------
VaultInit ==
    /\ toOriginal = EmptyMap
    /\ toPlaceholder = EmptyMap
    /\ counters = [k \in Kinds |-> 0]

VaultIsEmpty == DOMAIN toOriginal = {}

\* The placeholder a detection of value v as kind k gets.  The lookup is by
\* value alone: the kind of the first detection names every later one.
PlaceholderOf(v, k) ==
    IF v \in DOMAIN toPlaceholder THEN toPlaceholder[v]
                                  ELSE <<k, counters[k] + 1>>

\* Mutant: the counter never moves.
PlaceholderForUncounted(v, k) ==
    /\ v \notin DOMAIN toPlaceholder
    /\ toPlaceholder' = Insert(toPlaceholder, v, PlaceholderOf(v, k))
    /\ toOriginal' = Insert(toOriginal, PlaceholderOf(v, k), v)
    /\ UNCHANGED counters

\* Look the value up, or mint a placeholder and record it in both maps.
PlaceholderFor(v, k) ==
    \/ /\ v \in DOMAIN toPlaceholder
       /\ UNCHANGED vaultVars
    \/ /\ v \notin DOMAIN toPlaceholder
       /\ counters' = [counters EXCEPT ![k] = @ + 1]
       /\ toPlaceholder' = Insert(toPlaceholder, v, PlaceholderOf(v, k))
       /\ toOriginal' = Insert(toOriginal, PlaceholderOf(v, k), v)

\* What demask makes of one token: a known placeholder becomes its original,
\* anything else is left untouched.
Demask(token) ==
    IF token \in DOMAIN toOriginal THEN toOriginal[token] ELSE token

\* The vault by itself, under any sequence of detections.
VaultNext == \E v \in Values, k \in Kinds : PlaceholderFor(v, k)

VaultSpec == VaultInit /\ [][VaultNext]_vaultVars

-----------------------------------------------------------------------------
\* Type invariant of the store.
VaultTypeOK ==
    /\ DOMAIN toPlaceholder \subseteq Values
    /\ toPlaceholder \in [DOMAIN toPlaceholder -> Placeholders]
    /\ DOMAIN toOriginal \subseteq Placeholders
    /\ toOriginal \in [DOMAIN toOriginal -> Values]
    /\ counters \in [Kinds -> Nat]

\* The two maps are inverse bijections.  They are two separate inserts into two
\* separate hash maps, keyed by a text and by a kind-and-counter: a counter that
\* repeats, or a value minted twice under two kinds, makes demask restore the
\* wrong person's data (placeholder_for, demask_inner).
MapsAreInverse ==
    /\ \A v \in DOMAIN toPlaceholder :
          /\ toPlaceholder[v] \in DOMAIN toOriginal
          /\ toOriginal[toPlaceholder[v]] = v
    /\ \A p \in DOMAIN toOriginal :
          /\ toOriginal[p] \in DOMAIN toPlaceholder
          /\ toPlaceholder[toOriginal[p]] = p

\* Placeholders of a kind are numbered 1, 2, ... with no gap and none beyond the
\* counter: what makes the next number fresh (placeholder_for).
NumberedWithoutGaps ==
    /\ \A p \in DOMAIN toOriginal : p[2] <= counters[p[1]]
    /\ \A k \in Kinds : \A n \in 1..counters[k] : <<k, n>> \in DOMAIN toOriginal

\* A step never takes an entry back and never points it at something else, so a
\* placeholder already written into an earlier field keeps its meaning.
KeepsEntries ==
    /\ \A v \in DOMAIN toPlaceholder :
          v \in DOMAIN toPlaceholder' /\ toPlaceholder'[v] = toPlaceholder[v]
    /\ \A p \in DOMAIN toOriginal :
          p \in DOMAIN toOriginal' /\ toOriginal'[p] = toOriginal[p]

EntriesNeverRebound == [][KeepsEntries]_vaultVars
=============================================================================
