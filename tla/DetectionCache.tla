--------------------------- MODULE DetectionCache ---------------------------
(***************************************************************************)
(* The detection cache shared by all requests (src/pii/cache.rs): a        *)
(* two-generation map under a mutex that is held for the lookup and for    *)
(* the insert, but not for the scan between them, and callers that look    *)
(* up, scan on a miss, and insert.                                         *)
(*                                                                         *)
(* A key is a field's exact bytes.  What is stored is the list of its      *)
(* detections, here "full" (all a fresh scan with a working ML detector    *)
(* finds) or "degraded" (the structured ones alone).                       *)
(***************************************************************************)
EXTENDS Naturals, FiniteSets

CONSTANTS
    Callers,        \* requests being masked at the same time
    Keys,           \* the fields they scan
    Uncacheable,    \* those too short or too long to be cached
    Cap,            \* PII_CACHE_ENTRIES, clamped to 1 at least
    NerRequired     \* FALSE: an ML detector wrapped in FailOpen

ASSUME CacheAssumption ==
    /\ Cap \in Nat \ {0}
    /\ NerRequired \in BOOLEAN
    /\ Uncacheable \subseteq Keys

Results == {"full", "degraded"}

VARIABLES
    current,    \* the young generation: key -> detections
    previous,   \* the old generation
    pc,         \* where each caller is in try_detect
    key,        \* the field it was called for
    got,        \* the answer it has: a result or "error"
    nerUp,      \* the ML detector works
    idle        \* history: rotations since a key was last used, at most 2

cacheVars == <<current, previous, pc, key, got, nerUp, idle>>

EmptyCache == [k \in {} |-> "full"]

-----------------------------------------------------------------------------
\* The cache may be asked for a key never seen: as one long evicted.
Init ==
    /\ current = EmptyCache
    /\ previous = EmptyCache
    /\ pc = [c \in Callers |-> "idle"]
    /\ key \in [Callers -> Keys]
    /\ got = [c \in Callers |-> "none"]
    /\ nerUp = TRUE
    /\ idle = [k \in Keys |-> 2]

\* A generation with one more entry.
Add(generation, k, v) ==
    [j \in DOMAIN generation \cup {k} |-> IF j = k THEN v ELSE generation[j]]

Older(n) == IF n < 2 THEN n + 1 ELSE 2

\* Mutant: the generation is let grow one entry too far.
InsertLate(k, v, cold) ==
    IF Cardinality(DOMAIN current) > Cap
    THEN /\ previous' = current
         /\ current' = Add(EmptyCache, k, v)
         /\ idle' = [j \in Keys |-> IF j = k THEN 0 ELSE Older(idle[j])]
    ELSE /\ previous' = cold
         /\ current' = Add(current, k, v)
         /\ idle' = [idle EXCEPT ![k] = 0]

\* Generational::insert, on the old generation as the caller left it: a full
\* young generation first becomes the old one, and the old one is dropped.
Insert(k, v, cold) ==
    IF Cardinality(DOMAIN current) >= Cap
    THEN /\ previous' = current
         /\ current' = Add(EmptyCache, k, v)
         /\ idle' = [j \in Keys |-> IF j = k THEN 0 ELSE Older(idle[j])]
    ELSE /\ previous' = cold
         /\ current' = Add(current, k, v)
         /\ idle' = [idle EXCEPT ![k] = 0]

Without(generation, k) == [j \in DOMAIN generation \ {k} |-> generation[j]]

-----------------------------------------------------------------------------
\* A masking task asks for the detections of field k.
Call(c, k) ==
    /\ pc[c] = "idle"
    /\ pc' = [pc EXCEPT ![c] = IF k \in Uncacheable THEN "scan" ELSE "lookup"]
    /\ key' = [key EXCEPT ![c] = k]
    /\ got' = [got EXCEPT ![c] = "none"]
    /\ UNCHANGED <<current, previous, nerUp, idle>>

Return(c, v) ==
    /\ pc' = [pc EXCEPT ![c] = "idle"]
    /\ got' = [got EXCEPT ![c] = v]

\* A hit in the young generation: a copy is returned.
Hit(c) ==
    /\ pc[c] = "lookup" /\ key[c] \in DOMAIN current
    /\ Return(c, current[key[c]])
    /\ idle' = [idle EXCEPT ![key[c]] = 0]
    /\ UNCHANGED <<current, previous, key, nerUp>>

\* Mutant: a hit in the old generation is served where it lies.
PromoteInPlace(c) ==
    /\ pc[c] = "lookup" /\ key[c] \in DOMAIN previous \ DOMAIN current
    /\ Return(c, previous[key[c]])
    /\ idle' = [idle EXCEPT ![key[c]] = 0]
    /\ UNCHANGED <<current, previous, key, nerUp>>

\* A hit in the old one: the entry is taken out, and inserted again.
Promote(c) ==
    /\ pc[c] = "lookup" /\ key[c] \in DOMAIN previous \ DOMAIN current
    /\ Return(c, previous[key[c]])
    /\ Insert(key[c], previous[key[c]], Without(previous, key[c]))
    /\ UNCHANGED <<key, nerUp>>

Miss(c) ==
    /\ pc[c] = "lookup" /\ key[c] \notin DOMAIN current \cup DOMAIN previous
    /\ pc' = [pc EXCEPT ![c] = "scan"]
    /\ UNCHANGED <<current, previous, key, got, nerUp, idle>>

\* Mutant: FailOpen wraps the required detector as well.
FreshScanSwallowing == IF nerUp THEN "full" ELSE "degraded"

\* What the composite detector returns for a field right now.
FreshScan == IF nerUp THEN "full" ELSE IF NerRequired THEN "error" ELSE "degraded"

\* Other callers run during the scan: the mutex is not held.
ScanReturns(c) ==
    /\ pc[c] = "scan" /\ FreshScan # "error"
    /\ got' = [got EXCEPT ![c] = FreshScan]
    /\ pc' = [pc EXCEPT ![c] = IF key[c] \in Uncacheable THEN "idle" ELSE "store"]
    /\ UNCHANGED <<current, previous, key, nerUp, idle>>

\* A detector failure, or the request's own allowance used up: nothing is
\* inserted.
ScanFails(c) ==
    /\ pc[c] = "scan"
    /\ Return(c, "error")
    /\ UNCHANGED <<current, previous, key, nerUp, idle>>

\* Mutant: a caller waits while somebody else's entry is there.
StoreOnce(c) ==
    /\ pc[c] = "store" /\ key[c] \notin DOMAIN current
    /\ Insert(key[c], got[c], previous)
    /\ Return(c, got[c])
    /\ UNCHANGED <<key, nerUp>>

\* The insert overwrites what another caller has stored in the meantime.
Store(c) ==
    /\ pc[c] = "store"
    /\ Insert(key[c], got[c], previous)
    /\ Return(c, got[c])
    /\ UNCHANGED <<key, nerUp>>

\* The ML detector starts failing, or works again.
NerFlips ==
    /\ nerUp' = ~nerUp
    /\ UNCHANGED <<current, previous, pc, key, got, idle>>

Work(c) == Hit(c) \/ Promote(c) \/ Miss(c) \/ ScanReturns(c) \/ ScanFails(c) \/ Store(c)

Next == NerFlips \/ \E c \in Callers : Work(c) \/ \E k \in Keys : Call(c, k)

Spec == Init /\ [][Next]_cacheVars

\* A call runs on its own thread of the blocking pool; what it waits for is a
\* mutex held for a map operation, and a scan that ends.
FairSpec == Spec /\ \A c \in Callers : WF_cacheVars(Work(c))

-----------------------------------------------------------------------------
\* Type invariant.
TypeOK ==
    /\ DOMAIN current \subseteq Keys \ Uncacheable
    /\ current \in [DOMAIN current -> Results]
    /\ DOMAIN previous \subseteq Keys \ Uncacheable
    /\ previous \in [DOMAIN previous -> Results]
    /\ pc \in [Callers -> {"idle", "lookup", "scan", "store"}]
    /\ key \in [Callers -> Keys]
    /\ got \in [Callers -> Results \cup {"none", "error"}]
    /\ nerUp \in BOOLEAN
    /\ idle \in [Keys -> 0..2]

\* "bounded to 2 * cap live entries", however lookups that promote and inserts
\* of callers that missed together interleave.
GenerationsBounded ==
    /\ Cardinality(DOMAIN current) <= Cap
    /\ Cardinality(DOMAIN previous) <= Cap

\* A key is evicted only when two rotations have gone by since it was last used,
\* so a field sent on every turn stays ("Two rotations without a hit fully evict
\* a key"); and it is evicted then, so nothing stays for ever.
EvictedExactlyWhenIdle ==
    \A k \in Keys : k \in DOMAIN current \cup DOMAIN previous <=> idle[k] < 2

\* A hit never masks less than a fresh scan of the same field would at that
\* moment (the module's "Fail-closed soundness").
HitNeverMasksLess ==
    [][\A c \in Callers :
          pc[c] = "lookup" /\ pc'[c] = "idle" /\ FreshScan = "full" => got'[c] = "full"]_cacheVars

\* Every call returns: nobody waits for what another caller does.
EveryCallReturns == \A c \in Callers : pc[c] = "lookup" ~> pc[c] = "idle"
=============================================================================
