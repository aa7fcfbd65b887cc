# A verification project for llm-proxy-pii-rust

The proxy stands between a client of a language model and the provider.  It
replaces personal data in every request by placeholders (`[PHONE_1]`), forwards
the request, and puts the originals back into the answer, buffered or streamed.
It promises to *fail closed*: a request that could not be masked is refused.

This directory holds TLA+ specifications of that program, TLC configurations
that check them on small instances, and proofs checked by TLAPS.  Paths such as
`pii/anonymizer.rs` are relative to `src/` of the crate.

## 1. Inventory

| component | state | operations | correct when |
|---|---|---|---|
| **Placeholder vault** (`pii/anonymizer.rs`, `Vault`) | two hash maps, a counter per kind; one vault per request | `placeholder_for`, `demask` | the maps are inverse bijections; an entry never changes |
| **Masking fixpoint** (`Vault::mask_all`) | working copy of a field, pass number | detect, keep, mask, until nothing is found; at most `MAX_MASK_PASSES` | a field is left either clean or with an error |
| **Validation budget** (`pii/mod.rs`, `Budget`) | allowance left, fraction of a unit, attribution per kind; one per request | `spend`, `spend_fraction`, `is_exhausted` | charges are exact; work is bounded; every unit is attributed |
| **Structured recognizers** (`pii/recognizers.rs`) | none between calls; a memo within one | `try_detect`: patterns, validators, the IBAN case gate | a scan that ran out of allowance is an error, never an answer |
| **Composite, FailOpen** (`pii/composite.rs`) | none | structured first, then the ML detector; later passes structured only | FailOpen swallows what an optional ML detector fails with |
| **Overlap resolution** (`pii/overlap.rs`) | none | merge overlapping structured spans, drop overlapped names | no byte of a structured value is abandoned |
| **Detection cache** (`pii/cache.rs`) | two generations behind a mutex, shared by all requests | look up, scan without the lock, insert | bounded; a hit never masks less than a fresh scan |
| **ML detectors** (`pii/onnx.rs`, `pii/gliner.rs` and their decoders) | a pool of sessions behind mutexes, a round-robin counter | build the pool, plan windows, run, decode spans | windows cover the text and end; what the model says is kept; the pool is whole; one panic does not disable it |
| **Privacy stage** (`pipeline/privacy.rs`) | vault and allowance of the request, first error | `on_request` masks field after field, `on_response` restores | nothing recognizable is forwarded; the round trip is exact |
| **Schema walk** (`pipeline/privacy.rs`) | none; it numbers in the order it reads | walk a body of either wire schema, restore an answer, add the prompt | every text is masked wherever it stands; thoughts come back as they were; numbers outlive the turn |
| **Request handlers** (`server.rs`) | one task per request; masking on the blocking pool | mask, gate, authenticate, forward, finish buffered or streamed | no path forwards what was not masked |
| **Streaming de-masker** (`stream.rs`) and **body stream** (`server.rs`) | line buffer, held-back text per choice or block, held `event:` line | `push`, `flush`; poll, end, error | the client sees the de-masked text, in order, in intact frames |
| **Startup** (`main.rs`, `config.rs`, `pii/hf.rs`) | configuration | read, load models, listen | a process that serves has what it was required to have |
| **Upstream client** (`proxy.rs`), **logging** (`logging.rs`), **evaluation** (`pii/bench.rs`) | none that outlives a call | | |

**Interaction.**  A handler moves the request to a thread of the blocking pool,
where the stage walks its fields.  Each string goes through `mask_all`, which
calls the detectors through the cache (pass 0) or around it (later passes) under
the request's allowance, and writes into the request's vault.  The verdict is
returned to the handler, which answers 400 or 500, or forwards.  The vault
then travels to the body stream, which owns a `SseDemasker`.  Requests share the
cache and the session pool, and nothing else.

**What is hard here.**  Masking one value exposes the next, and the number of
passes is bounded; one allowance runs over all fields, passes and recognizers and may
end anywhere; an optional detector may fail and must be forgiven while a required one
must not; the walk goes on after an error; two requests interleave in the
cache while the lock is released; the answer arrives in pieces cut at any byte, for
several texts at once, and may break off; and what the provider sends back need
not be what it was sent.  A client sends its whole conversation anew in every request, and
numbering starts anew with it; a client may leave while its masking cannot be stopped; and
a model may load or not, run, fail, panic, or see a name only in two halves.  `PROJECT.json` lists these hazards at their lines.

## 2. The modules

| module | what it is | extends, uses | checked by | proofs |
|---|---|---|---|---|
| `Vault`, `Budget` | the two stores of a request | | `stage`, `scan` | `PrivacyStageProofs`, `BudgetProofs` |
| `MaskedText` | the text of a request, abstracted | | `stage` | |
| `FieldwiseMasking` | abstract: what masking promises | `MaskedText` | `stage` | |
| `PrivacyStage` | one request through the stage | `MaskedText`, `Vault`, `Budget`; implements `FieldwiseMasking` | `stage`, `stage_echo` | `PrivacyStageProofs` |
| `BodyWalk`, `Conversation` | what the walkers visit in a body; a client and a provider talking through the stage | `Conversation` extends `BodyWalk` | `walk`, `walk_schema` | `ConversationProofs` |
| `WireText` | what the two wire schemas allow in a conversation | `Conversation` | `walk` | |
| `Checksums`, `Recognizers` | check digits; the patterns, validators and regions that ship | | `scan` | |
| `CandidateScan` | `try_detect` over the fields of a request | `Recognizers`, `Budget`; implements `BudgetSpec` | `scan` | `ScanProofs` |
| `Overlap` | `resolve_overlaps` | | `overlap` | `DetectionProofs` |
| `TextWindows`, `NerDetector` | windows and decoders; a model-backed detector, its pool and its calls | | `ner` | `NerProofs` |
| `DetectionCache` | concurrent callers of the cache | | `cache_required`, `cache_fail_open` | `DetectionProofs` |
| `Startup`, `Proxy` | the process up to its listener; the requests it serves | `Proxy` extends `Startup` | `proxy` | `ProxyProofs` |
| `SseDemasker` | the streamed answer | | `sse`, `sse_failure` | `SseProofs` |

The `MC*` modules give the constants their values.  The layers meet in their abstractions:
`PrivacyStage` takes from `CandidateScan` that a scan charges as `Budget` says and ends in an answer
or an error, from `Overlap` that structured spans win over names, from `DetectionCache` what a lookup
may return; `Conversation` takes from `PrivacyStage` that a string that is visited is masked; `Proxy`
takes from all of them a masking task that ends masked, blocked or panicked, and from `NerDetector`
detectors that answer or fail.

## 3. How the modules correspond to the code

**`Vault`** is `Vault` of `anonymizer.rs`: `toOriginal`, `toPlaceholder`, `counters`
are its three hash maps.  `PlaceholderFor(v, k)` is `placeholder_for`: look up by value,
else bump the counter, mint, insert twice.  A placeholder is the pair of kind and
number; its spelling is modelled in `SseDemasker`.

**`Budget`** is `Budget` of `mod.rs`, with the two validators that charge it:
`NationalPhone(n)` (one unit per numbering plan tried) and `IbanCaseGate` (one
unit for every `IBAN_GATE_CALLS_PER_UNIT` = 2 calls).  Only one denominator occurs
in the code, so the fraction is a number of calls.  `parses` and `gates` are
history: the work the code really does, against which the charge is compared.

**`MaskedText`** abstracts a text to its *occurrences*: structured values, names, text
spelled like a placeholder, and junk a validator rejects.  An occurrence may be covered by
another one: it becomes recognizable only when its cover has been replaced.  That
is what makes several passes necessary.  A name overlapped by a structured value loses (the result of
`resolve_overlaps`).

**`PrivacyStage`** is one request in `PrivacyStage::on_request`.  `body`, `fld` are the walk;
`pass`, `current`, `found`, `todo` are the locals of `mask_all`; `detectError`,
`shapeError` the two error slots.  The actions follow the calls:

| action | code |
|---|---|
| `StartField`, `RefuseShape`, `WalkEnds` | the walk over the body: a string, a shape it cannot interpret (the walk stops), its end |
| `CacheHit`, `StartScan` | `try_detect` through the cache on pass 0; else a scan |
| `Validate(i)` | one candidate at its validator, allowance checked before |
| `ScanExhausted`, `ScanEnds` | the check behind the scan: its findings are dropped with an error, or it goes on to the ML detector on pass 0 |
| `NerAnswers`, `NerFailsClosed`, `NerFailsOpen` | the ML detector, required or behind `FailOpen` |
| `FieldClean`, `StartMask`, `NoFixpoint` | the three ways out of `keep_maskable` |
| `Replace(i)`, `NextPass` | `mask`, left to right |
| `Block`, `Forward`, `TaskPanics` | `run_privacy_stages` |

Several ML detectors behind one another are one here; `Proxy` has both.  The cache contributes what
it may return, per `DetectionCache`.  The ML detector's
answer is deterministic except that it may tag placeholder-shaped text.

**`FieldwiseMasking`** has none of this machinery: fields are replaced, in one step each, by a
text in which nothing is recognizable, or fail; only if none failed is the request
forwarded; aliases are injective and never change.  `PrivacyStage!Promise` is the
refinement mapping (`alias` is `toPlaceholder`, `walked` is `fld - 1`, `failed` is
either error).

**`BodyWalk`** takes a JSON body as a function from paths to nodes.  A walker is an operator that
gives the paths it rewrites and whether it accepts the shape; there is one for each function of
`privacy.rs`, `mask_request` and `mask_anthropic_request` down to the blocks, documents, tool calls
and schemas, and one for each of the restoring side.  A string is prose, a real value or a mark
(a placeholder).  `Numbered` numbers values by first occurrence in the order the walk reads, which is what
`placeholder_for` does; kinds, and with them separate counters, are left out.  `InjectAugmentation` and `AppendPrompt`
are the prompt's ways into the body.
**`Conversation`** is the client, the provider and the stage around them: `Ask`, `OnRequest`, `Answer`, `OnResponse`,
with a new vault for every request.  `said` and `meant` are history: what the provider wrote, and under which vault.
**`WireText`** has no code behind it: it says what a client and a provider may send if they keep to the wire schemas (bodies are trees without gaps,
and text stands in the places each kind of message and block has for it), independently of what the walkers read, so that "nothing is
passed over" is a statement about the walkers.  A block of a type nobody knows may hold text anywhere: the walkers must refuse it.

**`Checksums`** has the validators of `recognizers.rs` as functions of digit sequences (Luhn, mod 97, the Italian,
Spanish, French, Dutch, Portuguese, German, Latvian, British and Chinese rules).  **`Recognizers`** has a text as a sequence of
codes (digits, letters in two cases, three classes of separators), a pattern as a sequence of
segments, and the table that ships: kind, shapes, validator, where to resume, whether to cut back;
and the regions: `PII_LOCALES` selects some, and with them the numbering plans a domestic number is tried against.
The regular expression engine and the library of numbering plans are external: `MatchesFrom` is what a pattern
matches, `Assigned` which numbers exist.  **`CandidateScan`** is `try_detect` with these: per recognizer the
candidates from left to right (`Ask`, `TakeUnchecked`), the memo, `Judge`, `CutBack` through the prefixes,
`Resume`, `Coalesced` runs, `NextRecognizer`, and `EndOfField` with the verdict on an exhausted allowance.

**`DetectionCache`** has callers with a program counter: `lookup` under the mutex
(`Hit`, `Promote`, `Miss`), `scan` without it (`ScanReturns`, `ScanFails`), `store` under it again.
`Insert` is the rotation of `Generational::insert`.  The ML detector comes and goes
(`NerFlips`), which is what makes the order of scans and inserts visible.  `idle` is history:
rotations since a key was last used.

**`Overlap`** is the algorithm behind the abstraction `Named` of `MaskedText`: `OpenGroup`, `JoinGroup`
are the sweep of `merge_structured`, `Materialize` makes a union of a group (`Names` is
`name_of`, with its exception for e-mail addresses), `DropName`, `KeepName` the greedy choice of the second phase.
Where the sorts leave a tie to the order of the input, the model leaves it open.

**`TextWindows`** has the planners (`chunk_char_ranges`, with the special tokens' offset (0, 0), and
`plan_word_windows`) and the decoders (`decode_entities`, `decode_spans`) as functions.  **`NerDetector`** has a pool
that is built session by session (`BuildFirst`, `BuildLater`, `RebuildOnCpu`, `PoolReady`, `PoolFails`) and calls that run over it: `Begin`,
`PlanTokens` or `PlanWords`, `Tokenize` with its length check, `Lock` with the ticket, `RunReads`,
`RunFails`, `RunPanics`.  What a session, the tokenizer or the model does is nondeterministic.

**`Startup`** is `main` up to the listener: `ParseArgs`, `ReadConfig`, `BuildStructured`, `LoadNer`, `LoadGliner`,
`EnsureLoaded`, `Bind`, or `Benchmark`.  An environment is a record of what the code tells apart in its variables.
**`Proxy`** is what the process then does for any number of requests: `Arrive` (route, body), `TaskStarts` and
`TaskEnds` on a blocking pool of `Workers` threads, `RefuseUnmasked`, `Unauthorized`, `Send` with credential and headers,
`UpstreamReplies`, `FinishBuffered`, `BadGateway`, `BufferedFallback`, `OpenStream`, `StreamEnds`, `StreamFails`,
and `Leave` at any moment, which drops the handler's future and leaves the masking task.

**`SseDemasker`** has the provider, the demasker, the body stream and the client.  Texts are
sequences of symbols, enough to spell a placeholder in its tolerant forms,
brackets that are none, and padding.  The provider sends lines in any legal order;
a line arrives in two steps (its bytes, then its newline), so a stream can end inside
it.  `HandleLine`, `Rewrite`, `Split`, `FlushKeys`, `FlushEvent`, `Flush` are the
functions of `stream.rs`; `StreamCloses` is the end of `demasking_sse_body`; the client
(external) collects lines into frames and acts on a frame's blank line.
The number of the placeholder is one digit and its label one letter; what is
not a placeholder in the vault is the same as any text.

## 4. What the runs check

| run | instance | states | checks |
|---|---|---|---|
| `stage` | requests of up to 3 fields over 10 occurrences, required and optional ML detector, cache, echoed placeholders | 88813 | forwarded bodies are clean, exact round trip of plain requests, refusals for cause only, work bounded, refinement of `FieldwiseMasking`, every request answered |
| `scan` | 16 published numbers, alone, between others, with each digit changed; texts in which one value hides another; allowances 2, 3, 5 and 40; two fields | 27757 | charge is exact and made in every loop, nothing hidden behind a match, known numbers told from mistyped ones |
| `walk` | two values in every place a body has for text, both schemas, three messages | 33427 | nothing real leaves, answers restored, thoughts unchanged, numbers outlive the turn, prompt told once |
| `overlap` | pairs on 5 positions, triples on 4 (5 kinds), quadruples of phones and e-mail addresses | 49100 | no structured byte abandoned, kept spans disjoint, honest names, names yield only to better |
| `ner` | both families, 2 calls, 4 fields of up to 6 tokens, windows of 4, words over the budget, a counter that wraps at 4 | 293402 | pool whole, threads fit, short runs seen whole, nothing said is lost, panics contained, every call answers |
| `cache_required` | 2 callers, 5 fields (one not cacheable), 2 entries per generation | 64224 | generations bounded, eviction exactly after two idle rotations, hits sound, calls return |
| `proxy` | all command lines of up to 2 arguments, 35 environments, 2 clients with 5 asks, 3 replies, one blocking thread | 360599 | serves as configured, only what was examined is sent, honest answers, restored on every path, credentials apart, never sits on a request |
| `sse` | 2 blocks or choices, 7 × 3 pairs of texts, deltas of up to 3 symbols, with and without end marks | 72195 | shown text is the de-masked one, stops come last, frames intact, little is held back, the answer completes |

Four runs end in a counterexample to what a comment says; each is a *finding* in
`PROJECT.json`:

- `stage_echo`: a placeholder-shaped text the client itself sent is restored to
  somebody's value, so "the round-trip stays exact" does not hold for it.
- `cache_fail_open`: the cache lies above the detectors that fail open; a list computed while
  an *optional* ML detector was failing is cached and served after it has recovered,
  although "a cache hit must never mask less than a fresh scan".  With a *required* detector the
  statement holds: the run `cache_required` checks it, `CacheHitsAreSound` proves it.
- `sse_failure`: when the upstream fails between a data line and its blank line, the
  error event is written into the open frame, and the client cannot read it.
- `walk_schema`: of a schema's property that is itself called `description` the walk takes the schema for
  the text; the description inside it is forwarded, although "every `description` string" is to be masked.

**Bounds.**  `MaxMaskPasses` = 4 is the code's; the deepest nest has five values, so the
last pass both suffices (nest of four) and fails (five).  In `stage` allowances 4, 9 and 40 run out
in the first field, in a later field or pass, and never; `CallsPerUnit` = 2 is the code's.  In `scan` 2, 3 and 5 run out
at a candidate, while one is cut back, and in the second field; `MaxRegions` = 3 is what the locales of the instance
put behind one shape.  Two generations of two entries with four cacheable keys are the least with rotations caused by
inserts and by promotions of keys others still use.  Three spans nest, chain and touch; four
are needed for a nested one in the middle of a chain.  Two texts show mixing; three
symbols per delta cut a five-symbol placeholder into two to five pieces; `MaxHold` = 4 stands for the
32 of the code and is exceeded by `OverLong`.  A question, an answer and a second question are the least in which an answer
is replayed; two values are the least whose numbers can be exchanged.  Windows of 4 with an overlap of 2 give fields of one,
two and three windows; `MaxTokens` = 6 is reached without drift and exceeded with it.  Two clients and one thread are the least in which one
masking stands behind another's; the environments vary one setting after another around two base cases, and the
proofs cover their product.  Deadlock checking is off where the program stops: an answered request, a
used-up set of fields, a closed stream, a process that has exited.

**Fairness.**  `PrivacyStage!FairSpec`: weak fairness of the stage's own steps, a synchronous
loop on its own thread; not of `TaskPanics`.  `DetectionCache!FairSpec`: weak fairness per
caller; the mutex is held for map operations only, and a scan either returns or fails.
`SseDemasker!FairSpec`: weak fairness of the one step that ends the body once the upstream has ended or failed: hyper polls the body to its end for as long as
the client is there; a provider may be silent for ever.  `NerDetector!FairSpec`: startup goes on until the pool is there or
has failed, and each call's steps are those of a thread of its own; a run ends, in one of its ways.
`Proxy!FairSpec`: the process owes its own steps: startup, the scheduling and the end of masking tasks, a handler whose future is ready.
Clients owe nothing, and neither does the provider: there is no timeout on the call, so a request may wait for its reply for ever, and
`NeverSitsOnARequest` promises only what the proxy owes.

**Mutants.**  Every property of a passing run has a mutated definition, kept next to the
original and marked as such in its comment, under which TLC finds that property violated.

## 5. What is proved

All proofs are about every value of the constants, under the named assumptions in the
modules that declare them (`BudgetAssumption`, `TextAssumption`, `StageAssumption`, `CacheAssumption`,
`OverlapAssumption`, `StartAssumption`, `ProxyAssumption`, `DetectorAssumption`, `WindowAssumption`, `PlansAssumption`,
`DocumentsAssumption`, `SseAssumption`, `ReadingsAssumption`, `KeysAssumption`), which give types, and bounds the code has as constants;
and under `WireAssumption`, which is about the client and the provider (below).  The run `walk` evaluates it for its instance.

**`BudgetProofs`** - `BudgetIsExact`, `BudgetBoundsWork`.  Strengthening: what
has been spent is the work done, cut at the allowance, and the allowance was
not used up before the last candidate.  Lemmas on quotient and remainder carry the fraction.

**`PrivacyStageProofs`** begins with the vault.  `VaultIsExact`: types, inverse maps, gap-free numbering.  The
invariant is inductive only as a whole: a new placeholder is fresh *because* numbering has no
gap beyond the counter.  `VaultNeverRebinds` follows from it.
Then the stage.  `StageInv` is the conjunction of `StepInv` (types, what the program counter
implies), `SharedInv` (the vault's and the allowance's invariants), `AliasInv` (whatever is replaced carries the vault's
placeholder for its value, in `body` and in the working copy), `CleanInv` (every field behind the walk is clean
unless an error is recorded; what a pass still has to mask is in `todo` or `found`) and `CauseInv`.
`CleanInv` is needed because cleanness is a fact about the *last* scan of a field, established
long before the request is forwarded.  `CauseInv` says why an error is recorded, and that what a pass finds lies under as many covers as there were passes
before it, so that only a nest deeper than the passes reach can leave them without a fixpoint.  From the invariant: `StageTypeCorrect`, `StageForwardsClean`,
`StageReplacesConsistently`, `StageBoundsWork`, `StageNeverRebinds`, `StageBlocksForCause`, `StageRoundTrips` (of a request
without placeholder-shaped text, the condition the run `stage_echo` shows
to be necessary), and `StageKeepsPromise`: `PrivacyStage` implements `FieldwiseMasking`.

**`ScanProofs`** - `ScanChargesTheAllowance`: every step of the scan is a step of `Budget` or leaves it alone, so `ScanIsCharged` follows from
`BudgetIsExact`.  The one thing to show is that the plans a candidate is tried against are between one and `MaxRegions`: the
least valid plan ends the trial, and a set of positive numbers has a least one.
`ScanHidesNothing` is about the code's loop against what a recognizer *accepts* at each place on its own.  The table that ships is walked once (`ShippedFits`):
every recognizer is well shaped, and one that cuts back has only shapes that hold words and separators and end behind a word.
By induction on its segments, a match of such a shape is one also in the text that is cut at the match's end, and conversely
(`EndsClosed`, `EndsLocal`), and nothing that is accepted ends behind the separator a match is cut at (`CutsAtSeparator`), so that cutting group by group misses no end that verifies.
The invariant `ScanInv` then has what the recognizers before the present one covered, what the present one covered up to
where it will go on, and, while a match is cut back, that whatever is accepted of it is no longer than what is left.

**`DetectionProofs`** (overlaps) - `NoByteAbandoned`, `KeptSpansAreDisjoint`, `UnionsHonestlyNamed`, `NamesYieldToBetter`.  The invariant says that
the groups of the sweep are gapless and lie in order, each before the one that is still
growing; that every structured candidate is still to be swept, in a group or inside a
kept span; and that kept spans are apart from the groups to come.  The last part is what makes
the kept spans disjoint, although each union is computed from its own group alone.

**`DetectionProofs`** (the cache) - `CacheIsBounded`, `CacheEvictsTheIdle`: with the generations disjoint, a key is in the young one
iff it was used since the last rotation, in the old one iff it was used in the
rotation before; sizes follow.  `CacheHitsAreSound`: with a required detector nothing but full answers is ever stored.

**`NerProofs`** - `NerSeesShortRunsWhole`: the runs that start before the next window are each inside one already planned;
`TokenPlanAdvances` and `WordPlanAdvances` show that the next window starts no later than the overlap allows, the closing token's
missing offset included.  `NerLosesNothing` rests on a lemma for each decoder: around a label there is a maximal run, which has one kind throughout (`TagsDecoded`);
candidates can be put in one order, since equal ones are one, and each is taken in it or passed over for a better one (`SpansDecoded`).  The invariant says that what a call
has found is what these give for the windows it has heard, shifted to their places.  `NerPoolIsWhole`, `NerContainsPanics` and `NerThreadsFit` come from what a session carries and from
arithmetic on the two counts of cores; the last is about the pool of one detector: with both engines loaded each pool takes the whole base.

**`SseProofs`** - the demasker works on pieces, its promise is about whole texts, so most of the proof is about two operators.
De-masking two parts of a text gives what de-masking the whole would, unless a placeholder reaches across the cut
(`DemaskJoins`); and where the demasker cuts, none does (`SplitIsSafe`), for it holds back from the last bracket that may still become one.
The other half is the wire: what a client makes of lines (`ReadNext`), and of the frames made up for what was held back (`FlushReads`).
`SseInv` (`SseInvHolds`) says where in a frame the provider, the demasker and the client are, that the three agree, and that what has been
told and what is held back make up all that was handled.
From it `SseFramesIntact` and `SseHeldBackBriefly`, of any texts, and `SseShowsDemasked` and `SseEndsAreFinal` of texts that satisfy `PlainScripts`:
every placeholder in them is at most `MaxHold` long and padded with spaces only.  The code needs both: a longer one is given up
after `MaxHold` symbols, and one padded with a tab is no prefix to the pattern of unfinished ones (§6).  The placeholders the proxy mints itself are such.
So are those of the run `sse`.

**`ProxyProofs`** - the invariant has a part about startup (what is known in each phase: a process past `LoadNer` has the engine or was
allowed to do without), which survives into serving because nothing loads afterwards, and a part about each request (what has been sent was masked by the engines
recorded with it; an answer has its cause in what was sent and what came back: `Deserved`).  From it: `ProxyServesAsConfigured`, `ProxySendsExamined`, `ProxyAnswersHonestly`,
`ProxyRestoresOnEveryPath`, `ProxyKeepsCredentialsApart`.  `ProxyAnswersHonestly` says of every answer which replies it may follow: the provider's
words and status follow a reply that could be used and a reported failure one that could not, so neither the buffered path nor a stream's fallback can turn
good JSON into a 502.  `ProxyKeepsCredentialsApart` gives the credential of every call: the client's bearer token, else on `/v1/messages` its `x-api-key`,
else the configured key, which travels as `x-api-key` on `/v1/messages` and as `Authorization` on the chat route.

**`ConversationProofs`** - all five properties of a conversation: `NothingRealLeavesAlways`, `ToldOnceAlways`, `AnswerIsRestoredAlways`,
`ThinkingComesBackAlways`, `NumbersOutliveTheTurnAlways`, for bodies of any shape and size, any keys and values and any number of messages.
The inductive invariant `ConvInv` says that the history is good (opening and messages keep to the schema, answers as they were *shown* included);
that what was sent is the history masked under the vault of the history, and augmented; and of every answer that it was written under the
vault of the messages before it and is kept as it was shown.  The properties are not inductive by themselves: each speaks of messages of
earlier turns, and an answer that was restored is a message of every later request.  What makes `ConvInv` inductive is `ShownIsGood`: the response walk
puts values only where the request walk will look for them.

The rest is about the two walks, in four parts.  *Nothing is passed over*: by cases on every shape the walkers tell apart, a request
that is accepted has every string in a place for text among the visited ones (`RequestCovered`); what they do not know they refuse.
*Nothing else is read* (`RequestReads`), so a signed thought and what a URL holds stay as they are.  *The prompt*: the three ways it is added (`AugmentedIs`)
leave a tree whose other strings are all there, a message put first having moved the others by one (`PrependIs`, `TextKept`).
*Numbers*: the strings of a body are read in a total order (`ReadTotal`), so every value has a first place, and its number counts the first places up to it
(`FirstStays`, `NumberStays`); a later body continues an earlier one, and what it adds is read behind all that stands ahead of the tools (`VisitContinues`).
No induction on trees is needed: `IsTree` gives every path its parent, and a least-counterexample argument gives it all its ancestors.

`WireAssumption` leaves to the schemas what the properties exempt or the findings show: values in a `url` or an `enum` are forwarded, and
a description inside a description is not masked (run `walk_schema`), so no opening holds a value there.  A provider writes placeholders in its answer's text, in
tool arguments and in its thoughts.  And `MaxMessages` is less than the number of names for array places, a bound of the model: an array has a next place.

**How the recursive operators are handled.**  The induction theorems of the library take an operator as a parameter, which the provers
cannot instantiate.  `SseProofs`, `ScanProofs` and `NerProofs` therefore argue with a least counterexample (a set of numbers has a least one) and with
the uniqueness of what a recursion defines (`Iterates`, `IteratesUpTo`); every recursive definition of the modules under proof is a function.

**Only model-checked:** the liveness properties (out of the prover's reach); `KnownNumbersAreTold`, which is about given
numbers.

## 6. Seen in the code, without a run

These came up while modelling and are in the models as the code has them.

- A stream to a client with nothing masked, or with `PII_DEBUG_SKIP_DEMASK`, is passed on raw, so an upstream that fails in mid-stream breaks it off
  instead of ending it in an `event: error` (`StreamFails`; `docs/ARCHITECTURE.md` line 1208 knows only the second).
- A stream that was asked for and is answered by neither events nor JSON is answered with the upstream's own status, even a 200 (`BufferedFallback`).
- A token classifier that is configured in part counts as not configured, also with `NER_REQUIRED` if GLiNER loads; GLiNER in part is an error.
- An `Authorization` header that is no visible ASCII counts as absent, and the configured key takes its place.
- There is no timeout on the call upstream, and nothing is persisted, so there is no recovery to model.
- An entity whose labels run on into the closing special token is dropped with a warning (its end offset is (0, 0)); the properties of `NerDetector` exempt it.
- Values that first occur in the tools' descriptions are numbered last and may get another number in a later turn, so a thought that is replayed may come to mean
  another value; `NumbersOutliveTheTurn` holds for what is read ahead of the tools.
- A JSON-encoded `arguments` string is masked in its escaped form, so a value that needs escapes is minted with them and is escaped once more when its mark comes back in an `arguments` string.
- A placeholder padded with a tab and split behind it is not restored: the pattern of whole placeholders accepts any white space there, that of unfinished ones only spaces (`stream.rs` line 28, `anonymizer.rs` line 28).

## 7. Not modelled

- The patterns of e-mail addresses and of North American phone numbers, which are longer than their tables; the many code points the code takes for separators, folded into three classes.
- JSON escaping of restored values, SSE and JSON syntax below the line, URLs, the operator's extra headers and the headers of a provider's answer that go back: they pass through.
- The texts of refusals and of log lines (`logging.rs`), though not who they blame: attribution is in `Budget`.
- That `FailOpen` passes an exhausted allowance on (`composite.rs`, `fail_open`): it wraps ML detectors only, and only the structured recognizers spend the allowance.
- The evaluation harness (`pii/bench.rs`), which runs outside of the proxy.
- Tokenization, inference, the regular expression engine, numbering plans, the HTTP client and server: external, with any outcome their types allow.
