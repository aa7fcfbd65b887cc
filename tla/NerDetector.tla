----------------------------- MODULE NerDetector -----------------------------
(***************************************************************************)
(* A model-backed detector (onnx.rs, gliner.rs): its pool of inference     *)
(* sessions is built at startup, on an accelerator where one works, and    *)
(* is then shared by concurrent try_detect calls.  A call cuts its field   *)
(* into windows, and for each one re-tokenizes, checks the length at the   *)
(* one choke point, draws a ticket from the shared counter, waits for that *)
(* session's lock, runs it and decodes what it says.                       *)
(*                                                                         *)
(* External, and so nondeterministic: whether a session initializes, the   *)
(* tokenizer (it may fail, and a window re-tokenized on its own may cost   *)
(* more tokens than planned), the model (its reading of a window, a failed *)
(* run, an output of the wrong shape, a panic).                            *)
(***************************************************************************)
EXTENDS TextWindows

CONSTANTS Calls,       \* concurrent try_detect calls, each on its own field
          Fields,      \* the fields a call may be asked to scan
          Readings(_, _, _, _),
                       \* family, field, start, end |-> what the model may
                       \* say of that window
          Knobs,       \* the machine and the operator's pool settings
          Drifts,      \* extra tokens a window costs re-tokenized on its own
          MaxTokens,   \* MODEL_MAX_TOKENS
          MaxLen,      \* max_len of gliner_config.json
          Prompt,      \* tokens of gliner's label prompt
          MinText,     \* MIN_TEXT_TOKEN_BUDGET
          MaxText,     \* MAX_WINDOW_TEXT_TOKENS
          Wrap         \* the ticket counter wraps here (2^64 in the code)

ASSUME DetectorAssumption ==
    /\ \A f \in Fields :
         /\ f.n \in Nat
         /\ f.mass \in [0 .. f.n -> Nat]
         /\ \A i, j \in 0 .. f.n : i < j => f.mass[i] < f.mass[j]
    /\ \A k \in Knobs : k.pool \in Nat /\ k.intra \in Nat
                        /\ k.logical \in Nat /\ k.physical \in Nat
    /\ Drifts \subseteq Nat
    /\ MaxTokens \in Nat /\ MaxLen \in Nat /\ Prompt \in Nat
    /\ MinText \in Nat \ {0} /\ MaxText \in Nat \ {0}
    /\ Wrap \in Nat \ {0}

\* The model's candidates are finitely many records, and a kind's rank is its own.
ASSUME ReadingsAssumption ==
    \A f \in Fields : \A lo, hi \in 0 .. f.n : \A reading \in Readings("gliner", f, lo, hi) :
      /\ IsFiniteSet(reading)
      /\ \A s \in reading :
           /\ s.start \in Nat /\ s.end \in Nat /\ s.rank \in Int /\ s.score \in Int
           /\ s = [kind |-> s.kind, rank |-> s.rank, start |-> s.start,
                   end |-> s.end, score |-> s.score]
      /\ \A s, t \in reading : s.rank = t.rank => s.kind = t.kind

VARIABLES family,   \* the detector: "tagger" (OnnxNerDetector) or "gliner"
          knobs,    \* the settings in force
          boot,     \* the pool: "building", "rebuilding", "ready" or "failed"
          pool,     \* its sessions: the provider, lock holder, poison flag
          provider, \* the provider the pool reports
          next,     \* the ticket counter
          call      \* the calls

vars == <<family, knobs, boot, pool, provider, next, call>>

Free == "free"

----------------------------------------------------------------------------
(* Threads and the pool                                                    *)

\* Mutant: the silicon is counted, whatever the platform grants.
ThreadBaseOfSilicon(logical, physical) ==
    AtLeast(IF physical = 0 THEN logical ELSE physical, 1)

\* derive_thread_base; a physical count of 0 is a platform that won't say.
DeriveThreadBase(logical, physical) ==
    AtLeast(AtMost(logical, IF physical = 0 THEN logical ELSE physical), 1)

\* A platform that won't say what it grants is taken to grant one thread.
CoreCounts == [logical |-> AtLeast(knobs.logical, 1), physical |-> knobs.physical]
ThreadBase == DeriveThreadBase(CoreCounts.logical, CoreCounts.physical)

\* resolve_pool_and_intra: 0 is unset, for both knobs; the default pool is 1.
PoolSize == IF knobs.pool = 0 THEN 1 ELSE knobs.pool
IntraThreads ==
    IF knobs.intra # 0
      THEN knobs.intra
      ELSE AtLeast(ThreadBase \div PoolSize, 1)

\* Every provider but the CPU has to be registered, and may fail to be.
Accelerates(wanted) == wanted # "cpu"

\* A call of build_session_reporting: a wanted accelerator that initializes,
\* or the CPU, where the accelerator was absent or not wanted.
SessionOn(wanted, got) == (Accelerates(wanted) /\ got = wanted) \/ got = "cpu"
Session(got) == [on |-> got, holder |-> Free, poisoned |-> FALSE]

\* The first session decides what the pool runs on.
BuildFirst ==
    /\ boot = "building" /\ pool = <<>>
    /\ \E wanted \in {"cpu", "gpu"}, got \in {"cpu", "gpu"} :
         /\ SessionOn(wanted, got)
         /\ pool' = <<Session(got)>>
         /\ provider' = got
    /\ UNCHANGED <<family, knobs, boot, next, call>>

\* Mutant: the session that fell back joins the pool of the others.
BuildLaterMixed ==
    /\ boot = "building" /\ pool # <<>> /\ Len(pool) < PoolSize
    /\ \E got \in {"cpu", "gpu"} :
         /\ SessionOn(provider, got)
         /\ pool' = Append(pool, Session(got))
    /\ UNCHANGED <<family, knobs, boot, provider, next, call>>

\* A later session asks for what the first one got; one that gets less
\* throws the pool away for one on the CPU (build_cpu_pool).
BuildLater ==
    /\ boot = "building" /\ pool # <<>> /\ Len(pool) < PoolSize
    /\ \E got \in {"cpu", "gpu"} :
         /\ SessionOn(provider, got)
         /\ IF got = provider
              THEN pool' = Append(pool, Session(got)) /\ UNCHANGED <<boot, provider>>
              ELSE pool' = <<>> /\ boot' = "rebuilding" /\ provider' = "cpu"
    /\ UNCHANGED <<family, knobs, next, call>>

RebuildOnCpu ==
    /\ boot = "rebuilding" /\ Len(pool) < PoolSize
    /\ pool' = Append(pool, Session("cpu"))
    /\ UNCHANGED <<family, knobs, boot, provider, next, call>>

PoolReady ==
    /\ boot \in {"building", "rebuilding"} /\ Len(pool) = PoolSize
    /\ boot' = "ready"
    /\ UNCHANGED <<family, knobs, pool, provider, next, call>>

\* A session that cannot be built on the CPU either fails the whole load.
PoolFails ==
    /\ boot \in {"building", "rebuilding"} /\ Len(pool) < PoolSize
    /\ boot' = "failed" /\ pool' = <<>>
    /\ UNCHANGED <<family, knobs, provider, next, call>>

----------------------------------------------------------------------------
(* A call                                                                  *)

\* The tokens left for text in a gliner window: what the prompt and the two
\* special tokens leave, capped for recall.
Budget == AtMost(MaxLen - (Prompt + 2), MaxText)
PromptFits == MaxLen - (Prompt + 2) >= MinText

Answer(c, what) == call' = [call EXCEPT ![c].phase = "done", ![c].answer = what]

\* infer, up to its first window.  Nothing to scan is an empty answer; a
\* tagger's field under the window is run whole; a label set that leaves no
\* room for text is an error.
Begin(c) ==
    /\ boot = "ready" /\ call[c].phase = "called"
    /\ LET f == call[c].field
       IN  CASE family = "gliner" /\ f.n = 0 -> Answer(c, "entities")
             [] family = "gliner" /\ f.n > 0 /\ ~PromptFits -> Answer(c, "unavailable")
             [] family = "tagger" /\ Encoded(f.n) <= Window ->
                  call' = [call EXCEPT ![c].phase = "window",
                                       ![c].lo = 0, ![c].hi = f.n, ![c].last = TRUE]
             [] OTHER -> call' = [call EXCEPT ![c].phase = "plan"]
    /\ UNCHANGED <<family, knobs, boot, pool, provider, next>>

\* The next window of the plan, and where the one after it starts.  The code
\* computes the plan first and runs it then; the plan depends on no run.
PlanTokens(c) ==
    /\ family = "tagger" /\ call[c].phase = "plan"
    /\ LET n == call[c].field.n
           t == call[c].from
       IN  call' = [call EXCEPT ![c].phase = "window",
                                ![c].lo = CharStart(n, t), ![c].hi = CharEnd(n, t),
                                ![c].last = TokenEnd(n, t) = Encoded(n),
                                ![c].from = t + Stride]
    /\ UNCHANGED <<family, knobs, boot, pool, provider, next>>

PlanWords(c) ==
    /\ family = "gliner" /\ call[c].phase = "plan"
    /\ LET f == call[c].field
           s == call[c].from
       IN  \E e \in {x \in s + 1 .. f.n : IsWordEnd(f, Budget, s, x)} :
             call' = [call EXCEPT ![c].phase = "window",
                                  ![c].lo = s, ![c].hi = e, ![c].last = e = f.n,
                                  ![c].from = WordNext(s, e)]
    /\ UNCHANGED <<family, knobs, boot, pool, provider, next>>

\* The length of the sequence a window becomes: the tagger re-tokenizes the
\* text between two special tokens, gliner the words behind its prompt.
Sequence(c, drift) ==
    IF family = "tagger"
      THEN Encoded(call[c].hi - call[c].lo) + drift
      ELSE Prompt + 2 + drift + call[c].field.mass[call[c].hi] - call[c].field.mass[call[c].lo]

SequenceLimit == IF family = "tagger" THEN MaxTokens ELSE MaxLen

\* The choke point: over the limit, the whole field is an error (counts
\* only); else the call draws the ticket that names its session.
Tokenize(c) ==
    /\ call[c].phase = "window"
    /\ \E drift \in Drifts :
         IF Sequence(c, drift) > SequenceLimit
           THEN Answer(c, "unavailable") /\ UNCHANGED next
           ELSE /\ call' = [call EXCEPT ![c].phase = "waiting",
                                        ![c].slot = (next % Len(pool)) + 1]
                /\ next' = (next + 1) % Wrap
    /\ UNCHANGED <<family, knobs, boot, pool, provider>>

TokenizerFails(c) ==
    /\ call[c].phase \in {"called", "window"} /\ boot = "ready"
    /\ Answer(c, "unavailable")
    /\ UNCHANGED <<family, knobs, boot, pool, provider, next>>

\* Mutant: the lock is unwrapped.
LockUnwrapped(c) ==
    /\ call[c].phase = "waiting"
    /\ pool[call[c].slot].holder = Free
    /\ IF pool[call[c].slot].poisoned
         THEN Answer(c, "panicked") /\ UNCHANGED pool
         ELSE /\ pool' = [pool EXCEPT ![call[c].slot].holder = c]
              /\ call' = [call EXCEPT ![c].phase = "running"]
    /\ UNCHANGED <<family, knobs, boot, provider, next>>

\* Only one call holds a session; a lock poisoned by a panic is recovered.
Lock(c) ==
    /\ call[c].phase = "waiting"
    /\ pool[call[c].slot].holder = Free
    /\ pool' = [pool EXCEPT ![call[c].slot].holder = c]
    /\ call' = [call EXCEPT ![c].phase = "running"]
    /\ UNCHANGED <<family, knobs, boot, provider, next>>

Release(c) == pool' = [pool EXCEPT ![call[c].slot].holder = Free]

Decode(len, reading) ==
    IF family = "tagger" THEN DecodeTags(len, reading) ELSE DecodeSpans(len, reading)

\* The session answers: the window's entities join the call's, and the last
\* window ends the call.  An output without classes reads as nothing said.
RunReads(c) ==
    /\ call[c].phase = "running"
    /\ \E reading \in Readings(family, call[c].field, call[c].lo, call[c].hi) :
         call' = [call EXCEPT
                    ![c].heard = @ \cup {[lo |-> call[c].lo, hi |-> call[c].hi,
                                          reading |-> reading]},
                    ![c].found = @ \cup Shift(Decode(call[c].hi - call[c].lo, reading),
                                              call[c].lo),
                    ![c].phase = IF call[c].last THEN "done" ELSE "plan",
                    ![c].answer = IF call[c].last THEN "entities" ELSE @]
    /\ Release(c)
    /\ UNCHANGED <<family, knobs, boot, provider, next>>

\* A failed run, a missing output, a label list or a score table that does
\* not match the model's: an error, and the field is not scanned further.
RunFails(c) ==
    /\ call[c].phase = "running"
    /\ Answer(c, "unavailable")
    /\ Release(c)
    /\ UNCHANGED <<family, knobs, boot, provider, next>>

\* A panic under the lock unwinds through the guard, which poisons it.
RunPanics(c) ==
    /\ call[c].phase = "running"
    /\ call' = [call EXCEPT ![c].phase = "done", ![c].answer = "panicked",
                            ![c].crashed = TRUE]
    /\ pool' = [pool EXCEPT ![call[c].slot].holder = Free,
                            ![call[c].slot].poisoned = TRUE]
    /\ UNCHANGED <<family, knobs, boot, provider, next>>

----------------------------------------------------------------------------
Called(f) ==
    [field |-> f, phase |-> "called", from |-> 0, lo |-> 0, hi |-> 0,
     last |-> FALSE, slot |-> 0, heard |-> {}, found |-> {},
     answer |-> "none", crashed |-> FALSE]

Init ==
    /\ family \in {"tagger", "gliner"}
    /\ knobs \in Knobs
    /\ boot = "building" /\ pool = <<>> /\ provider = "cpu" /\ next = 0
    /\ \E f \in [Calls -> Fields] : call = [c \in Calls |-> Called(f[c])]

Build == BuildFirst \/ BuildLater \/ RebuildOnCpu \/ PoolReady \/ PoolFails

CallStep(c) ==
    \/ Begin(c) \/ PlanTokens(c) \/ PlanWords(c) \/ Tokenize(c) \/ TokenizerFails(c)
    \/ Lock(c) \/ RunReads(c) \/ RunFails(c) \/ RunPanics(c)

\* A process whose detector loaded and whose calls have answered, or whose
\* detector did not load, has nothing left to do here.
Settled ==
    /\ boot = "failed" \/ \A c \in Calls : boot = "ready" /\ call[c].phase = "done"
    /\ UNCHANGED vars

Next == Build \/ (\E c \in Calls : CallStep(c)) \/ Settled

Spec == Init /\ [][Next]_vars

\* Startup builds the pool to the end; a call's task runs on a thread of its
\* own, and a free lock is taken by one of the finitely many calls waiting.
FairSpec == Spec /\ WF_vars(Build) /\ \A c \in Calls : WF_vars(CallStep(c))

----------------------------------------------------------------------------
(* Properties                                                              *)

\* A pool that serves is the size that was asked for, never empty, and all
\* of it runs on the one provider the detector reports: a session that could
\* not get the accelerator never serves beside one that did
\* (build_session_pool).
PoolIsWhole ==
    boot = "ready" =>
      /\ Len(pool) = PoolSize /\ PoolSize >= 1
      /\ \A i \in 1 .. Len(pool) : pool[i].on = provider

\* Unless the operator sets the threads, the sessions of a detector together
\* use no more threads than the platform grants the process, as long as there
\* are no more of them than threads (derive_thread_base, derive_intra_threads).
\* With both engines loaded each takes its whole base: nothing is said of two.
ThreadsFitTheMachine ==
    knobs.intra = 0
    /\ PoolSize <= ThreadBase
    => PoolSize * IntraThreads <= AtLeast(knobs.logical, 1)

\* Runs of text the windows promise to show the model in one piece: up to
\* the overlap and one more, and within the budget of gliner's window.
ShortRun(f, s, e) ==
    IF family = "tagger"
      THEN e - s <= Overlap + 1
      ELSE e - s <= WordOverlap + 1 /\ FitsBudget(f, Budget, s, e)

\* A call that answers with entities has shown the model every part of its
\* field, and every short run of it whole in one window, so that an entity on
\* a boundary is not only ever seen in two halves (chunk_char_ranges,
\* plan_word_windows); no window over the limit was skipped on the way.
ShortRunsSeenWhole ==
    \A c \in Calls : call[c].answer = "entities" =>
      \A s, e \in 0 .. call[c].field.n :
        s < e /\ ShortRun(call[c].field, s, e) =>
          \E h \in call[c].heard : h.lo <= s /\ e <= h.hi

\* An entity whose run of labels goes on into the closing special token: its
\* end offset is the sentinel's, and the decoder drops it with a warning.
RunsIntoTheClose(h, p) ==
    \A q \in p + 1 .. h.hi - h.lo + 1 :
      h.reading[q].kind = h.reading[p].kind /\ ~h.reading[q].begin

Inside(span, h) == h.lo <= span.start /\ span.end <= h.hi

\* The tagger's entities are what the model's labels say: a labelled position
\* is in an entity of its kind at its place in the field, and an entity has
\* only positions of its kind (decode_entities, the shift in infer_chunked).
TagsAreKept(c) ==
    /\ \A h \in call[c].heard : \A p \in 1 .. h.hi - h.lo :
         h.reading[p].kind # "none" /\ ~RunsIntoTheClose(h, p) =>
           \E f \in call[c].found :
             /\ f.kind = h.reading[p].kind /\ Inside(f, h)
             /\ f.start < h.lo + p /\ h.lo + p <= f.end
             /\ \A q \in 1 .. h.hi - h.lo :
                  f.start + 1 < h.lo + q /\ h.lo + q <= f.end => ~h.reading[q].begin
    /\ \A f \in call[c].found : \E h \in call[c].heard :
         /\ Inside(f, h)
         /\ \A p \in f.start + 1 .. f.end : h.reading[p - h.lo].kind = f.kind

At(span, by) == [kind |-> span.kind, start |-> span.start + by, end |-> span.end + by]

\* Gliner's entities are the model's best: a candidate over the threshold is
\* an entity at its place in the field unless a better one that is covers a
\* word of it, and no entity comes from anything else (decode_spans).
SpansAreKept(c) ==
    /\ \A h \in call[c].heard : \A s \in h.reading :
         Usable(h.hi - h.lo, s) =>
           \E t \in h.reading :
             /\ Usable(h.hi - h.lo, t) /\ At(t, h.lo) \in call[c].found
             /\ t = s \/ (Before(t, s) /\ Overlapping(t, s))
    /\ \A f \in call[c].found : \E h \in call[c].heard : \E s \in h.reading :
         Usable(h.hi - h.lo, s) /\ At(s, h.lo) = f

\* What the model said of the windows is what the call has found, neither
\* less nor more.
NothingSaidIsLost ==
    \A c \in Calls : call[c].answer = "entities" =>
      IF family = "tagger" THEN TagsAreKept(c) ELSE SpansAreKept(c)

\* A panic under a session's lock costs the call it happened in, and no later
\* call that draws the same session.
PanicsStayContained ==
    \A c \in Calls : call[c].answer = "panicked" => call[c].crashed

\* Every call comes back, whatever the sizes of the words and the overlap:
\* the windows advance, and no session is lost to the others.
EveryCallAnswers ==
    <>(boot = "failed" \/ \A c \in Calls : call[c].phase = "done")
=============================================================================
