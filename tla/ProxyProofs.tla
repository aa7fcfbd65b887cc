----------------------------- MODULE ProxyProofs -----------------------------
(***************************************************************************)
(* What holds of the proxy in every environment, for any clients, asks,    *)
(* replies and size of the pool: how it may come to serve, and what the    *)
(* provider and the clients then hear.                                     *)
(***************************************************************************)
EXTENDS Proxy, FiniteSetTheorems, TLAPS

(* ---- startup ---------------------------------------------------------- *)
DetectorType == [engine : {"structured", "ner", "gliner"}, failOpen : BOOLEAN]

Served == {"ner", "gliner", "ensure", "bind", "serving"}
NerTried == {"gliner", "ensure", "bind", "serving"}
GlinerTried == {"ensure", "bind", "serving"}

(* Configurations from which an engine may be loaded at all.               *)
GlinerIsWhole(e) == e.gliner = "set" /\ e.threshold # "other" /\ LabelsParse(GlinerLabels(e))
NerIsWhole(e) == e.ner = "local" \/ (e.slash /\ \A i \in e.ids : 0 .. i \subseteq e.ids)

(* What is known of the process, phase by phase.                           *)
StartInv ==
  /\ line \in Lines /\ env \in Envs
  /\ detectors \in Seq(DetectorType)
  /\ phase \in {"config", "detector"} \cup Served => line = <<>>
  /\ phase \in {"detector"} \cup Served => env.bad = "none" /\ CheckedUpstreamBaseUrl(env)
  /\ phase \in Served => detectors # <<>> /\ detectors[1] = Structured
  /\ \A d \in MlDetectors : d.failOpen = ~Flag(env.required)
  /\ (phase \in {"bind", "serving"} /\ Flag(env.required)) => MlDetectors # {}
  /\ "gliner" \in Engines => GlinerIsWhole(env)
  /\ "ner" \in Engines => NerIsWhole(env)
  /\ (phase \in NerTried /\ Flag(env.required) /\ env.ner \in {"local", "repo"} /\ env.onnx)
        => "ner" \in Engines
  /\ (phase \in GlinerTried /\ Flag(env.required) /\ env.gliner # "unset" /\ env.onnx)
        => "gliner" \in Engines
  /\ phase \in Served /\ Flag(env.required) => env.onnx

(* Pushing a detector adds it to those there are, behind the first.        *)
LEMMA PushedIsThere ==
  ASSUME NEW T, NEW s \in Seq(T), NEW d \in T
  PROVE  /\ Append(s, d) \in Seq(T)
         /\ {Append(s, d)[i] : i \in DOMAIN Append(s, d)} = {s[i] : i \in DOMAIN s} \cup {d}
         /\ s # <<>> => Append(s, d) # <<>> /\ Append(s, d)[1] = s[1]
<1>1. Len(Append(s, d)) = Len(s) + 1 /\ DOMAIN Append(s, d) = 1 .. Len(s) + 1
  OBVIOUS
<1>2. \A i \in 1 .. Len(s) : Append(s, d)[i] = s[i]
  OBVIOUS
<1>3. Append(s, d)[Len(s) + 1] = d
  OBVIOUS
<1>4. Len(s) \in Nat /\ DOMAIN s = 1 .. Len(s)
  OBVIOUS
<1>5. s # <<>> => 1 \in 1 .. Len(s)
  OBVIOUS
<1> QED  BY <1>1, <1>2, <1>3, <1>4, <1>5

(* Only an empty command line serves.                                      *)
LEMMA OnlyBareServes ==
  ASSUME NEW args \in Lines, Mode(args) \notin {"refused", "version", "help", "bench"}
  PROVE  args = <<>>
<1> SUFFICES ASSUME args # <<>> PROVE FALSE
  OBVIOUS
<1>1. args \in Seq(Arguments) /\ Len(args) \in DOMAIN args
  BY StartAssumption
<1>2. args[Len(args)] \in Arguments
  BY <1>1
<1>3. args[Len(args)] # "other"
  BY <1>1 DEF Mode
<1> QED  BY <1>2, <1>3 DEF Mode, Arguments

(* Labels that are usable run from 0 without a gap.                        *)
LEMMA UsableHasNoGap ==
  ASSUME NEW ids, IsFiniteSet(ids), LabelsUsable(ids)
  PROVE  \A i \in ids : 0 .. i \subseteq ids
<1> DEFINE c == Cardinality(ids)
<1>1. c \in Nat /\ ids = 0 .. c - 1
  BY FS_CardinalityType DEF LabelsUsable
<1>2. \A i \in 0 .. c - 1 : 0 .. i \subseteq 0 .. c - 1
  BY <1>1
<1> QED  BY <1>1, <1>2

(* Each step of the start keeps what is known.                             *)
LEMMA StartStep ==
  ASSUME StartInv, StartNext
  PROVE  StartInv'
<1> USE DEF StartInv, Served, NerTried, GlinerTried
<1>0. /\ env \in Envs /\ env.onnx \in BOOLEAN /\ Flag(env.required) \in BOOLEAN
      /\ env.ner \in {"unset", "partial", "local", "repo"}
      /\ env.gliner \in {"unset", "partial", "set"} /\ IsFiniteSet(env.ids)
  BY StartAssumption DEF EnvType, Flag
<1>same. ASSUME detectors' = detectors, env' = env
         PROVE  MlDetectors' = MlDetectors /\ Engines' = Engines
  BY <1>same DEF MlDetectors, Engines
<1>exit. ASSUME NEW c, Exit(c) PROVE StartInv'
  BY <1>exit, <1>same DEF Exit
<1>1. CASE ParseArgs
  <2>1. CASE Mode(line) \in {"refused", "version", "help"}
    BY <1>1, <2>1, <1>exit DEF ParseArgs
  <2>2. CASE Mode(line) = "bench"
    BY <1>1, <2>2, <1>same DEF ParseArgs, GoOn
  <2>3. CASE Mode(line) \notin {"refused", "version", "help", "bench"}
    <3>1. line = <<>>
      BY <2>3, OnlyBareServes
    <3>2. GoOn("config")
      BY <1>1, <2>3 DEF ParseArgs
    <3> QED  BY <3>1, <3>2, <1>same DEF GoOn
  <2> QED  BY <2>1, <2>2, <2>3
<1>2. CASE Benchmark
  BY <1>2, <1>exit DEF Benchmark
<1>3. CASE ReadConfig
  BY <1>3, <1>exit, <1>same DEF ReadConfig, GoOn
<1>4. CASE BuildStructured
  <2>1. CASE ~Exit(1)
    <3>0. detectors' = <<Structured>> /\ UNCHANGED <<line, env, code>>
      BY <1>4, <2>1 DEF BuildStructured
    <3>1. {<<Structured>>[i] : i \in DOMAIN <<Structured>>} = {Structured}
      OBVIOUS
    <3>2. MlDetectors' = {} /\ Engines' = {}
      BY <3>0, <3>1 DEF MlDetectors, Engines, Structured, Detector
    <3>3. Structured \in DetectorType
      BY DEF Structured, Detector, DetectorType
    <3>4. phase' \in {"ner", "bind"} /\ (phase' = "bind" => ~env.onnx) /\ (Flag(env.required) => env.onnx)
      BY <1>4, <1>0, <2>1 DEF BuildStructured
    <3> QED  BY <1>4, <1>0, <3>0, <3>2, <3>3, <3>4 DEF BuildStructured
  <2> QED  BY <1>4, <2>1, <1>exit DEF BuildStructured
<1>load. ASSUME NEW engine \in {"ner", "gliner"}, NEW next, detectors # <<>>,
                detectors' = Append(detectors, Detector(engine, FailsOpen(Flag(env.required)))),
                phase' = next, UNCHANGED <<line, env, code>>
         PROVE  /\ detectors' \in Seq(DetectorType)
                /\ detectors' # <<>> /\ detectors'[1] = detectors[1]
                /\ MlDetectors' = MlDetectors \cup {Detector(engine, FailsOpen(Flag(env.required)))}
                /\ Engines' = Engines \cup {engine}
                /\ MlDetectors' # {}
                /\ \A d \in MlDetectors' : d.failOpen = ~Flag(env.required)
  <2> DEFINE d == Detector(engine, FailsOpen(Flag(env.required)))
  <2>1. d \in DetectorType /\ d.engine = engine /\ d.failOpen = ~Flag(env.required)
    BY <1>0 DEF Detector, FailsOpen, DetectorType
  <2>2. /\ detectors' \in Seq(DetectorType)
        /\ {detectors'[i] : i \in DOMAIN detectors'} = {detectors[i] : i \in DOMAIN detectors} \cup {d}
        /\ detectors' # <<>> /\ detectors'[1] = detectors[1]
    BY <1>load, <2>1, PushedIsThere
  <2>3. MlDetectors' = MlDetectors \cup {d}
    BY <2>1, <2>2 DEF MlDetectors
  <2>4. Engines' = Engines \cup {engine}
    BY <2>1, <2>3 DEF Engines
  <2> QED  BY <2>1, <2>2, <2>3, <2>4, <1>load
<1>5. CASE LoadNer
  <2>1. PICK loaded \in Resolved(env) \cup {o \in {"error"} : "model" \in Resolved(env)} :
               Load("ner", loaded, "gliner")
    BY <1>5 DEF LoadNer
  <2>2. phase = "ner" /\ detectors # <<>> /\ line = <<>>
    BY <1>5 DEF LoadNer
  <2>3. CASE loaded = "model"
    <3>1. env.ner = "local" \/ (env.slash /\ LabelsUsable(env.ids))
      BY <2>1, <2>3, <1>0 DEF Resolved, Resolve
    <3>2. NerIsWhole(env)
      BY <3>1, <1>0, UsableHasNoGap DEF NerIsWhole
    <3>3. /\ detectors' = Append(detectors, Detector("ner", FailsOpen(Flag(env.required))))
          /\ phase' = "gliner" /\ UNCHANGED <<line, env, code>>
      BY <2>1, <2>3 DEF Load
    <3> QED  BY <2>2, <3>2, <3>3, <1>load
  <2>4. CASE loaded = "none"
    <3>1. env.ner \notin {"local", "repo"}
      BY <2>1, <2>4, <1>0 DEF Resolved, Resolve
    <3> QED  BY <2>1, <2>2, <2>4, <3>1, <1>same DEF Load, GoOn
  <2>5. CASE loaded = "error"
    BY <2>1, <2>2, <2>5, <1>same, <1>exit DEF Load, GoOn
  <2>6. loaded \in {"model", "none", "error"}
    BY <2>1, <1>0 DEF Resolved, Resolve
  <2> QED  BY <2>3, <2>4, <2>5, <2>6
<1>6. CASE LoadGliner
  <2>1. PICK loaded \in Gliner(env) : Load("gliner", loaded, "ensure")
    BY <1>6 DEF LoadGliner
  <2>2. phase = "gliner" /\ detectors # <<>> /\ line = <<>>
    BY <1>6 DEF LoadGliner
  <2>3. CASE loaded = "model"
    <3>1. GlinerIsWhole(env)
      BY <2>1, <2>3, <1>0 DEF Gliner, GlinerIsWhole
    <3>3. /\ detectors' = Append(detectors, Detector("gliner", FailsOpen(Flag(env.required))))
          /\ phase' = "ensure" /\ UNCHANGED <<line, env, code>>
      BY <2>1, <2>3 DEF Load
    <3> QED  BY <2>2, <3>1, <3>3, <1>load
  <2>4. CASE loaded = "none"
    <3>1. env.gliner = "unset"
      BY <2>1, <2>4, <1>0 DEF Gliner
    <3> QED  BY <2>1, <2>2, <2>4, <3>1, <1>same DEF Load, GoOn
  <2>5. CASE loaded = "error"
    BY <2>1, <2>2, <2>5, <1>same, <1>exit DEF Load, GoOn
  <2>6. loaded \in {"model", "none", "error"}
    BY <2>1, <1>0 DEF Gliner
  <2> QED  BY <2>3, <2>4, <2>5, <2>6
<1>7. CASE EnsureLoaded
  BY <1>7, <1>exit, <1>same DEF EnsureLoaded, GoOn
<1>8. CASE Bind
  BY <1>8, <1>exit, <1>same DEF Bind, GoOn
<1> QED  BY <1>1, <1>2, <1>3, <1>4, <1>5, <1>6, <1>7, <1>8 DEF StartNext

LEMMA StartBegins == StartInit => StartInv
<1> SUFFICES ASSUME StartInit PROVE StartInv
  OBVIOUS
<1>1. MlDetectors = {} /\ Engines = {}
  BY DEF StartInit, MlDetectors, Engines
<1> QED  BY <1>1 DEF StartInit, StartInv, Served, NerTried, GlinerTried

LEMMA StartStays == StartInv /\ UNCHANGED startVars => StartInv'
  BY DEF StartInv, startVars, MlDetectors, Engines

LEMMA StartSuffices == StartInv => ServesAsConfigured
<1> SUFFICES ASSUME StartInv PROVE ServesAsConfigured
  OBVIOUS
<1>1. GlinerIsWhole(env) => /\ env.gliner = "set" /\ env.threshold # "other"
                            /\ env.labels.given => env.labels.items \ {""} # {}
                            /\ \A l \in GlinerLabels(env) : GlinerLabelToKind(l) # {}
  BY DEF GlinerIsWhole, LabelsParse, GlinerLabels
<1>2. CheckedUpstreamBaseUrl(env) => env.url \in {"http", "https"}
  BY DEF CheckedUpstreamBaseUrl
<1> QED
  BY <1>1, <1>2 DEF StartInv, ServesAsConfigured, NerIsWhole, Served, NerTried, GlinerTried

(* ---- requests --------------------------------------------------------- *)
Pooled == {pool[i] : i \in DOMAIN pool}

(* What belongs together of one request, by where its handler is.          *)
ReqInv(r) ==
  /\ client[r] = "away" => /\ handler[r] = "none" /\ outcome[r] = None
                           /\ r \notin working /\ r \notin Pooled
  /\ handler[r] = "none" => client[r] = "away" /\ answer[r] = None /\ sent[r] = None /\ reply[r] = None
  /\ client[r] # "away" => phase = "serving" /\ ask[r] \in Asks
  /\ r \in working \cup Pooled => outcome[r] = None
  /\ handler[r] = "masking" => sent[r] = None /\ reply[r] = None /\ answer[r] = None
  /\ handler[r] = "waiting" => sent[r] # None /\ answer[r] = None
  /\ handler[r] = "streaming" =>
       /\ sent[r] # None /\ answer[r] # None /\ answer[r].body \in {"restored", "as sent"}
  /\ reply[r] # None => sent[r] # None
  /\ (outcome[r] # None /\ outcome[r].result = "masked" /\ Flag(env.required)) =>
       outcome[r].by = Engines /\ outcome[r].by # {}
  /\ sent[r] # None =>
       /\ outcome[r] # None /\ outcome[r].result = "masked" /\ sent[r].by = outcome[r].by

(* What was sent carries what the environment and the request call for.    *)
CallInv(r) ==
  /\ sent[r] # None =>
       /\ sent[r].credential = Credential(ask[r]) /\ sent[r].headers = HeadersOf(ask[r])
       /\ ask[r].route = "messages" => Credential(ask[r])[2] # "none"
  /\ (answer[r] # None /\ answer[r].status = 401 /\ reply[r] = None) =>
       ask[r].route = "messages" /\ Credential(ask[r])[2] = "none"

(* An answer has its cause in what was sent and what came back.            *)
Deserved(r, a) ==
    CASE a.body = "refused" -> sent[r] = None /\ reply[r] = None /\ a.status >= 400
      [] a.body = "failure" ->
           /\ sent[r] # None /\ reply[r] # None /\ ~Usable(r)
           /\ a.status = IF ask[r].stream /\ reply[r] # Failed THEN reply[r].status ELSE 502
      [] OTHER -> /\ sent[r] # None /\ reply[r] \in Replies /\ Usable(r)
                  /\ a.status = reply[r].status
Honest(r) == answer[r] # None => Deserved(r, answer[r])

RestoredFor(r) == (answer[r] # None /\ answer[r].body \in {"restored", "as sent"}
                     /\ ask[r].secret) => (answer[r].body = "restored" <=> ~Flag(env.skip))

(* No task is queued twice, nor while it has a thread.                     *)
PoolInv ==
  /\ \A i, j \in DOMAIN pool : pool[i] = pool[j] => i = j
  /\ Pooled \cap working = {}

IInv == /\ StartInv /\ TypeOK /\ PoolInv
        /\ \A r \in Requests : ReqInv(r) /\ CallInv(r) /\ Honest(r) /\ RestoredFor(r)

LEMMA ProxyBegins == Init => IInv
<1> SUFFICES ASSUME Init PROVE IInv
  OBVIOUS
<1>1. StartInv
  BY StartBegins DEF Init
<1>2. Pooled = {}
  BY DEF Init, ReqInit, Pooled
<1>3. TypeOK
  BY DEF Init, ReqInit, StartInit, TypeOK, StartTypeOK, Running
<1> QED  BY <1>1, <1>2, <1>3 DEF Init, ReqInit, IInv, PoolInv, ReqInv, CallInv, Honest, RestoredFor

(* Startup touches no request: there is none yet.                          *)
LEMMA StartKeepsTypes == StartTypeOK /\ StartInv /\ StartNext => StartTypeOK'
<1> SUFFICES ASSUME StartTypeOK, StartInv, StartNext PROVE StartTypeOK'
  OBVIOUS
<1>1. line' \in Lines /\ env' \in Envs /\ detectors' \in Seq(DetectorType)
  BY StartStep DEF StartInv
<1> DEFINE Phases == {"arguments", "benchmark", "config", "detector", "ner", "gliner",
                      "ensure", "bind", "serving", "exited"}
           Ok == phase' \in Phases /\ code' \in {Running, 0, 1}
<1>2. ASSUME NEW c \in {0, 1}, Exit(c) PROVE Ok
  BY <1>2 DEF Exit
<1>3. ASSUME NEW p \in Phases, GoOn(p) PROVE Ok
  BY <1>3 DEF GoOn, StartTypeOK
<1>4. ASSUME NEW e, NEW o \in {"model", "none", "error"}, NEW p \in Phases, Load(e, o, p) PROVE Ok
  <2>1. CASE o = "model"
    BY <1>4, <2>1 DEF Load, StartTypeOK
  <2>2. CASE o = "none"
    BY <1>4, <2>2, <1>3 DEF Load
  <2>3. CASE o = "error"
    BY <1>4, <2>3, <1>2, <1>3 DEF Load
  <2> QED  BY <1>4, <2>1, <2>2, <2>3
<1>5. env \in EnvType
  BY StartAssumption DEF StartTypeOK
<1>6. Ok
  <2>1. CASE ParseArgs
    BY <2>1, <1>2, <1>3 DEF ParseArgs
  <2>2. CASE Benchmark
    BY <2>2, <1>2 DEF Benchmark
  <2>3. CASE ReadConfig
    BY <2>3, <1>2, <1>3 DEF ReadConfig
  <2>4. CASE BuildStructured
    BY <2>4, <1>2 DEF BuildStructured, StartTypeOK
  <2>5. CASE LoadNer
    <3>0. env.ner \in {"unset", "partial", "local", "repo"}
      BY <1>5 DEF EnvType
    <3>1. Resolved(env) \subseteq {"model", "none", "error"}
      BY <3>0 DEF Resolved, Resolve
    <3> QED  BY <2>5, <3>1, <1>4 DEF LoadNer
  <2>6. CASE LoadGliner
    <3>1. Gliner(env) \subseteq {"model", "none", "error"}
      BY <1>5 DEF Gliner, EnvType
    <3> QED  BY <2>6, <3>1, <1>4 DEF LoadGliner
  <2>7. CASE EnsureLoaded
    BY <2>7, <1>2, <1>3 DEF EnsureLoaded
  <2>8. CASE Bind
    BY <2>8, <1>2, <1>3 DEF Bind
  <2> QED  BY <2>1, <2>2, <2>3, <2>4, <2>5, <2>6, <2>7, <2>8 DEF StartNext
<1> QED  BY <1>1, <1>6 DEF StartTypeOK, DetectorType

LEMMA StartingKeeps == ASSUME IInv, Starting PROVE IInv'
<1> USE DEF IInv
<1>1. StartInv' /\ StartTypeOK'
  BY StartStep, StartKeepsTypes DEF Starting, TypeOK
<1>2. phase # "serving" /\ UNCHANGED reqVars
  BY DEF Starting, StartNext, ParseArgs, Benchmark, ReadConfig, BuildStructured, LoadNer,
         LoadGliner, EnsureLoaded, Bind
<1>3. TypeOK' /\ PoolInv'
  BY <1>1, <1>2 DEF TypeOK, reqVars, PoolInv, Pooled
<1>4. ASSUME NEW r \in Requests PROVE ReqInv(r)' /\ CallInv(r)' /\ Honest(r)' /\ RestoredFor(r)'
  <2>1. client[r] = "away" /\ handler[r] = "none" /\ outcome[r] = None /\ answer[r] = None
        /\ sent[r] = None /\ reply[r] = None /\ r \notin working /\ r \notin Pooled
    BY <1>2 DEF ReqInv
  <2> QED  BY <1>2, <2>1 DEF ReqInv, CallInv, Honest, RestoredFor, reqVars, Pooled
<1> QED  BY <1>1, <1>3, <1>4

(* ---- the steps of a serving process ------------------------------------ *)
(* What a step leaves alone of the other requests, it leaves as it was.    *)
LEMMA OthersKept ==
  ASSUME NEW r \in Requests, ReqInv(r), CallInv(r), Honest(r), RestoredFor(r),
         UNCHANGED startVars, working' \cup Pooled' \subseteq working \cup Pooled \cup (Requests \ {r}),
         ask'[r] = ask[r], client'[r] = client[r], handler'[r] = handler[r],
         outcome'[r] = outcome[r], sent'[r] = sent[r], reply'[r] = reply[r], answer'[r] = answer[r]
  PROVE  ReqInv(r)' /\ CallInv(r)' /\ Honest(r)' /\ RestoredFor(r)'
<1>1. r \in working' \cup Pooled' => r \in working \cup Pooled
  OBVIOUS
<1>2. Engines' = Engines /\ env' = env /\ phase' = phase
  BY DEF startVars, Engines, MlDetectors
<1>3. ReqInv(r)'
  BY <1>1, <1>2 DEF ReqInv
<1>4. CallInv(r)'
  BY <1>2 DEF CallInv, Credential, ChatAuth, MessagesAuth, NoCredential, HeadersOf,
         CollectPassthrough, Readable, ConfiguredKey
<1>5. Honest(r)'
  <2>1. Deserved(r, answer[r])' <=> Deserved(r, answer[r])
    BY DEF Deserved, Usable
  <2> QED  BY <2>1 DEF Honest
<1>6. RestoredFor(r)'
  BY <1>2 DEF RestoredFor
<1> QED  BY <1>3, <1>4, <1>5, <1>6

(* A step of one request keeps the invariant if it does so for that one.   *)
LEMMA OneRequest ==
  ASSUME IInv, NEW q \in Requests, UNCHANGED startVars, TypeOK', PoolInv',
         working' \cup Pooled' \subseteq working \cup Pooled \cup {q},
         \A r \in Requests \ {q} :
           /\ ask'[r] = ask[r] /\ client'[r] = client[r] /\ handler'[r] = handler[r]
           /\ outcome'[r] = outcome[r] /\ sent'[r] = sent[r] /\ reply'[r] = reply[r]
           /\ answer'[r] = answer[r],
         ReqInv(q)', CallInv(q)', Honest(q)', RestoredFor(q)'
  PROVE  IInv'
<1>1. StartInv'
  BY StartStays DEF IInv
<1>2. ASSUME NEW r \in Requests \ {q}
      PROVE  ReqInv(r)' /\ CallInv(r)' /\ Honest(r)' /\ RestoredFor(r)'
  BY <1>2, OthersKept DEF IInv
<1>3. \A r \in Requests : (ReqInv(r) /\ CallInv(r) /\ Honest(r) /\ RestoredFor(r))'
  BY <1>2
<1> QED  BY <1>1, <1>3 DEF IInv

(* Nothing that happens is taken for nothing.                              *)
LEMMA SomethingIsNotNone ==
  /\ None \notin AnswerType /\ None \notin ReplyType /\ None \notin OutcomeType
  /\ None \notin SentType /\ None \notin AskType /\ None # Failed
<1>1. "none" \in DOMAIN None /\ DOMAIN None = {"none"}
  BY DEF None
<1>2. \A a \in AnswerType : "none" \notin DOMAIN a
  BY DEF AnswerType
<1>3. \A a \in ReplyType : "none" \notin DOMAIN a
  BY DEF ReplyType
<1>4. \A a \in OutcomeType : "none" \notin DOMAIN a
  BY DEF OutcomeType
<1>5. \A a \in SentType : "none" \notin DOMAIN a
  BY DEF SentType
<1>6. \A a \in AskType : "none" \notin DOMAIN a
  BY DEF AskType
<1>7. "none" \notin DOMAIN Failed
  BY DEF Failed
<1> QED  BY <1>1, <1>2, <1>3, <1>4, <1>5, <1>6, <1>7

LEMMA TypedStart == TypeOK /\ UNCHANGED startVars => StartTypeOK'
  BY DEF TypeOK, StartTypeOK, startVars

(* Answering keeps it if the answer says what it may.                      *)
LEMMA AnswerKeeps ==
  ASSUME IInv, NEW q \in Requests, NEW a \in AnswerType, Answer(q, a),
         UNCHANGED <<startVars, ask, client, pool, working, outcome, sent, reply>>,
         client[q] # "away",
         Deserved(q, a), a.body # "refused" => sent[q] # None /\ reply[q] # None,
         (a.body = "refused" /\ a.status = 401) =>
           ask[q].route = "messages" /\ Credential(ask[q])[2] = "none",
         (a.body \in {"restored", "as sent"} /\ ask[q].secret) =>
           (a.body = "restored" <=> ~Flag(env.skip)),
         a.end = "open" => a.body \in {"restored", "as sent"}
  PROVE  IInv'
<1> USE DEF Answer
<1>00. a # None /\ a.end \in {"open", "whole", "told", "aborted"}
  BY SomethingIsNotNone DEF AnswerType
<1>0. /\ answer' \in [Requests -> AnswerType \cup {None}] /\ answer'[q] = a /\ a # None
      /\ handler' \in [Requests -> {"none", "masking", "waiting", "streaming", "ended"}]
      /\ handler'[q] = IF a.end = "open" THEN "streaming" ELSE "ended"
      /\ \A r \in Requests \ {q} : answer'[r] = answer[r] /\ handler'[r] = handler[r]
  BY <1>00 DEF IInv, TypeOK
<1>1. TypeOK'
  BY <1>0, TypedStart DEF IInv, TypeOK
<1>2. PoolInv' /\ Pooled' = Pooled
  BY DEF IInv, PoolInv, Pooled
<1>3. ReqInv(q)'
  <2>1. Engines' = Engines /\ env' = env /\ phase' = phase
    BY DEF startVars, Engines, MlDetectors
  <2>2. handler'[q] \in {"streaming", "ended"}
    BY <1>0
  <2> QED  BY <1>0, <1>2, <2>1, <2>2 DEF IInv, ReqInv
<1>4. CallInv(q)'
  BY <1>0 DEF IInv, CallInv, startVars, Credential, ChatAuth, MessagesAuth, NoCredential, HeadersOf,
         CollectPassthrough, Readable, ConfiguredKey
<1>5. Honest(q)'
  <2>1. Deserved(q, a)'
    BY DEF Deserved, Usable
  <2> QED  BY <1>0, <2>1 DEF Honest
<1>6. RestoredFor(q)'
  BY <1>0 DEF RestoredFor, startVars
<1> QED  BY <1>0, <1>1, <1>2, <1>3, <1>4, <1>5, <1>6, OneRequest

(* The steps that answer a request that has been masked or replied to.     *)
LEMMA HandlerAnswers ==
  ASSUME IInv, NEW q \in Requests, UNCHANGED startVars,
         \/ RefuseUnmasked(q) \/ Unauthorized(q) \/ FinishBuffered(q) \/ BadGateway(q)
         \/ BufferedFallback(q) \/ OpenStream(q) \/ StreamEnds(q) \/ StreamFails(q)
  PROVE  IInv'
<1>0. /\ ReqInv(q) /\ CallInv(q) /\ Honest(q) /\ RestoredFor(q)
      /\ reply[q] \in Replies \cup {Failed, None} /\ answer[q] \in AnswerType \cup {None}
      /\ None \notin Replies /\ None # Failed /\ ask[q] \in Asks \cup {None}
  BY SomethingIsNotNone, ProxyAssumption DEF IInv, TypeOK
<1>1. \A p \in Replies : p.status \in Nat /\ p.kind \in {"json", "sse", "other"}
  BY ProxyAssumption DEF ReplyType
<1>2. Flag(env.skip) \in BOOLEAN
  BY StartAssumption DEF IInv, StartInv, Flag
<1>r. ASSUME RefuseUnmasked(q) PROVE IInv'
  <2>1. PICK st \in {400, 500} : Answer(q, Refusal(st))
    BY <1>r DEF RefuseUnmasked
  <2>2. Refusal(st) \in AnswerType /\ Refusal(st).body = "refused" /\ Refusal(st).status = st
        /\ Refusal(st).end = "whole"
    BY DEF Refusal, Answered, AnswerType
  <2> DEFINE a == Refusal(st)
  <2>4. Answer(q, a) /\ UNCHANGED <<ask, client, pool, working, outcome, sent, reply>>
    BY <1>r, <2>1 DEF RefuseUnmasked
  <2> HIDE DEF a
  <2>5. client[q] # "away" /\ sent[q] = None /\ reply[q] = None
    BY <1>r, <1>0 DEF RefuseUnmasked, Examined, ReqInv
  <2>6. a \in AnswerType /\ a.body = "refused" /\ a.status >= 400 /\ a.end = "whole"
    BY <2>2 DEF a
  <2>7. Deserved(q, a) /\ a.status # 401
    BY <2>2, <2>5 DEF a, Deserved
  <2>8. a.body # "failure" /\ a.body \notin {"restored", "as sent"} /\ a.end # "open"
    BY <2>6
  <2> QED  BY <2>4, <2>5, <2>6, <2>7, <2>8, AnswerKeeps
<1>u. ASSUME Unauthorized(q) PROVE IInv'
  <2>2. Refusal(401) \in AnswerType /\ Refusal(401).body = "refused" /\ Refusal(401).status = 401
        /\ Refusal(401).end = "whole"
    BY DEF Refusal, Answered, AnswerType
  <2> DEFINE a == Refusal(401)
  <2>4. Answer(q, a) /\ UNCHANGED <<ask, client, pool, working, outcome, sent, reply>>
    BY <1>u DEF Unauthorized
  <2> HIDE DEF a
  <2>5. client[q] # "away" /\ sent[q] = None /\ reply[q] = None
    BY <1>u, <1>0 DEF Unauthorized, Examined, ReqInv
  <2>6. ask[q].route = "messages" /\ Credential(ask[q])[2] = "none"
    BY <1>u DEF Unauthorized
  <2>7. a \in AnswerType /\ a.body = "refused" /\ a.status >= 400 /\ a.end = "whole"
    BY <2>2 DEF a
  <2>8. Deserved(q, a)
    BY <2>5, <2>7 DEF Deserved
  <2> QED  BY <2>4, <2>5, <2>6, <2>7, <2>8, AnswerKeeps
<1>b. ASSUME FinishBuffered(q) PROVE IInv'
  <2> DEFINE a == Answered(reply[q].status, Restored)
  <2>1. reply[q] \in Replies /\ Usable(q)
    BY <1>b, <1>0 DEF FinishBuffered, Replied, Failed, Usable
  <2>2. a \in AnswerType /\ a.body = Restored /\ a.status = reply[q].status /\ a.end = "whole"
    BY <1>1, <2>1 DEF Answered, AnswerType, Restored
  <2>3. Restored \in {"restored", "as sent"} /\ (Restored = "restored" <=> ~Flag(env.skip))
    BY <1>2 DEF Restored
  <2> HIDE DEF a
  <2>4. Answer(q, a) /\ UNCHANGED <<ask, client, pool, working, outcome, sent, reply>>
    BY <1>b DEF FinishBuffered, a
  <2>5. client[q] # "away" /\ sent[q] # None /\ reply[q] # None
    BY <1>b, <1>0 DEF FinishBuffered, Replied, ReqInv
  <2>6. Deserved(q, a)
    BY <2>1, <2>2, <2>3, <2>5 DEF Deserved
  <2> QED  BY <2>2, <2>3, <2>4, <2>5, <2>6, AnswerKeeps
<1>g. ASSUME BadGateway(q) PROVE IInv'
  <2> DEFINE a == Answered(502, "failure")
  <2>2. a \in AnswerType /\ a.body = "failure" /\ a.status = 502 /\ a.end = "whole"
    BY DEF Answered, AnswerType
  <2> HIDE DEF a
  <2>4. Answer(q, a) /\ UNCHANGED <<ask, client, pool, working, outcome, sent, reply>>
    BY <1>g DEF BadGateway, a
  <2>5. client[q] # "away" /\ sent[q] # None /\ reply[q] # None
    BY <1>g, <1>0 DEF BadGateway, Replied, ReqInv
  <2>6. ~Usable(q) /\ ~(ask[q].stream /\ reply[q] # Failed)
    BY <1>g DEF BadGateway, Usable, Failed
  <2>7. Deserved(q, a)
    BY <2>2, <2>5, <2>6 DEF Deserved
  <2> QED  BY <2>2, <2>4, <2>5, <2>7, AnswerKeeps
<1>f. ASSUME BufferedFallback(q) PROVE IInv'
  <2> DEFINE bd == IF reply[q].kind = "json" THEN Restored ELSE "failure"
             a == Answered(reply[q].status, bd)
  <2>1. reply[q] \in Replies
    BY <1>f, <1>0 DEF BufferedFallback, Replied, Failed
  <2>3. bd = "failure" \/ (bd \in {"restored", "as sent"} /\ (bd = "restored" <=> ~Flag(env.skip)))
    BY <1>2 DEF Restored
  <2> HIDE DEF bd
  <2>2. a \in AnswerType /\ a.body = bd /\ a.status = reply[q].status /\ a.end = "whole"
    BY <1>1, <2>1, <2>3 DEF Answered, AnswerType
  <2>4. Answer(q, a) /\ UNCHANGED <<ask, client, pool, working, outcome, sent, reply>>
    BY <1>f DEF BufferedFallback, bd
  <2> HIDE DEF a
  <2>5. client[q] # "away" /\ sent[q] # None /\ reply[q] # None
    BY <1>f, <1>0 DEF BufferedFallback, Replied, ReqInv
  <2>6. IF bd = "failure" THEN ~Usable(q) /\ ask[q].stream /\ reply[q] # Failed ELSE Usable(q)
    <3>1. reply[q] # Failed
      BY <1>f DEF BufferedFallback, Failed
    <3>2. CASE reply[q].kind = "json"
      BY <3>2 DEF Usable, bd, Restored
    <3>3. CASE reply[q].kind = "other"
      BY <1>f, <3>1, <3>3 DEF BufferedFallback, Usable, bd
    <3> QED  BY <1>f, <3>2, <3>3 DEF BufferedFallback
  <2>7. Deserved(q, a)
    BY <2>1, <2>2, <2>3, <2>5, <2>6 DEF Deserved
  <2> QED  BY <2>2, <2>3, <2>4, <2>5, <2>7, AnswerKeeps
<1>o. ASSUME OpenStream(q) PROVE IInv'
  <2> DEFINE bd == IF PassesRaw(q) THEN "as sent" ELSE "restored"
             a == [status |-> reply[q].status, end |-> "open", body |-> bd]
  <2>1. reply[q] \in Replies /\ Usable(q)
    <3>1. reply[q].kind = "sse" /\ reply[q] # None /\ ask[q].stream
      BY <1>o DEF OpenStream, Replied
    <3>2. Failed.kind = "none"
      BY DEF Failed
    <3> QED  BY <3>1, <3>2, <1>0 DEF Usable
  <2>3. bd \in {"restored", "as sent"} /\ (ask[q].secret => (bd = "restored" <=> ~Flag(env.skip)))
    BY <1>2 DEF PassesRaw
  <2>4. Answer(q, a) /\ UNCHANGED <<ask, client, pool, working, outcome, sent, reply>>
    BY <1>o DEF OpenStream
  <2> HIDE DEF bd
  <2>2. a \in AnswerType /\ a.body = bd /\ a.status = reply[q].status /\ a.end = "open"
    BY <1>1, <2>1, <2>3 DEF AnswerType
  <2> HIDE DEF a
  <2>5. client[q] # "away" /\ sent[q] # None /\ reply[q] # None
    BY <1>o, <1>0 DEF OpenStream, Replied, ReqInv
  <2>6. Deserved(q, a)
    BY <2>1, <2>2, <2>3, <2>5 DEF Deserved
  <2> QED  BY <2>2, <2>3, <2>4, <2>5, <2>6, AnswerKeeps
<1>s. ASSUME StreamEnds(q) \/ StreamFails(q) PROVE IInv'
  <2>1. PICK e \in {"whole", "aborted", "told"} :
          /\ Answer(q, [answer[q] EXCEPT !.end = e])
          /\ UNCHANGED <<ask, client, pool, working, outcome, sent, reply>>
    BY <1>s DEF StreamEnds, StreamFails
  <2> DEFINE a == [answer[q] EXCEPT !.end = e]
  <2>2. /\ client[q] # "away" /\ sent[q] # None /\ answer[q] # None
        /\ answer[q].body \in {"restored", "as sent"}
    BY <1>s, <1>0 DEF StreamEnds, StreamFails, ReqInv
  <2>3. a \in AnswerType /\ a.body = answer[q].body /\ a.status = answer[q].status /\ a.end = e
    BY <2>2, <1>0 DEF AnswerType
  <2>4. reply[q] \in Replies /\ Usable(q) /\ reply[q].status = answer[q].status
    BY <2>2, <1>0 DEF Honest, Deserved
  <2>5. ask[q].secret => (answer[q].body = "restored" <=> ~Flag(env.skip))
    BY <2>2, <1>0 DEF RestoredFor
  <2>6. Answer(q, a)
    BY <2>1
  <2> HIDE DEF a
  <2>7. Deserved(q, a)
    BY <2>2, <2>3, <2>4 DEF Deserved
  <2> QED  BY <1>0, <2>1, <2>2, <2>3, <2>4, <2>5, <2>6, <2>7, AnswerKeeps
<1> QED  BY <1>r, <1>u, <1>b, <1>g, <1>f, <1>o, <1>s

(* The steps by which a request arrives, is sent, replied to or left.      *)
LEMMA ArriveKeeps ==
  ASSUME IInv, phase = "serving", NEW q \in Requests, NEW a \in Asks, Arrive(q, a), UNCHANGED startVars
  PROVE  IInv'
<1>0. /\ ReqInv(q) /\ client[q] = "away" /\ handler[q] = "none" /\ outcome[q] = None
      /\ answer[q] = None /\ sent[q] = None /\ reply[q] = None /\ q \notin working \cup Pooled
  BY DEF IInv, ReqInv, Arrive
<1>1. /\ ask' \in [Requests -> Asks \cup {None}] /\ ask'[q] = a
      /\ client' \in [Requests -> {"away", "there", "left"}] /\ client'[q] = "there"
      /\ \A r \in Requests \ {q} : ask'[r] = ask[r] /\ client'[r] = client[r]
      /\ UNCHANGED <<working, outcome, sent, reply>>
  BY DEF Arrive, IInv, TypeOK
<1>2. CASE Rejection(a) # 0
  <2>1. Rejection(a) \in {400, 404}
    BY <1>2 DEF Rejection
  <2> DEFINE x == Refusal(Rejection(a))
  <2>2. x \in AnswerType /\ x.body = "refused" /\ x.status \in {400, 404} /\ x.end = "whole" /\ x # None
    <3>1. x = [status |-> Rejection(a), body |-> "refused", end |-> "whole"]
      BY DEF Refusal, Answered
    <3>2. x \in AnswerType
      BY <2>1, <3>1 DEF AnswerType
    <3> QED  BY <2>1, <3>1, <3>2, SomethingIsNotNone
  <2>3. Answer(q, x) /\ pool' = pool
    BY <1>2 DEF Arrive
  <2> HIDE DEF x
  <2>4. /\ answer' \in [Requests -> AnswerType \cup {None}] /\ answer'[q] = x
        /\ handler' \in [Requests -> {"none", "masking", "waiting", "streaming", "ended"}]
        /\ handler'[q] = "ended"
        /\ \A r \in Requests \ {q} : answer'[r] = answer[r] /\ handler'[r] = handler[r]
    BY <2>2, <2>3 DEF Answer, IInv, TypeOK
  <2>5. TypeOK' /\ PoolInv' /\ Pooled' = Pooled
    BY <1>1, <2>3, <2>4, TypedStart DEF IInv, TypeOK, PoolInv, Pooled
  <2>6. ReqInv(q)'
    BY <1>0, <1>1, <2>2, <2>4, <2>5 DEF ReqInv, startVars
  <2>7. CallInv(q)'
    BY <1>0, <1>1, <2>2, <2>4 DEF CallInv
  <2>8. Honest(q)' /\ RestoredFor(q)'
    <3>1. answer'[q] = x /\ sent'[q] = None /\ reply'[q] = None /\ x.body = "refused" /\ x.status >= 400
      BY <1>0, <1>1, <2>2, <2>4
    <3> QED  BY <3>1 DEF Honest, Deserved, RestoredFor
  <2> QED  BY <1>1, <2>4, <2>5, <2>6, <2>7, <2>8, OneRequest
<1>3. CASE Rejection(a) = 0
  <2>1. pool' = Append(pool, q) /\ handler' = [handler EXCEPT ![q] = "masking"] /\ answer' = answer
    BY <1>3 DEF Arrive
  <2>2. handler' \in [Requests -> {"none", "masking", "waiting", "streaming", "ended"}]
        /\ handler'[q] = "masking" /\ \A r \in Requests \ {q} : handler'[r] = handler[r]
    BY <2>1 DEF IInv, TypeOK
  <2>3. pool \in Seq(Requests) /\ pool' \in Seq(Requests) /\ Pooled' = Pooled \cup {q}
    <3>1. pool \in Seq(Requests)
      BY DEF IInv, TypeOK
    <3>2. Append(pool, q) \in Seq(Requests)
          /\ {Append(pool, q)[i] : i \in DOMAIN Append(pool, q)} = {pool[i] : i \in DOMAIN pool} \cup {q}
      BY <3>1, PushedIsThere
    <3> QED  BY <2>1, <3>1, <3>2 DEF Pooled
  <2>4. TypeOK'
    BY <1>1, <2>1, <2>2, <2>3, TypedStart DEF IInv, TypeOK
  <2>5. PoolInv'
    <3>1. \A i \in DOMAIN pool : pool[i] # q
      BY <1>0 DEF Pooled
    <3>2. /\ DOMAIN pool = 1 .. Len(pool) /\ DOMAIN pool' = 1 .. Len(pool) + 1 /\ Len(pool) \in Nat
          /\ pool'[Len(pool) + 1] = q /\ \A i \in 1 .. Len(pool) : pool'[i] = pool[i]
      BY <2>1, <2>3
    <3>3. \A i, j \in DOMAIN pool' : pool'[i] = pool'[j] => i = j
      BY <3>1, <3>2 DEF IInv, PoolInv
    <3> QED  BY <1>0, <1>1, <2>3, <3>3 DEF IInv, PoolInv
  <2>6. ReqInv(q)'
    BY <1>0, <1>1, <2>1, <2>2 DEF ReqInv, startVars
  <2>7. CallInv(q)' /\ Honest(q)' /\ RestoredFor(q)'
    BY <1>0, <1>1, <2>1 DEF CallInv, Honest, RestoredFor
  <2> QED  BY <1>1, <2>1, <2>2, <2>3, <2>4, <2>5, <2>6, <2>7, OneRequest
<1> QED  BY <1>2, <1>3

LEMMA SendKeeps ==
  ASSUME IInv, NEW q \in Requests, Send(q), UNCHANGED startVars
  PROVE  IInv'
<1> DEFINE call == [credential |-> Credential(ask[q]), headers |-> HeadersOf(ask[q]), by |-> outcome[q].by]
<1>0. /\ ReqInv(q) /\ handler[q] = "masking" /\ outcome[q] # None /\ outcome[q].result = "masked"
      /\ outcome[q] \in OutcomeType /\ ask[q] \in Asks /\ ask[q] \in AskType /\ env \in EnvType
      /\ ask[q].route = "messages" => Credential(ask[q])[2] # "none"
  BY ProxyAssumption, StartAssumption DEF IInv, TypeOK, StartInv, ReqInv, Send, Examined
<1>1. Credential(ask[q]) \in {"authorization", "x-api-key", "none"} \X {"client", "proxy", "none"}
  BY DEF Credential, ChatAuth, MessagesAuth, NoCredential
<1>2. HeadersOf(ask[q]) \in SUBSET (HeaderNames \X {"client", "proxy"})
  <2> DEFINE passed == {<<h, "client">> : h \in CollectPassthrough(ask[q])}
  <2>1. ask[q].headers \subseteq HeaderNames
    BY <1>0 DEF AskType
  <2>2. passed \subseteq HeaderNames \X {"client", "proxy"}
    BY <2>1 DEF CollectPassthrough
  <2>3. <<Version, "proxy">> \in HeaderNames \X {"client", "proxy"}
    <3>1. Version \in HeaderNames
      BY ProxyAssumption DEF Version
    <3> QED  BY <3>1
  <2>4. HeadersOf(ask[q]) \in {passed, passed \cup {<<Version, "proxy">>}}
    BY DEF HeadersOf
  <2> DEFINE Pairs == HeaderNames \X {"client", "proxy"}
             hs == HeadersOf(ask[q])
  <2>5. passed \subseteq Pairs /\ <<Version, "proxy">> \in Pairs
    BY <2>2, <2>3
  <2>6. hs = passed \/ hs = passed \cup {<<Version, "proxy">>}
    BY <2>4
  <2> HIDE DEF passed, hs, Pairs
  <2>7. hs \subseteq Pairs
    BY <2>5, <2>6
  <2> QED  BY <2>7 DEF hs, Pairs
<1>3. call \in SentType
  <2>1. outcome[q].by \in SUBSET {"ner", "gliner"}
    BY <1>0 DEF OutcomeType
  <2> DEFINE cr == Credential(ask[q])
             hs == HeadersOf(ask[q])
             Heads == SUBSET (HeaderNames \X {"client", "proxy"})
             Creds == {"authorization", "x-api-key", "none"} \X {"client", "proxy", "none"}
  <2>2. cr \in Creds /\ hs \in Heads
    BY <1>1, <1>2
  <2> HIDE DEF cr, hs, Heads, Creds
  <2>3. [credential |-> cr, headers |-> hs, by |-> outcome[q].by]
          \in [credential : Creds, headers : Heads, by : SUBSET {"ner", "gliner"}]
    BY <2>1, <2>2
  <2> QED  BY <2>3 DEF SentType, cr, hs, Heads, Creds
<1>4. call # None /\ call.credential = Credential(ask[q]) /\ call.headers = HeadersOf(ask[q])
      /\ call.by = outcome[q].by
  BY <1>3, SomethingIsNotNone
<1>5. sent' = [sent EXCEPT ![q] = call] /\ handler' = [handler EXCEPT ![q] = "waiting"]
      /\ UNCHANGED <<ask, client, pool, working, outcome, reply, answer>>
  BY DEF Send
<1> HIDE DEF call
<1>6. /\ sent' \in [Requests -> SentType \cup {None}] /\ sent'[q] = call
      /\ handler' \in [Requests -> {"none", "masking", "waiting", "streaming", "ended"}]
      /\ handler'[q] = "waiting"
      /\ \A r \in Requests \ {q} : sent'[r] = sent[r] /\ handler'[r] = handler[r]
  BY <1>3, <1>5 DEF IInv, TypeOK
<1>7. TypeOK' /\ PoolInv' /\ Pooled' = Pooled
  BY <1>5, <1>6, TypedStart DEF IInv, TypeOK, PoolInv, Pooled
<1>8. Engines' = Engines /\ env' = env /\ phase' = phase
  BY DEF startVars, Engines, MlDetectors
<1>9. ReqInv(q)'
  BY <1>0, <1>4, <1>5, <1>6, <1>7, <1>8 DEF ReqInv
<1>10. CallInv(q)'
  BY <1>0, <1>4, <1>5, <1>6, <1>8 DEF ReqInv, CallInv, Credential, ChatAuth, MessagesAuth, NoCredential, HeadersOf,
         CollectPassthrough, Readable, ConfiguredKey
<1>11. Honest(q)' /\ RestoredFor(q)'
  BY <1>0, <1>5, <1>8 DEF ReqInv, Honest, RestoredFor
<1> QED  BY <1>5, <1>6, <1>7, <1>9, <1>10, <1>11, OneRequest

LEMMA ReplyKeeps ==
  ASSUME IInv, NEW q \in Requests, UpstreamReplies(q), UNCHANGED startVars
  PROVE  IInv'
<1>0. ReqInv(q) /\ CallInv(q) /\ Honest(q) /\ RestoredFor(q) /\ handler[q] = "waiting" /\ answer[q] = None
  BY DEF IInv, ReqInv, UpstreamReplies
<1>1. PICK p \in Replies \cup {Failed} : reply' = [reply EXCEPT ![q] = p]
  BY DEF UpstreamReplies
<1>2. UNCHANGED <<ask, client, handler, pool, working, outcome, sent, answer>>
  BY DEF UpstreamReplies
<1>3. reply' \in [Requests -> Replies \cup {Failed, None}] /\ \A r \in Requests \ {q} : reply'[r] = reply[r]
  BY <1>1 DEF IInv, TypeOK
<1>4. TypeOK' /\ PoolInv' /\ Pooled' = Pooled
  BY <1>2, <1>3, TypedStart DEF IInv, TypeOK, PoolInv, Pooled
<1>5. ReqInv(q)'
  <2>1. Engines' = Engines /\ env' = env /\ phase' = phase
    BY DEF startVars, Engines, MlDetectors
  <2> QED  BY <1>0, <1>2, <1>4, <2>1 DEF ReqInv
<1>6. CallInv(q)'
  BY <1>0, <1>2 DEF CallInv, startVars, Credential, ChatAuth, MessagesAuth, NoCredential, HeadersOf,
         CollectPassthrough, Readable, ConfiguredKey
<1>7. Honest(q)' /\ RestoredFor(q)'
  BY <1>0, <1>2 DEF RestoredFor, Honest, Deserved, Usable, startVars
<1> QED  BY <1>2, <1>3, <1>4, <1>5, <1>6, <1>7, OneRequest

LEMMA LeaveKeeps ==
  ASSUME IInv, NEW q \in Requests, Leave(q), UNCHANGED startVars
  PROVE  IInv'
<1>0. ReqInv(q) /\ CallInv(q) /\ Honest(q) /\ RestoredFor(q) /\ client[q] = "there"
  BY DEF IInv, Leave
<1>1. /\ client' \in [Requests -> {"away", "there", "left"}] /\ client'[q] = "left"
      /\ handler' \in [Requests -> {"none", "masking", "waiting", "streaming", "ended"}]
      /\ handler'[q] = "ended"
      /\ \A r \in Requests \ {q} : client'[r] = client[r] /\ handler'[r] = handler[r]
      /\ UNCHANGED <<ask, pool, working, outcome, sent, reply, answer>>
  BY DEF Leave, IInv, TypeOK
<1>4. TypeOK' /\ PoolInv' /\ Pooled' = Pooled
  BY <1>1, TypedStart DEF IInv, TypeOK, PoolInv, Pooled
<1>5. ReqInv(q)'
  <2>1. Engines' = Engines /\ env' = env /\ phase' = phase
    BY DEF startVars, Engines, MlDetectors
  <2> QED  BY <1>0, <1>1, <1>4, <2>1 DEF ReqInv
<1>6. CallInv(q)'
  BY <1>0, <1>1 DEF CallInv, startVars, Credential, ChatAuth, MessagesAuth, NoCredential, HeadersOf,
         CollectPassthrough, Readable, ConfiguredKey
<1>7. Honest(q)' /\ RestoredFor(q)'
  BY <1>0, <1>1 DEF RestoredFor, Honest, Deserved, Usable, startVars
<1> QED  BY <1>1, <1>4, <1>5, <1>6, <1>7, OneRequest

(* A task gets a thread: nothing but the pool moves.                       *)
LEMMA TaskStartsKeeps ==
  ASSUME IInv, TaskStarts, UNCHANGED startVars
  PROVE  IInv'
<1>0. /\ pool \in Seq(Requests) /\ pool # <<>> /\ pool' = Tail(pool)
      /\ working' = working \cup {Head(pool)} /\ working \subseteq Requests
      /\ UNCHANGED <<ask, client, handler, outcome, sent, reply, answer>>
  BY DEF TaskStarts, IInv, TypeOK
<1>1. /\ Head(pool) = pool[1] /\ Head(pool) \in Requests /\ 1 \in DOMAIN pool
      /\ pool' \in Seq(Requests) /\ DOMAIN pool' = 1 .. Len(pool) - 1 /\ Len(pool) \in Nat \ {0}
      /\ DOMAIN pool = 1 .. Len(pool) /\ \A i \in 1 .. Len(pool) - 1 : pool'[i] = pool[i + 1]
  BY <1>0
<1>2. Head(pool) \in Pooled /\ Pooled' \subseteq Pooled
  BY <1>1 DEF Pooled
<1>3. Head(pool) \notin Pooled'
  BY <1>1 DEF Pooled, IInv, PoolInv
<1>4. \A i, j \in DOMAIN pool' : pool'[i] = pool'[j] => i = j
  <2> SUFFICES ASSUME NEW i \in DOMAIN pool', NEW j \in DOMAIN pool', pool'[i] = pool'[j] PROVE i = j
    OBVIOUS
  <2>1. i + 1 \in DOMAIN pool /\ j + 1 \in DOMAIN pool /\ pool[i + 1] = pool[j + 1]
    BY <1>1
  <2>2. i + 1 = j + 1
    BY <2>1 DEF IInv, PoolInv
  <2> QED  BY <2>2, <1>1
<1>5. PoolInv'
  BY <1>0, <1>2, <1>3, <1>4 DEF IInv, PoolInv
<1>6. TypeOK'
  BY <1>0, <1>1, TypedStart DEF IInv, TypeOK
<1>7. PICK q \in Requests : q = Head(pool)
  BY <1>1
<1>8. working' \cup Pooled' \subseteq working \cup Pooled
  BY <1>0, <1>2
<1>9. ReqInv(q)' /\ CallInv(q)' /\ Honest(q)' /\ RestoredFor(q)'
  <2>1. working' \cup Pooled' \subseteq working \cup Pooled \cup (Requests \ {q})
    BY <1>8
  <2> QED  BY <1>0, <2>1, OthersKept DEF IInv
<1>10. working' \cup Pooled' \subseteq working \cup Pooled \cup {q}
  BY <1>8
<1>11. \A r \in Requests \ {q} :
         /\ ask'[r] = ask[r] /\ client'[r] = client[r] /\ handler'[r] = handler[r]
         /\ outcome'[r] = outcome[r] /\ sent'[r] = sent[r] /\ reply'[r] = reply[r]
         /\ answer'[r] = answer[r]
  BY <1>0
<1> QED  BY <1>5, <1>6, <1>9, <1>10, <1>11, OneRequest

(* A verdict keeps the invariant if it names every required engine.        *)
LEMMA TaskVerdict ==
  ASSUME IInv, NEW q \in Requests, NEW o \in OutcomeType, UNCHANGED startVars,
         q \in working, working' = working \ {q}, outcome' = [outcome EXCEPT ![q] = o],
         UNCHANGED <<ask, client, handler, pool, sent, reply, answer>>,
         (o.result = "masked" /\ Flag(env.required)) => o.by = Engines /\ o.by # {}
  PROVE  IInv'
<1>0. /\ ReqInv(q) /\ CallInv(q) /\ Honest(q) /\ RestoredFor(q)
      /\ outcome[q] = None /\ client[q] # "away" /\ sent[q] = None
  BY DEF IInv, ReqInv
<1>1. /\ outcome' \in [Requests -> OutcomeType \cup {None}] /\ outcome'[q] = o
      /\ \A r \in Requests \ {q} : outcome'[r] = outcome[r]
  BY DEF IInv, TypeOK
<1>2. TypeOK' /\ PoolInv' /\ Pooled' = Pooled /\ q \notin Pooled
  BY <1>1, TypedStart DEF IInv, TypeOK, PoolInv, Pooled
<1>3. ReqInv(q)'
  <2>1. Engines' = Engines /\ env' = env /\ phase' = phase
    BY DEF startVars, Engines, MlDetectors
  <2> QED  BY <1>0, <1>1, <1>2, <2>1 DEF ReqInv
<1>4. CallInv(q)'
  BY <1>0 DEF CallInv, startVars, Credential, ChatAuth, MessagesAuth, NoCredential, HeadersOf,
         CollectPassthrough, Readable, ConfiguredKey
<1>5. Honest(q)' /\ RestoredFor(q)'
  BY <1>0 DEF RestoredFor, Honest, Deserved, Usable, startVars
<1> QED  BY <1>1, <1>2, <1>3, <1>4, <1>5, OneRequest

(* A task ends, with a verdict that leaves no required engine out.         *)
LEMMA TaskEndsKeeps ==
  ASSUME IInv, NEW q \in Requests, TaskEnds(q), UNCHANGED startVars
  PROVE  IInv'
<1>0. /\ ReqInv(q) /\ CallInv(q) /\ Honest(q) /\ RestoredFor(q)
      /\ q \in working /\ outcome[q] = None /\ client[q] # "away" /\ phase = "serving"
  BY DEF IInv, ReqInv, TaskEnds
<1>1. /\ working' = working \ {q}
      /\ UNCHANGED <<ask, client, handler, pool, sent, reply, answer>>
  BY DEF TaskEnds
<1>2. /\ \A d \in MlDetectors : d.failOpen = ~Flag(env.required) /\ d.engine \in {"ner", "gliner"}
      /\ Flag(env.required) => MlDetectors # {}
      /\ Flag(env.required) \in BOOLEAN
  <2>1. detectors \in Seq(DetectorType) /\ env \in EnvType
    BY StartAssumption DEF IInv, StartInv
  <2>2. \A d \in MlDetectors : d \in DetectorType /\ d.engine # "structured"
    BY <2>1 DEF MlDetectors
  <2> QED  BY <1>0, <2>1, <2>2 DEF IInv, StartInv, DetectorType, Flag
<1>7. PICK failing \in SUBSET MlDetectors :
        \E o \in Masking(failing) \cup {[result |-> x, by |-> {}] : x \in {"blocked", "panicked"}} :
          outcome' = [outcome EXCEPT ![q] = o]
  BY DEF TaskEnds
<1>3. PICK o \in Masking(failing) \cup {[result |-> x, by |-> {}] : x \in {"blocked", "panicked"}} :
        outcome' = [outcome EXCEPT ![q] = o]
  BY <1>7
<1>4. CASE o.result = "masked"
  <2>1. o = [result |-> "masked", by |-> {d.engine : d \in MlDetectors \ failing}]
        /\ ~\E d \in failing : ~d.failOpen
    BY <1>3, <1>4 DEF Masking
  <2>2. o \in OutcomeType
    BY <1>2, <2>1 DEF OutcomeType
  <2>3. Flag(env.required) => failing = {}
    BY <1>2, <2>1
  <2>4. Flag(env.required) => o.by = Engines /\ o.by # {}
    BY <1>2, <2>1, <2>3 DEF Engines
  <2> QED  BY <1>0, <1>1, <1>3, <2>2, <2>4, TaskVerdict
<1>5. CASE o.result # "masked"
  <2>1. o \in {[result |-> x, by |-> {}] : x \in {"blocked", "panicked"}}
    BY <1>3, <1>5 DEF Masking
  <2>2. o \in OutcomeType
    BY <2>1 DEF OutcomeType
  <2> QED  BY <1>0, <1>1, <1>3, <1>5, <2>2, TaskVerdict
<1> QED  BY <1>4, <1>5

(* ---- what follows ------------------------------------------------------ *)
LEMMA ProxyInductive == IInv /\ [Next]_vars => IInv'
<1> SUFFICES ASSUME IInv, [Next]_vars PROVE IInv'
  OBVIOUS
<1>1. CASE UNCHANGED vars
  <2>1. TypeOK'
    BY <1>1, TypedStart DEF IInv, TypeOK, vars, reqVars
  <2>2. PoolInv' /\ Pooled' = Pooled
    BY <1>1 DEF IInv, PoolInv, Pooled, vars, reqVars
  <2>3. ASSUME NEW r \in Requests
        PROVE  ReqInv(r)' /\ CallInv(r)' /\ Honest(r)' /\ RestoredFor(r)'
    BY <1>1, <2>2, OthersKept DEF IInv, vars, reqVars
  <2>4. StartInv'
    BY <1>1, StartStays DEF IInv, vars
  <2> QED  BY <2>1, <2>2, <2>3, <2>4 DEF IInv
<1>2. CASE Starting
  BY <1>2, StartingKeeps
<1>3. CASE Serving
  <2>1. phase = "serving" /\ ReqNext /\ UNCHANGED startVars
    BY <1>3 DEF Serving
  <2>2. CASE TaskStarts
    BY <2>1, <2>2, TaskStartsKeeps
  <2>3. ASSUME NEW r \in Requests,
               TaskEnds(r) \/ HandlerSteps(r) \/ ClientSteps(r) \/ ProviderSteps(r)
        PROVE  IInv'
    <3>1. CASE TaskEnds(r)
      BY <2>1, <3>1, TaskEndsKeeps
    <3>2. CASE Send(r)
      BY <2>1, <3>2, SendKeeps
    <3>3. CASE UpstreamReplies(r)
      BY <2>1, <3>3, ReplyKeeps
    <3>4. CASE Leave(r)
      BY <2>1, <3>4, LeaveKeeps
    <3>5. CASE \E a \in Asks : Arrive(r, a)
      BY <2>1, <3>5, ArriveKeeps
    <3>6. CASE \/ RefuseUnmasked(r) \/ Unauthorized(r) \/ FinishBuffered(r) \/ BadGateway(r)
               \/ BufferedFallback(r) \/ OpenStream(r) \/ StreamEnds(r) \/ StreamFails(r)
      BY <2>1, <3>6, HandlerAnswers
    <3> QED  BY <2>3, <3>1, <3>2, <3>3, <3>4, <3>5, <3>6 DEF HandlerSteps, ClientSteps, ProviderSteps
  <2> QED  BY <2>1, <2>2, <2>3 DEF ReqNext
<1> QED  BY <1>1, <1>2, <1>3 DEF Next

LEMMA ProxyInvariant == Spec => []IInv
  BY ProxyBegins, ProxyInductive, PTL DEF Spec

(* A process serves only on the configuration it needs: with NER_REQUIRED  *)
(* it has its engines and none of them fails open (server.rs               *)
(* build_detector), whatever loads and whatever does not.                  *)
THEOREM ProxyServesAsConfigured == Spec => []ServesAsConfigured
<1>1. IInv => ServesAsConfigured
  BY StartSuffices DEF IInv
<1> QED  BY <1>1, ProxyInvariant, PTL

(* The provider hears only of requests that were masked to the end, and    *)
(* with NER_REQUIRED of none that an engine left out (run_privacy_stages). *)
THEOREM ProxySendsExamined == Spec => []SentOnlyExamined
<1>1. IInv => SentOnlyExamined
  BY DEF IInv, ReqInv, SentOnlyExamined
<1> QED  BY <1>1, ProxyInvariant, PTL

(* A refused request was never sent; one that was sent is answered with    *)
(* the provider's words and status exactly if its reply could be used, and *)
(* with a failure only if the call failed or the reply could not           *)
(* (finish_buffered, finish_streaming, buffered_fallback).                 *)
THEOREM ProxyAnswersHonestly == Spec => []AnswersAreHonest
<1>1. IInv => AnswersAreHonest
  BY DEF IInv, Honest, Deserved, AnswersAreHonest
<1> QED  BY <1>1, ProxyInvariant, PTL

(* On every path of an answer a client reads its own values again unless   *)
(* the operator asked for placeholders (PII_DEBUG_SKIP_DEMASK).            *)
THEOREM ProxyRestoresOnEveryPath == Spec => []RestoredOnEveryPath
<1>1. IInv => RestoredOnEveryPath
  BY DEF IInv, RestoredFor, RestoredOnEveryPath
<1> QED  BY <1>1, ProxyInvariant, PTL

(* A request carries the first of its bearer token, on /v1/messages its    *)
(* x-api-key, and the operator's key, each in the header of its kind on    *)
(* that route, and a 401 of the proxy's own means that there was none      *)
(* (messages_auth, build).                                                 *)
THEOREM ProxyKeepsCredentialsApart == Spec => []CredentialsStayApart
<1> DEFINE own(r) == ask[r].route = "messages" /\ ask[r].apiKey
           cr(r) == sent[r].credential
<1>1. ASSUME IInv, NEW r \in Requests, sent[r] # None
      PROVE  /\ cr(r) = <<"authorization", "client">> <=> ask[r].auth = "bearer"
             /\ cr(r) = <<"x-api-key", "client">> <=> ask[r].auth # "bearer" /\ own(r)
             /\ cr(r)[2] = "proxy" <=> ask[r].auth # "bearer" /\ ~own(r) /\ env.key = "set"
             /\ cr(r)[2] = "proxy" => (cr(r)[1] = "x-api-key" <=> ask[r].route = "messages")
             /\ cr(r)[2] = "none" => ask[r].route # "messages"
             /\ ask[r].route = "messages" =>
                  Cardinality({h \in sent[r].headers : h[1] = Version}) = 1
  <2>1. sent[r].credential = Credential(ask[r]) /\ sent[r].headers = HeadersOf(ask[r])
        /\ (ask[r].route = "messages" => Credential(ask[r])[2] # "none")
    BY <1>1 DEF IInv, CallInv
  <2>0. ask[r] \in AskType
    <3>1. ask[r] \in Asks /\ Asks \subseteq AskType
      BY <1>1, ProxyAssumption DEF IInv, TypeOK, ReqInv
    <3> QED  BY <3>1
  <2>5. ask[r].apiKey \in BOOLEAN
    BY <2>0 DEF AskType
  <2>2. ask[r].route = "messages" =>
          Cardinality({h \in HeadersOf(ask[r]) : h[1] = Version}) = 1
    <3> DEFINE both == CollectPassthrough(ask[r])
               passed == {<<h, "client">> : h \in both}
    <3> SUFFICES ASSUME ask[r].route = "messages"
                 PROVE  \E x : {h \in HeadersOf(ask[r]) : h[1] = Version} = {x}
      BY FS_Singleton
    <3>1. CASE Version \in both
      <4>1. HeadersOf(ask[r]) = passed
        BY <3>1 DEF HeadersOf
      <4>2. {h \in passed : h[1] = Version} = {<<Version, "client">>}
        BY <3>1
      <4> QED  BY <4>1, <4>2
    <3>2. CASE Version \notin both
      <4>1. HeadersOf(ask[r]) = passed \cup {<<Version, "proxy">>}
        BY <3>2 DEF HeadersOf
      <4>2. {h \in passed \cup {<<Version, "proxy">>} : h[1] = Version} = {<<Version, "proxy">>}
        BY <3>2
      <4> QED  BY <4>1, <4>2
    <3> QED  BY <3>1, <3>2
  <2>3. CASE ask[r].route = "messages"
    BY <2>1, <2>2, <2>3, <2>5 DEF Credential, MessagesAuth, NoCredential, Readable, ConfiguredKey
  <2>4. CASE ask[r].route # "messages"
    BY <2>1, <2>4 DEF Credential, ChatAuth, NoCredential, Readable, ConfiguredKey
  <2> QED  BY <2>3, <2>4
<1>2. ASSUME IInv, NEW r \in Requests, answer[r] # None, answer[r].status = 401, reply[r] = None
      PROVE  env.key # "set" /\ ~ask[r].apiKey /\ ask[r].auth # "bearer"
  BY <1>2 DEF IInv, CallInv, Credential, ChatAuth, MessagesAuth, NoCredential,
         Readable, ConfiguredKey
<1>3. IInv => CredentialsStayApart
  BY <1>1, <1>2 DEF CredentialsStayApart
<1> QED  BY <1>3, ProxyInvariant, PTL
=============================================================================
