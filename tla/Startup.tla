------------------------------- MODULE Startup -------------------------------
(***************************************************************************)
(* How the process comes to serve: main reads the arguments, Config reads  *)
(* the environment, AppState::new builds the detectors and run binds the   *)
(* listener (src/src/main.rs, config.rs, server.rs, pii/hf.rs).  Each step *)
(* may end the process; what it loads decides later whether a request is   *)
(* scanned for names at all.                                               *)
(***************************************************************************)
EXTENDS Naturals, Sequences, FiniteSets

CONSTANTS Lines,  \* command lines the process may be started with
          Envs,   \* environments it may be started in
          HeaderNames  \* names of request headers, in lower case

(* The files a model in a repository consists of.                          *)
ModelFiles == {"model", "tokenizer", "config"}

(* An argument is one of the three flags, or "other".  The environment is  *)
(* what from_env and build_detector tell apart of it.                      *)
Arguments == {"bench", "version", "help", "other"}

Raw == {"unset", "on", "other"}                     \* of a flag
List(S) == [given : BOOLEAN, items : SUBSET S]      \* of a list, once it is split
EnvType ==
  [ onnx     : BOOLEAN,                   \* built with the feature
    bad      : {"none", "LISTEN_ADDR", "MAX_BODY_BYTES", "PII_CACHE_ENTRIES"},
    url      : {"http", "https", "other", "unreadable"}, \* UPSTREAM_BASE_URL
    required : Raw,                       \* NER_REQUIRED
    skip     : Raw,                       \* PII_DEBUG_SKIP_DEMASK
    backend  : STRING,                    \* NER_EXECUTION_PROVIDER
    ner      : {"unset", "partial", "local", "repo"},
    slash    : BOOLEAN,                   \* NER_MODEL_REPO is owner/name
    cached   : SUBSET ModelFiles,
    ids      : SUBSET Nat,                \* class ids in config.json
    gliner   : {"unset", "partial", "set"},
    threshold : {"unset", "probability", "other"},
    labels   : List(STRING),              \* GLINER_LABELS
    provider : {"openai", "anthropic", "copilot", "other"},
    key      : {"unset", "blank", "set"}, \* UPSTREAM_API_KEY
    forward  : List(HeaderNames) ]        \* UPSTREAM_FORWARD_HEADERS

(* env_flag: whatever is no spelling of yes is a no.                       *)
Flag(raw) == raw = "on"

ASSUME StartAssumption == /\ Lines \subseteq Seq(Arguments)
                          /\ Envs \subseteq EnvType
                          /\ \A e \in Envs : IsFiniteSet(e.ids)

VARIABLES line, env,
          phase,     \* how far main has come
          code,      \* the exit code, once it has ended
          detectors  \* what build_detector has pushed so far
startVars == <<line, env, phase, code, detectors>>

Running == 256  \* larger than any exit code: the process runs
Detector(engine, failOpen) == [engine |-> engine, failOpen |-> failOpen]
Structured == Detector("structured", FALSE)
MlDetectors == {d \in {detectors[i] : i \in DOMAIN detectors} : d.engine # "structured"}

Engines == {d.engine : d \in MlDetectors}

StartInit ==
  /\ line \in Lines /\ env \in Envs
  /\ phase = "arguments" /\ code = Running /\ detectors = <<>>

Exit(c) == phase' = "exited" /\ code' = c /\ UNCHANGED <<line, env, detectors>>
GoOn(p) == phase' = p /\ UNCHANGED <<line, env, code, detectors>>

(* Every argument is read before any is acted on; a later flag wins.       *)
Mode(args) == IF "other" \in {args[i] : i \in DOMAIN args} THEN "refused"
              ELSE IF args = <<>> THEN "serve" ELSE args[Len(args)]

ParseArgs ==
  /\ phase = "arguments"
  /\ CASE Mode(line) = "refused" -> Exit(1)
       [] Mode(line) \in {"version", "help"} -> Exit(0)
       [] Mode(line) = "bench" -> GoOn("benchmark")
       [] OTHER -> GoOn("config")

(* config.json's labels are usable when its ids run from 0 without a gap;  *)
(* they are parsed even when NER_LABELS overrides them.                    *)
LabelsUsable(ids) == ids # {} /\ ids = 0 .. Cardinality(ids) - 1

(* A file comes out of the cache, or over the network if it comes at all.  *)
Fetched(e, came, file) == file \in e.cached \cup came
Resolve(e, came) ==
  IF e.slash /\ (\A file \in ModelFiles : Fetched(e, came, file)) /\ LabelsUsable(e.ids)
  THEN "model" ELSE "error"

(* What resolve_ner_model may give: a model, nothing, or an error.         *)
Resolved(e) ==
  CASE e.ner \in {"unset", "partial"} -> {"none"}
    [] e.ner = "local"                -> {"model"}
    [] e.ner = "repo" -> {Resolve(e, came) : came \in SUBSET ModelFiles}

(* --bench-providers measures and exits; it never serves.                  *)
Benchmark ==
  /\ phase = "benchmark"
  /\ IF ~env.onnx THEN Exit(0)
     ELSE \E model \in Resolved(env) : Exit(IF model = "model" THEN 0 ELSE 1)

(* The provider is spoken to over http, or not at all.                     *)
CheckedUpstreamBaseUrl(e) == e.url \in {"http", "https"}
ReadConfig ==
  /\ phase = "config"
  /\ IF env.bad # "none" \/ ~CheckedUpstreamBaseUrl(env) THEN Exit(1) ELSE GoOn("detector")

(* The spellings of each backend; no other name is one.                    *)
ExecutionProvider ==
  [cpu |-> {"", "cpu"}, directml |-> {"directml", "dml"}, cuda |-> {"cuda"},
   tensorrt |-> {"tensorrt", "trt"}, coreml |-> {"coreml"}, rocm |-> {"rocm"},
   openvino |-> {"openvino", "vino"}, webgpu |-> {"webgpu"}]
BackendKnown(e) == \E p \in DOMAIN ExecutionProvider : e.backend \in ExecutionProvider[p]

BuildStructured ==
  /\ phase = "detector"
  /\ IF (Flag(env.required) /\ ~env.onnx) \/ (env.onnx /\ ~BackendKnown(env))
       THEN Exit(1)
       ELSE /\ phase' = IF env.onnx THEN "ner" ELSE "bind"
            /\ detectors' = <<Structured>>
            /\ UNCHANGED <<line, env, code>>

FailsOpen(required) == ~required  \* wrap_ml

(* An engine is pushed, is not configured, or is and cannot be loaded.     *)
Load(engine, outcome, next) ==
  CASE outcome = "model" -> /\ detectors' = Append(detectors, Detector(engine, FailsOpen(Flag(env.required))))
                            /\ phase' = next /\ UNCHANGED <<line, env, code>>
    [] outcome = "none"  -> GoOn(next)
    [] outcome = "error" -> IF Flag(env.required) THEN Exit(1) ELSE GoOn(next)
LoadNer ==
  /\ phase = "ner"
  /\ \E outcome \in Resolved(env) \cup {o \in {"error"} : "model" \in Resolved(env)} :
       Load("ner", outcome, "gliner")

(* The names each kind of thing goes by; a label that names none of them   *)
(* is an error, and so is a list without a label.                          *)
GlinerKinds ==
  [Person |-> {"person", "name", "full name", "person name", "people"},
   Organization |-> {"organization", "organisation", "company", "org"},
   Location |-> {"location", "address", "city", "place", "gpe", "country"},
   Phone |-> {"phone number", "phone", "telephone", "telephone number", "mobile number"}]
GlinerLabelToKind(label) == {k \in DOMAIN GlinerKinds : label \in GlinerKinds[k]}
DefaultGlinerLabels == {"person", "organization", "location", "phone number", "address"}
GlinerLabels(e) == IF e.labels.given THEN e.labels.items \ {""} ELSE DefaultGlinerLabels
LabelsParse(labels) == labels # {} /\ \A l \in labels : GlinerLabelToKind(l) # {}

(* A GLiNER model without its companions, or with a threshold that is no   *)
(* probability, is an error and not an opt-out.                            *)
Gliner(e) ==
  CASE e.gliner = "unset" -> {"none"}
    [] e.gliner = "set" /\ e.threshold # "other" /\ LabelsParse(GlinerLabels(e)) -> {"model", "error"}
    [] OTHER -> {"error"}

LoadGliner ==
  /\ phase = "gliner"
  /\ \E outcome \in Gliner(env) : Load("gliner", outcome, "ensure")

\* Mutant: nobody asks at the end whether any engine has been loaded.
EnsureNothing == phase = "ensure" /\ GoOn("bind")
EnsureLoaded ==
  /\ phase = "ensure"
  /\ IF Flag(env.required) /\ MlDetectors = {} THEN Exit(1) ELSE GoOn("bind")

Bind == phase = "bind" /\ \E free \in BOOLEAN : IF free THEN GoOn("serving") ELSE Exit(1)

StartNext == \/ ParseArgs \/ Benchmark \/ ReadConfig \/ BuildStructured
             \/ LoadNer \/ LoadGliner \/ EnsureLoaded \/ Bind

(* The key the upstream client is built with: a blank one counts as unset. *)
ConfiguredKey == env.key = "set"

(* The client's headers that go along: the operator's list, an empty one   *)
(* included, or what the provider's preset says.                           *)
ProviderPreset(name) ==
  CASE name = "copilot"   -> {"editor-version", "editor-plugin-version",
                              "copilot-integration-id", "openai-intent"}
    [] name = "anthropic" -> {"anthropic-version", "anthropic-beta"}
    [] OTHER              -> {"openai-organization", "openai-project"}
ForwardRequestHeaders(e) ==
  IF e.forward.given THEN e.forward.items \ {""} ELSE ProviderPreset(e.provider)

-----------------------------------------------------------------------------
StartTypeOK ==
  /\ line \in Lines /\ env \in Envs
  /\ phase \in {"arguments", "benchmark", "config", "detector", "ner", "gliner",
                "ensure", "bind", "serving", "exited"}
  /\ code \in {Running, 0, 1}
  /\ detectors \in Seq([engine : {"structured", "ner", "gliner"}, failOpen : BOOLEAN])

(* A process that serves was started without arguments on a readable       *)
(* configuration and scans every text for structured values.  If it was    *)
(* told that names are required it has an engine for them, every engine it *)
(* was given the whole configuration of, and none whose failures are       *)
(* swallowed; and no engine runs on labels with a gap, labels that name no *)
(* kind, or without its companion files (main.rs parse_args, server.rs     *)
(* build_detector, hf.rs, gliner_decode.rs).                               *)
ServesAsConfigured ==
  phase = "serving" =>
    /\ line = <<>> /\ env.bad = "none" /\ env.url \in {"http", "https"}
    /\ detectors # <<>> /\ detectors[1] = Structured
    /\ Flag(env.required) =>
                       /\ MlDetectors # {}
                       /\ \A d \in MlDetectors : ~d.failOpen
                       /\ env.ner \in {"local", "repo"} => "ner" \in Engines
                       /\ env.gliner # "unset" => "gliner" \in Engines
    /\ "gliner" \in Engines => /\ env.gliner = "set" /\ env.threshold # "other"
                               /\ env.labels.given => env.labels.items \ {""} # {}
                               /\ \A l \in GlinerLabels(env) : GlinerLabelToKind(l) # {}
    /\ "ner" \in Engines =>
         env.ner = "local" \/ (env.slash /\ \A i \in env.ids : 0 .. i \subseteq env.ids)
=============================================================================
