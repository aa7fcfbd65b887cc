-------------------------------- MODULE Proxy --------------------------------
(***************************************************************************)
(* The life of the requests of a process that serves: routing, masking on  *)
(* the blocking pool, the choice of a credential, the one call upstream,   *)
(* and the answer on each of its paths (src/src/server.rs, proxy.rs), with *)
(* clients that leave at any moment.  What is done to a text is            *)
(* PrivacyStage and SseDemasker; here it is told apart by what was scanned *)
(* and what was restored.                                                  *)
(***************************************************************************)
EXTENDS Startup

CONSTANTS Requests,
          Asks,     \* what a client may ask
          Replies,  \* what the provider may reply with
          Workers   \* threads of the blocking pool

(* The upstream's status and what its body is.                             *)
ReplyType == [status : Nat, kind : {"json", "sse", "other"}]
AskType ==
  [ route   : {"chat", "messages", "unknown"},
    json    : BOOLEAN,                      \* the body is JSON and fits
    stream  : BOOLEAN,
    auth    : {"none", "opaque", "bearer"}, \* "opaque": no visible ASCII
    apiKey  : BOOLEAN,                      \* x-api-key
    headers : SUBSET HeaderNames,
    secret  : BOOLEAN ]                     \* something to mask is in it

ASSUME ProxyAssumption == /\ Asks \subseteq AskType /\ Replies \subseteq ReplyType
                          /\ Workers \in Nat \ {0} /\ "anthropic-version" \in HeaderNames

None == [none |-> TRUE]
VARIABLES ask, client,
          handler,  \* where the handler's future is
          pool,     \* masking tasks that wait for a thread
          working,  \* masking tasks that have one
          outcome,  \* what the masking task has ended with
          sent,     \* what the provider has been sent
          reply,    \* what the provider has replied
          answer    \* what the client has been answered
reqVars == <<ask, client, handler, pool, working, outcome, sent, reply, answer>>
vars == <<startVars, reqVars>>

ReqInit ==
  /\ ask = [r \in Requests |-> None]
  /\ client = [r \in Requests |-> "away"]
  /\ handler = [r \in Requests |-> "none"]
  /\ pool = <<>> /\ working = {}
  /\ outcome = [r \in Requests |-> None]
  /\ sent = [r \in Requests |-> None]
  /\ reply = [r \in Requests |-> None]
  /\ answer = [r \in Requests |-> None]

(* Answers: the status, what the body is made of, and how its stream ended.*)
Answered(status, body) == [status |-> status, body |-> body, end |-> "whole"]
Answer(r, a) == /\ answer' = [answer EXCEPT ![r] = a]
                /\ handler' = [handler EXCEPT ![r] = IF a.end = "open" THEN "streaming" ELSE "ended"]
Refusal(status) == Answered(status, "refused")

(* What keeps a request from its handler: no such route (/v1/messages is   *)
(* one only with Anthropic), or a body that the extractor refuses.         *)
Rejection(a) ==
  CASE a.route = "unknown" \/ (a.route = "messages" /\ env.provider # "anthropic") -> 404
    [] OTHER -> IF a.json THEN 0 ELSE 400

Arrive(r, a) ==
  /\ client[r] = "away"
  /\ ask' = [ask EXCEPT ![r] = a]
  /\ client' = [client EXCEPT ![r] = "there"]
  /\ IF Rejection(a) # 0
       THEN Answer(r, Refusal(Rejection(a))) /\ UNCHANGED pool
       ELSE /\ handler' = [handler EXCEPT ![r] = "masking"]
            /\ pool' = Append(pool, r)
            /\ UNCHANGED answer
  /\ UNCHANGED <<working, outcome, sent, reply>>

TaskStarts ==
  /\ pool # <<>> /\ Cardinality(working) < Workers
  /\ working' = working \cup {Head(pool)} /\ pool' = Tail(pool)
  /\ UNCHANGED <<ask, client, handler, outcome, sent, reply, answer>>

(* The stage scans with every detector.  It may panic; it may refuse for a *)
(* reason of its own; and a detector that fails makes it refuse unless it  *)
(* is wrapped in FailOpen.  The task runs to its end whoever waits for it. *)
\* Mutant: what a failing detector leaves out is taken for scanned.
MaskingOpen(failing) == {[result |-> "masked", by |-> {d.engine : d \in MlDetectors \ failing}]}

Masking(failing) ==
  IF \E d \in failing : ~d.failOpen THEN {[result |-> "blocked", by |-> {}]}
  ELSE {[result |-> "masked", by |-> {d.engine : d \in MlDetectors \ failing}]}
\* Mutant: a task whose client has left does not give its thread back.
TaskEndsAttached(r) ==
  /\ r \in working /\ client[r] = "there"
  /\ \E failing \in SUBSET MlDetectors : \E o \in Masking(failing) : outcome' = [outcome EXCEPT ![r] = o]
  /\ working' = working \ {r}
  /\ UNCHANGED <<ask, client, handler, pool, sent, reply, answer>>

TaskEnds(r) ==
  /\ r \in working
  /\ \E failing \in SUBSET MlDetectors :
       \E o \in Masking(failing) \cup {[result |-> x, by |-> {}] : x \in {"blocked", "panicked"}} :
         outcome' = [outcome EXCEPT ![r] = o]
  /\ working' = working \ {r}
  /\ UNCHANGED <<ask, client, handler, pool, sent, reply, answer>>

Examined(r) == handler[r] = "masking" /\ outcome[r] # None

RefuseUnmasked(r) ==
  /\ Examined(r) /\ outcome[r].result # "masked"
  /\ Answer(r, Refusal(IF outcome[r].result = "panicked" THEN 500 ELSE 400))
  /\ UNCHANGED <<ask, client, pool, working, outcome, sent, reply>>

(* The credential a call carries: on /v1/messages the client's             *)
(* Authorization, else its x-api-key, else the configured key, in a header *)
(* of its own kind; on the chat route Authorization or the key as one.     *)
Readable(a) == a.auth = "bearer"
NoCredential == <<"none", "none">>
ChatAuth(a) == IF Readable(a) THEN <<"authorization", "client">>
               ELSE IF ConfiguredKey THEN <<"authorization", "proxy">> ELSE NoCredential
\* Mutant: the configured key goes before the client's own x-api-key.
MessagesAuthOwnKey(a) == IF Readable(a) THEN <<"authorization", "client">>
                         ELSE IF ConfiguredKey THEN <<"x-api-key", "proxy">>
                         ELSE IF a.apiKey THEN <<"x-api-key", "client">> ELSE NoCredential

MessagesAuth(a) == IF Readable(a) THEN <<"authorization", "client">>
                   ELSE IF a.apiKey THEN <<"x-api-key", "client">>
                   ELSE IF ConfiguredKey THEN <<"x-api-key", "proxy">> ELSE NoCredential
Credential(a) == IF a.route = "messages" THEN MessagesAuth(a) ELSE ChatAuth(a)

Unauthorized(r) ==
  /\ Examined(r) /\ outcome[r].result = "masked"
  /\ ask[r].route = "messages" /\ Credential(ask[r])[2] = "none"
  /\ Answer(r, Refusal(401))
  /\ UNCHANGED <<ask, client, pool, working, outcome, sent, reply>>

(* Allowed client headers go along, and a version if the client gave none. *)
Version == "anthropic-version"
CollectPassthrough(a) == a.headers \cap ForwardRequestHeaders(env)
HeadersOf(a) ==
  LET passed == {<<h, "client">> : h \in CollectPassthrough(a)} IN
  IF a.route = "messages" /\ Version \notin CollectPassthrough(a)
  THEN passed \cup {<<Version, "proxy">>} ELSE passed

Send(r) ==
  /\ Examined(r) /\ outcome[r].result = "masked"
  /\ ask[r].route = "messages" => Credential(ask[r])[2] # "none"
  /\ sent' = [sent EXCEPT ![r] = [credential |-> Credential(ask[r]),
                                  headers |-> HeadersOf(ask[r]), by |-> outcome[r].by]]
  /\ handler' = [handler EXCEPT ![r] = "waiting"]
  /\ UNCHANGED <<ask, client, pool, working, outcome, reply, answer>>

(* The provider replies, or the call fails.                                *)
Failed == [status |-> 0, kind |-> "none"]
UpstreamReplies(r) ==
  /\ handler[r] = "waiting" /\ reply[r] = None
  /\ \E p \in Replies \cup {Failed} : reply' = [reply EXCEPT ![r] = p]
  /\ UNCHANGED <<ask, client, handler, pool, working, outcome, sent, answer>>

Replied(r) == handler[r] = "waiting" /\ reply[r] # None
Restored == IF Flag(env.skip) THEN "as sent" ELSE "restored"

FinishBuffered(r) ==
  /\ Replied(r) /\ ~ask[r].stream /\ reply[r].kind = "json"
  /\ Answer(r, Answered(reply[r].status, Restored))
  /\ UNCHANGED <<ask, client, pool, working, outcome, sent, reply>>

BadGateway(r) ==
  /\ Replied(r) /\ (reply[r] = Failed \/ (~ask[r].stream /\ reply[r].kind # "json"))
  /\ Answer(r, Answered(502, "failure"))
  /\ UNCHANGED <<ask, client, pool, working, outcome, sent, reply>>

\* Mutant: the fallback hands the provider's JSON on as it is.
FallbackUnrestored(r) ==
  /\ Replied(r) /\ ask[r].stream /\ reply[r].kind \in {"json", "other"}
  /\ Answer(r, Answered(reply[r].status, IF reply[r].kind = "json" THEN "as sent" ELSE "failure"))
  /\ UNCHANGED <<ask, client, pool, working, outcome, sent, reply>>

\* Mutant: what is no stream is a bad gateway, the provider's JSON too.
FallbackGivesUp(r) ==
  /\ Replied(r) /\ ask[r].stream /\ reply[r].kind \in {"json", "other"}
  /\ Answer(r, Answered(502, "failure"))
  /\ UNCHANGED <<ask, client, pool, working, outcome, sent, reply>>

(* A stream was asked for and none came.                                   *)
BufferedFallback(r) ==
  /\ Replied(r) /\ ask[r].stream /\ reply[r].kind \in {"json", "other"}
  /\ Answer(r, Answered(reply[r].status, IF reply[r].kind = "json" THEN Restored ELSE "failure"))
  /\ UNCHANGED <<ask, client, pool, working, outcome, sent, reply>>

(* With nothing masked, or nothing to restore, the bytes pass untouched.   *)
PassesRaw(r) == Flag(env.skip) \/ ~ask[r].secret
OpenStream(r) ==
  /\ Replied(r) /\ ask[r].stream /\ reply[r].kind = "sse"
  /\ Answer(r, [status |-> reply[r].status, end |-> "open",
                body |-> IF PassesRaw(r) THEN "as sent" ELSE "restored"])
  /\ UNCHANGED <<ask, client, pool, working, outcome, sent, reply>>

StreamEnds(r) ==
  /\ handler[r] = "streaming"
  /\ Answer(r, [answer[r] EXCEPT !.end = "whole"])
  /\ UNCHANGED <<ask, client, pool, working, outcome, sent, reply>>

(* The upstream fails in mid-stream: the de-masker tells it in an event of *)
(* its own and ends, a raw stream is broken off.                           *)
StreamFails(r) ==
  /\ handler[r] = "streaming"
  /\ Answer(r, [answer[r] EXCEPT !.end = IF PassesRaw(r) THEN "aborted" ELSE "told"])
  /\ UNCHANGED <<ask, client, pool, working, outcome, sent, reply>>

(* A client that leaves takes the handler's future along, and with it the  *)
(* call upstream or the stream; its masking task stays.                    *)
Leave(r) ==
  /\ client[r] = "there" /\ handler[r] # "ended"
  /\ client' = [client EXCEPT ![r] = "left"]
  /\ handler' = [handler EXCEPT ![r] = "ended"]
  /\ UNCHANGED <<ask, pool, working, outcome, sent, reply, answer>>

HandlerSteps(r) == \/ RefuseUnmasked(r) \/ Unauthorized(r) \/ Send(r)
                   \/ FinishBuffered(r) \/ BadGateway(r) \/ BufferedFallback(r) \/ OpenStream(r)
ClientSteps(r) == Leave(r) \/ \E a \in Asks : Arrive(r, a)
ProviderSteps(r) == UpstreamReplies(r) \/ StreamEnds(r) \/ StreamFails(r)

ReqNext == \/ TaskStarts
           \/ \E r \in Requests : TaskEnds(r) \/ HandlerSteps(r) \/ ClientSteps(r) \/ ProviderSteps(r)

Init == StartInit /\ ReqInit
Starting == StartNext /\ UNCHANGED reqVars
Serving == phase = "serving" /\ ReqNext /\ UNCHANGED startVars
Next == Starting \/ Serving
Spec == Init /\ [][Next]_vars

(* The process runs its own steps; clients and the provider owe nothing.   *)
OwnTask == phase = "serving" /\ UNCHANGED startVars /\ (TaskStarts \/ \E r \in Requests : TaskEnds(r))
OwnStep(r) == phase = "serving" /\ UNCHANGED startVars /\ HandlerSteps(r)
FairSpec == Spec /\ WF_vars(Starting) /\ WF_vars(OwnTask) /\ \A r \in Requests : WF_vars(OwnStep(r))

-----------------------------------------------------------------------------
OutcomeType == [result : {"masked", "blocked", "panicked"}, by : SUBSET {"ner", "gliner"}]
SentType == [credential : {"authorization", "x-api-key", "none"} \X {"client", "proxy", "none"},
             headers : SUBSET (HeaderNames \X {"client", "proxy"}), by : SUBSET {"ner", "gliner"}]
AnswerType == [status : Nat, body : {"refused", "failure", "restored", "as sent"},
               end : {"open", "whole", "told", "aborted"}]
TypeOK ==
  /\ StartTypeOK
  /\ ask \in [Requests -> Asks \cup {None}]
  /\ client \in [Requests -> {"away", "there", "left"}]
  /\ handler \in [Requests -> {"none", "masking", "waiting", "streaming", "ended"}]
  /\ outcome \in [Requests -> OutcomeType \cup {None}]
  /\ sent \in [Requests -> SentType \cup {None}]
  /\ reply \in [Requests -> Replies \cup {Failed, None}]
  /\ answer \in [Requests -> AnswerType \cup {None}]
  /\ pool \in Seq(Requests) /\ working \subseteq Requests

(* The provider hears only of requests that were masked to the end; if     *)
(* names are required, every engine for them that the process loaded has   *)
(* scanned the request, and there is one: no combination of builds,        *)
(* environments, models that do not load and detectors that fail lets a    *)
(* request through unscanned (server.rs build_detector, wrap_ml,           *)
(* run_privacy_stages, messages).                                          *)
SentOnlyExamined ==
  \A r \in Requests : sent[r] # None =>
    /\ outcome[r] # None /\ outcome[r].result = "masked"
    /\ sent[r].by = outcome[r].by
    /\ Flag(env.required) => /\ sent[r].by # {}
                       /\ sent[r].by = Engines

(* A reply the proxy can hand on: JSON, or the stream that was asked for.  *)
Usable(r) == reply[r].kind = "json" \/ (ask[r].stream /\ reply[r].kind = "sse")

(* A request that is refused has not been sent.  One that has been sent is *)
(* answered with the provider's words, under the provider's status,        *)
(* exactly if its reply could be used: a failure is reported only of a     *)
(* call that failed, with 502, or of a body that was neither JSON nor the  *)
(* stream asked for, with 502 if JSON was and the provider's status if a   *)
(* stream was (server.rs chat_completions, messages, finish_streaming,     *)
(* buffered_fallback; proxy.rs forward_messages).                          *)
AnswersAreHonest ==
  \A r \in Requests : answer[r] # None =>
    CASE answer[r].body = "refused" ->
           sent[r] = None /\ reply[r] = None /\ answer[r].status >= 400
      [] answer[r].body = "failure" ->
           /\ sent[r] # None /\ reply[r] # None /\ ~Usable(r)
           /\ answer[r].status = IF ask[r].stream /\ reply[r] # Failed THEN reply[r].status ELSE 502
      [] OTHER ->
           /\ sent[r] # None /\ reply[r] \in Replies /\ Usable(r)
           /\ answer[r].status = reply[r].status

(* Whatever path an answer takes - buffered, streamed, or a stream's       *)
(* fallback, with any status - a client with something masked reads its    *)
(* own values again unless the operator asked for the placeholders.        *)
RestoredOnEveryPath ==
  \A r \in Requests : (answer[r] # None /\ answer[r].body \in {"restored", "as sent"}
                        /\ ask[r].secret) => (answer[r].body = "restored" <=> ~Flag(env.skip))

(* A request goes out with the best credential there is for its route and  *)
(* with no other: a bearer token of the client's always, as Authorization; *)
(* else, on /v1/messages alone, the client's x-api-key as such; and only   *)
(* else the operator's key, if it is set, as x-api-key on /v1/messages and *)
(* as Authorization on the chat route.  Of /v1/messages one version goes   *)
(* along, and a request is refused for want of a credential only if there  *)
(* is none (proxy.rs messages_auth, build, config.rs from_env).            *)
CredentialsStayApart ==
  \A r \in Requests :
    /\ sent[r] # None =>
         LET credential == sent[r].credential
             own == ask[r].route = "messages" /\ ask[r].apiKey
         IN /\ credential = <<"authorization", "client">> <=> ask[r].auth = "bearer"
            /\ credential = <<"x-api-key", "client">> <=> ask[r].auth # "bearer" /\ own
            /\ credential[2] = "proxy" <=> ask[r].auth # "bearer" /\ ~own /\ env.key = "set"
            /\ credential[2] = "proxy" => (credential[1] = "x-api-key" <=> ask[r].route = "messages")
            /\ credential[2] = "none" => ask[r].route # "messages"
    /\ (sent[r] # None /\ ask[r].route = "messages") =>
         Cardinality({h \in sent[r].headers : h[1] = Version}) = 1
    /\ (answer[r] # None /\ answer[r].status = 401 /\ reply[r] = None) =>
         env.key # "set" /\ ~ask[r].apiKey /\ ask[r].auth # "bearer"

(* The proxy never sits on a request: a process comes up or ends, a        *)
(* request is decided on, behind however many that departed clients left   *)
(* in the pool, and a reply is passed on.  Only the provider may make a    *)
(* client wait (server.rs run_privacy_stages; there is no timeout).        *)
ProxysTurn(r) == handler[r] = "masking" \/ Replied(r)
NeverSitsOnARequest ==
  /\ <>(phase \in {"serving", "exited"})
  /\ \A r \in Requests : ProxysTurn(r) ~> ~ProxysTurn(r)
=============================================================================
