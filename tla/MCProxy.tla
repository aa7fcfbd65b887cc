------------------------------- MODULE MCProxy -------------------------------
(***************************************************************************)
(* Every way of starting for one environment of requests, and every        *)
(* environment of requests for a few ways of starting; two clients and one *)
(* thread, so that one client's masking stands behind the other's.         *)
(***************************************************************************)
EXTENDS Proxy

CONSTANTS r1, r2

MCLines == {<<>>} \cup {<<a>> : a \in Arguments} \cup (Arguments \X Arguments)

Unset == [given |-> FALSE, items |-> {}]
Set(items) == [given |-> TRUE, items |-> items]
Base == [onnx |-> TRUE, bad |-> "none", url |-> "https", required |-> "unset", skip |-> "other",
         backend |-> "dml", ner |-> "local", slash |-> TRUE, cached |-> {"model"}, ids |-> {0, 1},
         gliner |-> "unset", threshold |-> "unset", labels |-> Unset,
         provider |-> "anthropic", key |-> "blank", forward |-> Unset]
Strict == [Base EXCEPT !.required = "on", !.ner = "unset"]
MCEnvs ==
  {[Strict EXCEPT !.ner = n, !.gliner = g] : n \in {"unset", "partial", "local"},
                                            g \in {"unset", "partial", "set"}}
  \cup {[Strict EXCEPT !.gliner = "set", !.threshold = t, !.labels = Set(l)] :
          t \in {"probability", "other"},
          l \in {{"", "person", "mobile number"}, {"person", "planet"}, {""}}}
  \cup {[Strict EXCEPT !.ner = "repo", !.ids = i, !.slash = w] :
          i \in {{}, {0, 1}, {0, 2}}, w \in BOOLEAN}
  \cup {[Base EXCEPT !.gliner = g] : g \in {"unset", "partial", "set"}}
  \cup {[Base EXCEPT !.onnx = FALSE, !.required = q] : q \in Raw}
  \cup {[Base EXCEPT !.bad = "LISTEN_ADDR"], [Base EXCEPT !.backend = "vulkan"],
        [Base EXCEPT !.url = "other"]}
  \cup {[Base EXCEPT !.provider = p, !.key = "set", !.skip = s, !.forward = Set({})] :
          p \in {"anthropic", "openai"}, s \in {"on", "unset"}}
  \cup {[Base EXCEPT !.provider = "copilot"]}

Plain == [route |-> "messages", json |-> TRUE, stream |-> TRUE, auth |-> "bearer",
          apiKey |-> TRUE, headers |-> {Version}, secret |-> TRUE]
MCAsks == {Plain,
           [Plain EXCEPT !.route = "chat", !.headers = {"editor-version"}, !.stream = FALSE, !.auth = "none"],
           [Plain EXCEPT !.secret = FALSE, !.auth = "opaque", !.apiKey = FALSE, !.headers = {}],
           [Plain EXCEPT !.auth = "none", !.stream = FALSE],
           [Plain EXCEPT !.json = FALSE]}
Reply(s, k) == [status |-> s, kind |-> k]
MCReplies == {Reply(200, "sse"), Reply(429, "json"), Reply(500, "other")}
=============================================================================
