---------------------------- MODULE Conversation ----------------------------
(***************************************************************************)
(* A client and a provider talking through the privacy stage               *)
(* (src/pipeline/privacy.rs, PrivacyStage::on_request and on_response).    *)
(* The client sends the whole conversation anew in every request, with the *)
(* answers as it was shown them, and every request has a vault of its own. *)
(*                                                                         *)
(* said and meant are history variables.                                   *)
(***************************************************************************)
EXTENDS BodyWalk

CONSTANTS
    Values,         \* the sensitive values a client may have
    Openings(_),    \* schema |-> the system prompts and tools a client may send
    Messages(_, _), \* schema, messages so far |-> the messages it may add
    Replies(_, _),  \* schema, numbers in use |-> the messages a provider may answer with
    MaxMessages     \* bound: messages in a conversation

VARIABLES
    schema,     \* WireSchema of the client's route
    opening,    \* system prompt and tools, the same in every request
    history,    \* the messages as the client has them
    phase,      \* "idle", "asked", "sent", "answered" or "blocked"
    vault,      \* RequestContext::vault of the current request
    forwarded,  \* the body of the current request as the provider gets it
    reply,      \* the provider's answer as it sent it
    said,       \* history: the provider's messages as it sent them, by place
    meant       \* history: for each of them the vault it was written under

vars == <<schema, opening, history, phase, vault, forwarded, reply, said, meant>>

Empty == <<>>

\* What follows the path p in the path q, and the paths of a fragment put at p.
After(p, q) == SubSeq(q, Len(p) + 1, Len(q))
PathsAt(p, fragment) == {p \o r : r \in DOMAIN fragment}
Cut(b, p) == [r \in {After(p, q) : q \in Under(b, p)} |-> b[p \o r]]

\* The request body a client makes of its conversation.
MessageAt(i) == Append(<<"messages">>, Index(i))
Body(messages) ==
  [p \in DOMAIN opening \cup {<<"messages">>}
         \cup UNION {PathsAt(MessageAt(i), messages[i]) : i \in DOMAIN messages} |->
     CASE p \in DOMAIN opening -> opening[p]
       [] p = <<"messages">>   -> Node("array")
       [] OTHER                -> LET i == CHOOSE i \in DOMAIN messages : Index(i) = p[2]
                                  IN messages[i][After(MessageAt(i), p)]]

\* Where the answer's message sits in a response body.
Choice  == Append(<<"choices">>, Index(1))
ReplyAt == IF schema = "OpenAi" THEN Append(Choice, "message") ELSE <<>>
ResponseBody(m) ==
  IF schema = "OpenAi"
  THEN [p \in PathsAt(ReplyAt, m) \cup {<<"choices">>, Choice} |->
          CASE p = <<"choices">> -> Node("array")
            [] p = Choice        -> Node("object")
            [] OTHER             -> m[After(ReplyAt, p)]]
  ELSE m

Init ==
  /\ schema \in {"OpenAi", "Anthropic"}
  /\ opening \in Openings(schema)
  /\ history = <<>>
  /\ phase = "idle"
  /\ vault = Empty
  /\ forwarded = Empty
  /\ reply = Empty
  /\ said = Empty
  /\ meant = Empty

\* The client adds a message and sends the conversation.
Ask(m) ==
  /\ phase = "idle"
  /\ Len(history) < MaxMessages
  /\ history' = Append(history, m)
  /\ phase' = "asked"
  /\ UNCHANGED <<schema, opening, vault, forwarded, reply, said, meant>>

\* The masked body with the augmentation prompt, if anything was masked.
Augmented(b, numbers) ==
  IF DOMAIN numbers = {} THEN b
  ELSE IF schema = "OpenAi" THEN InjectAugmentation(b) ELSE InjectAugmentationAnthropic(b)

RequestVisit(b) == IF schema = "OpenAi" THEN MaskRequest(b) ELSE MaskAnthropicRequest(b)
ResponseAt(b) == IF schema = "OpenAi" THEN DemaskResponse(b) ELSE DemaskAnthropicResponse(b)

\* PrivacyStage::on_request: mask the whole body and pass it on, or block.
OnRequest ==
  LET body    == Body(history)
      visit   == RequestVisit(body)
      numbers == Numbered(body, visit.at)
  IN
  /\ phase = "asked"
  /\ IF visit.ok
     THEN /\ phase' = "sent"
          /\ vault' = numbers
          /\ forwarded' = Augmented(Masked(body, visit.at, numbers), numbers)
     ELSE phase' = "blocked" /\ UNCHANGED <<vault, forwarded>>
  /\ UNCHANGED <<schema, opening, history, reply, said, meant>>

\* The provider answers, with the placeholders it was sent wherever it likes.
Answer(m) ==
  LET place == Len(history) + 1 IN
  /\ phase = "sent"
  /\ place <= MaxMessages
  /\ reply' = m
  /\ said' = With(said, place, m)
  /\ meant' = With(meant, place, vault)
  /\ phase' = "answered"
  /\ UNCHANGED <<schema, opening, history, vault, forwarded>>

\* PrivacyStage::on_response: restore the answer, which the client keeps.
OnResponse ==
  LET body == ResponseBody(reply)
      restored == IF DOMAIN vault = {} THEN body ELSE Restored(body, ResponseAt(body), vault)
  IN
  /\ phase = "answered"
  /\ history' = Append(history, Cut(restored, ReplyAt))
  /\ phase' = "idle"
  /\ UNCHANGED <<schema, opening, vault, forwarded, reply, said, meant>>

Settled ==
  /\ phase \in {"blocked", "idle", "sent"}
  /\ phase = "blocked" \/ Len(history) = MaxMessages
  /\ UNCHANGED vars

Next ==
  \/ \E m \in Messages(schema, Len(history)) : Ask(m)
  \/ OnRequest
  \/ \E m \in Replies(schema, {vault[v] : v \in DOMAIN vault}) : Answer(m)
  \/ OnResponse
  \/ Settled

Spec == Init /\ [][Next]_vars

-----------------------------------------------------------------------------
Sent == phase \in {"sent", "answered"}
InForwarded(w) == {p \in DOMAIN forwarded : forwarded[p].word = w}

\* Texts nobody reads as prose: what a URL, an enumeration or a binary source
\* holds, which is forwarded as it stands (docs/ARCHITECTURE.md, "Request coverage").
Opaque(p) == \E i \in DOMAIN p : p[i] \in {"url", "enum"}

\* No value of the client's is left in a request that is forwarded, wherever in
\* the conversation it stands: in what the client wrote, in an answer that was
\* restored for it and is sent back, in a tool's result or in a tool's description.
NothingRealLeaves == Sent => \A p \in InForwarded("real") : Opaque(p)

\* Every `description` of a tool's schema is masked (mask_schema_descriptions:
\* "Recursively mask every `description` string inside a JSON-Schema value").
DescriptionsAreMasked == Sent => \A p \in InForwarded("real") : Last(p) # "description"

\* Where a provider's thoughts stand in its message.
IsThought(p) == Len(p) = 3 /\ p[3] = "thinking"
Thinking(m) == {p \in DOMAIN m : IsThought(p) /\ m[p].is = "string"}

\* What a provider thought comes back to it as it wrote it, whatever was restored
\* around it and however the numbers have changed since: its signature stays valid
\* (mask_anthropic_block; docs/TESTING.md, CC-07).
ThinkingComesBack ==
  (Sent /\ schema = "Anthropic") =>
     \A i \in DOMAIN said \cap DOMAIN history : \A p \in Thinking(said[i]) :
        forwarded[MessageAt(i) \o p] = said[i][p]

\* v stood in what the provider was sent before its message i, ahead of the tools.
ReadAheadOfTools(i, v) ==
  LET body == Body(SubSeq(history, 1, i - 1))
  IN \E p \in DOMAIN body : body[p] = Real(v) /\ Head(p) # "tools" /\ ~Opaque(p)

\* A placeholder the provider has seen still stands for the value it stood for, also
\* where nobody restores it, if that value was read ahead of the tools: numbers go by
\* first occurrence, and a conversation only grows at its end (Vault::placeholder_for;
\* tests/proxy_e2e.rs, e2e_multi_turn_determinism_across_stateless_requests).
NumbersOutliveTheTurn ==
  Sent => \A i \in DOMAIN meant : \A v \in DOMAIN meant[i] :
            ReadAheadOfTools(i, v) => v \in DOMAIN vault /\ vault[v] = meant[i][v]

\* The client is shown the values behind the placeholders of an answer, each the one
\* it stood for when it was written, in the text and anywhere in a tool call's
\* arguments, however nested; what is no placeholder of the request it is shown as it
\* is, and so is a thought (demask_response, demask_anthropic_response).
AnswerIsRestored ==
  \A i \in DOMAIN said \cap DOMAIN history : \A p \in DOMAIN said[i] :
     LET node == said[i][p] IN
     history[i][p] = IF node.word = "mark" /\ ~IsThought(p) /\ Known(meant[i], node.of)
                     THEN Real(CHOOSE v \in DOMAIN meant[i] : meant[i][v] = node.of)
                     ELSE node

SystemMessages(b) ==
  {m \in Items(b, <<"messages">>) : StringOf(b, Append(m, "role")) \in {"system", "developer"}}

\* The provider is told about placeholders once if there are any and never if there
\* are none, in a system message of its own only if the client has none, and loses
\* nothing of the conversation by it (inject_augmentation: "the upstream sees exactly
\* one"; merge_augmentation, inject_augmentation_anthropic).
ToldOnce ==
  Sent =>
    LET body  == Body(history)
        own   == schema = "OpenAi" /\ DOMAIN vault # {} /\ SystemMessages(body) = {}
        shift(p) == IF own THEN Pushed(p) ELSE p
    IN
    /\ Cardinality({p \in DOMAIN forwarded : forwarded[p].prompt}) = IF DOMAIN vault = {} THEN 0 ELSE 1
    /\ Cardinality(SystemMessages(forwarded)) = IF own THEN 1 ELSE Cardinality(SystemMessages(body))
    /\ \A p \in DOMAIN body :
          body[p].is = "string" => /\ shift(p) \in DOMAIN forwarded
                                   /\ \/ forwarded[shift(p)].word = body[p].word
                                      \/ body[p].word = "real" /\ forwarded[shift(p)].word = "mark"
=============================================================================
