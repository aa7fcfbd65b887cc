------------------------------ MODULE BodyWalk ------------------------------
(***************************************************************************)
(* Which texts of a JSON body the privacy stage masks and restores         *)
(* (src/pipeline/privacy.rs), for both wire schemas.                       *)
(*                                                                         *)
(* A body is a function from paths to nodes. A path is the sequence of the *)
(* object keys and array indices that lead to a node; a node is an object, *)
(* an array, null, some other scalar, or a string. A string holds a word   *)
(* of the protocol, prose, at most one sensitive value or at most one      *)
(* placeholder, and perhaps, after it, the augmentation prompt.            *)
(***************************************************************************)
EXTENDS Naturals, Sequences, FiniteSets, SequencesExt

CONSTANTS
    Indices,    \* the names of the places of an array, from the first on
    OtherKeys   \* the keys of tool inputs and of schemas, in their order

\* The order in which the walkers take the keys of one object; what an object
\* holds in its own order (tool_use.input, a schema) is taken alphabetically.
FixedKeys == <<"system", "messages", "tools", "choices", "message",
               "type", "role", "content", "title", "context", "source", "url", "enum", "text",
               "thinking", "input", "name", "tool_calls", "function_call",
               "function", "arguments", "description", "parameters", "input_schema", "data">>
KeyOrder == Indices \o FixedKeys \o OtherKeys
Keys     == {KeyOrder[i] : i \in DOMAIN KeyOrder}
Rank(key) == CHOOSE i \in DOMAIN KeyOrder : KeyOrder[i] = key
Index(n)  == Indices[n]

ASSUME KeysAssumption ==
    /\ Indices \in Seq({Indices[i] : i \in DOMAIN Indices})
    /\ OtherKeys \in Seq({OtherKeys[i] : i \in DOMAIN OtherKeys})
    /\ \A i, j \in DOMAIN KeyOrder : KeyOrder[i] = KeyOrder[j] => i = j

Node(kind) == [is |-> kind, word |-> "", of |-> 0, prompt |-> FALSE]
Word(w)    == [is |-> "string", word |-> w, of |-> 0, prompt |-> FALSE]
Prose      == Word("prose")
Real(v)    == [is |-> "string", word |-> "real", of |-> v, prompt |-> FALSE]
Mark(k)    == [is |-> "string", word |-> "mark", of |-> k, prompt |-> FALSE]
Prompt     == [is |-> "string", word |-> "", of |-> 0, prompt |-> TRUE]

Is(b, p, kinds) == p \in DOMAIN b /\ b[p].is \in kinds

\* value.get(key).and_then(Value::as_str)
StringOf(b, p) == IF Is(b, p, {"string"}) THEN b[p].word ELSE "none"

\* The elements of an array, the nodes of a subtree.
Items(b, p) == {q \in DOMAIN b : Is(b, p, {"array"}) /\ Len(q) = Len(p) + 1 /\ IsPrefix(p, q)}
Under(b, p) == {q \in DOMAIN b : IsPrefix(p, q)}

-----------------------------------------------------------------------------
(* A visit: the strings a walker rewrites and whether it accepts the shape. *)

Visit(paths) == [at |-> paths, ok |-> TRUE]
Refuse       == [at |-> {}, ok |-> FALSE]
AllOf(visits) == [at |-> UNION {v.at : v \in visits}, ok |-> \A v \in visits : v.ok]

TransformStringValue(b, p)  == {q \in {p} : Is(b, q, {"string"})}
TransformStringLeaves(b, p) == {q \in Under(b, p) : Is(b, q, {"string"})}

\* The strings under a key named "description", down to the first such key.
MaskSchemaDescriptions(b, p) ==
  {q \in TransformStringLeaves(b, p) :
     /\ Len(q) > Len(p)
     /\ Last(q) = "description"
     /\ \A i \in (Len(p) + 1)..(Len(q) - 1) : q[i] # "description"}

TransformToolCallArgs(b, m) ==
  UNION {TransformStringValue(b, Append(Append(t, "function"), "arguments")) :
         t \in Items(b, Append(m, "tool_calls"))}

\* A string, null, or an array whose elements Element visits.
StringOrArray(b, p, Element(_)) ==
  CASE p \notin DOMAIN b           -> Visit({})
    [] Is(b, p, {"string"})        -> Visit({p})
    [] Is(b, p, {"null"})          -> Visit({})
    [] Is(b, p, {"array"})         -> AllOf({Element(q) : q \in Items(b, p)})
    [] OTHER                       -> Refuse

MaskContent(b, p) ==
  StringOrArray(b, p, LAMBDA q :
    CASE Is(b, q, {"string"}) -> Visit({q})
      [] Is(b, q, {"object"}) -> Visit(TransformStringValue(b, Append(q, "text")))
      [] OTHER                -> Refuse)

\* Mutant: the arguments of a tool call in the history are taken for the
\* provider's own words.
MaskMessageWithoutArguments(b, m) ==
  AllOf({MaskContent(b, Append(m, "content")), Visit(TransformStringValue(b, Append(m, "name")))})

MaskMessage(b, m) ==
  AllOf({MaskContent(b, Append(m, "content")),
         Visit(TransformStringValue(b, Append(m, "name"))),
         Visit(TransformToolCallArgs(b, m)),
         Visit(TransformStringValue(b, Append(Append(m, "function_call"), "arguments")))})

MaskRequest(b) ==
  IF ~Is(b, <<"messages">>, {"array"}) THEN Refuse
  ELSE AllOf({MaskMessage(b, m) : m \in Items(b, <<"messages">>)}
             \cup {Visit(TransformStringValue(b, Append(Append(t, "function"), "description"))
                         \cup MaskSchemaDescriptions(b, Append(Append(t, "function"), "parameters"))) :
                   t \in Items(b, <<"tools">>)})

-----------------------------------------------------------------------------
MaskContentBlockArray(b, p) ==
  StringOrArray(b, p, LAMBDA q :
    LET type == StringOf(b, Append(q, "type")) IN
    CASE Is(b, q, {"string"}) -> Visit({q})
      [] type = "text"        -> Visit(TransformStringValue(b, Append(q, "text")))
      [] type = "image"       -> Visit({})
      [] OTHER                -> Refuse)

MaskAnthropicDocument(b, p) ==
  LET source == Append(p, "source")
      type   == StringOf(b, Append(source, "type"))
      body   == CASE source \notin DOMAIN b   -> Visit({})
                  [] type = "text"            -> Visit(TransformStringValue(b, Append(source, "data")))
                  [] type = "content"         -> MaskContentBlockArray(b, Append(source, "content"))
                  [] type \in {"base64", "url"} -> Visit({})
                  [] OTHER                    -> Refuse
  IN AllOf({Visit(UNION {TransformStringValue(b, Append(p, k)) : k \in {"title", "context"}}), body})

MaskAnthropicBlock(b, p) ==
  LET type == StringOf(b, Append(p, "type")) IN
  CASE Is(b, p, {"string"})  -> Visit({p})
    [] type = "text"         -> Visit(TransformStringValue(b, Append(p, "text")))
    [] type = "tool_use"     -> Visit(TransformStringLeaves(b, Append(p, "input")))
    [] type = "tool_result"  -> MaskContentBlockArray(b, Append(p, "content"))
    [] type = "thinking"     -> Visit(TransformStringValue(b, Append(p, "thinking")))
    [] type = "document"     -> MaskAnthropicDocument(b, p)
    [] type \in {"image", "redacted_thinking"} -> Visit({})
    [] OTHER                 -> Refuse

MaskAnthropicContent(b, p) ==
  StringOrArray(b, p, LAMBDA q : MaskAnthropicBlock(b, q))

\* Every element of a `system` array has a `text`, of whatever type.
MaskAnthropicSystem(b, p) ==
  StringOrArray(b, p, LAMBDA q :
    IF Append(q, "text") \in DOMAIN b THEN Visit(TransformStringValue(b, Append(q, "text"))) ELSE Refuse)

MaskAnthropicRequest(b) ==
  IF ~Is(b, <<"messages">>, {"array"}) THEN Refuse
  ELSE AllOf({MaskAnthropicSystem(b, <<"system">>)}
             \cup {MaskAnthropicContent(b, Append(m, "content")) : m \in Items(b, <<"messages">>)}
             \cup {Visit(TransformStringValue(b, Append(t, "description"))
                         \cup MaskSchemaDescriptions(b, Append(t, "input_schema"))) :
                   t \in Items(b, <<"tools">>)})

-----------------------------------------------------------------------------
(* Numbering, masking and restoring.                                       *)

\* p comes before q in the walk.
ReadBefore(p, q) ==
  \E i \in DOMAIN p \cap DOMAIN q :
     (\A j \in 1..(i - 1) : p[j] = q[j]) /\ Rank(p[i]) < Rank(q[i])

Secrets(b, at) == {b[p].of : p \in {q \in at : b[q].word = "real"}}

FirstOf(b, at, v) ==
  CHOOSE p \in at : b[p] = Real(v) /\ \A q \in at : b[q] = Real(v) => p = q \/ ReadBefore(p, q)

\* Mutant: numbered from the newest message back.
NumberedNewestFirst(b, at) ==
  [v \in Secrets(b, at) |->
     Cardinality({w \in Secrets(b, at) : v = w \/ ReadBefore(FirstOf(b, at, v), FirstOf(b, at, w))})]

\* The vault after the walk: each value's number, in order of first occurrence.
Numbered(b, at) ==
  [v \in Secrets(b, at) |->
     Cardinality({w \in Secrets(b, at) : v = w \/ ReadBefore(FirstOf(b, at, w), FirstOf(b, at, v))})]

Masked(b, at, vault) ==
  [p \in DOMAIN b |-> IF p \in at /\ b[p].word = "real" THEN Mark(vault[b[p].of]) ELSE b[p]]

Known(vault, k) == \E v \in DOMAIN vault : vault[v] = k
Restored(b, at, vault) ==
  [p \in DOMAIN b |->
     IF p \in at /\ b[p].word = "mark" /\ Known(vault, b[p].of)
     THEN Real(CHOOSE v \in DOMAIN vault : vault[v] = b[p].of)
     ELSE b[p]]

-----------------------------------------------------------------------------
(* The response walk: nothing is refused, what is not known is left alone. *)

DemaskContent(b, p) ==
  {q \in {p} \cup Items(b, p) : Is(b, q, {"string"})}
  \cup UNION {TransformStringValue(b, Append(q, "text")) : q \in Items(b, p)}

DemaskResponse(b) ==
  UNION {LET m == Append(c, "message") IN
         DemaskContent(b, Append(m, "content"))
         \cup TransformToolCallArgs(b, m)
         \cup TransformStringValue(b, Append(Append(m, "function_call"), "arguments")) :
         c \in Items(b, <<"choices">>)}

\* Mutant: only the strings directly in `input` are restored.
DemaskAnthropicResponseFlat(b) ==
  UNION {CASE StringOf(b, Append(q, "type")) = "text"     -> TransformStringValue(b, Append(q, "text"))
           [] StringOf(b, Append(q, "type")) = "tool_use" ->
                {p \in TransformStringLeaves(b, Append(q, "input")) : Len(p) = Len(q) + 2}
           [] OTHER -> {} : q \in Items(b, <<"content">>)}

\* Mutant: the response walk mirrors the whole request walk.
DemaskAnthropicResponseAll(b) == MaskAnthropicContent(b, <<"content">>).at

DemaskAnthropicResponse(b) ==
  UNION {CASE StringOf(b, Append(q, "type")) = "text"     -> TransformStringValue(b, Append(q, "text"))
           [] StringOf(b, Append(q, "type")) = "tool_use" -> TransformStringLeaves(b, Append(q, "input"))
           [] OTHER -> {} : q \in Items(b, <<"content">>)}

-----------------------------------------------------------------------------
(* The augmentation prompt.                                                *)

With(b, p, node) == [q \in DOMAIN b \cup {p} |-> IF q = p THEN node ELSE b[q]]
WithoutUnder(b, p) == [q \in DOMAIN b \ Under(b, p) |-> b[q]]

\* An object with the keys k and "text" or "content" for the prompt.
WithPrompt(b, p, k, word, key) ==
  With(With(With(b, p, Node("object")), Append(p, k), Word(word)), Append(p, key), Prompt)

\* A string is appended to, an array gets one more text block, whatever else is
\* there is replaced.
AppendPrompt(b, p) ==
  CASE Is(b, p, {"string"}) -> With(b, p, [b[p] EXCEPT !.prompt = TRUE])
    [] Is(b, p, {"array"})  -> WithPrompt(b, Append(p, Index(Cardinality(Items(b, p)) + 1)), "type", "text", "text")
    [] OTHER                -> With(WithoutUnder(b, p), p, Prompt)

InjectAugmentationAnthropic(b) == AppendPrompt(b, <<"system">>)

Pushed(p) == IF Len(p) > 1 /\ p[1] = "messages" THEN [p EXCEPT ![2] = Index(Rank(p[2]) + 1)] ELSE p

\* A system message before all the others.
Prepend(b) ==
  WithPrompt([q \in {Pushed(p) : p \in DOMAIN b} |-> b[CHOOSE p \in DOMAIN b : Pushed(p) = q]],
             Append(<<"messages">>, Index(1)), "role", "system", "content")

\* Mutant: a developer message is not taken for a system message.
IsSystemOnly(b, m) == StringOf(b, Append(m, "role")) = "system"

IsSystem(b, m) == StringOf(b, Append(m, "role")) \in {"system", "developer"}

InjectAugmentation(b) ==
  LET systems == {m \in Items(b, <<"messages">>) : IsSystem(b, m)} IN
  IF systems = {} THEN Prepend(b)
  ELSE AppendPrompt(b, Append(CHOOSE m \in systems : \A n \in systems : m = n \/ ReadBefore(m, n),
                              "content"))
=============================================================================
