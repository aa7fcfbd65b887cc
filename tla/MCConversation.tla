--------------------------- MODULE MCConversation ---------------------------
(***************************************************************************)
(* Two sensitive values, in every place a body has for text, in a          *)
(* conversation of three messages: a question, an answer and a second      *)
(* question.                                                               *)
(***************************************************************************)
EXTENDS Conversation, TLC

MCIndices == <<"1", "2", "3", "4", "5", "6">>
MCOtherKeys == <<"args", "properties", "to">>

MCValues == {1, 2}
Texts == {Prose} \cup {Real(v) : v \in MCValues}

Object == <<>> :> Node("object")
\* An object with the fields of f, which are fragments.
Struct(f) == [p \in {<<>>} \cup UNION {{<<k>> \o q : q \in DOMAIN f[k]} : k \in DOMAIN f} |->
                IF p = <<>> THEN Node("object") ELSE f[Head(p)][Tail(p)]]
List(s) == [p \in {<<>>} \cup UNION {{<<Index(i)>> \o q : q \in DOMAIN s[i]} : i \in DOMAIN s} |->
                IF p = <<>> THEN Node("array")
                ELSE s[CHOOSE i \in DOMAIN s : Index(i) = p[1]][Tail(p)]]
Leaf(node) == <<>> :> node
Fields(f) == [p \in UNION {{<<k>> \o q : q \in DOMAIN f[k]} : k \in DOMAIN f} |-> f[Head(p)][Tail(p)]]

Message(role, content) == Struct([role |-> Leaf(Word(role)), content |-> content])
Block(type, key, f) == Struct([type |-> Leaf(Word(type))] @@ (key :> f))
TextOf(t) == Block("text", "text", Leaf(t))

Schema(t) ==
  Struct([properties |-> Struct([to |-> Struct([description |-> Leaf(t),
                                                enum |-> List(<<Leaf(Real(1))>>)])])])
NestedSchema(t) ==
  Struct([properties |-> Struct([description |-> Struct([description |-> Leaf(t)])])])

Tool(s, t, parameters) ==
  IF s = "OpenAi"
  THEN Struct([function |-> Struct([name |-> Leaf(Word("send")), description |-> Leaf(t),
                                    parameters |-> parameters])])
  ELSE Struct([name |-> Leaf(Word("send")), description |-> Leaf(t), input_schema |-> parameters])
Tools(s, t, parameters) == Fields([tools |-> List(<<Tool(s, t, parameters)>>)])

MCOpenings(s) ==
  {Empty, Tools(s, Prose, Schema(Real(2))), Tools(s, Real(1), Schema(Real(2)))}
  \cup (IF s = "OpenAi" THEN {}
        ELSE {Fields([system |-> f]) :
                f \in {Leaf(Real(2)), Leaf(Node("null")), Leaf(Node("object")),
                       List(<<TextOf(Prose), TextOf(Real(2))>>), List(<<Leaf(Prose)>>)}})

\* A schema with a property named "description".
MCNestedOpenings(s) == {Tools(s, Prose, NestedSchema(Real(1)))}

Image == Block("image", "url", Leaf(Real(1)))
Document(title, source) ==
  Struct([type |-> Leaf(Word("document")), title |-> Leaf(title), source |-> source])

OpenAiMessages(n, t) ==
  {Message("user", Leaf(t))}
  \cup (IF n > 0 THEN {} ELSE
        {Message("system", Leaf(t)), Message("developer", List(<<TextOf(t)>>)),
         Message("developer", Leaf(Node("null"))),
         Message("user", List(<<Leaf(t), Image, TextOf(Prose)>>)),
         Message("user", Leaf(Node("scalar"))), Message("user", List(<<Leaf(Node("null"))>>)),
         Struct([role |-> Leaf(Word("user")), name |-> Leaf(t)])})

AnthropicBlocks(n, t) ==
  {TextOf(t), Block("tool_result", "content", List(<<TextOf(Prose), Leaf(t), Image>>))}
  \cup (IF n > 0 THEN {} ELSE
        {Leaf(t), Image, Block("tool_result", "content", Leaf(t)),
         Block("tool_result", "content", List(<<Block("video", "text", Leaf(t))>>)),
         Block("thinking", "thinking", Leaf(t)), Block("video", "text", Leaf(t)),
         Leaf(Node("scalar")),
         Document(t, Block("url", "url", Leaf(Real(2)))),
         Document(Prose, Block("text", "data", Leaf(t))),
         Document(Prose, Block("content", "content", List(<<TextOf(t)>>))),
         Document(Prose, Block("file", "data", Leaf(t)))})

MCMessages(s, n) ==
  UNION {IF s = "OpenAi" THEN OpenAiMessages(n, t)
         ELSE {Message("user", Leaf(t))}
              \cup {Message("user", List(<<TextOf(Prose), b>>)) : b \in AnthropicBlocks(n, t)} :
         t \in IF n = 0 THEN Texts ELSE Texts \ {Prose}}

\* What a provider writes: prose, or a placeholder, one it was not sent included.
Marks(numbers) == {Prose} \cup {Mark(k) : k \in numbers \cup {Cardinality(numbers) + 1}}

Call(x) == Struct([function |-> Struct([arguments |-> Leaf(x)])])
OpenAiReplies(x, y) ==
  {Struct([role |-> Leaf(Word("assistant")), content |-> Leaf(x),
           tool_calls |-> List(<<Call(Prose), Call(y)>>)]),
   Struct([role |-> Leaf(Word("assistant")), content |-> List(<<TextOf(x), Leaf(y)>>)]),
   Struct([role |-> Leaf(Word("assistant")), content |-> Leaf(Node("null")),
           function_call |-> Struct([arguments |-> Leaf(x)])])}
AnthropicReply(x, y) ==
  Struct([role |-> Leaf(Word("assistant")),
          content |-> List(<<Block("thinking", "thinking", Leaf(x)),
                             TextOf(y),
                             Block("tool_use", "input",
                                   Struct([args |-> List(<<Leaf(x)>>), to |-> Leaf(y)]))>>)])
MCReplies(s, numbers) ==
  UNION {IF s = "OpenAi" THEN OpenAiReplies(x, y) ELSE {AnthropicReply(x, y)} :
         x \in Marks(numbers), y \in Marks(numbers)}
=============================================================================
