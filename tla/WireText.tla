------------------------------ MODULE WireText ------------------------------
(***************************************************************************)
(* What the two wire schemas allow in a conversation: bodies are trees,    *)
(* and each kind of block has its own places for text.  Nothing here says  *)
(* what the privacy stage reads: a body may have any shape, and a block of *)
(* a type nobody knows may hold anything anywhere.                         *)
(*                                                                         *)
(* Left to the schema are the places that are forwarded as they stand      *)
(* (Opaque), and that no schema has a description inside another: the      *)
(* walk takes the outer one for the text.                                  *)
(***************************************************************************)
EXTENDS Conversation

Schemas  == {"OpenAi", "Anthropic"}
Numerals == {Indices[i] : i \in DOMAIN Indices}

-----------------------------------------------------------------------------
(* Trees.                                                                  *)

IsNode(x) ==
  /\ x = [is |-> x.is, word |-> x.word, of |-> x.of, prompt |-> FALSE]
  /\ x.is # "string" => x.word = ""
  /\ x.word = "real" => x.of \in Values

\* The node p of b may have a child k: an index in an array, a key in an object.
MayHold(b, p, k) ==
  /\ p \in DOMAIN b
  /\ \/ b[p].is = "array" /\ k \in Numerals
     \/ b[p].is = "object" /\ k \notin Numerals

\* Below depth n every node has its parent, and arrays have no gaps.
IsTree(b, n) ==
  /\ IsFiniteSet(DOMAIN b)
  /\ b = [p \in DOMAIN b |-> b[p]]
  /\ \A p \in DOMAIN b :
       /\ p \in Seq(Keys)
       /\ IsNode(b[p])
       /\ Len(p) > n => MayHold(b, Front(p), Last(p))
       /\ b[p].is = "array" =>
            \E k \in 0..(Len(Indices) - 1) : Items(b, p) = {Append(p, Index(i)) : i \in 1..k}

-----------------------------------------------------------------------------
(* Where text stands.                                                      *)

Elements(p) == {Append(p, i) : i \in Numerals}

\* A string, or a list of strings and of objects with a `text`.
Parts(p) == {p} \cup Elements(p) \cup {Append(q, "text") : q \in Elements(p)}

OpenAiText(m) ==
  Parts(Append(m, "content"))
  \cup {Append(m, "name"), Append(Append(m, "function_call"), "arguments")}
  \cup {Append(Append(t, "function"), "arguments") : t \in Elements(Append(m, "tool_calls"))}

\* The content of a tool's result or of a document: texts and images.
InnerText(b, p) ==
  {p} \cup UNION {LET type == StringOf(b, Append(q, "type")) IN
                  {q} \cup CASE type = "text"  -> {Append(q, "text")}
                             [] type = "image" -> {}
                             [] OTHER          -> Under(b, q) : q \in Elements(p)}

SourceText(b, p) ==
  LET type == StringOf(b, Append(p, "type")) IN
  CASE type = "text"             -> {Append(p, "data")}
    [] type = "content"          -> InnerText(b, Append(p, "content"))
    [] type \in {"base64", "url"} -> {}
    [] OTHER                     -> Under(b, p)

BlockText(b, p) ==
  LET type == StringOf(b, Append(p, "type")) IN
  {p} \cup CASE type = "text"        -> {Append(p, "text")}
             [] type = "thinking"    -> {Append(p, "thinking")}
             [] type = "tool_use"    -> Under(b, Append(p, "input"))
             [] type = "tool_result" -> InnerText(b, Append(p, "content"))
             [] type = "document"    -> {Append(p, "title"), Append(p, "context")}
                                        \cup SourceText(b, Append(p, "source"))
             [] type \in {"image", "redacted_thinking"} -> {}
             [] OTHER                -> Under(b, p)

AnthropicText(b, m) ==
  {Append(m, "content")} \cup UNION {BlockText(b, q) : q \in Elements(Append(m, "content"))}

MessageText(s, b, m) == IF s = "OpenAi" THEN OpenAiText(m) ELSE AnthropicText(b, m)

\* The descriptions of a tool's schema, none of them within another.
SchemaText(b, p) ==
  {q \in Under(b, p) : Last(q) = "description" /\ \A i \in 1..(Len(q) - 1) : q[i] # "description"}

OpeningText(s, b) ==
  (IF s = "OpenAi" THEN {} ELSE Parts(<<"system">>))
  \cup UNION {IF s = "OpenAi"
              THEN {Append(Append(t, "function"), "description")}
                   \cup SchemaText(b, Append(Append(t, "function"), "parameters"))
              ELSE {Append(t, "description")} \cup SchemaText(b, Append(t, "input_schema")) :
              t \in Elements(<<"tools">>)}

\* Where a provider may write what is restored: its answer, not its thoughts.
AnswerText(s, b) ==
  IF s = "OpenAi"
  THEN OpenAiText(<<>>) \ {<<"name">>}
  ELSE UNION {CASE StringOf(b, Append(q, "type")) = "text"     -> {Append(q, "text")}
                [] StringOf(b, Append(q, "type")) = "tool_use" -> Under(b, Append(q, "input"))
                [] OTHER -> {} : q \in Elements(<<"content">>)}

-----------------------------------------------------------------------------
IsFragment(m) == <<>> \in DOMAIN m /\ m[<<>>].is = "object" /\ IsTree(m, 0)
Holding(b, w) == {p \in DOMAIN b : b[p].word = w}

GoodOpening(s, o) ==
  /\ IsTree(o, 1)
  /\ \A p \in DOMAIN o : p # <<>> /\ p[1] \in {"system", "tools"}
  /\ \A p \in Holding(o, "real") : p \in OpeningText(s, o) \/ Opaque(p)

GoodMessage(s, m) ==
  /\ IsFragment(m)
  /\ \A p \in Holding(m, "real") : p \in MessageText(s, m, <<>>) \/ Opaque(p)

GoodReply(s, m) ==
  /\ IsFragment(m)
  /\ \A p \in Holding(m, "real") : p \in AnswerText(s, m)
  /\ \A p \in Holding(m, "mark") : p \in AnswerText(s, m) \/ IsThought(p)

\* Clients and providers keep to the schemas, and no body is too large for Indices.
ASSUME WireAssumption ==
  /\ IsFiniteSet(Values)
  /\ MaxMessages \in Nat /\ MaxMessages < Len(Indices)
  /\ \A s \in Schemas :
       /\ \A o \in Openings(s) : GoodOpening(s, o)
       /\ \A n \in 0..MaxMessages : \A m \in Messages(s, n) : GoodMessage(s, m)
       /\ \A numbers \in SUBSET (1..Cardinality(Values)) :
            \A m \in Replies(s, numbers) : GoodReply(s, m)
=============================================================================
