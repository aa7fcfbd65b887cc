---------------------------- MODULE SseDemasker ----------------------------
(***************************************************************************)
(* De-masking a streamed answer (src/stream.rs, SseDemasker), inside the   *)
(* body stream of src/server.rs (demasking_sse_body), seen by a client     *)
(* that reads server-sent events.                                          *)
(*                                                                         *)
(* The provider streams one text per key (an OpenAI choice or tool call,   *)
(* an Anthropic content block) in deltas of any size, in lines that arrive *)
(* whole or in part, and may break off anywhere.  A text is a sequence of  *)
(*   "["  "]"   brackets                                                   *)
(*   "L"  "1"   the label and the number of the one placeholder in the     *)
(*              vault; "s" the separator, a space, also allowed as padding *)
(*   "t"        white space that is not a space                            *)
(*   "x"        anything that cannot occur inside a placeholder            *)
(* and "V" is the original value that placeholder stands for.              *)
(***************************************************************************)
EXTENDS Naturals, Sequences, FiniteSets, SequencesExt

CONSTANTS
    Keys,       \* the texts streamed side by side
    Schemas,    \* the wire schemas: TRUE Anthropic, FALSE OpenAI
    Scripts,    \* what the provider may send: functions from Keys to texts
    MaxHold,    \* most symbols held back behind a "[" (32 in the code)
    MaxDelta    \* bound: most symbols in one delta

Symbols == {"[", "]", "L", "1", "s", "t", "x"}

ASSUME SseAssumption ==
    /\ IsFiniteSet(Keys)
    /\ Scripts \subseteq [Keys -> Seq(Symbols)]
    /\ Schemas \subseteq BOOLEAN
    /\ MaxHold \in Nat /\ MaxDelta \in Nat \ {0}

VARIABLES
    anthropic,  \* the wire schema of this answer
    script,     \* the texts of this answer
    upstream,   \* "open", "ended" or "failed"
    frame,      \* what the provider has sent of a frame: "none", its name only
                \* ("delta" or "stop"), or its "data"
    stopped,    \* the texts the provider has ended
    lineBuf,    \* line_buf: the line whose newline has not arrived, or NoLine
    handled,    \* handled[k]: symbols of script[k] the demasker has been given
    pending,    \* text held back for each key
    eventHeld,  \* pending_event: the name in an `event:` line that waits, or "none"
    ended,      \* the response stream is closed
    client      \* what the client has made of the lines it received

sseVars == <<anthropic, script, upstream, frame, stopped, lineBuf, handled,
             pending, eventHeld, ended, client>>

-----------------------------------------------------------------------------
(* Placeholders in a text.                                                 *)

Body == {"L", "1", "s"}
Padding == {"s", "t"}

\* t[i..j] is the placeholder, in one of the spellings PLACEHOLDER_RE accepts.
IsToken(t, i, j) ==
    /\ t[i] = "[" /\ t[j] = "]"
    /\ \E l, n \in (i + 1)..(j - 1) :
          /\ l < n /\ t[l] = "L" /\ t[n] = "1"
          /\ \A k \in (i + 1)..(l - 1) \cup (n + 1)..(j - 1) : t[k] \in Padding
          /\ \A k \in (l + 1)..(n - 1) : t[k] = "s"

\* Position k of t is the first of a placeholder, or a later one.
Starts(t, k) == t[k] = "[" /\ \E j \in (k + 1)..Len(t) : IsToken(t, k, j)
Within(t, k) == \E i \in 1..(k - 1) : t[i] = "[" /\ \E j \in k..Len(t) : IsToken(t, i, j)

\* The text with every placeholder replaced by its value.
Demask(t) ==
    LET upTo[k \in 0..Len(t)] ==
            IF k = 0 THEN <<>>
            ELSE IF Starts(t, k) THEN Append(upTo[k - 1], "V")
            ELSE IF Within(t, k) THEN upTo[k - 1] ELSE Append(upTo[k - 1], t[k])
    IN  upTo[Len(t)]

Opens(t) == {i \in 1..Len(t) : t[i] = "["}

\* Mutant: the held text is limited to what is behind the bracket, one short.
SplitShort(t) ==
    IF \E o \in Opens(t) :
          /\ Len(t) - o < MaxHold - 1
          /\ \A i \in (o + 1)..Len(t) : t[i] \in Body
    THEN (CHOOSE o \in Opens(t) : \A i \in Opens(t) : i <= o) - 1
    ELSE Len(t)

\* Mutant: a bracket anywhere holds back what follows it.
SplitFirst(t) ==
    IF Opens(t) # {} THEN (CHOOSE o \in Opens(t) : \A i \in Opens(t) : o <= i) - 1
                     ELSE Len(t)

\* How much of a text is safe to emit: an unclosed "[" with nothing but
\* placeholder symbols behind it is held back.
Split(t) ==
    IF \E o \in Opens(t) :
          /\ Len(t) - o <= MaxHold
          /\ \A i \in (o + 1)..Len(t) : t[i] \in Body
    THEN (CHOOSE o \in Opens(t) : \A i \in Opens(t) : i <= o) - 1
    ELSE Len(t)

-----------------------------------------------------------------------------
(* Lines, and the client that reads them.                                  *)

Line(type) == [type |-> type]
Delta(texts) == [type |-> "delta", texts |-> texts]
Event(name) == [type |-> "event", name |-> name]
Stop(k) == [type |-> "stop", key |-> k]
NoLine == Line("none")

Silent == [k \in Keys |-> <<>>]

NewClient ==
    [data |-> <<>>, name |-> "none", shown |-> Silent, over |-> {}, late |-> FALSE, broken |-> FALSE,
     told |-> FALSE]

\* A frame is acted upon when its blank line arrives.  One with two data lines
\* reads as one datum that is not JSON; Anthropic's are told apart by their name.
Dispatch(c) ==
    LET seen == [c EXCEPT !.data = <<>>, !.name = "none"]
        line == c.data[1]
        Unreadable == \/ Len(c.data) > 1 \/ line.type = "bad"
                      \/ anthropic /\ c.name # line.type
    IN  IF c.data = <<>> THEN seen
        ELSE IF Unreadable THEN [seen EXCEPT !.broken = TRUE]
        ELSE IF line.type = "delta"
             THEN [seen EXCEPT !.shown = [k \in Keys |-> @[k] \o line.texts[k]],
                               !.late = @ \/ \E k \in c.over : line.texts[k] # <<>>]
        ELSE IF line.type = "stop" THEN [seen EXCEPT !.over = @ \cup {line.key}]
        ELSE IF line.type = "done" THEN [seen EXCEPT !.over = Keys]
        ELSE [seen EXCEPT !.told = TRUE]

Read(c, line) ==
    IF line.type = "blank" THEN Dispatch(c)
    ELSE IF line.type = "event" THEN [c EXCEPT !.name = line.name]
    ELSE IF line.type = "comment" THEN c
    ELSE [c EXCEPT !.data = Append(@, line)]

ReadFrom(c, lines) ==
    LET upTo[i \in 0..Len(lines)] ==
            IF i = 0 THEN c ELSE Read(upTo[i - 1], lines[i])
    IN  upTo[Len(lines)]

-----------------------------------------------------------------------------
(* The demasker: what one line does to it, and what it writes.             *)

\* The demasker's own state, with the lines it has written.
Demasker == [pending |-> pending, event |-> eventHeld, out |-> <<>>]

Emit(d, line) == [d EXCEPT !.out = Append(@, line)]

\* An `event:` line that has been held is written now.
FlushEvent(d) ==
    IF d.event = "none" THEN d ELSE Emit([d EXCEPT !.event = "none"], Event(d.event))

\* A whole frame made up for text that was held back.
Synthesized(k, text) ==
    (IF anthropic THEN <<Event("delta")>> ELSE <<>>)
        \o <<Delta([Silent EXCEPT ![k] = text]), Line("blank")>>

\* The text held back for some keys is written, each in a frame of its own, and
\* forgotten.
FlushKeys(d, ks) ==
    LET held == SetToSeq({k \in ks : d.pending[k] # <<>>})
    IN  [d EXCEPT !.pending = [k \in Keys |-> IF k \in ks THEN <<>> ELSE @[k]],
                  !.out = @ \o FlattenSeq(
                        [i \in 1..Len(held) |->
                            Synthesized(held[i], Demask(d.pending[held[i]]))])]

\* push_buffered on every text of a delta line: what is safe is written in its
\* place, the rest is held back.
Rewrite(d, texts) ==
    LET combined == [k \in Keys |-> d.pending[k] \o texts[k]]
        cut == [k \in Keys |-> Split(combined[k])]
    IN  Emit([d EXCEPT !.pending =
                  [k \in Keys |-> SubSeq(combined[k], cut[k] + 1, Len(combined[k]))]],
             Delta([k \in Keys |-> Demask(SubSeq(combined[k], 1, cut[k]))]))

\* Mutant: a stop is passed on like any other line.
HandleLineUnflushed(d, line) ==
    IF line.type = "event" THEN [FlushEvent(d) EXCEPT !.event = line.name]
    ELSE IF line.type = "delta" THEN Rewrite(FlushEvent(d), line.texts)
    ELSE Emit(FlushEvent(d), line)

\* Mutant: the held `event:` line is written before the tail of its block, and
\* [DONE] before what is held back.
HandleLineEventFirst(d, line) ==
    IF line.type = "event" THEN [FlushEvent(d) EXCEPT !.event = line.name]
    ELSE IF line.type = "delta" THEN Rewrite(FlushEvent(d), line.texts)
    ELSE IF line.type = "stop" THEN Emit(FlushKeys(FlushEvent(d), {line.key}), line)
    ELSE IF line.type = "done" THEN FlushKeys(Emit(FlushEvent(d), line), Keys)
    ELSE Emit(FlushEvent(d), line)

\* handle_line.
HandleLine(d, line) ==
    IF line.type = "event" THEN [FlushEvent(d) EXCEPT !.event = line.name]
    ELSE IF line.type = "delta" THEN Rewrite(FlushEvent(d), line.texts)
    ELSE IF line.type = "stop" THEN Emit(FlushEvent(FlushKeys(d, {line.key})), line)
    ELSE IF line.type = "done" THEN Emit(FlushEvent(FlushKeys(d, Keys)), line)
    ELSE Emit(FlushEvent(d), line)

\* A data line cut short is no JSON; what is left of another line says nothing.
CutShort(line) == IF line.type \in {"event", "comment"} THEN Line("comment") ELSE Line("bad")

\* Mutant: what is held back is forgotten at the end.
FlushForgetting(d, line) ==
    FlushEvent(IF line = NoLine THEN d ELSE HandleLine(d, line))

\* flush: the unfinished line, all that is held back, and a held `event:` line.
Flush(d, line) ==
    LET handledLast == IF line = NoLine THEN d ELSE HandleLine(d, line)
    IN  FlushEvent(FlushKeys(handledLast, Keys))

-----------------------------------------------------------------------------
Init ==
    /\ anthropic \in Schemas
    /\ script \in Scripts
    /\ upstream = "open"
    /\ frame = "none"
    /\ stopped = {}
    /\ lineBuf = NoLine
    /\ handled = [k \in Keys |-> 0]
    /\ pending = Silent
    /\ eventHeld = "none"
    /\ ended = FALSE
    /\ client = NewClient

Becomes(demasker) ==
    \E d \in {demasker} :
        /\ pending' = d.pending
        /\ eventHeld' = d.event
        /\ client' = ReadFrom(client, d.out)

Took(line) ==
    handled' = IF line.type = "delta"
               THEN [k \in Keys |-> handled[k] + Len(line.texts[k])]
               ELSE handled

\* The bytes of a line arrive, but not its newline yet.
BytesArrive(line) ==
    /\ upstream = "open" /\ lineBuf = NoLine
    /\ lineBuf' = line
    /\ UNCHANGED <<anthropic, script, upstream, frame, stopped, handled, pending, eventHeld, ended, client>>

\* The provider opens a frame.  Anthropic names it first.
EventLineArrives ==
    /\ anthropic /\ frame = "none" /\ stopped # Keys
    /\ \E name \in {"delta", "stop"} : BytesArrive(Event(name))

CommentArrives ==
    /\ frame = "none"
    /\ BytesArrive(Line("comment"))

\* A frame that is going to carry such a data line.
Named(name) == frame = IF anthropic THEN name ELSE "none"

Following(k, n) == SubSeq(script[k], handled[k] + 1, handled[k] + n)

\* The next symbols of one text; OpenAI may send several texts in a line.
DeltaArrives ==
    /\ Named("delta")
    /\ \E ks \in SUBSET (Keys \ stopped), n \in 1..MaxDelta :
          /\ ks # {} /\ (anthropic => Cardinality(ks) = 1)
          /\ \A k \in ks : handled[k] + n <= Len(script[k])
          /\ BytesArrive(Delta([k \in Keys |-> IF k \in ks THEN Following(k, n) ELSE <<>>]))

\* The end of one Anthropic block, and OpenAI's [DONE].
StopArrives(k) ==
    /\ anthropic /\ Named("stop")
    /\ k \notin stopped /\ handled[k] = Len(script[k])
    /\ BytesArrive(Stop(k))

DoneArrives ==
    /\ ~anthropic /\ frame = "none"
    /\ stopped = {} /\ \A k \in Keys : handled[k] = Len(script[k])
    /\ BytesArrive(Line("done"))

\* The newline that completes the line.
NewlineArrives ==
    /\ upstream = "open" /\ lineBuf # NoLine
    /\ lineBuf' = NoLine
    /\ frame' = IF lineBuf.type = "comment" THEN frame
                ELSE IF lineBuf.type = "event" THEN lineBuf.name ELSE "data"
    /\ stopped' = IF lineBuf.type = "stop" THEN stopped \cup {lineBuf.key}
                  ELSE IF lineBuf.type = "done" THEN Keys ELSE stopped
    /\ Took(lineBuf)
    /\ Becomes(HandleLine(Demasker, lineBuf))
    /\ UNCHANGED <<anthropic, script, upstream, ended>>

\* The blank line that ends a frame.
BlankArrives ==
    /\ upstream = "open" /\ lineBuf = NoLine /\ frame = "data"
    /\ frame' = "none"
    /\ Becomes(HandleLine(Demasker, Line("blank")))
    /\ UNCHANGED <<anthropic, script, upstream, stopped, lineBuf, handled, ended>>

\* The connection to the provider is closed, or breaks, wherever it is.
UpstreamCloses(how) ==
    /\ upstream = "open"
    /\ upstream' = how
    /\ UNCHANGED <<anthropic, script, frame, stopped, lineBuf, handled, pending, eventHeld, ended, client>>

\* What is left of the line in progress.
Remains == IF lineBuf = NoLine THEN {NoLine} ELSE {lineBuf, CutShort(lineBuf)}

\* The body stream is closed behind the demasker's last words, and an error
\* event if the upstream failed.
StreamCloses(how, lastWords) ==
    /\ upstream = how /\ ~ended
    /\ \E line \in Remains :
          LET d == Flush(Demasker, line)
          IN  /\ Took(line)
              /\ Becomes([d EXCEPT !.out = @ \o lastWords])
    /\ frame' = IF lineBuf = NoLine THEN frame ELSE "cut"
    /\ lineBuf' = NoLine
    /\ ended' = TRUE
    /\ UNCHANGED <<anthropic, script, upstream, stopped>>

ErrorEvent == <<Event("error"), Line("error"), Line("blank")>>

Close == StreamCloses("ended", <<>>) \/ StreamCloses("failed", ErrorEvent)

Next ==
    \/ EventLineArrives \/ CommentArrives \/ DeltaArrives \/ DoneArrives
    \/ \E k \in Keys : StopArrives(k)
    \/ NewlineArrives \/ BlankArrives
    \/ UpstreamCloses("ended") \/ UpstreamCloses("failed")
    \/ Close

Spec == Init /\ [][Next]_sseVars

\* The provider may pause for ever; once its connection is gone, polling the
\* body goes on to its end.  (Only Close sets ended, and it can whenever the
\* connection is gone: this is the weak fairness of Close.)
FairSpec == Spec /\ WF_ended(upstream # "open" /\ ended' = TRUE)

-----------------------------------------------------------------------------
Received(k) == SubSeq(script[k], 1, handled[k])

\* The text of k in the frame the client is still reading.
InFrame(k) ==
    FlattenSeq([i \in 1..Len(client.data) |->
        IF client.data[i].type = "delta" THEN client.data[i].texts[k] ELSE <<>>])

\* At every moment what the client has of a text, followed by what is held back
\* of it, is what de-masking all of it at once would give: no placeholder is
\* missed because it was split, nothing is lost, doubled or put in another
\* text (push_buffered, split_demaskable, flush_key).
ShownIsDemasked ==
    ~client.broken =>
        \A k \in Keys :
            client.shown[k] \o InFrame(k) \o Demask(pending[k]) = Demask(Received(k))

\* No text comes after the stop of its block or after [DONE], and by then all of
\* it has come (flush_block, flush_pending).
EndsAreFinal ==
    /\ ~client.late
    /\ ~client.broken => \A k \in client.over : client.shown[k] = Demask(script[k])

\* What the demasker inserts never runs into a frame of the provider's, unless
\* the provider broke off inside one.
FramesIntact == client.broken => ended /\ frame # "none"

\* Only what may still become a placeholder is held back.
HeldBackBriefly ==
    \A k \in Keys :
        pending[k] # <<>> => /\ pending[k][1] = "["
                             /\ Len(pending[k]) <= MaxHold + 1
                             /\ "]" \notin ToSet(pending[k])

\* When the provider's stream ends between two frames the client gets all of the
\* answer, and the stream is closed (demasking_sse_body).
AnswerCompletes ==
    upstream # "open" ~>
        /\ ended
        /\ frame = "none" => \A k \in Keys : client.shown[k] = Demask(Received(k))

\* "A mid-stream upstream error is turned into a terminal SSE `event: error`"
\* (demasking_sse_body): the client can read that event.
FailureIsTold == ended /\ upstream = "failed" => client.told
=============================================================================
