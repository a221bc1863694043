--------------------------- MODULE ProviderStream ---------------------------
(***************************************************************************)
(* One streaming request to a model provider: the retries before the first *)
(* byte (internal/provider/retry.go), the five parsers that turn a wire    *)
(* format into events (openaicompat, responses, anthropic, gemini, ollama),*)
(* the sink and the stall guard they share (sink.go, stream.go) and the    *)
(* consumer that assembles tool calls (oneTurn and callAssembler in        *)
(* internal/agent/agent.go).                                               *)
(*                                                                         *)
(* The server owes a reply: some text and Calls[k] fragments of arguments  *)
(* for the k-th tool call.  It sends frames; the connection may close      *)
(* between any two of them, the server may go silent, and the user may     *)
(* cancel.                                                                 *)
(***************************************************************************)
EXTENDS Integers, Sequences, SequencesExt, FiniteSets, FiniteSetsExt, Functions

CONSTANTS
    Adapters,      \* the wire formats
    Replies,       \* the replies: sequences of fragment counts, one per call
    Capacity,      \* of the event channel
    MaxAttempts    \* RetryConfig.MaxAttempts

ConstantsOK ==
    /\ Adapters \subseteq {"compat", "responses", "anthropic", "gemini", "ollama"}
    /\ Capacity \in Nat \ {0} /\ MaxAttempts \in Nat \ {0}

VARIABLES
    adapter, reply,   \* fixed: the adapter and the reply the server owes
    truncated,        \* the model hits its output limit inside the last call
    streamed,         \* responses: arguments come in deltas, not with the item
    attempt, refreshed,  \* of the request; refreshed: Auth.Refresh was tried
    wire,             \* frames the server has still to send
    conn,             \* "none", "open", "eof" or "failed"
    parser,           \* [phase, open, delta, next, stop, out, end]
    ch,               \* the channel of events
    guard,            \* the stall timer is armed
    ctxDone, sctxDone,   \* the caller's context and the one derived from it
    agent             \* [phase, calls]: the consumer and its assembler

vars == <<adapter, reply, truncated, streamed, attempt, refreshed, wire, conn, parser, ch,
          guard, ctxDone, sctxDone, agent>>

\* An event; args: the fragments of arguments it carries.
Ev(type, i)   == [type |-> type, index |-> i, args |-> IF type = "delta" THEN 1 ELSE 0]
All(i)        == [type |-> "delta", index |-> i, args |-> reply[i]]
DoneEv        == Ev("done", 0)
ErrorEv       == Ev("error", 0)
Whole(i)      == <<Ev("start", i), All(i), Ev("end", i)>>
Frame(kind, i) == [kind |-> kind, index |-> i]

-----------------------------------------------------------------------------
\* The wire formats.  A truncated reply lacks the last fragment of its last call.
Sent(r, t, i) == IF t /\ i = Len(r) THEN Max({0, r[i] - 1}) ELSE r[i]

Repeat(f, n) == [k \in 1 .. n |-> f]

\* Text, then each call in turn; what brackets a call depends on the format.
Body(a, r, t, d, i) ==
    LET deltas == IF d THEN Repeat(Frame("delta", i), Sent(r, t, i)) ELSE << >>
        cut    == t /\ i = Len(r)
    IN  CASE a = "compat"    -> <<Frame("delta0", i)>> \o deltas
          [] a \in {"responses", "anthropic"} ->
                <<Frame("start", i)>> \o deltas \o (IF cut THEN << >> ELSE <<Frame("stop", i)>>)
          [] OTHER           -> IF cut THEN << >> ELSE <<Frame("call", i)>>

Trailer(a, r, t) ==
    CASE a = "compat"    -> <<Frame(IF t THEN "length" ELSE IF r = << >> THEN "stop" ELSE "tool_calls", 0),
                              Frame("usage", 0)>>
      [] a = "responses" -> <<Frame(IF t THEN "incomplete" ELSE "completed", 0)>>
      [] a = "anthropic" -> <<Frame(IF t THEN "max_tokens" ELSE "tool_use", 0), Frame("message_stop", 0)>>
      [] OTHER           -> <<Frame(IF t THEN "length" ELSE "finish", 0)>>

Frames(a, r, t, d) ==
    <<Frame("text", 0)>> \o FlattenSeq([i \in 1 .. Len(r) |-> Body(a, r, t, d, i)]) \o Trailer(a, r, t)

-----------------------------------------------------------------------------
\* What a parser does with one frame: the events it sends and its state after.
\* open: calls begun and not ended; delta: those with arguments streamed.
Give(p, out)       == [p EXCEPT !.out = out]
Stop(p, out)       == [p EXCEPT !.out = out, !.end = TRUE]
EndAll(p)          == SetToSeq({Ev("end", i) : i \in p.open})

CompatFrame(p, f) ==
    CASE f.kind = "text"   -> Give(p, <<Ev("text", 0)>>)
      [] f.kind = "delta0" -> Give([p EXCEPT !.open = @ \cup {f.index}],
                                   IF f.index \in p.open THEN << >> ELSE <<Ev("start", f.index)>>)
      [] f.kind = "delta"  -> Give(p, <<Ev("delta", f.index)>>)
      [] \/ f.kind = "length"
         \/ f.kind = "stop" /\ p.open # {} -> Stop(p, <<ErrorEv>>)
      [] f.kind \in {"stop", "tool_calls"} -> Give([p EXCEPT !.open = {}], EndAll(p))
      [] f.kind = "usage"  -> Stop(p, <<DoneEv>>)

\* Arguments that were not streamed arrive with the end of the item.
ResponsesFrame(p, f) ==
    CASE f.kind = "text"  -> Give(p, <<Ev("text", 0)>>)
      [] f.kind = "start" -> Give([p EXCEPT !.open = @ \cup {f.index}], <<Ev("start", f.index)>>)
      [] f.kind = "delta" -> Give([p EXCEPT !.delta = @ \cup {f.index}], <<Ev("delta", f.index)>>)
      [] f.kind = "stop"  ->
            Give([p EXCEPT !.open = @ \ {f.index}],
                 (IF f.index \in p.delta \/ reply[f.index] = 0 THEN << >>
                  ELSE <<All(f.index)>>) \o <<Ev("end", f.index)>>)
      [] f.kind = "completed"  -> Stop(p, EndAll(p) \o <<DoneEv>>)
      [] f.kind = "incomplete" -> Stop(p, <<ErrorEv>>)

AnthropicFrame(p, f) ==
    CASE f.kind = "text"  -> Give(p, <<Ev("text", 0)>>)
      [] f.kind = "start" -> Give([p EXCEPT !.open = @ \cup {f.index}], <<Ev("start", f.index)>>)
      [] f.kind = "delta" -> Give(p, <<Ev("delta", f.index)>>)
      [] f.kind = "stop"  -> Give([p EXCEPT !.open = @ \ {f.index}], <<Ev("end", f.index)>>)
      [] f.kind \in {"max_tokens", "tool_use"} -> Give([p EXCEPT !.stop = f.kind], << >>)
      [] f.kind = "message_stop" -> Stop(p, IF p.stop = "max_tokens" THEN <<ErrorEv>> ELSE <<DoneEv>>)

\* Whole calls, numbered by the parser.  Done is the end of the stream.
GeminiFrame(p, f) ==
    CASE f.kind = "text"   -> Give(p, <<Ev("text", 0)>>)
      [] f.kind = "call"   -> Give([p EXCEPT !.next = @ + 1], Whole(p.next))
      [] f.kind = "length" -> Stop(p, <<ErrorEv>>)
      [] f.kind = "finish" -> Give(p, << >>)

OllamaFrame(p, f) ==
    CASE f.kind = "text"   -> Give(p, <<Ev("text", 0)>>)
      [] f.kind = "call"   -> Give([p EXCEPT !.next = @ + 1], Whole(p.next))
      [] f.kind = "length" -> Stop(p, <<ErrorEv>>)
      [] f.kind = "finish" -> Stop(p, <<DoneEv>>)

OnFrame(p, f) ==
    CASE adapter = "compat"    -> CompatFrame(p, f)
      [] adapter = "responses" -> ResponsesFrame(p, f)
      [] adapter = "anthropic" -> AnthropicFrame(p, f)
      [] adapter = "gemini"    -> GeminiFrame(p, f)
      [] adapter = "ollama"    -> OllamaFrame(p, f)

\* Mutant: the end of the stream is the end of the reply, whatever came before.
AtEOFIsDone(p) == Stop(p, <<DoneEv>>)

\* A stream that ends without its marker.
AtEOF(p) ==
    CASE adapter = "compat"                   -> Stop(p, IF p.open # {} THEN <<ErrorEv>> ELSE <<DoneEv>>)
      [] adapter \in {"responses", "anthropic"} -> Stop(p, <<ErrorEv>>)
      [] OTHER                                -> Stop(p, <<DoneEv>>)

-----------------------------------------------------------------------------
Init ==
    /\ adapter \in Adapters /\ reply \in Replies
    /\ truncated \in IF reply = << >> THEN {FALSE} ELSE BOOLEAN
    /\ streamed \in IF adapter = "responses" THEN BOOLEAN ELSE {TRUE}
    /\ attempt = 1 /\ refreshed = FALSE
    /\ wire = Frames(adapter, reply, truncated, streamed)
    /\ conn = "none"
    /\ parser = [phase |-> "none", open |-> {}, delta |-> {}, next |-> 1, stop |-> "",
                 out |-> << >>, end |-> FALSE]
    /\ ch = << >>
    /\ guard = TRUE
    /\ ctxDone = FALSE /\ sctxDone = FALSE
    /\ agent = [phase |-> "requesting", calls |-> << >>]

\* DoWithRetry: only before the response is handed over.
Failed == /\ agent' = [agent EXCEPT !.phase = "error"]
          /\ guard' = FALSE
          /\ UNCHANGED <<attempt, refreshed, conn, parser>>

Retryable ==   \* a transport error, 429 or 5xx
    IF attempt < MaxAttempts /\ ~sctxDone
    THEN attempt' = attempt + 1 /\ UNCHANGED <<refreshed, conn, parser, guard, agent>>
    ELSE Failed

Answered ==
    /\ conn' = "open"
    /\ parser' = [parser EXCEPT !.phase = "reading"]
    /\ agent' = [agent EXCEPT !.phase = "streaming"]
    /\ UNCHANGED <<attempt, refreshed, guard>>

\* responses: one refresh of the token, and the attempts start again.
Unauthorized ==
    /\ adapter = "responses" /\ ~refreshed
    /\ refreshed' = TRUE /\ attempt' = 1
    /\ UNCHANGED <<conn, parser, guard, agent>>

Attempt ==
    /\ agent.phase = "requesting"
    /\ IF sctxDone THEN Failed
       ELSE Retryable \/ Answered \/ Unauthorized \/ Failed
    /\ UNCHANGED <<adapter, reply, truncated, streamed, wire, ch, ctxDone, sctxDone>>

-----------------------------------------------------------------------------
\* Mutant: the timer of the first generation is the only one.
TickWithoutArm(g) == FALSE

\* StallGuard.Tick arms a new timer; a callback of an older one does nothing.
Tick(g) == TRUE

Expire ==
    /\ guard
    /\ guard' = FALSE
    /\ sctxDone' = TRUE
    /\ UNCHANGED <<adapter, reply, truncated, streamed, attempt, refreshed, wire, conn, parser, ch,
                   ctxDone, agent>>

Halted == ctxDone \/ sctxDone

\* The scanner of a parser: a frame, the end, or an error of the connection,
\* which a done context brings about.
ReadFrame ==
    /\ parser.phase = "reading" /\ parser.out = << >> /\ ~parser.end
    /\ \/ /\ conn = "open" /\ wire # << >>
          /\ wire' = Tail(wire)
          /\ IF Halted
             THEN parser' = Stop(parser, <<ErrorEv>>) /\ UNCHANGED guard
             ELSE parser' = OnFrame(parser, wire[1]) /\ guard' = Tick(guard)
       \/ /\ conn = "eof"
          /\ parser' = AtEOF(parser)
          /\ UNCHANGED <<wire, guard>>
       \/ /\ conn = "failed" \/ Halted
          /\ parser' = Stop(parser, <<ErrorEv>>)
          /\ UNCHANGED <<wire, guard>>
    /\ UNCHANGED <<adapter, reply, truncated, streamed, attempt, refreshed, conn, ch, ctxDone, sctxDone, agent>>

\* The connection ends by itself after the last frame, or too early.
CloseConn ==
    /\ conn = "open"
    /\ conn' \in {"eof", "failed"}
    /\ UNCHANGED <<adapter, reply, truncated, streamed, attempt, refreshed, wire, parser, ch, guard,
                   ctxDone, sctxDone, agent>>

Closed(p) == [p EXCEPT !.phase = "closed", !.out = << >>]

\* StreamSink.Send: an event that fits is always taken.
Send ==
    /\ parser.phase = "reading" /\ parser.out # << >> /\ Len(ch) < Capacity
    /\ ch' = Append(ch, parser.out[1])
    /\ parser' = [parser EXCEPT !.out = Tail(@)]
    /\ UNCHANGED <<adapter, reply, truncated, streamed, attempt, refreshed, wire, conn, guard, ctxDone, sctxDone, agent>>

\* One that does not fit waits for the consumer or for the end of the turn.
SendRefused ==
    /\ parser.phase = "reading" /\ parser.out # << >> /\ Len(ch) >= Capacity /\ ctxDone
    /\ parser' = Closed(parser)
    /\ guard' = FALSE /\ sctxDone' = TRUE
    /\ UNCHANGED <<adapter, reply, truncated, streamed, attempt, refreshed, wire, conn, ch, ctxDone, agent>>

\* The deferred close of the channel, the body and the guard.
Return ==
    /\ parser.phase = "reading" /\ parser.end /\ parser.out = << >>
    /\ parser' = Closed(parser)
    /\ guard' = FALSE /\ sctxDone' = TRUE
    /\ UNCHANGED <<adapter, reply, truncated, streamed, attempt, refreshed, wire, conn, ch, ctxDone, agent>>

Cancel ==
    /\ ~ctxDone /\ agent.phase \in {"requesting", "streaming", "deciding"}
    /\ ctxDone' = TRUE /\ sctxDone' = TRUE
    /\ UNCHANGED <<adapter, reply, truncated, streamed, attempt, refreshed, wire, conn, parser, ch, guard, agent>>

-----------------------------------------------------------------------------
\* callAssembler: arguments by index; a delta without a start begins its call.
Got(calls, i) == IF i \in DOMAIN calls THEN calls[i] ELSE 0
Put(calls, i, n) == [k \in DOMAIN calls \cup {i} |-> IF k = i THEN n ELSE calls[k]]

Assemble(calls, ev) ==
    CASE ev.type = "start" -> Put(calls, ev.index, Got(calls, ev.index))
      [] ev.type = "delta" -> Put(calls, ev.index, Got(calls, ev.index) + ev.args)
      [] OTHER             -> calls

Consume ==
    /\ agent.phase = "streaming" /\ ch # << >>
    /\ ch' = Tail(ch)
    /\ agent' = IF ch[1].type = "error" THEN [agent EXCEPT !.phase = "error"]
                ELSE [agent EXCEPT !.calls = Assemble(@, ch[1])]
    /\ UNCHANGED <<adapter, reply, truncated, streamed, attempt, refreshed, wire, conn, parser, guard,
                   ctxDone, sctxDone>>

\* Arguments are valid JSON when all of them came, and when none did: {} then.
ValidJSON(i) == agent.calls[i] \in {0, reply[i]}

\* finalize and validateToolCall, once the channel is closed and empty.
Finalize ==
    /\ agent.phase = "streaming" /\ ch = << >> /\ parser.phase = "closed"
    /\ agent' = [agent EXCEPT !.phase =
                    IF \A i \in DOMAIN agent.calls : ValidJSON(i) THEN "deciding" ELSE "error"]
    /\ UNCHANGED <<adapter, reply, truncated, streamed, attempt, refreshed, wire, conn, parser, ch, guard,
                   ctxDone, sctxDone>>

\* Mutant: the context is not looked at before the tool is started.
RunCallsUnchecked ==
    /\ agent.phase = "deciding"
    /\ agent' = [agent EXCEPT !.phase = "ran"]
    /\ UNCHANGED <<adapter, reply, truncated, streamed, attempt, refreshed, wire, conn, parser, ch, guard,
                   ctxDone, sctxDone>>

\* handleToolCall starts no tool once the context is done.
RunCalls ==
    /\ agent.phase = "deciding"
    /\ agent' = [agent EXCEPT !.phase = IF ctxDone THEN "error" ELSE "ran"]
    /\ UNCHANGED <<adapter, reply, truncated, streamed, attempt, refreshed, wire, conn, parser, ch, guard,
                   ctxDone, sctxDone>>

Next == \/ Attempt \/ Expire \/ ReadFrame \/ CloseConn \/ Send \/ SendRefused \/ Return
        \/ Cancel \/ Consume \/ Finalize \/ RunCalls

\* Goroutines and timers that can run do; the server and the user need not act.
Fairness == /\ WF_vars(Attempt) /\ WF_vars(Expire) /\ WF_vars(ReadFrame)
            /\ WF_vars(Send \/ SendRefused) /\ WF_vars(Return)
            /\ WF_vars(Consume) /\ WF_vars(Finalize) /\ WF_vars(RunCalls)

Spec == Init /\ [][Next]_vars /\ Fairness

-----------------------------------------------------------------------------
TypeOK ==
    /\ attempt \in 1 .. MaxAttempts
    /\ conn \in {"none", "open", "eof", "failed"}
    /\ parser.phase \in {"none", "reading", "closed"}
    /\ Len(ch) <= Capacity
    /\ agent.phase \in {"requesting", "streaming", "deciding", "ran", "error"}

\* anthropic.go "a partial tool proposal can already contain valid JSON": a tool
\* is started only with arguments the server sent in full, however the stream
\* ended and whoever cancelled when.
CallsRunWhole ==
    agent.phase = "ran" =>
        \A i \in DOMAIN agent.calls : i <= Len(reply) /\ agent.calls[i] = reply[i]

\* stream.go, sink.go: whatever the server does, the stream ends and the turn
\* gets its reply or an error.
StreamEnds == <>(agent.phase \in {"ran", "error"})
=============================================================================
