------------------------------ MODULE WireRequest ------------------------------
(***************************************************************************)
(* What each provider adapter makes of one transcript: toWireMessages      *)
(* (openaicompat), buildRequest (responses), toWireRequest (anthropic and  *)
(* gemini), toOllamaMessages.  A session outlives a switch of provider, so *)
(* an adapter is given calls that another one named: some servers give an  *)
(* id, some none, and the gemini and ollama parsers number the calls of    *)
(* every reply from zero.                                                  *)
(*                                                                         *)
(* A call is [id, name, n], n its place in its message; a result carries   *)
(* the n of the call whose tool produced it.                               *)
(***************************************************************************)
EXTENDS Integers, Sequences, SequencesExt, FiniteSetsExt

CONSTANTS Names,        \* of tools
          MaxReplies, MaxCalls

ConstantsOK == MaxReplies \in Nat /\ MaxCalls \in Nat

T == INSTANCE Transcript

Adapters == {"compat", "responses", "anthropic", "gemini", "ollama"}

VARIABLES
    messages,   \* of the session, without the system prompt
    provider,   \* the active adapter
    replies     \* so far

vars == <<messages, provider, replies>>

Call(id, name, n)  == [id |-> id, name |-> name, n |-> n]
User               == [role |-> "user", calls |-> << >>, id |-> 0, name |-> "", n |-> 0]
Assistant(cs)      == [role |-> "assistant", calls |-> cs, id |-> 0, name |-> "", n |-> 0]
ToolResult(c)      == [role |-> "tool", calls |-> << >>, id |-> c.id, name |-> c.name, n |-> c.n]

-----------------------------------------------------------------------------
\* The items of a request: a call and a result, each with the key by which the
\* server pairs them, and what separates the messages.
Item(kind, key, n) == [kind |-> kind, key |-> key, n |-> n]
Break == Item("message", <<"none">>, 0)

Text(msg) == IF msg.role = "user" \/ msg.calls = << >> THEN <<Item("text", <<"none">>, 0)>> ELSE << >>

Items(msg, callKey(_), resultKey(_)) ==
    IF msg.role = "tool" THEN <<Item("result", resultKey(msg), msg.n)>>
    ELSE <<Break>> \o Text(msg) \o [i \in DOMAIN msg.calls |-> Item("call", callKey(msg.calls[i]), i)]

ById(c)   == <<"id", c.id>>
ByName(c) == <<"name", c.name>>

\* openaicompat and responses: the id as it is, empty or not.
toWireMessages(msg) == Items(msg, ById, ById)
buildRequest(msg)   == Items(msg, ById, ById)

\* anthropic: an id made of the name stands for none, on both sides.
nonEmpty(c) == IF c.id = 0 THEN <<"toolu", c.name>> ELSE <<"id", c.id>>

\* Mutant: only the call gets one.
toWireRequestHalf(msg) == Items(msg, nonEmpty, ById)

toWireRequest(msg) == Items(msg, nonEmpty, nonEmpty)

\* gemini and ollama have no ids on the wire.
geminiContents(msg)   == Items(msg, ByName, ByName)
toOllamaMessages(msg) == Items(msg, ByName, ByName)

Convert(adapter, msg) ==
    CASE adapter = "compat"    -> toWireMessages(msg)
      [] adapter = "responses" -> buildRequest(msg)
      [] adapter = "anthropic" -> toWireRequest(msg)
      [] adapter = "gemini"    -> geminiContents(msg)
      [] adapter = "ollama"    -> toOllamaMessages(msg)

\* ChatCompletion is given what buildMessages leaves of the transcript.
Request(adapter) ==
    LET ms == T!normalizeToolTranscript(messages)
    IN  FlattenSeq([i \in DOMAIN ms |-> Convert(adapter, ms[i])])

\* How a server reads it: a result is for the first call of the message before
\* it that has its key and no result yet.
Read(open, item) ==
    LET mine == {j \in DOMAIN open : open[j].key = item.key}
    IN  CASE item.kind = "call"                  -> Append(open, item)
          [] item.kind = "result" /\ mine # {}  -> RemoveAt(open, Min(mine))
          [] OTHER                               -> open

Pending(wire, i) ==
    LET b == Max({j \in 1 .. i - 1 : wire[j].kind = "message"})
        open[j \in b .. i - 1] == IF j = b THEN << >> ELSE Read(open[j - 1], wire[j])
    IN  open[i - 1]

AnsweredBy(wire, i) ==
    LET open == Pending(wire, i)
        mine == {j \in DOMAIN open : open[j].key = wire[i].key}
    IN  IF mine = {} THEN 0 ELSE open[Min(mine)].n

-----------------------------------------------------------------------------
Init ==
    /\ messages = <<User>>
    /\ provider \in Adapters
    /\ replies = 0

\* The ids of a reply's calls: given by the server, or the parser's numbers.
CallIDs ==
    IF provider \in {"gemini", "ollama"} THEN {[k \in 1 .. MaxCalls |-> k]}
    ELSE {[k \in 1 .. MaxCalls |-> 100 * (replies + 1) + k], [k \in 1 .. MaxCalls |-> 0]}

LastAssistant == Max({0} \cup {i \in DOMAIN messages : messages[i].role = "assistant"})
\* No prompt has come between the calls and their results.
Unanswered ==
    /\ LastAssistant # 0 /\ Len(messages) - LastAssistant < Len(messages[LastAssistant].calls)
    /\ \A i \in LastAssistant + 1 .. Len(messages) : messages[i].role = "tool"

Reply ==
    /\ ~Unanswered /\ replies < MaxReplies
    /\ \E k \in 0 .. MaxCalls, ids \in CallIDs, names \in [1 .. MaxCalls -> Names] :
         messages' = Append(messages, Assistant([j \in 1 .. k |-> Call(ids[j], names[j], j)]))
    /\ replies' = replies + 1
    /\ UNCHANGED provider

\* handleToolCall adds the result of the next call.
Result ==
    /\ Unanswered
    /\ messages' = Append(messages, ToolResult(messages[LastAssistant].calls[Len(messages) - LastAssistant + 1]))
    /\ UNCHANGED <<provider, replies>>

\* The next prompt, after a turn that ended or was cancelled between two calls,
\* with another provider perhaps.
Prompt ==
    /\ messages[Len(messages)].role # "user"
    /\ messages' = Append(messages, User)
    /\ provider' \in Adapters
    /\ UNCHANGED replies

Next == Reply \/ Result \/ Prompt

Spec == Init /\ [][Next]_vars

-----------------------------------------------------------------------------
TypeOK == provider \in Adapters /\ replies \in 0 .. MaxReplies

\* types.go "Each provider decides": whichever adapters wrote the history and
\* whichever sends it, every tool result is read as the result of its own call,
\* and no call is left without one.
ResultsReachTheirCalls ==
    \A a \in Adapters :
        LET wire == Request(a)
        IN  \A i \in DOMAIN wire :
              /\ wire[i].kind = "result" => AnsweredBy(wire, i) = wire[i].n
              /\ wire[i].kind = "message" /\ i > 1 => Pending(wire, i) = << >>

=============================================================================
