----------------------------- MODULE AgentTurn -----------------------------
(***************************************************************************)
(* One run of the agent over the session: internal/agent/agent.go with     *)
(* internal/session/session.go, and the two things the App does to the     *)
(* same session meanwhile, the injection of a job's result and compaction. *)
(* The run is one goroutine; the provider, the hooks, the policy, the user *)
(* and the tools answer as they like.  The process may die and the session *)
(* be resumed from its file.                                               *)
(***************************************************************************)
EXTENDS Transcript

CONSTANTS
    MaxMessages,       \* bound: length of the transcript
    maxToolIterations,
    Keep,              \* messages a compaction keeps
    MaxPrompts, MaxInjections, MaxCancels, MaxFaults   \* bounds

ConstantsOK ==
    /\ {MaxMessages, MaxPrompts, MaxInjections, MaxCancels, MaxFaults} \subseteq Nat
    /\ {maxToolIterations, Keep} \subseteq Nat \ {0}

VARIABLES
    messages,    \* Session.Messages in memory
    saved,       \* Session.Messages in the file
    phase,       \* where the run is
    calls,       \* the calls of the current response
    next,        \* the call handled now
    iter,        \* turns of the provider in this run
    cancelled,   \* the run's context is done
    request,     \* the messages of the last request
    before,      \* compaction: the messages it read
    bounds       \* prompts, injections, cancels and faults so far

vars == <<messages, saved, phase, calls, next, iter, cancelled, request, before, bounds>>

Call(i, n) == [id |-> i, name |-> n]

\* Responses that differ in what a result can be matched by.
Responses == {<<Call(1, "read")>>,
              <<Call(1, "read"), Call(2, "read")>>,
              <<Call(0, "read"), Call(0, "read")>>,
              <<Call(1, "read"), Call(1, "write")>>}

Messages  == [role : {"user", "assistant", "tool"}, calls : Responses \cup {<< >>},
              id : 0..2, name : {"", "read", "write"}]
Phases    == {"idle", "request", "stream", "call", "approval", "tool", "boundary"}

TypeOK ==
    /\ {messages, saved, request, before} \subseteq Seq(Messages)
    /\ phase \in Phases \cup {"compact"}
    /\ calls \in Responses \cup {<< >>}
    /\ next \in 1..3 /\ iter \in 0..maxToolIterations
    /\ cancelled \in BOOLEAN
    /\ bounds \in [prompt: 0..MaxPrompts, inject: 0..MaxInjections,
                   cancel: 0..MaxCancels, fault: 0..MaxFaults]

Init ==
    /\ messages = << >> /\ saved = << >>
    /\ phase = "idle"
    /\ calls = << >> /\ next = 1 /\ iter = 0
    /\ cancelled = FALSE
    /\ request = << >> /\ before = << >>
    /\ bounds = [prompt |-> 0, inject |-> 0, cancel |-> 0, fault |-> 0]

-----------------------------------------------------------------------------
\* AddMessage appends in memory and then writes the whole session.  A message
\* whose save failed stays in memory, and the caller hears of the failure.
AddMessage(msg, ok) ==
    /\ Len(messages) < MaxMessages
    /\ messages' = Append(messages, msg)
    /\ saved' = IF ok THEN messages' ELSE saved
    /\ ok \/ bounds.fault < MaxFaults

Counted(ok) == bounds' = [bounds EXCEPT !.fault = IF ok THEN @ ELSE @ + 1]

\* The run is over: its channel is closed.
EndRun ==
    /\ phase' = "idle"
    /\ calls' = << >> /\ next' = 1 /\ iter' = 0
    /\ cancelled' = FALSE

GoTo(p) == phase' = p /\ UNCHANGED <<calls, next, iter, cancelled>>

-----------------------------------------------------------------------------
\* Run: a prompt that its hook refuses is not recorded and changes nothing.
Run(ok) ==
    /\ phase = "idle" /\ bounds.prompt < MaxPrompts
    /\ AddMessage(User, ok)
    /\ bounds' = [bounds EXCEPT !.prompt = @ + 1, !.fault = IF ok THEN @ ELSE @ + 1]
    /\ IF ok THEN GoTo("request") ELSE EndRun
    /\ UNCHANGED <<request, before>>

\* oneTurn: the request is built from the session as it is now.
ChatCompletion ==
    /\ phase = "request"
    /\ request' = normalizeToolTranscript(messages)
    /\ GoTo("stream")
    /\ UNCHANGED <<messages, saved, before, bounds>>

\* The stream fails, or one of its calls is not valid: nothing is recorded.
StreamFails ==
    /\ phase = "stream"
    /\ EndRun
    /\ UNCHANGED <<messages, saved, request, before, bounds>>

\* The response is text, or nothing at all.
Answers(ok) ==
    /\ phase = "stream"
    /\ \/ AddMessage(Assistant(<< >>), ok)
       \/ ok /\ UNCHANGED <<messages, saved>>
    /\ EndRun
    /\ Counted(ok)
    /\ UNCHANGED <<request, before>>

\* The calls are recorded before any of them is handled.
ProposesCalls(cs, ok) ==
    /\ phase = "stream"
    /\ AddMessage(Assistant(cs), ok)
    /\ Counted(ok)
    /\ IF ok
       THEN /\ phase' = "call" /\ calls' = cs
            /\ UNCHANGED <<next, iter, cancelled>>
       ELSE EndRun
    /\ UNCHANGED <<request, before>>

-----------------------------------------------------------------------------
\* A tool message is recorded for the call, and the next one is handled.
RecordResult(ok) ==
    /\ AddMessage(ToolResult(calls[next]), ok)
    /\ Counted(ok)
    /\ IF ok
       THEN /\ next' = next + 1
            /\ phase' = IF next = Len(calls) THEN "boundary" ELSE "call"
            /\ UNCHANGED <<calls, iter, cancelled>>
       ELSE EndRun
    /\ UNCHANGED <<request, before>>

\* handleToolCall: the tool is unknown, or the policy or a hook refuses it.
RefuseCall(ok) == phase = "call" /\ RecordResult(ok)

\* The policy asks; the modal belongs to ApprovalQueue.
AskUser ==
    /\ phase = "call"
    /\ GoTo("approval")
    /\ UNCHANGED <<messages, saved, request, before, bounds>>

\* The user says no, the edited arguments are denied, or the prompt ends
\* with its context: each is a rejection like any other.
Reject(ok) == phase = "approval" /\ RecordResult(ok)

\* Allowed by the policy or by the user.  A cancelled run goes no further, and
\* leaves the call without a result.
StartTool ==
    /\ phase \in {"call", "approval"}
    /\ IF cancelled THEN EndRun ELSE GoTo("tool")
    /\ UNCHANGED <<messages, saved, request, before, bounds>>

\* executeTool returns a result, or a failure that is told to the model.
ToolReturns(ok) == phase = "tool" /\ RecordResult(ok)

\* The tool gave up because its context is done: the call keeps no result.
ToolCancelled ==
    /\ phase = "tool" /\ cancelled
    /\ EndRun
    /\ UNCHANGED <<messages, saved, request, before, bounds>>

\* The end of a turn.  The loop detector and the token
\* budget may stop the run, the number of turns must.
NextTurn ==
    /\ phase = "boundary"
    /\ \/ EndRun
       \/ /\ iter + 1 < maxToolIterations
          /\ phase' = "request" /\ iter' = iter + 1
          /\ calls' = << >> /\ next' = 1
          /\ UNCHANGED cancelled
    /\ UNCHANGED <<messages, saved, request, before, bounds>>

-----------------------------------------------------------------------------
\* Ctrl+C.
Cancel ==
    /\ phase \notin {"idle", "compact"} /\ ~cancelled
    /\ bounds.cancel < MaxCancels
    /\ cancelled' = TRUE
    /\ bounds' = [bounds EXCEPT !.cancel = @ + 1]
    /\ UNCHANGED <<messages, saved, phase, calls, next, iter, request, before>>

\* handleAgentInject: at any time, a turn or a compaction running or not.
Inject(ok) ==
    /\ bounds.inject < MaxInjections
    /\ AddMessage(User, ok)
    /\ bounds' = [bounds EXCEPT !.inject = @ + 1, !.fault = IF ok THEN @ ELSE @ + 1]
    /\ UNCHANGED <<phase, calls, next, iter, cancelled, request, before>>

\* handleCompactCommand and the automatic compaction: no turn may run.
StartCompaction ==
    /\ phase = "idle" /\ CanCompact(messages, Keep)
    /\ before' = messages
    /\ GoTo("compact")
    /\ UNCHANGED <<messages, saved, request, bounds>>

\* handleCompactDone: the transcript is replaced, in the file and in memory or
\* in neither.
CompactDone ==
    /\ phase = "compact"
    /\ messages' = CompactWithUsage(before, Keep)
    /\ saved' = messages'
    /\ GoTo("idle")
    /\ UNCHANGED <<request, before, bounds>>

\* The summary was refused, cancelled or could not be saved.
CompactFails ==
    /\ phase = "compact"
    /\ GoTo("idle")
    /\ UNCHANGED <<messages, saved, request, before, bounds>>

\* The process dies and the session is resumed.
Crash ==
    /\ bounds.fault < MaxFaults
    /\ bounds' = [bounds EXCEPT !.fault = @ + 1]
    /\ messages' = saved
    /\ EndRun
    /\ UNCHANGED <<saved, request, before>>

Next ==
    \/ \E ok \in BOOLEAN :
          \/ Run(ok) \/ Answers(ok) \/ RefuseCall(ok) \/ Reject(ok)
          \/ ToolReturns(ok) \/ Inject(ok)
          \/ \E cs \in Responses : ProposesCalls(cs, ok)
    \/ ChatCompletion \/ StreamFails \/ AskUser \/ StartTool \/ ToolCancelled
    \/ NextTurn \/ Cancel
    \/ StartCompaction \/ CompactDone \/ CompactFails \/ Crash

Spec == Init /\ [][Next]_vars

-----------------------------------------------------------------------------
\* Whatever was cancelled, injected, compacted, not saved or lost in a crash:
\* a provider is only sent calls that are followed by all their results.
RequestIsWellFormed == WellFormed(request)

\* Compaction forgets no call that the messages it promises to keep are about:
\* what the model would have been sent of them before, it is sent after.
CompactionKeepsTail ==
    [][phase = "compact" /\ messages' # messages /\ bounds' = bounds =>
        LET kept  == {g \in completeToolGroups(before) : g.through > Len(before) - Keep}
            first == Min({Len(before) - Keep} \cup {g.before : g \in kept})
        IN  IsSuffix(normalizeToolTranscript(SubSeq(before, first + 1, Len(before))),
                     normalizeToolTranscript(messages'))]_vars

\* agent.go:440-443: a tool message is appended whatever the outcome, so that
\* the model has full visibility into what happened: the results of a response
\* whose calls were all handled are in the next request.
HandledCallsAreVisible ==
    [][phase = "request" /\ phase' = "stream" /\ iter > 0 =>
        Cardinality({i \in DOMAIN request' : HasCalls(request'[i])}) >= iter]_vars

=============================================================================
