----------------------------- MODULE Transcript -----------------------------
(***************************************************************************)
(* The message list of a conversation as the provider must see it:         *)
(* internal/agent/context.go.  A call is [id, name], with id 0 when the    *)
(* provider gave none; a tool message repeats both.  An assistant message  *)
(* with calls carries no text of its own (agent.go:376-379).               *)
(***************************************************************************)
EXTENDS Integers, Sequences, SequencesExt, FiniteSetsExt

User           == [role |-> "user", calls |-> << >>, id |-> 0, name |-> ""]
Assistant(cs)  == [role |-> "assistant", calls |-> cs, id |-> 0, name |-> ""]
ToolResult(c)  == [role |-> "tool", calls |-> << >>, id |-> c.id, name |-> c.name]

HasCalls(msg) == msg.role = "assistant" /\ msg.calls # << >>

\* The call a result answers: by id first, then by name; 0 for none.
matchingToolCallIndex(calls, result, matched) ==
    LET free   == DOMAIN calls \ matched
        byId   == {i \in free : calls[i].id # 0 /\ calls[i].id = result.id}
        byName == {i \in free : calls[i].name = result.name}
    IN  CASE byId # {}   -> Min(byId)
          [] byName # {} -> Min(byName)
          [] OTHER       -> 0

\* The index after the run of tool messages that follows ms[i].
AfterResults(ms, i) ==
    Min({j \in i+1 .. Len(ms)+1 : j = Len(ms)+1 \/ ms[j].role # "tool"})

\* A result is taken by the call it answers, each call used once.
TakeResult(calls, result, acc) ==
    LET c == matchingToolCallIndex(calls, result, acc.matched)
    IN  IF c = 0 THEN acc
        ELSE [matched |-> acc.matched \cup {c},
              results |-> Append(acc.results, [result EXCEPT !.id = IF @ = 0 THEN calls[c].id ELSE @])]

\* The results that belong to the calls of ms[i].
collectToolResults(ms, i) ==
    LET calls   == ms[i].calls
        replies == SubSeq(ms, i + 1, AfterResults(ms, i) - 1)
        taken[k \in 0 .. Len(replies)] ==
            IF k = 0 THEN [matched |-> {}, results |-> << >>] ELSE TakeResult(calls, replies[k], taken[k - 1])
    IN  taken[Len(replies)]

\* Mutant: one result will do.
IsCompleteIfAny(ms, i) == collectToolResults(ms, i).results # << >>

IsComplete(ms, i) == collectToolResults(ms, i).matched = DOMAIN ms[i].calls

\* Calls without all their results are left out, and so are stray results.
normalizeToolTranscript(ms) ==
    LET Part(i) ==
            CASE ms[i].role = "tool" -> << >>
              [] HasCalls(ms[i]) ->
                    IF IsComplete(ms, i)
                    THEN <<ms[i]>> \o collectToolResults(ms, i).results
                    ELSE << >>
              [] OTHER -> <<ms[i]>>
    IN  FlattenSeq([i \in DOMAIN ms |-> Part(i)])

\* The messages before and through the end of each call with all its results.
completeToolGroups(ms) ==
    {[before |-> i - 1, through |-> AfterResults(ms, i) - 1] :
        i \in {j \in DOMAIN ms : HasCalls(ms[j]) /\ IsComplete(ms, j)}}

\* Mutant: the cut is where the count of messages says.
compactTailStartAnywhere(ms, head) == IF head <= 0 THEN 0 ELSE head

\* How many messages the summary replaces: a group is never cut in two.
compactTailStart(ms, head) ==
    LET cut == {g \in completeToolGroups(ms) : g.before < head /\ head < g.through}
    IN  CASE head <= 0       -> 0
          [] head >= Len(ms) -> Len(ms)
          [] cut # {}        -> (CHOOSE g \in cut : TRUE).before
          [] OTHER           -> head

CanCompact(ms, keep) ==
    keep > 0 /\ Len(ms) > keep /\ compactTailStart(ms, Len(ms) - keep) > 0

\* What compaction makes of ms once the provider has written the summary.
CompactWithUsage(ms, keep) ==
    LET head == compactTailStart(ms, Len(ms) - keep)
    IN  IF head = 0 THEN normalizeToolTranscript(ms)
        ELSE normalizeToolTranscript(<<Assistant(<< >>)>> \o SubSeq(ms, head + 1, Len(ms)))

-----------------------------------------------------------------------------
\* What every provider asks of a request: the calls of a message are followed
\* by one result each, and there is no other result.
WellFormed(ms) ==
    \A i \in DOMAIN ms :
        /\ HasCalls(ms[i]) =>
              /\ i + Len(ms[i].calls) <= Len(ms)
              /\ \E p \in [DOMAIN ms[i].calls -> DOMAIN ms[i].calls] :
                    /\ \A c, d \in DOMAIN p : p[c] = p[d] => c = d
                    /\ \A c \in DOMAIN p : ms[i + p[c]] = ToolResult(ms[i].calls[c])
        /\ ms[i].role = "tool" =>
              \E j \in 1 .. i - 1 :
                  HasCalls(ms[j]) /\ i <= j + Len(ms[j].calls)
=============================================================================
