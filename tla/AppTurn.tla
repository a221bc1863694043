------------------------------ MODULE AppTurn ------------------------------
(***************************************************************************)
(* Turns in the terminal application: internal/app/app.go, with            *)
(* slashcmd_queue.go, slashcmd_loop.go and slashcmd_compact.go.  All of it *)
(* runs on the Update goroutine; the agent, a compaction, the clock and    *)
(* the skill tool answer with messages.  The state is one record, and each *)
(* function of the code a function on it, composed as the code calls them. *)
(***************************************************************************)
EXTENDS Integers, Sequences, SequencesExt, FiniteSets

CONSTANTS MaxPrompts,   \* bound: prompts the user submits
          Loops,        \* loops the user may start
          MaxIters      \* selfPacedMaxIters, and a bound on the ticks of a loop

ConstantsOK == MaxPrompts \in Nat /\ MaxIters \in Nat \ {0} /\ 0 \notin Loops

VARIABLES
    app,         \* the fields of App that turns depend on
    skillMsg,    \* a skillLoadedMsg under way: whether skillTurnID is still its
                 \* turn's, and whether its context is done
    submitted,   \* prompts so far
    started,     \* history: how often each prompt was started
    removed      \* history: the prompts the user took out of the queue

vars == <<app, skillMsg, submitted, started, removed>>

Prompts == 1..MaxPrompts
NoMsg   == [same |-> FALSE, dead |-> TRUE]

\* A turn or a queuedInput: the user's prompt, or 0; the loop it belongs to;
\* the loop that made it; whether a typed skill gives it a grant.
Turn(p, l, s, g) == [prompt |-> p, loop |-> l, source |-> s, skill |-> g]
Turns  == [prompt: Prompts \cup {0}, loop: Loops \cup {0}, source: Loops \cup {0},
           skill: BOOLEAN]
NoTurn == Turn(0, 0, 0, FALSE)

\* streaming is split by what streams; live is cancelTurn # nil; of skillTurnID
\* only the parity is kept, which tells that a turn has begun.
TypeOK ==
    /\ app.streaming \in {"no", "turn", "compact"}
    /\ {app.live, app.paused, app.failed, app.skip} \subseteq BOOLEAN
    /\ app.queue \in Seq(Turns) /\ app.running \in Turns
    /\ app.loops \subseteq [id: Loops, mode: {"interval", "paced"}, body: {"prompt", "skill"},
                            iterations: 0..MaxIters]
    /\ app.activeLoop \in Loops \cup {0}
    /\ app.turnID \in {0, 1} /\ app.grant \in {"none", "this turn", "an earlier turn"}
    /\ skillMsg \in [same: BOOLEAN, dead: BOOLEAN]
    /\ started \in [Prompts -> 0..2] /\ removed \subseteq Prompts /\ submitted \in 0..MaxPrompts

Init ==
    /\ app = [streaming |-> "no", live |-> FALSE, queue |-> << >>, paused |-> FALSE,
              failed |-> FALSE, skip |-> FALSE, running |-> NoTurn, loops |-> {},
              activeLoop |-> 0, turnID |-> 0, grant |-> "none"]
    /\ skillMsg = NoMsg
    /\ submitted = 0
    /\ started = [p \in Prompts |-> 0]
    /\ removed = {}

-----------------------------------------------------------------------------
queueTurn(a, opt) == [a EXCEPT !.queue = Append(@, opt)]

\* The one place a turn begins.  big: the request would cross the threshold;
\* then the turn is queued again and a compaction runs first.
startTurnResolved(a, opt, big) ==
    IF big /\ ~a.skip
    THEN [queueTurn(a, opt) EXCEPT !.skip = TRUE, !.streaming = "compact", !.live = TRUE]
    ELSE [a EXCEPT !.skip = FALSE, !.streaming = "turn", !.live = TRUE, !.failed = FALSE,
                   !.running = opt, !.activeLoop = opt.loop, !.turnID = 1 - @,
                   !.grant = IF opt.skill THEN "this turn"
                             ELSE IF @ = "none" THEN @ ELSE "an earlier turn"]

startTurnWith(a, opt, big) ==
    IF a.paused THEN queueTurn(a, opt) ELSE startTurnResolved(a, opt, big)

\* Mutant: the turn is started and stays in the queue.
startWithoutRemoval(a, big) ==
    IF a.paused \/ a.queue = << >> THEN a ELSE startTurnWith(a, Head(a.queue), big)

\* Mutant: a deferred turn may be deferred again.
startForgetsSkip(a, big) ==
    IF a.paused \/ a.queue = << >> THEN a
    ELSE startTurnWith([a EXCEPT !.queue = Tail(@), !.skip = FALSE], Head(a.queue), big)

startNextQueuedInput(a, big) ==
    IF a.paused \/ a.queue = << >> THEN a
    ELSE startTurnWith([a EXCEPT !.queue = Tail(@)], Head(a.queue), big)

\* Mutant: what waits is not held back.
pauseNothing(a) == a

pauseQueuedInputs(a) == [a EXCEPT !.paused = @ \/ a.queue # << >>]
clearQueuedInputs(a) == [a EXCEPT !.paused = FALSE, !.queue = << >>]

\* A prompt, or a markdown command, or a typed skill.
submit(a, opt, big) ==
    IF a.streaming # "no" THEN queueTurn(a, opt) ELSE startTurnWith(a, opt, big)

-----------------------------------------------------------------------------
finishLoop(a, l) == [a EXCEPT !.loops = {x \in @ : x.id # l}]
Loop(a, l)       == CHOOSE x \in a.loops : x.id = l
Active(a, l)     == \E x \in a.loops : x.id = l

\* One iteration.  A command is dispatched as if it were typed, and what it put
\* into the queue is marked as the loop's; a prompt carries the loop's id.
runLoopBody(a, l, big) ==
    LET ls == Loop(a, l)
        b  == [a EXCEPT !.loops = (@ \ {ls}) \cup {[ls EXCEPT !.iterations = @ + 1]}]
        c  == submit(b, Turn(0, 0, 0, TRUE), big)
    IN  IF ls.body = "prompt"
        THEN submit(b, Turn(0, IF ls.mode = "paced" THEN l ELSE 0, l, FALSE), big)
        ELSE [c EXCEPT !.queue =
                 [i \in DOMAIN @ |-> IF i > Len(b.queue) /\ @[i].source = 0
                                     THEN [@[i] EXCEPT !.source = l] ELSE @[i]]]

\* onLoopTurnDone and stopLoopAfterFailedTurn: the loop that owned the turn
\* runs again, or ends with it.
LoopAfterTurn(a, done, big) ==
    LET l == a.activeLoop
        b == [a EXCEPT !.activeLoop = 0]
    IN  IF l = 0 \/ ~Active(a, l) THEN b
        ELSE IF a.failed \/ done \/ Loop(a, l).iterations >= MaxIters THEN finishLoop(b, l)
        ELSE runLoopBody(b, l, big)

\* Mutant: turns of the loop that wait in the queue stay there.
removeNothing(a, l) == a

\* stopLoop takes the loop's waiting turns with it, whoever is in front.
removeQueuedLoopTurns(a, l) ==
    LET Owner(q) == IF q.source # 0 THEN q.source ELSE q.loop
        kept     == SelectSeq(a.queue, LAMBDA q : Owner(q) # l)
    IN  [a EXCEPT !.queue = kept, !.paused = @ /\ kept # << >>]

-----------------------------------------------------------------------------
\* Every message is handled to its end before the next one.
Prompted(seq) == {seq[i].prompt : i \in DOMAIN seq} \ {0}

Becomes(a, dead) ==
    /\ app' = a
    /\ skillMsg' = [same |-> skillMsg.same /\ a.turnID = app.turnID,
                    dead |-> skillMsg.dead \/ dead]
    /\ started' = IF a.turnID # app.turnID /\ a.running.prompt # 0
                  THEN [started EXCEPT ![a.running.prompt] = IF @ = 2 THEN 2 ELSE @ + 1] ELSE started

UserRemoves(a, dead) == /\ Becomes(a, dead)
                  /\ removed' = removed \cup (Prompted(app.queue) \ Prompted(a.queue))

Submit(skill, big) ==
    /\ submitted < MaxPrompts
    /\ submitted' = submitted + 1
    /\ Becomes(submit(app, Turn(submitted + 1, 0, 0, skill), big), FALSE)
    /\ UNCHANGED removed

\* EventError of the running turn: the provider, the session or a tool failed,
\* or the turn is cancelled.
AgentError ==
    /\ app.streaming = "turn" /\ (app.live \/ ~app.failed)
    /\ Becomes([app EXCEPT !.failed = TRUE, !.live = FALSE], TRUE)
    /\ UNCHANGED <<submitted, removed>>

\* agentDoneMsg, the channel of the turn being closed.  done: the last answer
\* says that the loop is finished.
AgentDone(done, big) ==
    /\ app.streaming = "turn"
    /\ LET a == [app EXCEPT !.streaming = "no", !.live = FALSE, !.grant = "none"]
           b == LoopAfterTurn(a, done, big)
           c == IF b.streaming # "no" THEN b
                ELSE startNextQueuedInput(IF b.failed THEN pauseQueuedInputs(b) ELSE b, big)
       IN  Becomes(c, TRUE)
    /\ UNCHANGED <<submitted, removed>>

\* Ctrl+C while something streams.
CtrlC ==
    /\ app.streaming # "no" /\ (app.live \/ app.queue # << >> \/ ~app.failed)
    /\ UserRemoves(clearQueuedInputs([app EXCEPT !.failed = TRUE, !.live = FALSE]), TRUE)
    /\ UNCHANGED submitted

\* /compact.
Compact ==
    /\ app.streaming = "no"
    /\ Becomes([app EXCEPT !.streaming = "compact", !.live = TRUE], FALSE)
    /\ UNCHANGED <<submitted, removed>>

\* compactDoneMsg: the summary was saved, or it was not and the queue waits.
CompactDone(ok, big) ==
    /\ app.streaming = "compact"
    /\ LET a == [app EXCEPT !.streaming = "no", !.live = FALSE]
       IN  Becomes(IF ok THEN startNextQueuedInput(a, big)
                   ELSE pauseQueuedInputs([a EXCEPT !.skip = FALSE]), FALSE)
    /\ UNCHANGED <<submitted, removed>>

QueueResume(big) ==
    /\ app.streaming = "no" \/ app.queue = << >>
    /\ app.paused
    /\ Becomes(startNextQueuedInput([app EXCEPT !.paused = FALSE], big), FALSE)
    /\ UNCHANGED <<submitted, removed>>

QueueClear ==
    /\ app.queue # << >> \/ app.paused
    /\ UserRemoves(clearQueuedInputs(app), FALSE)
    /\ UNCHANGED submitted

QueueDrop ==
    \E i \in DOMAIN app.queue :
        /\ LET q == RemoveAt(app.queue, i)
           IN  UserRemoves([app EXCEPT !.queue = q, !.paused = @ /\ q # << >>], FALSE)
        /\ UNCHANGED submitted

\* /loop.
StartLoop(l, mode, body, big) ==
    /\ ~\E x \in app.loops : x.id >= l
    /\ Becomes(runLoopBody(
          [app EXCEPT !.loops = @ \cup {[id |-> l, mode |-> mode, body |-> body,
                                         iterations |-> 0]}], l, big), FALSE)
    /\ UNCHANGED <<submitted, removed>>

\* The clock of an interval loop; a tick that finds a turn running is skipped.
LoopTick(big) ==
    \E ls \in app.loops :
        /\ ls.mode = "interval" /\ ls.iterations < MaxIters
        /\ app.streaming = "no" /\ ~app.paused
        /\ Becomes(runLoopBody(app, ls.id, big), FALSE)
        /\ UNCHANGED <<submitted, removed>>

StopLoop ==
    \E ls \in app.loops :
        /\ LET a == removeQueuedLoopTurns(finishLoop(app, ls.id), ls.id)
           IN  UserRemoves([a EXCEPT !.activeLoop = IF @ = ls.id THEN 0 ELSE @], FALSE)
        /\ UNCHANGED submitted

\* The skill tool of the running turn posts its message and waits for it to be
\* applied, or for its context.
SkillLoads ==
    /\ app.streaming = "turn" /\ app.live /\ skillMsg = NoMsg
    /\ skillMsg' = [same |-> TRUE, dead |-> FALSE]
    /\ UNCHANGED <<app, submitted, started, removed>>

\* Mutant: the turn number alone tells a late message.
SkillAppliesByNumber(msg) == app.streaming # "no" /\ msg.same

SkillApplies(msg) == app.streaming # "no" /\ msg.same /\ ~msg.dead

HandleSkillLoaded ==
    /\ skillMsg # NoMsg
    /\ app' = IF SkillApplies(skillMsg) THEN [app EXCEPT !.grant = "this turn"] ELSE app
    /\ skillMsg' = NoMsg
    /\ UNCHANGED <<submitted, started, removed>>

Next ==
    \/ \E big \in BOOLEAN :
          \/ \E b \in BOOLEAN : Submit(b, big) \/ AgentDone(b, big) \/ CompactDone(b, big)
          \/ \E l \in Loops, m \in {"interval", "paced"}, x \in {"prompt", "skill"} :
                StartLoop(l, m, x, big)
          \/ QueueResume(big) \/ LoopTick(big)
    \/ AgentError \/ CtrlC \/ Compact \/ QueueClear \/ QueueDrop \/ StopLoop
    \/ SkillLoads \/ HandleSkillLoaded

Spec == Init /\ [][Next]_vars

-----------------------------------------------------------------------------
\* Whatever fails, is cancelled or is compacted first, a prompt of the user is
\* started once, or waits, or was taken back by the user.
PromptRunsOnce ==
    \A p \in 1..submitted :
        LET waits == Cardinality({i \in DOMAIN app.queue : app.queue[i].prompt = p})
        IN  started[p] + waits + (IF p \in removed THEN 1 ELSE 0) = 1

\* When nothing runs, a prompt that waits does so because the queue is paused,
\* which the user is told of and can undo.
NoPromptStranded == app.streaming = "no" /\ app.queue # << >> => app.paused

\* A loop that is stopped, by the user or by its own failed turn, never begins
\* another turn, wherever its next turn was waiting.
StoppedLoopIsQuiet ==
    [][\A l \in Loops :
          app'.turnID # app.turnID /\ app'.running.source = l => Active(app, l) \/ Active(app', l)]_vars

\* What a skill pre-approves ends with the turn it was loaded in.
GrantEndsWithTurn ==
    app.grant # "none" => app.streaming = "turn" /\ app.grant = "this turn"

\* An automatic compaction is not followed by another one before a turn has
\* run: a request that stays too large is sent all the same.
CompactionLetsATurnRun ==
    [][app.skip /\ (\E ok, big \in BOOLEAN : CompactDone(ok, big))
          => app'.streaming # "compact"]_vars
=============================================================================
