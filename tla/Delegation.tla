----------------------------- MODULE Delegation -----------------------------
(***************************************************************************)
(* Agents that delegate: the tools spawn_agent and collect_agent_results   *)
(* (internal/tools) over jobs.Manager, through the adapter AsToolsSpawner. *)
(*                                                                         *)
(* A job is an agent that holds one of MaxConcurrent slots while it runs,  *)
(* and keeps it while it waits for its children, who need slots of their   *)
(* own.  A wait is a goroutine with a timer; the tool call that started it *)
(* selects between its answer and the end of the caller's turn.  A waiter  *)
(* whose call is gone goes on.  Records and the other ways a result is     *)
(* decided on are in JobStore and JobResults.                              *)
(***************************************************************************)
EXTENDS Naturals, FiniteSets

CONSTANTS MaxTotal,       \* jobs of one run of the application
          MaxConcurrent, MaxDepth,
          Writes,         \* of BOOLEAN: what spawn_agent is asked for with allow_write
          MaxTurns,       \* bound: turns of the main session
          MaxCollects     \* bound: calls of collect_agent_results

ConstantsOK == Writes \subseteq BOOLEAN /\ {MaxTotal, MaxDepth, MaxTurns, MaxCollects} \subseteq Nat /\ MaxConcurrent \in Nat \ {0}

Main == 0           \* the main session
Jobs == 1..MaxTotal
Agents == {Main} \cup Jobs

VARIABLES
    job,       \* [job -> [state, parent, depth, write, stop, waited]]: stop, its context is
               \* cancelled; waited, its parent waits, or waited until it was stopped itself
    held,      \* jobs that hold a slot
    call,      \* [agent -> [kind, asked, on, got]]: the tool call under way, the jobs it is
               \* about, those that waiters still wait for, the results they brought
    turn,      \* the main session: [n, stop]
    strays,    \* jobs that a waiter waits for whose call is gone
    consumed,  \* jobs whose result is marked consumed
    collects,
    heard,     \* history: jobs whose result was given to an agent
    dropped    \* history: results consumed for a call that was cancelled

vars == <<job, held, call, turn, strays, consumed, collects, heard, dropped>>

NoCall == [kind |-> "none", asked |-> {}, on |-> {}, got |-> {}]
Unborn == [state |-> "unborn", parent |-> Main, depth |-> 0, write |-> FALSE, stop |-> FALSE, waited |-> FALSE]

Init ==
    /\ job = [j \in Jobs |-> Unborn] /\ held = {}
    /\ call = [a \in Agents |-> NoCall] /\ turn = [n |-> 1, stop |-> FALSE]
    /\ strays = {} /\ consumed = {} /\ collects = 0
    /\ heard = {} /\ dropped = {}

Known == {j \in Jobs : job[j].state # "unborn"}
Terminal(j) == job[j].state \in {"ended", "cancelled"}
Live(j) == job[j].state \in {"queued", "running"}
Stopped(a) == IF a = Main THEN turn.stop ELSE job[a].stop
\* The agent may call a tool: it runs, and nobody has stopped it.
Acts(a) == (a # Main => job[a].state = "running") /\ ~Stopped(a) /\ call[a].kind = "none"

\* isDescendantLocked: some chain of parents leads from j to a.
above ==
    LET up[j \in Jobs] == IF job[j].parent = Main THEN {} ELSE {job[j].parent} \cup up[job[j].parent] IN up

-----------------------------------------------------------------------------
\* spawn_agent, dispatched while the turn is alive; Spawn does not look at it again.
CallSpawn(a) ==
    /\ Acts(a) /\ call' = [call EXCEPT ![a].kind = "spawning"]
    /\ UNCHANGED <<job, held, turn, strays, consumed, collects, heard, dropped>>

AllowWriteAllowed(a) == IF a = Main THEN TRUE ELSE job[a].write
Depth(a) == IF a = Main THEN 0 ELSE job[a].depth + 1

\* Spawn: a queued job with a context of its own.
Spawn(a, j, wait, write) ==
    /\ j \in Jobs /\ Depth(a) < MaxDepth
    /\ job' = [job EXCEPT ![j] = [state |-> "queued", parent |-> a, depth |-> Depth(a), write |-> write, stop |-> FALSE, waited |-> wait]]

\* Execute: refused, or with the job's id at once, or waiting for it.
Execute(a) ==
    /\ call[a].kind = "spawning"
    /\ \/ call' = [call EXCEPT ![a] = NoCall] /\ UNCHANGED job
       \/ \E wait \in BOOLEAN, write \in {w \in Writes : w => AllowWriteAllowed(a)} :
          LET j == Cardinality(Known) + 1 IN
          /\ Spawn(a, j, wait, write)
          /\ call' = [call EXCEPT ![a] = IF wait THEN [kind |-> "spawn", asked |-> {j}, on |-> {j}, got |-> {}] ELSE NoCall]
    /\ UNCHANGED <<held, turn, strays, consumed, collects, heard, dropped>>

\* collectScopedIDs: what is waited for when the call names no jobs.
scoped(a, scope) ==
    {j \in Known : IF a = Main \/ scope = "children" THEN job[j].parent = a ELSE a \in above[j]}

\* Mutant: a job named in the call is not checked.
canCollectAny(a, scope, j) == TRUE
canCollect(a, scope, j) ==
    a = Main \/ IF scope = "descendants" THEN a \in above[j] ELSE job[j].parent = a

\* collect_agent_results: a waiter for each job asked for that it may see.
Collect(a) ==
    /\ Acts(a) /\ collects < MaxCollects /\ collects' = collects + 1
    /\ \E scope \in {"children", "descendants"}, ids \in SUBSET Known :
       LET asked == {j \in IF ids = {} THEN scoped(a, scope) ELSE ids : canCollect(a, scope, j)} IN
       /\ asked # {} /\ call' = [call EXCEPT ![a] = [kind |-> "collect", asked |-> asked, on |-> asked, got |-> {}]]
    /\ UNCHANGED <<job, held, turn, strays, consumed, heard, dropped>>

-----------------------------------------------------------------------------
\* WaitForJob.
WaiterWakes(a, j) ==
    /\ j \in call[a].on /\ Terminal(j)
    /\ consumed' = consumed \cup {j}
    /\ call' = [call EXCEPT ![a].on = @ \ {j}, ![a].got = @ \cup {j}]
    /\ UNCHANGED <<job, held, turn, strays, collects, heard, dropped>>

\* Mutant: spawn_agent waits for as long as it takes.
WaitsForever(a, j) == call[a].kind = "collect" /\ WaiterWakes(a, j)
WaiterTimesOut(a, j) ==
    /\ j \in call[a].on
    /\ call' = [call EXCEPT ![a].on = @ \ {j}]
    /\ job' = IF call[a].kind = "spawn" THEN [job EXCEPT ![j].waited = FALSE] ELSE job
    /\ UNCHANGED <<held, turn, strays, consumed, collects, heard, dropped>>

StrayWakes(j) ==
    /\ j \in strays /\ strays' = strays \ {j}
    /\ \/ Terminal(j) /\ consumed' = consumed \cup {j} /\ dropped' = dropped \cup ({j} \ consumed)
       \/ UNCHANGED <<consumed, dropped>>
    /\ UNCHANGED <<job, held, call, turn, collects, heard>>

\* Mutant: the results are given only when all of them came.
GivesAllOrNothing(a) == IF call[a].got = call[a].asked THEN call[a].got ELSE {}
Gives(a) == call[a].got

\* The waiters are through: what they brought is the result of the tool.
CallReturns(a) ==
    /\ call[a].kind \in {"spawn", "collect"} /\ call[a].on = {}
    /\ heard' = heard \cup Gives(a)
    /\ call' = [call EXCEPT ![a] = NoCall]
    /\ UNCHANGED <<job, held, turn, strays, consumed, collects, dropped>>

Cancel(j) == job' = IF Live(j) THEN [job EXCEPT ![j].stop = TRUE] ELSE job

\* Mutant: the child goes on.
ReturnsAlone(a) == UNCHANGED job
\* waitAndReport, ctx.Done: the child that was waited for is cancelled; a collector only returns.
Cascade(a) ==
    IF call[a].kind = "spawn" THEN \E j \in call[a].asked : Cancel(j) ELSE UNCHANGED job

\* The turn of the caller is over; the waiters are left behind.
CallCancelled(a) ==
    /\ call[a].kind \in {"spawn", "collect"} /\ Stopped(a) /\ Cascade(a)
    /\ strays' = strays \cup call[a].on
    /\ dropped' = dropped \cup (call[a].got \ heard)
    /\ call' = [call EXCEPT ![a] = NoCall]
    /\ UNCHANGED <<held, turn, consumed, collects, heard>>

-----------------------------------------------------------------------------
\* The context is let go.
markTerminal(j, s) == job' = [job EXCEPT ![j].state = s, ![j].stop = FALSE]

\* runJob: a slot, or the end of a job that was stopped in the queue.
AcquireSlot(j) ==
    /\ job[j].state = "queued" /\ Cardinality(held) < MaxConcurrent /\ held' = held \cup {j}
    /\ IF job[j].stop THEN markTerminal(j, "cancelled") ELSE job' = [job EXCEPT ![j].state = "running"]
    /\ UNCHANGED <<call, turn, strays, consumed, collects, heard, dropped>>
CancelledWhileQueued(j) ==
    /\ job[j].state = "queued" /\ job[j].stop /\ markTerminal(j, "cancelled")
    /\ UNCHANGED <<held, call, turn, strays, consumed, collects, heard, dropped>>

\* consumeEvents, when the agent's loop has ended: a context cancelled by then decides.
JobEnds(j) ==
    /\ job[j].state = "running" /\ call[j].kind = "none"
    /\ markTerminal(j, IF job[j].stop THEN "cancelled" ELSE "ended")
    /\ UNCHANGED <<held, call, turn, strays, consumed, collects, heard, dropped>>
ReleaseSlot(j) ==
    /\ j \in held /\ Terminal(j) /\ held' = held \ {j}
    /\ UNCHANGED <<job, call, turn, strays, consumed, collects, heard, dropped>>

\* /cancel of a job; Escape in the main session, and its next turn.
UserCancels(j) ==
    /\ Live(j) /\ Cancel(j)
    /\ UNCHANGED <<held, call, turn, strays, consumed, collects, heard, dropped>>
TurnCancelled ==
    /\ ~turn.stop /\ turn' = [turn EXCEPT !.stop = TRUE]
    /\ UNCHANGED <<job, held, call, strays, consumed, collects, heard, dropped>>
NextTurn ==
    /\ turn.stop /\ call[Main].kind = "none" /\ turn.n < MaxTurns
    /\ turn' = [n |-> turn.n + 1, stop |-> FALSE]
    /\ UNCHANGED <<job, held, call, strays, consumed, collects, heard, dropped>>

Next ==
    \/ \E a \in Agents : \/ CallSpawn(a) \/ Execute(a) \/ Collect(a) \/ CallReturns(a) \/ CallCancelled(a)
                         \/ \E j \in Jobs : WaiterWakes(a, j) \/ WaiterTimesOut(a, j)
    \/ \E j \in Jobs : AcquireSlot(j) \/ CancelledWhileQueued(j) \/ JobEnds(j) \/ ReleaseSlot(j) \/ UserCancels(j) \/ StrayWakes(j)
    \/ TurnCancelled \/ NextTurn

\* A run makes at most maxToolIterations rounds of tool calls (agent.go); timers fire;
\* goroutines are scheduled.
Fairness ==
    /\ \A a \in Agents : /\ WF_vars(Execute(a)) /\ WF_vars(CallReturns(a))
                         /\ \A j \in Jobs : WF_vars(WaiterWakes(a, j)) /\ WF_vars(WaiterTimesOut(a, j))
    /\ \A j \in Jobs : WF_vars(AcquireSlot(j)) /\ SF_vars(JobEnds(j)) /\ WF_vars(ReleaseSlot(j)) /\ WF_vars(StrayWakes(j))

Spec == Init /\ [][Next]_vars /\ Fairness

-----------------------------------------------------------------------------
TypeOK ==
    /\ held \subseteq Known /\ strays \subseteq Known /\ consumed \subseteq Known /\ collects \in 0..MaxCollects
    /\ \A j \in Jobs : job[j].parent \in Agents /\ job[j].depth \in 0..MaxDepth
    /\ \A a \in Agents : call[a].kind \in {"none", "spawning", "spawn", "collect"} /\ call[a].on \subseteq Known

\* spawn_agent.go, "so we don't leave an orphan worker running": a job that its parent waited
\* for is stopped with the parent's call, unless it ended or the wait had timed out.
NoOrphan ==
    \A j \in Jobs : job[j].waited /\ Live(j) /\ ~job[j].stop => j \in call[job[j].parent].on

\* A waiter takes a result out of Agent View: the result reaches an agent, or is on its way
\* to one, unless the turn that asked for it was cancelled.
ConsumedIsHeard ==
    consumed \subseteq dropped \cup heard \cup UNION {call[a].got : a \in Agents}

\* spawner_adapter.go, canCollect: a job is given the results of its own descendants only.
HeardIsOwn == \A a \in Jobs : \A j \in call[a].got : a \in above[j]

\* Nothing a child did is lost sight of: it stops with the call that waits for it, and its
\* result goes where it was asked for, to its own ancestors.
ChildrenAreAccountedFor == TypeOK /\ NoOrphan /\ ConsumedIsHeard /\ HeardIsOwn

\* worker.go, the slot of a job that waits for its child: no set of agents that wait for one
\* another holds the slots for good, every job that is spawned ends.
JobsEnd == \A j \in Jobs : job[j].state = "queued" ~> Terminal(j)

\* spawn_agent.go, "flips to StateCancelled and we can safely drop its result": the result
\* that a cancelled call drops is that of a cancelled job.
\* (Does not hold: README, Observations.)
DroppedWasCancelled == \A j \in dropped : job[j].waited => job[j].state = "cancelled"

=============================================================================
