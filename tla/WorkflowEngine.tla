--------------------------- MODULE WorkflowEngine ---------------------------
(***************************************************************************)
(* One workflow run: the driver of internal/workflow's Engine, the waiters *)
(* it joins its agents with, and Engine.Cancel called by the App.          *)
(*                                                                         *)
(* The driver runs the steps in order.  Every attempt spawns its agents as *)
(* ordinary background jobs, joins them, and, where the step says so, has  *)
(* a verifier job judge the work; a failed verdict is followed by another  *)
(* attempt.  Phases only group steps: a step carries the ContinueOnError   *)
(* of its phase.                                                           *)
(*                                                                         *)
(* The manager of the jobs is the environment: it may refuse a Spawn, and  *)
(* a job ends in any state, or never.  Module JobManager is its model.     *)
(* Prompts, summaries, placement and the fan-out of snapshots are left     *)
(* out.  Cancelled jobs are treated like failed ones and counted as such.  *)
(***************************************************************************)
EXTENDS Integers, Sequences, FiniteSets

CONSTANTS
    Steps,        \* the workflow: [items, verify, retry, continue] per step
    MaxAgents,    \* Engine.maxAgents
    TokenBudget,  \* Engine.tokenBudget, 0 for none
    JobTokens,    \* tokens every job uses, reported when it has ended
    MaxCancels    \* bound: calls of Engine.Cancel

ConstantsOK ==
    /\ Steps \in Seq([items: Nat \ {0}, verify: BOOLEAN, retry: Nat, continue: BOOLEAN])
    /\ Len(Steps) > 0
    /\ \A s \in DOMAIN Steps : Steps[s].retry > 0 => Steps[s].verify
    /\ MaxAgents \in Nat \ {0}
    /\ TokenBudget \in Nat
    /\ JobTokens \in Nat
    /\ MaxCancels \in Nat

VARIABLES
    state,      \* Run.state
    cancelled,  \* Run.cancelled
    children,   \* Run.children
    ctxDone,    \* the context of the driver is cancelled
    work,       \* work[s]: jobs of the last attempt of step s
    verifier,   \* verifier[s]: job of its last verifier, 0 for none
    result,     \* result[s]: StepResult's verification, "failed" with an error
    reported,   \* jobs whose results the run has published
    missed,     \* jobs that were given up, or whose result was dropped
    pc,         \* where the driver is
    step,       \* the step it runs
    attempt,    \* the attempt of that step
    verdict,    \* how the last verification ended
    role,       \* in runWorkAttempt or in runVerifier
    todo,       \* agents of the attempt not spawned yet
    ids,        \* agents of the attempt, or the verifier
    firstErr,   \* a step failed, or the run was stopped
    outcome,    \* final state the driver decided on
    waiter,     \* the goroutines of waitAll, by job
    tripped,    \* waitAll's failed channel
    swept,      \* waitAll has cancelled its jobs
    caller,     \* where the call of Engine.Cancel is
    targets,    \* the children it found
    cancels,    \* calls so far
    job,        \* the jobs, in the order they were spawned: the state of each
    asked       \* jobs the engine asked the manager to cancel

run    == <<state, cancelled, children, ctxDone, work, verifier, result, reported, missed>>
driver == <<pc, step, attempt, verdict, role, todo, ids, firstErr, outcome>>
join   == <<waiter, tripped, swept>>
cancel == <<caller, targets, cancels>>
jobs   == <<job, asked>>
vars   == <<run, driver, join, cancel, jobs>>

Terminal == {"completed", "failed", "cancelled"}
JobEnd   == {"completed", "failed", "abandoned"}
StepIds  == DOMAIN Steps
Jobs     == DOMAIN job
This     == Steps[step]

TypeOK ==
    /\ state \in Terminal \cup {"pending", "running"}
    /\ cancelled \in BOOLEAN /\ ctxDone \in BOOLEAN
    /\ children \subseteq Jobs /\ reported \subseteq Jobs /\ missed \subseteq Jobs /\ asked \subseteq Jobs
    /\ work \in [StepIds -> SUBSET Jobs]
    /\ verifier \in [StepIds -> Jobs \cup {0}]
    /\ result \in [StepIds -> {"pending", "unverified", "passed", "failed"}]
    /\ pc \in {"start", "step", "attempt", "spawn", "register", "wait", "drain", "drained",
               "verify", "end", "finish", "done"}
    /\ step \in StepIds
    /\ attempt \in 1..(This.retry + 1)
    /\ verdict \in {"none", "pass", "fail", "error"}
    /\ role \in {"work", "verify"}
    /\ todo \in Nat /\ ids \subseteq Jobs
    /\ firstErr \in BOOLEAN
    /\ outcome \in Terminal \cup {"none"}
    /\ waiter \in [IF pc = "wait" THEN ids ELSE {} -> {"waiting", "draining", "got", "missing"}]
    /\ tripped \in BOOLEAN /\ swept \in BOOLEAN
    /\ caller \in {"idle", "children", "context"}
    /\ targets \subseteq children
    /\ cancels \in 0..MaxCancels
    /\ job \in Seq(JobEnd \cup {"live"})

Init ==
    /\ state = "pending"
    /\ cancelled = FALSE
    /\ children = {}
    /\ ctxDone = FALSE
    /\ work = [s \in StepIds |-> {}]
    /\ verifier = [s \in StepIds |-> 0]
    /\ result = [s \in StepIds |-> IF Steps[s].verify THEN "pending" ELSE "unverified"]
    /\ reported = {}
    /\ missed = {}
    /\ pc = "start"
    /\ step = 1
    /\ attempt = 1
    /\ verdict = "none"
    /\ role = "work"
    /\ todo = 0
    /\ ids = {}
    /\ firstErr = FALSE
    /\ outcome = "none"
    /\ waiter = << >>
    /\ tripped = FALSE
    /\ swept = FALSE
    /\ caller = "idle"
    /\ targets = {}
    /\ cancels = 0
    /\ job = << >>
    /\ asked = {}

-----------------------------------------------------------------------------
(* Helpers of the driver. *)

Ended(j) == job[j] # "live"
Usage(S) == JobTokens * Cardinality(S)

(* Mutant: every state but a failure passes. *)
SucceededUnlessFailed(j) == Ended(j) /\ job[j] # "failed"

(* agentOutcomeError: State.IsSuccess. *)
Succeeded(j) == job[j] = "completed"

(* Mutant: the usage of verifiers is not counted. *)
ExhaustedByWork ==
    TokenBudget > 0 /\ Usage(reported \cap UNION {work[s] : s \in StepIds}) >= TokenBudget

(* workflowBudgetError *)
Exhausted == TokenBudget > 0 /\ Usage(reported) >= TokenBudget

(* Mutant: one agent too many. *)
OverCapOffByOne(n) == Len(job) + n > MaxAgents + 1

OverCap(n) == Len(job) + n > MaxAgents

NextStep ==
    IF step < Len(Steps)
    THEN pc' = "step" /\ step' = step + 1 /\ attempt' = 1
    ELSE pc' = "end" /\ UNCHANGED <<step, attempt>>

(* Mutant: the phase always continues. *)
StepFailsContinues ==
    /\ result' = [result EXCEPT ![step] = "failed"]
    /\ firstErr' = TRUE
    /\ NextStep

StepFails ==
    /\ result' = [result EXCEPT ![step] = "failed"]
    /\ firstErr' = TRUE
    /\ IF This.continue THEN NextStep ELSE pc' = "end" /\ UNCHANGED <<step, attempt>>

StepPasses(v) ==
    /\ result' = [result EXCEPT ![step] = v]
    /\ NextStep
    /\ UNCHANGED firstErr

(* Mutant: one attempt too many. *)
VerificationEndsOffByOne(v) ==
    /\ verdict' = v
    /\ IF v = "pass" THEN StepPasses("passed")
       ELSE IF attempt <= This.retry + 1
       THEN pc' = "attempt" /\ attempt' = attempt + 1 /\ UNCHANGED <<result, step, firstErr>>
       ELSE StepFails

(* runStep after runVerifier: a verifier that could not be had is a failed   *)
(* verdict.                                                                  *)
VerificationEnds(v) ==
    /\ verdict' = v
    /\ IF v = "pass" THEN StepPasses("passed")
       ELSE IF attempt <= This.retry
       THEN pc' = "attempt" /\ attempt' = attempt + 1 /\ UNCHANGED <<result, step, firstErr>>
       ELSE StepFails

-----------------------------------------------------------------------------
(* The driver. *)

Drive ==
    /\ pc = "start"
    /\ state' = "running"
    /\ pc' = "step"
    /\ UNCHANGED <<cancelled, children, ctxDone, work, verifier, result, reported, missed,
                   step, attempt, verdict, role, todo, ids, firstErr, outcome, join, cancel, jobs>>

BeginStep ==
    /\ pc = "step"
    /\ IF Exhausted \/ ctxDone
       THEN pc' = "end" /\ firstErr' = TRUE
       ELSE pc' = "attempt" /\ UNCHANGED firstErr
    /\ verdict' = "none"
    /\ UNCHANGED <<run, step, attempt, role, todo, ids, outcome, join, cancel, jobs>>

BeginAttempt ==
    /\ pc = "attempt"
    /\ IF Exhausted \/ OverCap(This.items)
       THEN StepFails /\ UNCHANGED <<work, verifier, role, todo, ids>>
       ELSE /\ pc' = "spawn"
            /\ role' = "work"
            /\ todo' = This.items
            /\ ids' = {}
            /\ work' = [work EXCEPT ![step] = {}]
            /\ verifier' = [verifier EXCEPT ![step] = 0]
            /\ UNCHANGED <<result, firstErr, step, attempt>>
    /\ UNCHANGED <<state, cancelled, children, ctxDone, reported, missed, verdict, outcome,
                   join, cancel, jobs>>

(* The first checks of runVerifier follow the work without a look at the     *)
(* context.                                                                  *)
BeginVerify ==
    /\ pc = "verify"
    /\ \/ /\ Exhausted
          /\ StepFails
          /\ UNCHANGED <<verdict, role, todo, ids>>
       \/ /\ ~Exhausted /\ OverCap(1)
          /\ VerificationEnds("error")
          /\ UNCHANGED <<role, todo, ids>>
       \/ /\ ~Exhausted /\ ~OverCap(1)
          /\ pc' = "spawn"
          /\ role' = "verify"
          /\ todo' = 1
          /\ ids' = {}
          /\ UNCHANGED <<verdict, result, firstErr, step, attempt>>
    /\ UNCHANGED <<state, cancelled, children, ctxDone, work, verifier, reported, missed,
                   outcome, join, cancel, jobs>>

(* Mutant: a refused Spawn leaves the siblings alone. *)
SpawnRefusedKeepsSiblings ==
    /\ pc = "spawn"
    /\ IF role = "verify"
       THEN VerificationEnds("error")
       ELSE StepFails /\ UNCHANGED verdict
    /\ UNCHANGED <<state, cancelled, children, ctxDone, work, verifier, reported, missed,
                   role, todo, ids, outcome, join, cancel, jobs>>

SpawnRefused ==
    /\ pc = "spawn"
    /\ IF role = "verify"
       THEN VerificationEnds("error")
       ELSE pc' = "drain" /\ UNCHANGED <<result, firstErr, step, attempt, verdict>>
    /\ UNCHANGED <<state, cancelled, children, ctxDone, work, verifier, reported, missed,
                   role, todo, ids, outcome, join, cancel, jobs>>

(* Only work looks at the context before each Spawn. *)
Spawn ==
    /\ pc = "spawn"
    /\ IF role = "work" /\ ctxDone
       THEN pc' = "drain" /\ UNCHANGED <<work, verifier, todo, ids, jobs>>
       ELSE /\ pc' = "register"
            /\ job' = Append(job, "live")
            /\ ids' = ids \cup {Len(job')}
            /\ todo' = todo - 1
            /\ IF role = "work"
               THEN work' = [work EXCEPT ![step] = ids'] /\ UNCHANGED verifier
               ELSE verifier' = [verifier EXCEPT ![step] = Len(job')] /\ UNCHANGED work
            /\ UNCHANGED asked
    /\ UNCHANGED <<state, cancelled, children, ctxDone, result, reported, missed, step,
                   attempt, verdict, role, firstErr, outcome, join, cancel>>

(* Mutant: a run cancelled meanwhile is not noticed. *)
registerChildBlind ==
    /\ pc = "register"
    /\ children' = children \cup ids
    /\ IF todo > 0
       THEN pc' = "spawn" /\ UNCHANGED waiter
       ELSE pc' = "wait" /\ waiter' = [j \in ids |-> "waiting"]
    /\ UNCHANGED <<state, cancelled, ctxDone, work, verifier, result, reported, missed, step,
                   attempt, verdict, role, todo, ids, firstErr, outcome, tripped, swept,
                   cancel, jobs>>

(* Run.registerChild and what follows it. *)
registerChild ==
    /\ pc = "register"
    /\ children' = children \cup ids
    /\ IF cancelled
       THEN pc' = "drain" /\ UNCHANGED waiter
       ELSE IF todo > 0
       THEN pc' = "spawn" /\ UNCHANGED waiter
       ELSE pc' = "wait" /\ waiter' = [j \in ids |-> "waiting"]
    /\ UNCHANGED <<state, cancelled, ctxDone, work, verifier, result, reported, missed, step,
                   attempt, verdict, role, todo, ids, firstErr, outcome, tripped, swept,
                   cancel, jobs>>

Drain ==
    /\ pc = "drain"
    /\ pc' = "drained"
    /\ asked' = asked \cup ids
    /\ UNCHANGED <<run, step, attempt, verdict, role, todo, ids, firstErr, outcome, join,
                   cancel, job>>

(* All have ended or the drain has timed out; the result of a verifier is    *)
(* dropped.                                                                  *)
Drained ==
    /\ pc = "drained"
    /\ LET ended == {j \in ids : role = "work" /\ Ended(j)} IN
          /\ reported' = reported \cup ended
          /\ missed' = missed \cup (ids \ ended)
    /\ IF role = "verify"
       THEN VerificationEnds("error")
       ELSE StepFails /\ UNCHANGED verdict
    /\ UNCHANGED <<state, cancelled, children, ctxDone, work, verifier, role, todo, ids,
                   outcome, join, cancel, jobs>>

(* waitAll returns: the results are published. *)
Joined ==
    /\ pc = "wait"
    /\ \A j \in ids : waiter[j] \in {"got", "missing"}
    /\ LET got == {j \in ids : waiter[j] = "got"}
           ok  == \A j \in ids : j \in got /\ Succeeded(j) IN
          /\ reported' = reported \cup got
          /\ missed' = missed \cup (ids \ got)
          /\ \/ /\ role = "verify"
                /\ \E v \in IF ok THEN {"pass", "fail"} ELSE {"error"} : VerificationEnds(v)
             \/ /\ role = "work"
                /\ IF ~ok THEN StepFails
                   ELSE IF ~This.verify THEN StepPasses("unverified")
                   ELSE pc' = "verify" /\ UNCHANGED <<result, firstErr, step, attempt>>
                /\ UNCHANGED verdict
    /\ waiter' = << >>
    /\ tripped' = FALSE
    /\ swept' = FALSE
    /\ UNCHANGED <<state, cancelled, children, ctxDone, work, verifier, role, todo, ids,
                   outcome, cancel, jobs>>

(* The end of drive reads the flag in one critical section and sets the      *)
(* final state in another.                                                   *)
Decide ==
    /\ pc = "end"
    /\ pc' = "finish"
    /\ outcome' = IF cancelled \/ ctxDone THEN "cancelled"
                  ELSE IF firstErr THEN "failed" ELSE "completed"
    /\ UNCHANGED <<run, step, attempt, verdict, role, todo, ids, firstErr, join, cancel, jobs>>

finish ==
    /\ pc = "finish"
    /\ pc' = "done"
    /\ state' = outcome
    /\ ctxDone' = TRUE
    /\ UNCHANGED <<cancelled, children, work, verifier, result, reported, missed, step,
                   attempt, verdict, role, todo, ids, firstErr, outcome, join, cancel, jobs>>

-----------------------------------------------------------------------------
(* waitAll: one goroutine for each job, and the one that watches them. *)

WaiterGot(j) ==
    /\ pc = "wait" /\ j \in ids
    /\ waiter[j] \in {"waiting", "draining"}
    /\ Ended(j)
    /\ waiter' = [waiter EXCEPT ![j] = "got"]
    /\ tripped' = (tripped \/ ~Succeeded(j))
    /\ UNCHANGED <<run, driver, swept, cancel, jobs>>

WaiterTimeout(j) ==
    /\ pc = "wait" /\ j \in ids
    /\ waiter[j] = "waiting"
    /\ waiter' = [waiter EXCEPT ![j] = "draining"]
    /\ tripped' = TRUE
    /\ asked' = asked \cup {j}
    /\ UNCHANGED <<run, driver, swept, cancel, job>>

(* Mutant: the second wait has no end of its own. *)
WaiterNeverGivesUp(j) ==
    /\ pc = "wait" /\ j \in ids
    /\ waiter[j] = "draining" /\ Ended(j)
    /\ waiter' = [waiter EXCEPT ![j] = "missing"]
    /\ UNCHANGED <<run, driver, tripped, swept, cancel, jobs>>

WaiterGivesUp(j) ==
    /\ pc = "wait" /\ j \in ids
    /\ waiter[j] = "draining"
    /\ waiter' = [waiter EXCEPT ![j] = "missing"]
    /\ UNCHANGED <<run, driver, tripped, swept, cancel, jobs>>

Sweep ==
    /\ pc = "wait" /\ ~swept
    /\ tripped \/ ctxDone
    /\ swept' = TRUE
    /\ asked' = asked \cup ids
    /\ UNCHANGED <<run, driver, waiter, tripped, cancel, job>>

-----------------------------------------------------------------------------
(* Engine.Cancel, called by the App, and the jobs. *)

Cancel ==
    /\ caller = "idle" /\ cancels < MaxCancels
    /\ state \notin Terminal
    /\ cancels' = cancels + 1
    /\ cancelled' = TRUE
    /\ targets' = children
    /\ caller' = "children"
    /\ UNCHANGED <<state, children, ctxDone, work, verifier, result, reported, missed, driver,
                   join, jobs>>

CancelChildren ==
    /\ caller = "children"
    /\ caller' = "context"
    /\ asked' = asked \cup targets
    /\ targets' = {}
    /\ UNCHANGED <<run, driver, join, cancels, job>>

CancelContext ==
    /\ caller = "context"
    /\ caller' = "idle"
    /\ ctxDone' = TRUE
    /\ UNCHANGED <<state, cancelled, children, work, verifier, result, reported, missed,
                   driver, join, targets, cancels, jobs>>

JobEnds(j) ==
    /\ ~Ended(j)
    /\ \E s \in JobEnd : job' = [job EXCEPT ![j] = s]
    /\ UNCHANGED <<run, driver, join, cancel, asked>>

-----------------------------------------------------------------------------
Driver ==
    \/ Drive \/ BeginStep \/ BeginAttempt \/ BeginVerify
    \/ SpawnRefused \/ Spawn \/ registerChild \/ Drain \/ Drained
    \/ Joined \/ Decide \/ finish

Waiter(j) == WaiterGot(j) \/ WaiterTimeout(j) \/ WaiterGivesUp(j)

Next ==
    \/ Driver
    \/ \E j \in ids : Waiter(j)
    \/ Sweep
    \/ Cancel \/ CancelChildren \/ CancelContext
    \/ \E j \in Jobs : JobEnds(j)

(* Goroutines run and timers fire; a job need not end, ever. *)
Fairness ==
    /\ WF_vars(Driver)
    /\ WF_vars(\E j \in ids : Waiter(j))
    /\ WF_vars(Sweep)
    /\ WF_vars(CancelChildren \/ CancelContext)

Spec == Init /\ [][Next]_vars /\ Fairness

-----------------------------------------------------------------------------
(* Properties. *)

(* A run that completed has done all its work: the agents of the last        *)
(* attempt of every step ended well, all of them, and where the step asks    *)
(* for it a verifier spawned after them ended well and said pass.            *)
CompletedMeansDone ==
    state = "completed" => \A s \in StepIds :
        /\ Cardinality(work[s]) = Steps[s].items
        /\ \A j \in work[s] : job[j] = "completed"
        /\ result[s] = IF Steps[s].verify THEN "passed" ELSE "unverified"
        /\ Steps[s].verify => /\ \A j \in work[s] : verifier[s] > j
                              /\ job[verifier[s]] = "completed"

(* Retries and verifiers included, a run spawns at most maxAgents agents. *)
WithinCap == Len(job) <= MaxAgents

(* "Holding the run lock closes the race with Cancel taking its child        *)
(* snapshot" (Run.registerChild): once Cancel has returned, every live agent *)
(* was asked to stop, or the driver is about to ask.                         *)
CancelReachesChildren ==
    cancelled /\ caller = "idle" => \A j \in Jobs :
        Ended(j) \/ j \in asked \/ (pc \in {"register", "drain"} /\ j \in ids)

(* A run leaves no agent behind that was not at least asked to stop. *)
NoStrayChild == state \in Terminal => \A j \in Jobs : Ended(j) \/ j \in asked

(* "No later work is spawned once exhaustion is observed" (docs): when an    *)
(* attempt or a verifier starts, the agents that ended so far, and were not  *)
(* given up, used less than the budget.                                      *)
BudgetIsABoundary ==
    [][Len(job') > Len(job) /\ ids = {} /\ TokenBudget > 0 =>
          Usage({j \in Jobs \ missed : Ended(j)}) < TokenBudget]_vars

(* Fail fast: an agent is spawned only when every step that failed before    *)
(* lets its phase continue.                                                  *)
FailFast ==
    [][Len(job') > Len(job) =>
          \A s \in StepIds : result[s] = "failed" => s < step /\ Steps[s].continue]_vars

(* "Retry is driven by a completed verifier verdict, not used to hide spawn, *)
(* cancellation, or tool failures" (docs/workflows.md).                      *)
RetryFollowsVerdict == [][attempt' > attempt => verdict' = "fail"]_vars

(* A run ends, though none of its agents ever may. *)
RunEnds == <>(state \in Terminal)

(* All of it: a run that completed has done its work, within its cap; a      *)
(* cancel and the end of a run reach every agent; no agent is spawned after  *)
(* the budget is used up or a failure that does not continue.                *)
RunKeepsItsPromises ==
    /\ [](TypeOK /\ CompletedMeansDone /\ WithinCap /\ NoStrayChild /\ CancelReachesChildren)
    /\ BudgetIsABoundary /\ FailFast
=============================================================================
