------------------------------- MODULE MCRuns -------------------------------
(* Runs of jobs and of workflows, for TLC: the manager over a user's cancel  *)
(* and a Shutdown, and a workflow.  They share no variable, and `part' says  *)
(* which of them moves in this behaviour.  The workflow is WorkflowEngine's  *)
(* own, and so is RunKeepsItsPromises.                                       *)
EXTENDS WorkflowEngine

CONSTANTS j1, j2, ui

VARIABLES
    part,
    up, rec, recovered, cancelFuncs, jobsDone, baseDone, sem, terminalCh, closed, totalSpawned,
    worker, jobOutcome, jobVerdict, held, canceller, shutdown, disk, pending, failures, jobCancels,
    crashes, ran

\* A verified step that may retry, and a fan-out whose phase continues after an error.
Step(items, verify, retry, continue) ==
    [items |-> items, verify |-> verify, retry |-> retry, continue |-> continue]
TwoSteps == <<Step(1, TRUE, 1, FALSE), Step(2, FALSE, 0, TRUE)>>

Manager == INSTANCE JobManager WITH Jobs <- {j1, j2}, Users <- {ui}, MaxConcurrent <- 1,
               MaxTotal <- 2, MaxCancels <- 2, MayShutDown <- FALSE, MaxFailures <- 0,
               MaxCrashes <- 0, ctxDone <- jobsDone, pc <- worker, outcome <- jobOutcome,
               verdict <- jobVerdict, cancels <- jobCancels
\* The workflow of the cfg is within its cap and on a budget that its first step may use up;
\* this is the same workflow over its cap.
Capped  == INSTANCE WorkflowEngine WITH MaxAgents <- 3, TokenBudget <- 0, JobTokens <- 0

ASSUME ConstantsOK /\ Capped!ConstantsOK

managerVars == <<up, rec, recovered, cancelFuncs, jobsDone, baseDone, sem, terminalCh, closed,
                 totalSpawned, worker, jobOutcome, jobVerdict, held, canceller, shutdown, disk,
                 pending, failures, jobCancels, crashes, ran>>
runVars     == vars
runsVars    == <<part, managerVars, runVars>>

RunsInit == part \in {"manager", "run", "capped"} /\ Manager!Init /\ Init

ManagerNext == part = "manager" /\ Manager!Next /\ UNCHANGED <<part, runVars>>
RunNext     == part = "run" /\ Next /\ UNCHANGED <<part, managerVars>>
CappedNext  == part = "capped" /\ Capped!Next /\ UNCHANGED <<part, managerVars>>
RunsNext    == ManagerNext \/ RunNext \/ CappedNext

\* The fairness that each module states, while it is the one that moves.
ManagerFairness ==
    /\ \A j \in {j1, j2} :
           /\ WF_managerVars(part = "manager" /\ Manager!WorkerStep(j))
           /\ WF_managerVars(part = "manager" /\ Manager!CtxErr(j) /\ Manager!WorkEnds(j))
    /\ \A s \in Manager!Stoppers :
           WF_managerVars(part = "manager" /\ (Manager!SaveRequest(s) \/ Manager!CallCancelFunc(s)))
    /\ WF_managerVars(part = "manager" /\ Manager!ShutdownStops)
    /\ WF_managerVars(part = "manager" /\ Manager!CancelBase)
RunFairness ==
    /\ WF_runVars(part = "run" /\ Driver)
    /\ WF_runVars(part = "run" /\ \E j \in ids : Waiter(j))
    /\ WF_runVars(part = "run" /\ Sweep)
    /\ WF_runVars(part = "run" /\ (CancelChildren \/ CancelContext))

RunsSpec == RunsInit /\ [][RunsNext]_runsVars /\ ManagerFairness /\ RunFairness

-----------------------------------------------------------------------------
\* JobManager: a job whose context died ends and gives its slot back.
StoppedJobsEnd == [](part = "manager" => Manager!TypeOK) /\ Manager!StoppedJobsEnd

\* WorkflowEngine: a run ends, though none of its agents may; over its cap it spawns none
\* beyond it.
RunEndsWithinCap ==
    /\ part = "run" => RunEnds
    /\ [](part = "capped" => Capped!WithinCap /\ Capped!CancelReachesChildren)

=============================================================================
