----------------------------- MODULE JobManager -----------------------------
(***************************************************************************)
(* The life of a background job in internal/jobs.Manager: Spawn, the       *)
(* worker goroutine, Cancel and CancelAll, Shutdown, the end of the        *)
(* process and the reconciliation of the next start.                       *)
(*                                                                         *)
(* A context carries no cause, so the verdict on a stopped job rests on    *)
(* the cancel request stamped on the record before the context is          *)
(* cancelled; and after a crash it rests on what had reached the disk.     *)
(* Every action is one critical section of Manager.mu, one save, or one    *)
(* step of a goroutine between them.                                       *)
(*                                                                         *)
(* The sequence numbers, timers and reorderings of the write path are in   *)
(* JobStore; here a save replaces an older record, is dropped in favour of *)
(* a newer one, or is refused and retained.  What happens to the results   *)
(* of terminal jobs is in JobResults.  The early returns of the handlers   *)
(* for a record that is already terminal are not actions: a record is      *)
(* closed by its own worker only, which ActiveCanBeStopped establishes.    *)
(***************************************************************************)
EXTENDS Integers, FiniteSets, TLC

CONSTANTS
    Jobs,
    Users,          \* goroutines that call Cancel and CancelAll
    MaxConcurrent,  \* Config.MaxConcurrent: slots of Manager.sem
    MaxTotal,       \* Config.MaxTotal: jobs per app run
    MaxCancels,     \* bound: calls of Cancel and CancelAll
    MayShutDown,    \* bound: whether Shutdown is called at all
    MaxFailures,    \* bound: writes the file system refuses
    MaxCrashes      \* bound: ends of the process

ASSUME ManagerAssumption ==
    /\ IsFiniteSet(Jobs)
    /\ MaxConcurrent \in Nat \ {0}
    /\ MaxTotal \in Nat
    /\ MaxCancels \in Nat
    /\ MayShutDown \in BOOLEAN
    /\ MaxFailures \in Nat
    /\ MaxCrashes \in Nat

VARIABLES
    up,           \* the process is running
    rec,          \* rec[j]: the record in Manager.jobs (version 0: not there)
    recovered,    \* jobs whose record says Recovered
    cancelFuncs,  \* domain of Manager.cancel
    ctxDone,      \* jobs whose own cancel function was called
    baseDone,     \* baseCtx is cancelled
    sem,          \* workers that hold a slot
    terminalCh,   \* jobs whose terminal channel is closed
    closed,       \* Manager.closed
    totalSpawned, \* Manager.totalSpawned
    pc,           \* pc[j]: where the worker of j is
    outcome,      \* outcome[j]: how the agent run of j ended
    verdict,      \* verdict[j]: terminal state the worker is about to publish
    held,         \* held[j]: the copy the worker of j is about to save
    canceller,    \* canceller[u]: what the cancel call of u still has to do
    shutdown,     \* where Shutdown is
    disk,         \* disk[j]: the record file
    pending,      \* pending[j]: newest copy whose write was refused
    failures,     \* writes refused so far
    cancels,      \* cancel calls so far
    crashes,      \* ends of the process so far
    ran           \* history: jobs whose agent has been started

manager  == <<rec, recovered, cancelFuncs, terminalCh, closed, totalSpawned>>
contexts == <<ctxDone, baseDone>>
worker   == <<pc, outcome, verdict, held, sem, ran>>
file     == <<disk, pending, failures>>
stoppers == <<canceller, shutdown, cancels>>
vars     == <<up, manager, contexts, worker, file, stoppers, crashes>>

Terminal == {"completed", "failed", "cancelled", "abandoned"}
State    == {"queued", "running"} \cup Terminal
Request  == {"none", "user", "shutdown"}
Cause    == {"none", "unknown", "app-exit", "transport-lost"}

Record == [version: Nat, state: State, request: Request, cause: Cause]

NoRecord == [version |-> 0, state |-> "queued", request |-> "none", cause |-> "none"]

Verdict == [state: Terminal, cause: Cause]

NoVerdict == [state |-> "failed", cause |-> "none"]

PC == {"none", "select", "admitted", "mark", "saveRunning", "work", "ended",
       "verdict", "saveTerminal", "close", "release", "exit", "gone"}

(* "error" also stands for a stream that ends without Done. *)
Outcome == {"none", "done", "error", "backendError", "worktreeError", "setupError"}

Call == [save: SUBSET (Jobs \X Record), cancel: SUBSET Jobs]

NoCall == [save |-> {}, cancel |-> {}]

(* Shutdown is a thread like the users; it stops every job once. *)
Stoppers == Users \cup {"shutdown"}

ShutdownPC == {"no", "closing", "stopping", "waiting", "flushing", "timedOut", "nil", "error"}

TypeOK ==
    /\ up \in BOOLEAN
    /\ rec \in [Jobs -> Record]
    /\ recovered \subseteq Jobs
    /\ cancelFuncs \subseteq Jobs
    /\ ctxDone \subseteq Jobs
    /\ baseDone \in BOOLEAN
    /\ sem \subseteq Jobs
    /\ terminalCh \subseteq Jobs
    /\ closed \in BOOLEAN
    /\ totalSpawned \in 0..MaxTotal
    /\ pc \in [Jobs -> PC]
    /\ outcome \in [Jobs -> Outcome]
    /\ verdict \in [Jobs -> Verdict]
    /\ held \in [Jobs -> Record]
    /\ canceller \in [Stoppers -> Call]
    /\ shutdown \in ShutdownPC
    /\ disk \in [Jobs -> Record]
    /\ pending \in [Jobs -> Record]
    /\ failures \in 0..MaxFailures
    /\ cancels \in 0..MaxCancels
    /\ crashes \in 0..MaxCrashes
    /\ ran \subseteq Jobs

Init ==
    /\ rec = [j \in Jobs |-> NoRecord]
    /\ recovered = {}
    /\ cancelFuncs = {}
    /\ ctxDone = {}
    /\ baseDone = FALSE
    /\ sem = {}
    /\ terminalCh = {}
    /\ closed = FALSE
    /\ totalSpawned = 0
    /\ pc = [j \in Jobs |-> "none"]
    /\ outcome = [j \in Jobs |-> "none"]
    /\ verdict = [j \in Jobs |-> NoVerdict]
    /\ held = [j \in Jobs |-> NoRecord]
    /\ canceller = [s \in Stoppers |-> NoCall]
    /\ shutdown = "no"
    /\ pending = [j \in Jobs |-> NoRecord]
    /\ up = TRUE
    /\ disk = [j \in Jobs |-> NoRecord]
    /\ failures = 0
    /\ cancels = 0
    /\ crashes = 0
    /\ ran = {}

-----------------------------------------------------------------------------
Known(j) == rec[j].version > 0
IsTerminal(r) == r.state \in Terminal
Active(j) == Known(j) /\ ~IsTerminal(rec[j])
Live(j) == pc[j] \notin {"none", "gone"}      \* counted in Manager.wg
CtxErr(j) == j \in ctxDone \/ baseDone

Newer(a, b) == IF a.version > b.version THEN a ELSE b

(* Save a copy of the record of j: written, dropped for a newer one on disk, *)
(* or refused and retained.                                                  *)
Save(j, copy) ==
    LET p == Newer(pending[j], copy) IN
    \/ /\ disk' = [disk EXCEPT ![j] = Newer(@, p)]
       /\ pending' = [pending EXCEPT ![j] = NoRecord]
       /\ UNCHANGED failures
    \/ /\ failures < MaxFailures
       /\ p.version >= disk[j].version
       /\ failures' = failures + 1
       /\ pending' = [pending EXCEPT ![j] = p]
       /\ UNCHANGED disk

Stamped(r) == [r EXCEPT !.version = @ + 1]

-----------------------------------------------------------------------------
(* Mutant: Spawn does not look at Manager.closed. *)
SpawnAfterClose(j) ==
    /\ up
    /\ totalSpawned < MaxTotal
    /\ ~Known(j) /\ disk[j] = NoRecord
    /\ disk' = [disk EXCEPT ![j] = Stamped(NoRecord)]
    /\ rec' = [rec EXCEPT ![j] = Stamped(NoRecord)]
    /\ cancelFuncs' = cancelFuncs \cup {j}
    /\ totalSpawned' = totalSpawned + 1
    /\ pc' = [pc EXCEPT ![j] = "select"]
    /\ UNCHANGED <<up, recovered, terminalCh, closed, contexts, outcome, verdict, held,
                   sem, ran, pending, failures, stoppers, crashes>>

(* Spawn: the caps, then the first record on disk, then the worker. *)

Spawn(j) ==
    /\ up /\ ~closed
    /\ totalSpawned < MaxTotal
    /\ ~Known(j) /\ disk[j] = NoRecord
    /\ \/ LET queued == Stamped(NoRecord) IN
          /\ disk' = [disk EXCEPT ![j] = queued]
          /\ rec' = [rec EXCEPT ![j] = queued]
          /\ cancelFuncs' = cancelFuncs \cup {j}
          /\ totalSpawned' = totalSpawned + 1
          /\ pc' = [pc EXCEPT ![j] = "select"]
          /\ UNCHANGED failures
       \/ /\ failures < MaxFailures
          /\ failures' = failures + 1
          /\ UNCHANGED <<disk, rec, cancelFuncs, totalSpawned, pc>>
    /\ UNCHANGED <<up, recovered, terminalCh, closed, contexts, outcome, verdict,
                   held, sem, ran, pending, stoppers, crashes>>

-----------------------------------------------------------------------------
(* The worker goroutine (runJob). *)

Goto(j, from, to) ==
    /\ up
    /\ pc[j] = from
    /\ pc' = [pc EXCEPT ![j] = to]

(* Mutant: one worker too many gets a slot. *)
AcquireSlotOffByOne(j) ==
    /\ Goto(j, "select", "admitted")
    /\ Cardinality(sem) <= MaxConcurrent
    /\ sem' = sem \cup {j}
    /\ UNCHANGED <<up, manager, contexts, outcome, verdict, held, ran, file, stoppers, crashes>>

(* Mutant: a queued worker waits for its slot only. *)
CancelledWhileQueuedNever(j) ==
    /\ Goto(j, "select", "verdict")
    /\ FALSE
    /\ UNCHANGED <<up, manager, contexts, outcome, verdict, held, sem, ran, file, stoppers, crashes>>

(* The slot, or the context, whichever the select takes. *)
AcquireSlot(j) ==
    /\ Goto(j, "select", "admitted")
    /\ Cardinality(sem) < MaxConcurrent
    /\ sem' = sem \cup {j}
    /\ UNCHANGED <<up, manager, contexts, outcome, verdict, held, ran, file, stoppers, crashes>>

CancelledWhileQueued(j) ==
    /\ Goto(j, "select", "verdict")
    /\ CtxErr(j)
    /\ verdict' = [verdict EXCEPT ![j] = [state |-> "cancelled", cause |-> "none"]]
    /\ UNCHANGED <<up, manager, contexts, outcome, held, sem, ran, file, stoppers, crashes>>

CheckContext(j) ==
    /\ \/ /\ CtxErr(j)
          /\ Goto(j, "admitted", "verdict")
          /\ verdict' = [verdict EXCEPT ![j] = [state |-> "cancelled", cause |-> "none"]]
       \/ /\ ~CtxErr(j)
          /\ Goto(j, "admitted", "mark")
          /\ UNCHANGED verdict
    /\ UNCHANGED <<up, manager, contexts, outcome, held, sem, ran, file, stoppers, crashes>>

markRunning(j) ==
    /\ Goto(j, "mark", "saveRunning")
    /\ LET running == Stamped([rec[j] EXCEPT !.state = "running"]) IN
          /\ rec' = [rec EXCEPT ![j] = running]
          /\ held' = [held EXCEPT ![j] = running]
    /\ UNCHANGED <<up, recovered, cancelFuncs, terminalCh, closed, totalSpawned,
                   contexts, outcome, verdict, sem, ran, file, stoppers, crashes>>

(* Mutant: the running state is left to the next progress update. *)
SaveRunningLater(j) ==
    /\ Goto(j, "saveRunning", "work")
    /\ held' = [held EXCEPT ![j] = NoRecord]
    /\ ran' = ran \cup {j}
    /\ UNCHANGED <<up, manager, contexts, outcome, verdict, sem, file, stoppers, crashes>>

(* The result of this save is ignored: the agent starts either way. *)
SaveRunning(j) ==
    /\ Goto(j, "saveRunning", "work")
    /\ Save(j, held[j])
    /\ held' = [held EXCEPT ![j] = NoRecord]
    /\ ran' = ran \cup {j}
    /\ UNCHANGED <<up, manager, contexts, outcome, verdict, sem, stoppers, crashes>>

(* updateActivity, applyUsage, setWorktree: a later save of the same record. *)
Progress(j) ==
    /\ up /\ pc[j] = "work"
    /\ disk[j] # rec[j]
    /\ Save(j, rec[j])
    /\ UNCHANGED <<up, manager, contexts, worker, stoppers, crashes>>

(* The backend, the worktree, the session or the agent ends the work; with   *)
(* a dead context it ends in any of the same ways.                           *)
WorkEnds(j) ==
    /\ Goto(j, "work", "ended")
    /\ \E o \in Outcome \ {"none"} : outcome' = [outcome EXCEPT ![j] = o]
    /\ UNCHANGED <<up, manager, contexts, verdict, held, sem, ran, file, stoppers, crashes>>

(* Mutant: a user's request is not told from a loss. *)
classifyAllAsLoss(j) ==
    [state |-> "abandoned",
     cause |-> IF rec[j].request = "shutdown" THEN "app-exit" ELSE "unknown"]

classifyCancelled(j) ==
    CASE rec[j].request = "user"     -> [state |-> "cancelled", cause |-> "none"]
      [] rec[j].request = "shutdown" -> [state |-> "abandoned", cause |-> "app-exit"]
      [] OTHER -> [state |-> "abandoned",
                   cause |-> IF outcome[j] = "backendError" THEN "transport-lost" ELSE "unknown"]

(* Mutant: a stream that ends without Done leaves the state as it is. *)
DecideVerdictSilentEnd(j) ==
    /\ Goto(j, "ended", "verdict")
    /\ verdict' = [verdict EXCEPT ![j] =
          [state |-> IF outcome[j] = "error" THEN rec[j].state ELSE "completed",
           cause |-> "none"]]
    /\ outcome' = [outcome EXCEPT ![j] = "none"]
    /\ UNCHANGED <<up, manager, contexts, held, sem, ran, file, stoppers, crashes>>

(* Precedence: a setup error (session, registry, verifier root) is a failure *)
(* whatever the context says; then a dead context; then the error of the     *)
(* backend, the worktree or the agent; then the Done event.                  *)
DecideVerdict(j) ==
    /\ Goto(j, "ended", "verdict")
    /\ verdict' = [verdict EXCEPT ![j] =
          IF CtxErr(j) /\ outcome[j] # "setupError" THEN classifyCancelled(j)
          ELSE [state |-> IF outcome[j] = "done" THEN "completed" ELSE "failed",
                cause |-> "none"]]
    /\ outcome' = [outcome EXCEPT ![j] = "none"]
    /\ UNCHANGED <<up, manager, contexts, held, sem, ran, file, stoppers, crashes>>

(* A panic unwinds: the slot is released before the record is closed. *)
Panic(j) ==
    /\ Goto(j, "work", "verdict")
    /\ sem' = sem \ {j}
    /\ verdict' = [verdict EXCEPT ![j] = [state |-> "failed", cause |-> "none"]]
    /\ UNCHANGED <<up, manager, contexts, outcome, held, ran, file, stoppers, crashes>>

(* Mutant: the cancel function stays registered. *)
markTerminalKeepsCancel(j) ==
    /\ Goto(j, "verdict", "saveTerminal")
    /\ LET ended == Stamped([rec[j] EXCEPT !.state = verdict[j].state,
                                           !.cause = verdict[j].cause]) IN
          /\ rec' = [rec EXCEPT ![j] = ended]
          /\ held' = [held EXCEPT ![j] = ended]
    /\ UNCHANGED <<up, recovered, cancelFuncs, terminalCh, closed, totalSpawned, contexts,
                   outcome, verdict, sem, ran, file, stoppers, crashes>>

(* Mutant: waiters are woken under the lock, before the record is saved. *)
markTerminalSignalsFirst(j) ==
    /\ Goto(j, "verdict", "saveTerminal")
    /\ LET ended == Stamped([rec[j] EXCEPT !.state = verdict[j].state,
                                           !.cause = verdict[j].cause]) IN
          /\ rec' = [rec EXCEPT ![j] = ended]
          /\ held' = [held EXCEPT ![j] = ended]
    /\ cancelFuncs' = cancelFuncs \ {j}
    /\ terminalCh' = terminalCh \cup {j}
    /\ UNCHANGED <<up, recovered, closed, totalSpawned, contexts,
                   outcome, verdict, sem, ran, file, stoppers, crashes>>

markTerminalCause(j) ==
    /\ Goto(j, "verdict", "saveTerminal")
    /\ LET ended == Stamped([rec[j] EXCEPT !.state = verdict[j].state,
                                           !.cause = verdict[j].cause]) IN
          /\ rec' = [rec EXCEPT ![j] = ended]
          /\ held' = [held EXCEPT ![j] = ended]
    /\ cancelFuncs' = cancelFuncs \ {j}
    /\ verdict' = [verdict EXCEPT ![j] = NoVerdict]
    /\ UNCHANGED <<up, recovered, terminalCh, closed, totalSpawned, contexts,
                   outcome, sem, ran, file, stoppers, crashes>>

SaveTerminal(j) ==
    /\ Goto(j, "saveTerminal", "close")
    /\ Save(j, held[j])
    /\ held' = [held EXCEPT ![j] = NoRecord]
    /\ UNCHANGED <<up, manager, contexts, outcome, verdict, sem, ran, stoppers, crashes>>

CloseTerminalCh(j) ==
    /\ Goto(j, "close", "release")
    /\ terminalCh' = terminalCh \cup {j}
    /\ UNCHANGED <<up, rec, recovered, cancelFuncs, closed, totalSpawned, contexts,
                   outcome, verdict, held, sem, ran, file, stoppers, crashes>>

ReleaseSlot(j) ==
    /\ Goto(j, "release", "exit")
    /\ sem' = sem \ {j}
    /\ UNCHANGED <<up, manager, contexts, outcome, verdict, held, ran, file, stoppers, crashes>>

WorkerDone(j) ==
    /\ Goto(j, "exit", "gone")
    /\ UNCHANGED <<up, manager, contexts, outcome, verdict, held, sem, ran, file, stoppers, crashes>>

-----------------------------------------------------------------------------
(* Cancel, CancelAll and Shutdown: stamp, save, then cancel. *)

Busy(s) == canceller[s] # NoCall

(* Mutant: the request already closes the record. *)
StampRequestCloses(s, targets, req) ==
    LET stamp(j) == Stamped([rec[j] EXCEPT !.request = req, !.state = "cancelled"]) IN
    /\ rec' = [j \in Jobs |-> IF j \in targets THEN stamp(j) ELSE rec[j]]
    /\ canceller' = [canceller EXCEPT ![s] =
          [save |-> {<<j, stamp(j)>> : j \in targets}, cancel |-> targets]]

(* Under mu: the request is stamped on every target, the copies are taken. *)
StampRequest(s, targets, req) ==
    LET stamp(j) == Stamped([rec[j] EXCEPT !.request = req]) IN
    /\ rec' = [j \in Jobs |-> IF j \in targets THEN stamp(j) ELSE rec[j]]
    /\ canceller' = [canceller EXCEPT ![s] =
          [save |-> {<<j, stamp(j)>> : j \in targets}, cancel |-> targets]]

(* Mutant: only running jobs are stopped. *)
CancellableRunning == {j \in cancelFuncs : rec[j].state = "running"}

Cancellable == {j \in cancelFuncs : Active(j)}

Cancel(u, j) ==
    /\ up /\ ~Busy(u)
    /\ cancels < MaxCancels
    /\ j \in Cancellable
    /\ StampRequest(u, {j}, "user")
    /\ cancels' = cancels + 1
    /\ UNCHANGED <<up, recovered, cancelFuncs, terminalCh, closed, totalSpawned,
                   contexts, worker, file, shutdown, crashes>>

CancelAll(u) ==
    /\ up /\ ~Busy(u)
    /\ cancels < MaxCancels
    /\ Cancellable # {}
    /\ StampRequest(u, Cancellable, "user")
    /\ cancels' = cancels + 1
    /\ UNCHANGED <<up, recovered, cancelFuncs, terminalCh, closed, totalSpawned,
                   contexts, worker, file, shutdown, crashes>>

SaveRequest(s) ==
    /\ up
    /\ \E c \in canceller[s].save :
          /\ Save(c[1], c[2])
          /\ canceller' = [canceller EXCEPT ![s].save = @ \ {c}]
    /\ UNCHANGED <<up, manager, contexts, worker, shutdown, cancels, crashes>>

(* Mutant: the context is cancelled while the request is being written. *)
CallCancelFuncEarly(s) ==
    /\ up
    /\ \E j \in canceller[s].cancel :
          /\ ctxDone' = ctxDone \cup {j}
          /\ canceller' = [canceller EXCEPT ![s].cancel = @ \ {j}]
    /\ UNCHANGED <<up, manager, baseDone, worker, file, shutdown, cancels, crashes>>

CallCancelFunc(s) ==
    /\ up
    /\ canceller[s].save = {}
    /\ \E j \in canceller[s].cancel :
          /\ ctxDone' = ctxDone \cup {j}
          /\ canceller' = [canceller EXCEPT ![s].cancel = @ \ {j}]
    /\ UNCHANGED <<up, manager, baseDone, worker, file, shutdown, cancels, crashes>>

ShutdownCloses ==
    /\ up /\ shutdown = "no" /\ MayShutDown
    /\ shutdown' = "closing"
    /\ closed' = TRUE
    /\ UNCHANGED <<up, rec, recovered, cancelFuncs, terminalCh, totalSpawned,
                   contexts, worker, file, canceller, cancels, crashes>>

ShutdownStops ==
    /\ up /\ shutdown = "closing"
    /\ shutdown' = "stopping"
    /\ StampRequest("shutdown", Cancellable, "shutdown")
    /\ UNCHANGED <<up, recovered, cancelFuncs, terminalCh, closed, totalSpawned,
                   contexts, worker, file, cancels, crashes>>

CancelBase ==
    /\ up /\ shutdown = "stopping"
    /\ ~Busy("shutdown")
    /\ shutdown' = "waiting"
    /\ baseDone' = TRUE
    /\ UNCHANGED <<up, manager, ctxDone, worker, file, canceller, cancels, crashes>>

(* The workers are gone, or the timeout fires first. *)
ShutdownWaits ==
    /\ up /\ shutdown = "waiting"
    /\ \/ /\ \A j \in Jobs : ~Live(j)
          /\ shutdown' = "flushing"
       \/ /\ \E j \in Jobs : Live(j)
          /\ shutdown' = "timedOut"
    /\ UNCHANGED <<up, manager, contexts, worker, file, canceller, cancels, crashes>>

(* flushAllPendingSnapshots: one attempt for each retained copy, also after  *)
(* a timeout.                                                                *)
ShutdownFlushes ==
    /\ up /\ shutdown \in {"flushing", "timedOut"}
    /\ \E refused \in SUBSET {j \in Jobs : pending[j] # NoRecord} :
          /\ failures + Cardinality(refused) <= MaxFailures
          /\ failures' = failures + Cardinality(refused)
          /\ disk' = [j \in Jobs |-> IF j \in refused THEN disk[j]
                                     ELSE Newer(disk[j], pending[j])]
          /\ pending' = [j \in Jobs |-> IF j \in refused THEN pending[j] ELSE NoRecord]
          /\ shutdown' = IF shutdown = "flushing" /\ refused = {} THEN "nil" ELSE "error"
    /\ UNCHANGED <<up, manager, contexts, worker, canceller, cancels, crashes>>

(* Called again after an error: it waits and flushes once more. *)
ShutdownAgain ==
    /\ up /\ shutdown = "error"
    /\ shutdown' = "waiting"
    /\ UNCHANGED <<up, manager, contexts, worker, file, canceller, cancels, crashes>>

-----------------------------------------------------------------------------
(* The process ends at any point; NewManager reconciles what it left. *)

Crash ==
    /\ up
    /\ crashes < MaxCrashes
    /\ crashes' = crashes + 1
    /\ up' = FALSE
    /\ rec' = [j \in Jobs |-> NoRecord]
    /\ recovered' = {}
    /\ cancelFuncs' = {}
    /\ ctxDone' = {}
    /\ baseDone' = FALSE
    /\ sem' = {}
    /\ terminalCh' = {}
    /\ closed' = FALSE
    /\ totalSpawned' = 0
    /\ pc' = [j \in Jobs |-> "none"]
    /\ outcome' = [j \in Jobs |-> "none"]
    /\ verdict' = [j \in Jobs |-> NoVerdict]
    /\ held' = [j \in Jobs |-> NoRecord]
    /\ canceller' = [s \in Stoppers |-> NoCall]
    /\ shutdown' = "no"
    /\ pending' = [j \in Jobs |-> NoRecord]
    /\ UNCHANGED <<disk, failures, cancels, ran>>

(* Mutant: every orphan is reported as cancelled. *)
ReconciledCancelled(r) == [r EXCEPT !.state = "cancelled"]

(* A running record is closed as abandoned, a queued one as cancelled. *)
Reconciled(r) ==
    IF r.state = "running"
    THEN [r EXCEPT !.state = "abandoned", !.cause = "app-exit"]
    ELSE [r EXCEPT !.state = "cancelled"]

Restart ==
    /\ ~up
    /\ up' = TRUE
    /\ \E unread \in SUBSET {j \in Jobs : disk[j] # NoRecord} :
          LET loaded == {j \in Jobs : disk[j] # NoRecord} \ unread
              orphans == {j \in loaded : ~IsTerminal(disk[j])} IN
          /\ failures + Cardinality(unread) <= MaxFailures
          /\ failures' = failures + Cardinality(unread)
          /\ disk' = [j \in Jobs |-> IF j \in orphans THEN Reconciled(disk[j]) ELSE disk[j]]
          /\ rec' = [j \in Jobs |-> IF j \in loaded THEN disk'[j] ELSE NoRecord]
          /\ recovered' = orphans
    /\ UNCHANGED <<cancelFuncs, terminalCh, closed, totalSpawned, contexts, worker,
                   pending, stoppers, crashes>>

-----------------------------------------------------------------------------
WorkerStep(j) ==
    \/ AcquireSlot(j)
    \/ CancelledWhileQueued(j)
    \/ CheckContext(j)
    \/ markRunning(j)
    \/ SaveRunning(j)
    \/ DecideVerdict(j)
    \/ markTerminalCause(j)
    \/ SaveTerminal(j)
    \/ CloseTerminalCh(j)
    \/ ReleaseSlot(j)
    \/ WorkerDone(j)

Next ==
    \/ \E j \in Jobs : \/ Spawn(j)
                       \/ WorkerStep(j)
                       \/ Progress(j)
                       \/ WorkEnds(j)
                       \/ Panic(j)
    \/ \E u \in Users : CancelAll(u) \/ \E j \in Jobs : Cancel(u, j)
    \/ \E s \in Stoppers : SaveRequest(s) \/ CallCancelFunc(s)
    \/ ShutdownCloses
    \/ ShutdownStops
    \/ CancelBase
    \/ ShutdownWaits
    \/ ShutdownFlushes
    \/ ShutdownAgain
    \/ Crash
    \/ Restart

(* A goroutine that can run, runs.  The work itself may take for ever (an    *)
(* approval nobody answers) unless its context is dead, which every provider *)
(* call, tool and approval wait observes.                                    *)
Fairness ==
    /\ \A j \in Jobs : /\ WF_vars(WorkerStep(j))
                       /\ WF_vars(CtxErr(j) /\ WorkEnds(j))
    /\ \A s \in Stoppers : WF_vars(SaveRequest(s) \/ CallCancelFunc(s))
    /\ WF_vars(ShutdownStops)
    /\ WF_vars(CancelBase)

Spec == Init /\ [][Next]_vars /\ Fairness

-----------------------------------------------------------------------------
(* Properties. *)

(* A dead context always has a recorded reason: between the moment the       *)
(* context of an active job is cancelled and its verdict, the record names   *)
(* who asked, so classifyCancelled never has to guess (Cancel, Shutdown).    *)
StopIsRecorded == \A j \in Jobs : Active(j) /\ CtxErr(j) => rec[j].request # "none"

(* "Durably written before the context is cancelled" (Cancel): unless a      *)
(* write was refused, the request is on disk when the context dies, also     *)
(* when the saves of several stoppers and of the worker interleave.          *)
StopIsDurable ==
    failures = 0 => \A j \in ctxDone : disk[j].request # "none"

(* Abandoned is claimed only for an exit of the app, never as a guess.       *)
AbandonedMeansAppExit ==
    \A j \in Jobs : Known(j) /\ rec[j].state = "abandoned" =>
        rec[j].cause = "app-exit" /\ (closed \/ crashes > 0)

(* Cancelled means the stop was asked for, or that the job never ran.        *)
CancelledMeansAskedOrNeverRan ==
    \A j \in Jobs : Known(j) /\ rec[j].state = "cancelled" =>
        \/ rec[j].request # "none"
        \/ j \notin ran
        \/ failures > 0

(* Reconciliation closes a queued record as cancelled because "it did not    *)
(* run" (internal/jobs/persistence.go).                                      *)
RecoveredCancelledNeverRan ==
    \A j \in recovered : rec[j].state = "cancelled" => j \notin ran

(* What is said of a cancelled job is true, by its own worker and by the     *)
(* start that found its record.                                              *)
CancelledIsTrue == CancelledMeansAskedOrNeverRan /\ RecoveredCancelledNeverRan

(* No more agents at work than slots, also while workers unwind.             *)
WorkIsBounded ==
    Cardinality({j \in Jobs : pc[j] \in {"admitted", "mark", "saveRunning", "work", "ended"}})
        <= MaxConcurrent

(* Every active job can be stopped: it has a cancel function and a worker.   *)
ActiveCanBeStopped ==
    \A j \in Jobs : Active(j) <=> j \in cancelFuncs /\ Live(j)

(* Whoever waits on a job is woken only when its terminal record is durable, *)
(* unless a write was refused.                                               *)
WakeAfterDurable ==
    failures = 0 => \A j \in terminalCh : disk[j] = rec[j] /\ IsTerminal(disk[j])

(* When Shutdown returns nil every worker is gone and every record of the    *)
(* run is on disk as it is in memory, whatever writes were refused before.   *)
NilShutdownLosesNothing ==
    shutdown = "nil" => \A j \in Jobs : ~Live(j) /\ (Known(j) => disk[j] = rec[j])

(* The three together: what a stop or an end has claimed is on disk, or a    *)
(* write was refused and somebody knows.                                     *)
StopsAreKept == StopIsDurable /\ WakeAfterDurable /\ NilShutdownLosesNothing

(* A terminal state is final, and a file never loses one.                    *)
TerminalIsFinal ==
    [][\A j \in Jobs :
          /\ IsTerminal(rec[j]) /\ up' => rec'[j].state = rec[j].state
          /\ IsTerminal(disk[j]) => disk'[j].state = disk[j].state]_vars

(* A job whose context died reaches a terminal state and releases its slot.  *)
StoppedJobsEnd ==
    \A j \in Jobs : Live(j) /\ CtxErr(j) ~> ~Live(j) /\ j \notin sem
-----------------------------------------------------------------------------
(* For TLC: jobs are alike, and a run sees one fault, a refused write or the *)
(* end of the process.                                                       *)
JobSymmetry == Permutations(Jobs)
OneFault    == failures + crashes <= 1
=============================================================================
