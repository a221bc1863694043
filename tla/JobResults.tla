----------------------------- MODULE JobResults -----------------------------
(***************************************************************************)
(* What happens to the result of a background job after it ends: the queue *)
(* Manager.results, the decisions of the user in Agent View (seen,         *)
(* ignored, injected), the legacy drain, and the agents that wait for a    *)
(* child through spawn_agent and collect_agent_results.                    *)
(*                                                                         *)
(* A waiter is a goroutine of its own: it goes on when the tool call that  *)
(* started it is cancelled.  Saving the record after each step is in       *)
(* JobStore; here a restart finds every decision on disk.                  *)
(***************************************************************************)
EXTENDS Integers, Sequences, SequencesExt

CONSTANTS
    Jobs,
    Waiters,    \* goroutines inside WaitForJobContext
    NoJob,
    MaxWaits    \* bound: calls of WaitForJobContext

ConstantsOK ==
    /\ NoJob \notin Jobs
    /\ MaxWaits \in Nat

VARIABLES
    terminal,    \* jobs in a terminal state, in the order they finished
    status,      \* status[j]: Job.ResultStatus
    results,     \* Manager.results, oldest first
    terminalCh,  \* jobs whose terminal channel is closed
    waiting,     \* waiting[w]: the job w waits for
    waits,       \* calls of WaitForJobContext so far
    injections   \* history: injections[j], payloads put into the main session

vars == <<terminal, status, results, terminalCh, waiting, waits, injections>>

Status == {"pending", "seen", "ignored", "injected", "consumed"}

resultStatusFinal(s) == s \in {"ignored", "injected", "consumed"}

TypeOK ==
    /\ terminal \in Seq(Jobs)
    /\ status \in [Jobs -> Status]
    /\ results \in Seq(Jobs)
    /\ terminalCh \subseteq Jobs
    /\ waiting \in [Waiters -> Jobs \cup {NoJob}]
    /\ waits \in 0..MaxWaits
    /\ injections \in [Jobs -> 0..1]

Init ==
    /\ terminal = << >>
    /\ status = [j \in Jobs |-> "pending"]
    /\ results = << >>
    /\ terminalCh = {}
    /\ waiting = [w \in Waiters |-> NoJob]
    /\ waits = 0
    /\ injections = [j \in Jobs |-> 0]

IsTerminal(j) == j \in ToSet(terminal)

removeQueuedResult(j) == RemoveFirst(results, j)

upsertQueuedResult(j) == IF j \in ToSet(results) THEN results ELSE Append(results, j)

-----------------------------------------------------------------------------
(* markTerminalCause: the state and the queue change together, the channel   *)
(* is closed after the record is saved.                                      *)
Finish(j) ==
    /\ ~IsTerminal(j)
    /\ terminal' = Append(terminal, j)
    /\ results' = Append(results, j)
    /\ UNCHANGED <<status, terminalCh, waiting, waits, injections>>

(* Mutant: nobody is woken for a result that was already decided on. *)
CloseTerminalChUndecided(j) ==
    /\ IsTerminal(j) /\ j \notin terminalCh
    /\ ~resultStatusFinal(status[j])
    /\ terminalCh' = terminalCh \cup {j}
    /\ UNCHANGED <<terminal, status, results, waiting, waits, injections>>

CloseTerminalCh(j) ==
    /\ IsTerminal(j) /\ j \notin terminalCh
    /\ terminalCh' = terminalCh \cup {j}
    /\ UNCHANGED <<terminal, status, results, waiting, waits, injections>>

(* markResultStatus: a final decision stands, repeating one is not a change. *)
markResultStatus(j, s) ==
    /\ IsTerminal(j)
    /\ status[j] # s
    /\ ~resultStatusFinal(status[j])
    /\ status' = [status EXCEPT ![j] = s]
    /\ results' = IF resultStatusFinal(s) THEN removeQueuedResult(j) ELSE upsertQueuedResult(j)
    /\ UNCHANGED <<terminal, terminalCh, waiting, waits, injections>>

(* Mutant: a consumed or ignored result can still be injected. *)
InjectResultAgain(j) ==
    /\ IsTerminal(j)
    /\ status[j] # "injected"
    /\ status' = [status EXCEPT ![j] = "injected"]
    /\ injections' = [injections EXCEPT ![j] = @ + 1]
    /\ results' = removeQueuedResult(j)
    /\ UNCHANGED <<terminal, terminalCh, waiting, waits>>

(* InjectResult: the session takes the payload under the lock, or refuses    *)
(* and nothing changes.  MarkResultInjected with its caller does the same.   *)
InjectResult(j) ==
    /\ IsTerminal(j)
    /\ ~resultStatusFinal(status[j])
    /\ status' = [status EXCEPT ![j] = "injected"]
    /\ injections' = [injections EXCEPT ![j] = @ + 1]
    /\ results' = removeQueuedResult(j)
    /\ UNCHANGED <<terminal, terminalCh, waiting, waits>>

(* Mutant: drained entries stay in the queue. *)
DrainResultsKeeps(n) ==
    /\ n \in 1..Len(results)
    /\ LET drained == ToSet(SubSeq(results, 1, n)) IN
          /\ status' = [j \in Jobs |-> IF j \in drained THEN "injected" ELSE status[j]]
          /\ injections' = [j \in Jobs |-> IF j \in drained THEN injections[j] + 1
                                           ELSE injections[j]]
    /\ UNCHANGED <<terminal, results, terminalCh, waiting, waits>>

(* DrainResults: the first n of the queue become injected. *)
DrainResults(n) ==
    /\ n \in 1..Len(results)
    /\ LET drained == ToSet(SubSeq(results, 1, n)) IN
          /\ status' = [j \in Jobs |-> IF j \in drained THEN "injected" ELSE status[j]]
          /\ injections' = [j \in Jobs |-> IF j \in drained THEN injections[j] + 1
                                           ELSE injections[j]]
    /\ results' = SubSeq(results, n + 1, Len(results))
    /\ UNCHANGED <<terminal, terminalCh, waiting, waits>>

-----------------------------------------------------------------------------
(* WaitForJobContext. *)

(* Mutant: the consumed result stays in Agent View. *)
consumeResultKeeps(j) ==
    /\ status' = [status EXCEPT ![j] = "consumed"]
    /\ UNCHANGED results

consumeResult(j) ==
    /\ status' = [status EXCEPT ![j] = "consumed"]
    /\ results' = removeQueuedResult(j)

Wait(w, j) ==
    /\ waiting[w] = NoJob
    /\ waits < MaxWaits
    /\ waits' = waits + 1
    /\ \/ /\ IsTerminal(j)
          /\ consumeResult(j)
          /\ UNCHANGED waiting
       \/ /\ ~IsTerminal(j)
          /\ waiting' = [waiting EXCEPT ![w] = j]
          /\ UNCHANGED <<status, results>>
    /\ UNCHANGED <<terminal, terminalCh, injections>>

Return(w) ==
    /\ waiting' = [waiting EXCEPT ![w] = NoJob]
    /\ UNCHANGED <<terminal, terminalCh, waits, injections>>

WakeUp(w) ==
    /\ waiting[w] \in terminalCh
    /\ consumeResult(waiting[w])
    /\ Return(w)

WaitTimeout(w) ==
    /\ waiting[w] # NoJob
    /\ Return(w)
    /\ UNCHANGED <<status, results>>

-----------------------------------------------------------------------------
(* NewManager after an exit: jobs that were active are closed, in any order, *)
(* and the queue is rebuilt from the undecided records by finishing time.    *)
Restart ==
    /\ \E closed \in SetToSeqs(Jobs \ ToSet(terminal)) :
          terminal' = terminal \o closed
    /\ results' = SelectSeq(terminal', LAMBDA j : ~resultStatusFinal(status[j]))
    /\ terminalCh' = {}
    /\ waiting' = [w \in Waiters |-> NoJob]
    /\ UNCHANGED <<status, waits, injections>>

-----------------------------------------------------------------------------
Next ==
    \/ \E j \in Jobs : \/ Finish(j)
                       \/ CloseTerminalCh(j)
                       \/ markResultStatus(j, "seen")
                       \/ markResultStatus(j, "ignored")
                       \/ InjectResult(j)
    \/ \E n \in 1..Len(results) : DrainResults(n)
    \/ \E w \in Waiters : \/ WakeUp(w)
                          \/ WaitTimeout(w)
                          \/ \E j \in Jobs : Wait(w, j)
    \/ Restart

Fairness ==
    /\ \A j \in Jobs : WF_vars(CloseTerminalCh(j))
    /\ \A w \in Waiters : WF_vars(WakeUp(w))

Spec == Init /\ [][Next]_vars /\ Fairness

-----------------------------------------------------------------------------
(* Properties. *)

(* The queue holds exactly the terminal jobs nobody has decided on, once     *)
(* each, oldest first, however the user, the drain, waiters and restarts     *)
(* interleave: no result is lost from Agent View and none is listed twice.   *)
QueueIsUndecided ==
    results = SelectSeq(terminal, LAMBDA j : ~resultStatusFinal(status[j]))

(* A result enters the main session at most once, and never after the user   *)
(* ignored it or an agent consumed it.                                       *)
InjectedAtMostOnce ==
    [][\A j \in Jobs : injections'[j] # injections[j] =>
          injections[j] = 0 /\ ~resultStatusFinal(status[j])]_vars

(* "Ignored/injected/consumed results are final" (internal/jobs/job.go).     *)
FinalDecisionStands ==
    [][\A j \in Jobs : resultStatusFinal(status[j]) => status'[j] = status[j]]_vars

(* A waiter is woken by the end of its job, unless it times out before or    *)
(* the process exits: the channel is closed for everyone who waits on it.    *)
WaitersReturn == \A w \in Waiters :
    waiting[w] # NoJob /\ IsTerminal(waiting[w]) ~> waiting[w] = NoJob
=============================================================================
