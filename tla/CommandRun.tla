------------------------------ MODULE CommandRun ------------------------------
(***************************************************************************)
(* One command run for a tool, a hook or an MCP server: internal/procrun   *)
(* (POSIX), the Execute of both backends of internal/computers,            *)
(* internal/tools/execute_command.go, internal/hooks, internal/mcp/        *)
(* process.go, and what they rely on in os/exec.                           *)
(*                                                                         *)
(* The command is a shell that leads a process group and a descendant that *)
(* may leave the group.  The shell's output pipe is held by both; a copier *)
(* takes what is in it to the buffer that the result is made of.           *)
(***************************************************************************)
EXTENDS Integers

CONSTANTS
    Kinds,       \* of run: "tool" on the local backend, "ssh", "server"
    MaxOutput    \* chunks of output

ConstantsOK == Kinds \subseteq {"tool", "ssh", "server"} /\ MaxOutput \in Nat

VARIABLES
    kind, pc,    \* of Execute, or of the server's wait and release
    ctx,         \* "live", "cancelled" or "late"
    shell,       \* "running", "zero", "failed" (it exited) or "killed"
    reaped,      \* Process.Wait has returned
    child,       \* "none", "group", "away" (setsid) or "gone"
    watcher,     \* os/exec's: "watching", "killing" (its delay runs) or "done"
    copier,      \* "reading" or "done"; expired when WaitDelay closed the pipe
    expired,
    written, buffer,
    outcome,     \* KillOutcome
    result       \* [is, exit, killed]

vars == <<kind, pc, ctx, shell, reaped, child, watcher, copier, expired, written, buffer, outcome, result>>
process == <<shell, child>>
plumbing == <<reaped, watcher, copier, expired>>

NoOutcome == [ran |-> FALSE, confirmed |-> FALSE]
NoResult  == [is |-> "none", exit |-> -1, killed |-> NoOutcome]
Exit      == IF shell = "zero" THEN 0 ELSE 1     \* ProcessState's
InGroup   == shell = "running" \/ ~reaped \/ child = "group"

-----------------------------------------------------------------------------
Init ==
    /\ kind \in Kinds /\ pc = "wait" /\ ctx = "live"
    /\ shell = "running" /\ reaped = FALSE /\ child = "none"
    /\ watcher = "watching" /\ copier = "reading" /\ expired = FALSE
    /\ written = 0 /\ buffer = 0
    /\ outcome = NoOutcome /\ result = NoResult

\* The command.
ShellExits == shell = "running" /\ shell' \in {"zero", "failed"} /\ UNCHANGED child
Spawns     == shell = "running" /\ child = "none" /\ child' = "group" /\ UNCHANGED shell
Leaves     == child = "group" /\ child' = "away" /\ UNCHANGED shell
ChildExits == child \in {"group", "away"} /\ child' = "gone" /\ UNCHANGED shell
Writes ==
    /\ shell = "running" \/ child \in {"group", "away"}
    /\ written < MaxOutput /\ written' = written + 1
    /\ UNCHANGED <<kind, pc, ctx, process, plumbing, buffer, outcome, result>>

Command ==
    \/ /\ ShellExits \/ Spawns \/ Leaves \/ ChildExits
       /\ UNCHANGED <<kind, pc, ctx, plumbing, written, buffer, outcome, result>>
    \/ Writes

\* The turn is cancelled, or the tool's timeout passes: 60 s, 600 s at most, 10 s
\* for a hook.
Stop ==
    /\ ctx = "live" /\ pc # "released"
    /\ ctx' \in {"cancelled", "late"}
    /\ UNCHANGED <<kind, pc, process, plumbing, written, buffer, outcome, result>>

-----------------------------------------------------------------------------
\* signalGroup: SIGKILL to the group; one that is empty already, or empties in
\* time once the leader has been waited for, is confirmed.
signalGroup(leaderReaped) ==
    /\ shell' = IF shell = "running" THEN "killed" ELSE shell
    /\ child' = IF child = "group" THEN "gone" ELSE child
    /\ outcome' = [ran |-> TRUE, confirmed |-> ~InGroup \/ leaderReaped]

\* Mutant: only the shell is signalled.
killShell ==
    /\ watcher = "watching" /\ ctx # "live" /\ kind # "ssh"
    /\ shell' = IF shell = "running" THEN "killed" ELSE shell
    /\ outcome' = [ran |-> TRUE, confirmed |-> FALSE]
    /\ watcher' = "killing"
    /\ UNCHANGED <<kind, pc, ctx, child, reaped, copier, expired, written, buffer, result>>

\* cmd.Cancel, on the watcher of os/exec: it may run after the shell is reaped,
\* as long as Wait has not asked for the watcher's word.
killTree ==
    /\ watcher = "watching" /\ ctx # "live" /\ kind # "ssh"
    /\ signalGroup(FALSE)
    /\ watcher' = "killing"
    /\ UNCHANGED <<kind, pc, ctx, reaped, copier, expired, written, buffer, result>>

\* os/exec: Process.Wait; the copier; WaitDelay; the end of the watcher.
Reap ==
    /\ pc = "wait" /\ shell # "running" /\ ~reaped
    /\ reaped' = TRUE
    /\ UNCHANGED <<kind, pc, ctx, process, watcher, copier, expired, written, buffer, outcome, result>>

\* Chunks are copied to the bounded buffer and, live, to the sink.
Copy ==
    /\ copier = "reading"
    /\ \/ buffer < written /\ buffer' = buffer + 1 /\ UNCHANGED copier
       \/ /\ buffer = written /\ shell # "running" /\ child \notin {"group", "away"}
          /\ copier' = "done" /\ UNCHANGED buffer
    /\ UNCHANGED <<kind, pc, ctx, process, reaped, watcher, expired, written, outcome, result>>

WatcherEnds ==
    /\ reaped /\ watcher # "done" /\ kind # "ssh"
    /\ watcher' = "done"
    /\ UNCHANGED <<kind, pc, ctx, process, reaped, copier, expired, written, buffer, outcome, result>>

\* Mutant: without a WaitDelay the pipe is read until everyone has closed it.
NoWaitDelay == FALSE /\ UNCHANGED vars
\* 250 ms after the kill, or after Wait has the watcher's word.
WaitDelay ==
    /\ copier = "reading" /\ watcher = "done" /\ kind # "ssh"
    /\ copier' = "done" /\ expired' = TRUE
    /\ UNCHANGED <<kind, pc, ctx, process, reaped, watcher, written, buffer, outcome, result>>

\* What Run reports: the exit, then the watcher's word, then the pipe's.
RunErr == IF shell # "zero" THEN "exit" ELSE IF outcome.ran THEN "context" ELSE IF expired THEN "delay" ELSE "none"
\* Mutant: the copier is not waited for.
WaitedForShell == pc = "wait" /\ reaped /\ watcher = "done"
Waited == pc = "wait" /\ reaped /\ watcher = "done" /\ copier = "done"

\* Mutant: the exit status is looked at before the context.
ExecuteExitFirst ==
    IF RunErr = "none" THEN [exit |-> 0, killed |-> NoOutcome]
    ELSE IF RunErr = "exit" THEN [exit |-> Exit, killed |-> NoOutcome]
    ELSE [exit |-> -1, killed |-> outcome]

\* LocalBackend.Execute.
Execute ==
    IF RunErr = "none" THEN [exit |-> 0, killed |-> NoOutcome]
    ELSE IF RunErr = "delay" THEN [exit |-> Exit, killed |-> NoOutcome]
    ELSE IF ctx # "live" THEN [exit |-> -1, killed |-> outcome]
    ELSE [exit |-> Exit, killed |-> NoOutcome]

LocalReturns ==
    /\ kind = "tool" /\ Waited
    /\ pc' = "returned" /\ result' = [result EXCEPT !.exit = Execute.exit, !.killed = Execute.killed]
    /\ UNCHANGED <<kind, ctx, process, plumbing, written, buffer, outcome>>

\* SSHBackend.Execute: the remote end is not waited for for ever, and signalled
\* without a group; it may go on, and its output come in late.
SSHReturns ==
    /\ kind = "ssh" /\ pc = "wait"
    /\ \/ /\ shell # "running" /\ copier = "done"
          /\ result' = [result EXCEPT !.exit = Exit]
       \/ ctx # "live" /\ result' = [result EXCEPT !.killed = [ran |-> TRUE, confirmed |-> FALSE]]
    /\ pc' = "returned"
    /\ UNCHANGED <<kind, ctx, process, plumbing, written, buffer, outcome>>

\* ExecuteStreaming and runOne: the context is asked once more.
Report ==
    /\ pc = "returned"
    /\ pc' = "released"
    /\ result' = [result EXCEPT !.is = IF ctx # "live" THEN ctx ELSE IF result.exit = 0 THEN "ok" ELSE "failed"]
    /\ UNCHANGED <<kind, ctx, process, plumbing, written, buffer, outcome>>

\* An MCP server's process: ReleaseTree after Wait sweeps what it left.
releaseTree ==
    /\ kind = "server" /\ Waited
    /\ pc' = "released" /\ signalGroup(TRUE)
    /\ UNCHANGED <<kind, ctx, plumbing, written, buffer, result>>

Runtime == killTree \/ Reap \/ Copy \/ WatcherEnds \/ WaitDelay
           \/ LocalReturns \/ SSHReturns \/ Report \/ releaseTree
Next == Command \/ Stop \/ Runtime

\* Signals, timers and the goroutines of os/exec run; the command need not end.
Fairness == WF_vars(killTree) /\ WF_vars(Reap) /\ WF_vars(Copy) /\ WF_vars(WatcherEnds) /\ WF_vars(WaitDelay)
            /\ WF_vars(LocalReturns) /\ WF_vars(SSHReturns) /\ WF_vars(Report) /\ WF_vars(releaseTree)

Spec == Init /\ [][Next]_vars /\ Fairness

-----------------------------------------------------------------------------
TypeOK ==
    /\ kind \in Kinds /\ pc \in {"wait", "returned", "released"} /\ ctx \in {"live", "cancelled", "late"}
    /\ shell \in {"running", "zero", "failed", "killed"} /\ child \in {"none", "group", "away", "gone"}
    /\ buffer <= written /\ written <= MaxOutput

\* local_backend.go, "The cancellation check must come FIRST": an exit status is
\* the one the shell chose, success is its own, and whoever stopped it is told
\* what became of the group, of which nothing is left.
StatusIsTheShells ==
    /\ result.is = "ok" => shell = "zero"
    /\ result.exit # -1 => shell \in {"zero", "failed"} /\ result.exit = Exit
    /\ kind = "tool" /\ shell = "killed" /\ pc # "wait" => result.killed.ran /\ child # "group"
    /\ kind = "server" /\ pc = "released" => ~InGroup

\* A command that is stopped returns, whoever still holds its pipe; so does the
\* wait for a server whose shell has ended.
StoppedCommandReturns ==
    (pc = "wait" /\ (ctx # "live" \/ (kind # "ssh" /\ shell # "running"))) ~> (pc = "released")

\* execute_command.go, "the model-facing result still comes solely from the
\* BoundedBuffer": on the local backend nothing is written to it any more.
NothingAfterReturn == [][kind = "tool" /\ pc # "wait" => buffer' = buffer]_vars

\* procrun/run.go, "Confirmed reports that no process from the tree can still be
\* running".
\* (Does not hold: README, Observations.)
ConfirmedMeansGone == outcome.confirmed => shell # "running" /\ child \notin {"group", "away"}

=============================================================================
