-------------------------- MODULE JobManager_proofs --------------------------
(***************************************************************************)
(* Proofs about JobManager, for any number of jobs, users, slots and        *)
(* stopped, failed or crashed runs.                                        *)
(***************************************************************************)
EXTENDS JobManager, FiniteSetTheorems, TLAPS

-----------------------------------------------------------------------------
(* The strengthenings.  Each layer is inductive relative to TypeOK and the   *)
(* layers before it.                                                         *)

Unclosed == {"select", "admitted", "mark", "saveRunning", "work", "ended", "verdict"}

(* A record is active exactly while its worker has not published a verdict,  *)
(* and exactly then a cancel function is registered for it.                  *)
LifeInv ==
    \A j \in Jobs : /\ Active(j) <=> pc[j] \in Unclosed
                    /\ Active(j) <=> j \in cancelFuncs

(* A process that is down has no volatile state.                             *)
DownInv ==
    ~up => /\ crashes > 0 /\ shutdown = "no" /\ ~baseDone
           /\ ctxDone = {} /\ terminalCh = {} /\ sem = {}
           /\ \A s \in Stoppers : canceller[s] = NoCall
           /\ \A j \in Jobs : rec[j] = NoRecord /\ pending[j] = NoRecord
                             /\ held[j] = NoRecord /\ pc[j] = "none"

(* Whoever is about to cancel a context, or did, has stamped the record.     *)
Stopped(j) == Known(j) /\ (Active(j) => rec[j].request # "none")

StopInv ==
    /\ \A j \in ctxDone : Stopped(j)
    /\ \A s \in Stoppers : \A j \in canceller[s].cancel : Stopped(j)
    /\ shutdown # "no" => closed
    /\ baseDone => shutdown \notin {"no", "closing"}
    /\ shutdown \notin {"no", "closing"} =>
          \A j \in Jobs : Active(j) => rec[j].request # "none"

Working == {j \in Jobs : pc[j] \in {"admitted", "mark", "saveRunning", "work", "ended"}}

(* A worker holds its slot from its admission until its verdict.             *)
SlotInv == Working \subseteq sem /\ Cardinality(sem) <= MaxConcurrent

(* The copies of a record that are not the one in memory. *)
SavesOf(j) == {c[2] : c \in {d \in UNION {canceller[s].save : s \in Stoppers} : d[1] = j}}

Volatile(j) == {pending[j], held[j]} \cup SavesOf(j)

Copies(j) == {disk[j]} \cup Volatile(j)

(* No copy of a record claims a loss the code did not decide on, and the     *)
(* shutdown request, like an abandoned record, is only found after an exit.  *)
Honest(r) == r.state = "abandoned" => r.cause = "app-exit"

ExitSeen == closed \/ crashes > 0

CauseInv ==
    \A j \in Jobs : /\ \A a \in Copies(j) \cup {rec[j], verdict[j]} : Honest(a)
                    /\ rec[j].request = "shutdown" => ExitSeen
                    /\ rec[j].state = "abandoned" => ExitSeen
                    /\ verdict[j].state = "abandoned" => ExitSeen

(* All copies of a record are snapshots of one history: a later one keeps    *)
(* what an earlier one had settled.                                          *)
Older(a, b) ==
    /\ a.version <= b.version
    /\ a.version = b.version => a = b
    /\ IsTerminal(a) => b.state = a.state
    /\ a.request # "none" => b.request # "none"

Comparable(a, b) == Older(a, b) \/ Older(b, a)

OrderInv ==
    \A j \in Jobs : /\ \A a \in Copies(j) \cup {rec[j]} : a.version = 0 => a = NoRecord
                    /\ \A a, b \in Copies(j) : Comparable(a, b)
                    /\ Known(j)  => \A a \in Copies(j) : Older(a, rec[j])
                    /\ ~Known(j) => \A a \in Volatile(j) : a = NoRecord

-----------------------------------------------------------------------------
(* Type correctness. *)

(* The defaults of the volatile state are well formed. *)
LEMMA Defaults == NoRecord \in Record /\ NoVerdict \in Verdict /\ NoCall \in Call
BY DEF NoRecord, Record, State, Terminal, Request, Cause, NoVerdict, Verdict, NoCall, Call

(* A record that the code stamps or changes is a record again. *)
LEMMA StampedType == ASSUME NEW r \in Record PROVE Stamped(r) \in Record
BY DEF Stamped, Record

(* The updates of a record that the manager makes keep it a record.         *)
LEMMA RecordUpdates ==
    ASSUME NEW r \in Record, NEW st \in State, NEW q \in Request, NEW c \in Cause
    PROVE  /\ [r EXCEPT !.state = st] \in Record
           /\ [r EXCEPT !.request = q] \in Record
           /\ [r EXCEPT !.state = st, !.cause = c] \in Record
BY DEF Record

(* A stamp after a change of state keeps the request and the cause.         *)
LEMMA StampedState ==
    ASSUME NEW r \in Record, NEW st \in State, NEW u, u = Stamped([r EXCEPT !.state = st])
    PROVE  u.version = r.version + 1 /\ u.state = st /\ u.request = r.request /\ u.cause = r.cause
BY DEF Stamped, Record

(* A stamp after a change of the request keeps state and cause.             *)
LEMMA StampedRequest ==
    ASSUME NEW r \in Record, NEW q \in Request, NEW u, u = Stamped([r EXCEPT !.request = q])
    PROVE  u.version = r.version + 1 /\ u.state = r.state /\ u.request = q /\ u.cause = r.cause
BY DEF Stamped, Record

(* The verdicts the worker writes. *)
LEMMA VerdictType ==
    ASSUME NEW st \in Terminal, NEW c \in Cause PROVE [state |-> st, cause |-> c] \in Verdict
BY DEF Verdict

(* The constants the code writes are states, causes and requests.           *)
LEMMA Names ==
    /\ Terminal \subseteq State /\ "running" \in State
    /\ {"completed", "failed", "cancelled", "abandoned"} \subseteq Terminal
    /\ {"none", "unknown", "app-exit", "transport-lost"} \subseteq Cause
    /\ {"none", "user", "shutdown"} \subseteq Request
BY DEF Terminal, State, Cause, Request

(* Saving a copy keeps files, retained copies and the failure count typed. *)
LEMMA SaveType ==
    ASSUME TypeOK, NEW j \in Jobs, NEW copy \in Record, Save(j, copy)
    PROVE  /\ disk' \in [Jobs -> Record]
           /\ pending' \in [Jobs -> Record]
           /\ failures' \in 0..MaxFailures
<1>1. NoRecord \in Record
  BY Defaults
<1>2. Newer(pending[j], copy) \in Record /\ Newer(disk[j], Newer(pending[j], copy)) \in Record
  BY DEF Newer, TypeOK
<1> QED BY <1>1, <1>2, ManagerAssumption DEF Save, TypeOK

(* The number of jobs in a set is a number. *)
LEMMA JobsCount == ASSUME NEW S \in SUBSET Jobs PROVE IsFiniteSet(S) /\ Cardinality(S) \in Nat
BY FS_Subset, FS_CardinalityType, ManagerAssumption

(* The process starts well typed.                                           *)
LEMMA TypeInit == Init => TypeOK
<1>1. "none" \in PC /\ "none" \in Outcome /\ "no" \in ShutdownPC
  BY DEF PC, Outcome, ShutdownPC
<1>2. 0 \in 0..MaxTotal /\ 0 \in 0..MaxFailures /\ 0 \in 0..MaxCancels /\ 0 \in 0..MaxCrashes
  BY ManagerAssumption
<1> SUFFICES ASSUME Init PROVE TypeOK
  OBVIOUS
<1>3. /\ up \in BOOLEAN /\ baseDone \in BOOLEAN /\ closed \in BOOLEAN
      /\ recovered \subseteq Jobs /\ cancelFuncs \subseteq Jobs /\ ctxDone \subseteq Jobs
      /\ sem \subseteq Jobs /\ terminalCh \subseteq Jobs /\ ran \subseteq Jobs
  BY DEF Init
<1>4. /\ rec \in [Jobs -> Record] /\ held \in [Jobs -> Record]
      /\ disk \in [Jobs -> Record] /\ pending \in [Jobs -> Record]
      /\ canceller \in [Stoppers -> Call] /\ verdict \in [Jobs -> Verdict]
  BY Defaults DEF Init
<1>5. /\ pc \in [Jobs -> PC] /\ outcome \in [Jobs -> Outcome] /\ shutdown \in ShutdownPC
      /\ totalSpawned \in 0..MaxTotal /\ failures \in 0..MaxFailures
      /\ cancels \in 0..MaxCancels /\ crashes \in 0..MaxCrashes
  BY <1>1, <1>2 DEF Init
<1> QED BY <1>3, <1>4, <1>5 DEF TypeOK

(* Stamping a request on some jobs keeps the records and the call typed. *)
LEMMA StampRequestType ==
    ASSUME TypeOK, NEW s \in Stoppers, NEW targets \in SUBSET Jobs, NEW req \in Request,
           StampRequest(s, targets, req)
    PROVE  rec' \in [Jobs -> Record] /\ canceller' \in [Stoppers -> Call]
<1> DEFINE stamp(j) == Stamped([rec[j] EXCEPT !.request = req])
<1>1. \A j \in Jobs : stamp(j) \in Record
  BY StampedType, RecordUpdates, Names DEF TypeOK
<1>2. rec' = [j \in Jobs |-> IF j \in targets THEN stamp(j) ELSE rec[j]]
  BY DEF StampRequest
<1>3. rec' \in [Jobs -> Record]
  <2> HIDE DEF stamp
  <2> QED BY <1>1, <1>2 DEF TypeOK
<1>4. {<<j, stamp(j)>> : j \in targets} \in SUBSET (Jobs \X Record)
  <2> HIDE DEF stamp
  <2> QED BY <1>1
<1>5. [save |-> {<<j, stamp(j)>> : j \in targets}, cancel |-> targets] \in Call
  <2> HIDE DEF stamp
  <2> QED BY <1>4 DEF Call
<1>6. canceller' = [canceller EXCEPT ![s] =
          [save |-> {<<j, stamp(j)>> : j \in targets}, cancel |-> targets]]
  BY DEF StampRequest
<1>7. canceller' \in [Stoppers -> Call]
  <2> HIDE DEF stamp
  <2> QED BY <1>5, <1>6 DEF TypeOK
<1> QED BY <1>3, <1>7

(* Every step of workers, stoppers, store, crash and restart keeps types.   *)
LEMMA TypeNext == TypeOK /\ [Next]_vars => TypeOK'
<1> SUFFICES ASSUME TypeOK, [Next]_vars PROVE TypeOK'
  OBVIOUS
<1>0. NoRecord \in Record /\ NoVerdict \in Verdict /\ NoCall \in Call
  BY Defaults
<1>1. ASSUME NEW j \in Jobs, Spawn(j) PROVE TypeOK'
  <2>1. Stamped(NoRecord) \in Record
    BY <1>0, StampedType
  <2> QED BY <1>1, <2>1, ManagerAssumption
       DEF Spawn, TypeOK, PC, contexts, stoppers
<1>2. ASSUME NEW j \in Jobs, WorkerStep(j) PROVE TypeOK'
  <2>1. CASE AcquireSlot(j)
    BY <2>1 DEF AcquireSlot, Goto, TypeOK, PC, manager, contexts, file, stoppers
  <2>2. CASE CancelledWhileQueued(j) \/ CheckContext(j)
    <3>1. [state |-> "cancelled", cause |-> "none"] \in Verdict
      BY VerdictType, Names
    <3>2. verdict' \in [Jobs -> Verdict]
      BY <2>2, <3>1 DEF CancelledWhileQueued, CheckContext, TypeOK
    <3>3. pc' \in [Jobs -> PC]
      BY <2>2 DEF CancelledWhileQueued, CheckContext, Goto, TypeOK, PC
    <3> QED BY <2>2, <3>2, <3>3
         DEF CancelledWhileQueued, CheckContext, TypeOK, manager, contexts, file, stoppers
  <2>3. CASE markRunning(j)
    <3>1. [rec[j] EXCEPT !.state = "running"] \in Record
      BY RecordUpdates, Names DEF TypeOK
    <3> QED BY <2>3, <3>1, StampedType
         DEF markRunning, Goto, TypeOK, PC, contexts, file, stoppers
  <2>4. CASE SaveRunning(j)
    BY <2>4, <1>0, SaveType DEF SaveRunning, Goto, TypeOK, PC, manager, contexts, stoppers
  <2>5. CASE DecideVerdict(j)
    <3>1. classifyCancelled(j) \in Verdict
      BY VerdictType, Names DEF classifyCancelled
    <3>2. [state |-> IF outcome[j] = "done" THEN "completed" ELSE "failed",
           cause |-> "none"] \in Verdict
      BY VerdictType, Names
    <3>3. verdict' \in [Jobs -> Verdict]
      BY <2>5, <3>1, <3>2 DEF DecideVerdict, TypeOK
    <3>4. pc' \in [Jobs -> PC] /\ outcome' \in [Jobs -> Outcome]
      BY <2>5 DEF DecideVerdict, Goto, TypeOK, PC, Outcome
    <3> QED BY <2>5, <3>3, <3>4 DEF DecideVerdict, TypeOK, manager, contexts, file, stoppers
  <2>6. CASE markTerminalCause(j)
    <3>1. verdict[j].state \in State /\ verdict[j].cause \in Cause
      BY Names DEF TypeOK, Verdict
    <3>2. [rec[j] EXCEPT !.state = verdict[j].state, !.cause = verdict[j].cause] \in Record
      BY <3>1, RecordUpdates, Names DEF TypeOK
    <3> QED BY <2>6, <1>0, <3>2, StampedType
         DEF markTerminalCause, Goto, TypeOK, PC, contexts, file, stoppers
  <2>7. CASE SaveTerminal(j)
    BY <2>7, <1>0, SaveType DEF SaveTerminal, Goto, TypeOK, PC, manager, contexts, stoppers
  <2>8. CASE CloseTerminalCh(j) \/ ReleaseSlot(j) \/ WorkerDone(j)
    BY <2>8 DEF CloseTerminalCh, ReleaseSlot, WorkerDone, Goto, TypeOK, PC,
                manager, contexts, file, stoppers
  <2> QED BY <1>2, <2>1, <2>2, <2>3, <2>4, <2>5, <2>6, <2>7, <2>8 DEF WorkerStep
<1>3. ASSUME NEW j \in Jobs, Progress(j) PROVE TypeOK'
  BY <1>3, SaveType DEF Progress, TypeOK, manager, contexts, worker, stoppers
<1>4. ASSUME NEW j \in Jobs, WorkEnds(j) \/ Panic(j) PROVE TypeOK'
  <2>1. CASE WorkEnds(j)
    BY <2>1 DEF WorkEnds, Goto, TypeOK, PC, manager, contexts, file, stoppers
  <2>2. CASE Panic(j)
    <3>1. [state |-> "failed", cause |-> "none"] \in Verdict
      BY VerdictType, Names
    <3> QED BY <2>2, <3>1 DEF Panic, Goto, TypeOK, PC, manager, contexts, file, stoppers
  <2> QED BY <1>4, <2>1, <2>2
<1>5. ASSUME NEW u \in Users, NEW j \in Jobs, Cancel(u, j) PROVE TypeOK'
  <2>1. u \in Stoppers /\ {j} \in SUBSET Jobs /\ "user" \in Request
    BY Names DEF Stoppers
  <2>2. rec' \in [Jobs -> Record] /\ canceller' \in [Stoppers -> Call]
    BY <1>5, <2>1, StampRequestType DEF Cancel
  <2> QED BY <1>5, <2>2, ManagerAssumption DEF Cancel, TypeOK, contexts, worker, file
<1>6. ASSUME NEW u \in Users, CancelAll(u) PROVE TypeOK'
  <2>1. u \in Stoppers /\ Cancellable \in SUBSET Jobs /\ "user" \in Request
    BY Names DEF Stoppers, Cancellable, TypeOK
  <2>2. rec' \in [Jobs -> Record] /\ canceller' \in [Stoppers -> Call]
    BY <1>6, <2>1, StampRequestType DEF CancelAll
  <2> QED BY <1>6, <2>2, ManagerAssumption DEF CancelAll, TypeOK, contexts, worker, file
<1>7. ASSUME NEW s \in Stoppers, SaveRequest(s) PROVE TypeOK'
  <2>1. PICK c \in canceller[s].save :
           Save(c[1], c[2]) /\ canceller' = [canceller EXCEPT ![s].save = @ \ {c}]
    BY <1>7 DEF SaveRequest
  <2>2. c[1] \in Jobs /\ c[2] \in Record
    BY DEF TypeOK, Call
  <2>3. [canceller[s] EXCEPT !.save = @ \ {c}] \in Call
    BY DEF TypeOK, Call
  <2>4. canceller' \in [Stoppers -> Call]
    BY <2>1, <2>3 DEF TypeOK
  <2> QED BY <1>7, <2>1, <2>2, <2>4, SaveType
       DEF SaveRequest, TypeOK, manager, contexts, worker
<1>8. ASSUME NEW s \in Stoppers, CallCancelFunc(s) PROVE TypeOK'
  <2>1. PICK j \in canceller[s].cancel :
           /\ ctxDone' = ctxDone \cup {j}
           /\ canceller' = [canceller EXCEPT ![s].cancel = @ \ {j}]
    BY <1>8 DEF CallCancelFunc
  <2>2. j \in Jobs /\ [canceller[s] EXCEPT !.cancel = @ \ {j}] \in Call
    BY DEF TypeOK, Call
  <2>3. canceller' \in [Stoppers -> Call] /\ ctxDone' \subseteq Jobs
    BY <2>1, <2>2 DEF TypeOK
  <2> QED BY <1>8, <2>3 DEF CallCancelFunc, TypeOK, manager, worker, file
<1>9. CASE ShutdownCloses
  BY <1>9 DEF ShutdownCloses, TypeOK, ShutdownPC, contexts, worker, file
<1>10. CASE ShutdownStops
  <2>1. "shutdown" \in Stoppers /\ Cancellable \in SUBSET Jobs /\ "shutdown" \in Request
    BY Names DEF Stoppers, Cancellable, TypeOK
  <2>2. rec' \in [Jobs -> Record] /\ canceller' \in [Stoppers -> Call]
    BY <1>10, <2>1, StampRequestType DEF ShutdownStops
  <2> QED BY <1>10, <2>2
       DEF ShutdownStops, TypeOK, ShutdownPC, contexts, worker, file
<1>11. CASE CancelBase \/ ShutdownWaits \/ ShutdownAgain
  BY <1>11 DEF CancelBase, ShutdownWaits, ShutdownAgain, TypeOK, ShutdownPC,
               manager, contexts, worker, file
<1>12. CASE ShutdownFlushes
  <2>1. PICK refused \in SUBSET {j \in Jobs : pending[j] # NoRecord} :
          /\ failures + Cardinality(refused) <= MaxFailures
          /\ failures' = failures + Cardinality(refused)
          /\ disk' = [j \in Jobs |-> IF j \in refused THEN disk[j]
                                     ELSE Newer(disk[j], pending[j])]
          /\ pending' = [j \in Jobs |-> IF j \in refused THEN pending[j] ELSE NoRecord]
          /\ shutdown' = IF shutdown = "flushing" /\ refused = {} THEN "nil" ELSE "error"
    BY <1>12 DEF ShutdownFlushes
  <2>2. Cardinality(refused) \in Nat
    BY JobsCount
  <2>3. failures' \in 0..MaxFailures
    BY <2>1, <2>2, ManagerAssumption DEF TypeOK
  <2>4. disk' \in [Jobs -> Record] /\ pending' \in [Jobs -> Record]
    BY <2>1, <1>0 DEF TypeOK, Newer
  <2> QED BY <1>12, <2>1, <2>3, <2>4
       DEF ShutdownFlushes, TypeOK, ShutdownPC, manager, contexts, worker
<1>13. CASE Crash
  <2>1. "none" \in PC /\ "none" \in Outcome /\ "no" \in ShutdownPC
    BY DEF PC, Outcome, ShutdownPC
  <2>2. crashes' \in 0..MaxCrashes /\ totalSpawned' \in 0..MaxTotal
    BY <1>13, ManagerAssumption DEF Crash, TypeOK
  <2> QED BY <1>13, <1>0, <2>1, <2>2 DEF Crash, TypeOK
<1>14. CASE Restart
  <2> DEFINE onDisk == {j \in Jobs : disk[j] # NoRecord}
  <2>1. PICK unread \in SUBSET onDisk :
          LET loaded == onDisk \ unread
              orphans == {j \in loaded : ~IsTerminal(disk[j])} IN
          /\ failures + Cardinality(unread) <= MaxFailures
          /\ failures' = failures + Cardinality(unread)
          /\ disk' = [j \in Jobs |-> IF j \in orphans THEN Reconciled(disk[j]) ELSE disk[j]]
          /\ rec' = [j \in Jobs |-> IF j \in loaded THEN disk'[j] ELSE NoRecord]
          /\ recovered' = orphans
    BY <1>14 DEF Restart
  <2>2. Cardinality(unread) \in Nat
    BY JobsCount
  <2>3. failures' \in 0..MaxFailures
    BY <2>1, <2>2, ManagerAssumption DEF TypeOK
  <2>4. \A j \in Jobs : Reconciled(disk[j]) \in Record
    BY RecordUpdates, Names DEF Reconciled, TypeOK
  <2>5. disk' \in [Jobs -> Record] /\ recovered' \subseteq Jobs
    BY <2>1, <2>4 DEF TypeOK
  <2>6. rec' \in [Jobs -> Record]
    BY <2>1, <2>5, <1>0
  <2> QED BY <1>14, <2>3, <2>5, <2>6 DEF Restart, TypeOK, contexts, worker, stoppers
<1>15. CASE UNCHANGED vars
  BY <1>15 DEF vars, manager, contexts, worker, file, stoppers, TypeOK
<1> QED BY <1>1, <1>2, <1>3, <1>4, <1>5, <1>6, <1>7, <1>8, <1>9, <1>10, <1>11, <1>12,
           <1>13, <1>14, <1>15 DEF Next

(* Every variable of the manager keeps its type, for every instance. *)
THEOREM TypeCorrect == Spec => []TypeOK
BY TypeInit, TypeNext, PTL DEF Spec

-----------------------------------------------------------------------------
(* The process and the life of a record. *)

(* Only a crash takes the process down. *)
LEMMA DownByCrash == [Next]_vars /\ ~up' => Crash \/ (~up /\ UNCHANGED vars)
<1> SUFFICES ASSUME [Next]_vars, ~up' PROVE Crash \/ (~up /\ UNCHANGED vars)
  OBVIOUS
<1>1. ASSUME NEW j \in Jobs, WorkerStep(j) PROVE up'
  BY <1>1 DEF WorkerStep, Goto, AcquireSlot, CancelledWhileQueued, CheckContext, markRunning,
     SaveRunning, DecideVerdict, markTerminalCause, SaveTerminal, CloseTerminalCh, ReleaseSlot,
     WorkerDone
<1>2. ASSUME NEW j \in Jobs, Spawn(j) \/ Progress(j) \/ WorkEnds(j) \/ Panic(j) PROVE up'
  BY <1>2 DEF Goto, Spawn, Progress, WorkEnds, Panic
<1>3. ASSUME NEW u \in Users, CancelAll(u) \/ \E j \in Jobs : Cancel(u, j) PROVE up'
  <2>1. CASE CancelAll(u)
    BY <2>1 DEF CancelAll
  <2>2. ASSUME NEW j \in Jobs, Cancel(u, j) PROVE up'
    BY <2>2 DEF Cancel
  <2> QED BY <1>3, <2>1, <2>2
<1>4. ASSUME NEW s \in Stoppers, SaveRequest(s) \/ CallCancelFunc(s) PROVE up'
  BY <1>4 DEF SaveRequest, CallCancelFunc
<1>5. ASSUME \/ ShutdownCloses \/ ShutdownStops \/ CancelBase \/ ShutdownWaits
             \/ ShutdownFlushes \/ ShutdownAgain \/ Restart
      PROVE up'
  BY <1>5 DEF ShutdownCloses, ShutdownStops, CancelBase, ShutdownWaits, ShutdownFlushes,
              ShutdownAgain, Restart
<1>6. CASE UNCHANGED vars
  BY <1>6 DEF vars
<1> QED BY <1>1, <1>2, <1>3, <1>4, <1>5, <1>6 DEF Next

(* A crash clears everything but the files, and only a restart ends it.     *)
LEMMA DownNext == TypeOK /\ DownInv /\ [Next]_vars => DownInv'
<1> SUFFICES ASSUME TypeOK, DownInv, [Next]_vars, ~up' PROVE DownInv'
  BY DEF DownInv
<1>1. CASE Crash
  <2>1. crashes' > 0
    BY <1>1, ManagerAssumption DEF Crash, TypeOK
  <2> QED BY <1>1, <2>1 DEF Crash, DownInv
<1>2. CASE ~up /\ UNCHANGED vars
  BY <1>2 DEF DownInv, vars, manager, contexts, worker, file, stoppers
<1> QED BY <1>1, <1>2, DownByCrash

(* A process that is down keeps nothing but the files, for every instance.   *)
THEOREM DownCorrect == Spec => []DownInv
<1>1. Init => DownInv
  BY DEF Init, DownInv
<1> QED BY <1>1, DownNext, TypeCorrect, PTL DEF Spec

(* Stamping requests leaves the state of every record as it was. *)
LEMMA StampRequestKeepsState ==
    ASSUME TypeOK, NEW s \in Stoppers, NEW targets \in SUBSET Jobs, NEW req \in Request,
           \A j \in targets : Known(j), StampRequest(s, targets, req)
    PROVE  \A j \in Jobs : /\ Known(j)' <=> Known(j)
                           /\ rec'[j].state = rec[j].state
                           /\ rec'[j].cause = rec[j].cause
                           /\ rec'[j].request = IF j \in targets THEN req ELSE rec[j].request
                           /\ rec'[j].version =
                                 IF j \in targets THEN rec[j].version + 1 ELSE rec[j].version
<1> TAKE j \in Jobs
<1>1. rec'[j] = IF j \in targets THEN Stamped([rec[j] EXCEPT !.request = req]) ELSE rec[j]
  BY DEF StampRequest
<1>2. rec[j] \in Record
  BY DEF TypeOK
<1>3. CASE j \in targets
  <2>1. rec'[j] = [rec[j] EXCEPT !.request = req, !.version = @ + 1]
    BY <1>1, <1>2, <1>3 DEF Stamped, Record
  <2>2. Known(j) /\ Known(j)'
    BY <1>2, <1>3, <2>1 DEF Known, Record
  <2> QED BY <1>2, <1>3, <2>1, <2>2 DEF Record
<1>4. CASE j \notin targets
  BY <1>1, <1>4 DEF Known
<1> QED BY <1>3, <1>4

(* Every step keeps workers and the records of their jobs in agreement.     *)
LEMMA LifeNext == TypeOK /\ DownInv /\ LifeInv /\ [Next]_vars => LifeInv'
<1> SUFFICES ASSUME TypeOK, DownInv, LifeInv, [Next]_vars PROVE LifeInv'
  OBVIOUS
<1>0. ASSUME rec' = rec, cancelFuncs' = cancelFuncs,
             \A j \in Jobs : pc'[j] \in Unclosed <=> pc[j] \in Unclosed
      PROVE  LifeInv'
  BY <1>0 DEF LifeInv, Active, Known
<1>1. ASSUME NEW j \in Jobs, Spawn(j) PROVE LifeInv'
  <2>1. CASE rec' = rec /\ cancelFuncs' = cancelFuncs /\ pc' = pc
    BY <2>1, <1>0
  <2>2. CASE /\ rec' = [rec EXCEPT ![j] = Stamped(NoRecord)]
             /\ cancelFuncs' = cancelFuncs \cup {j}
             /\ pc' = [pc EXCEPT ![j] = "select"]
    BY <2>2 DEF LifeInv, Active, Known, Unclosed, Stamped, NoRecord, IsTerminal, Terminal, TypeOK
  <2> QED BY <1>1, <2>1, <2>2 DEF Spawn
<1>2. ASSUME NEW j \in Jobs, WorkerStep(j) PROVE LifeInv'
  <2>1. CASE markRunning(j)
    <3>1. Active(j) /\ rec' = [rec EXCEPT ![j] = Stamped([rec[j] EXCEPT !.state = "running"])]
      BY <2>1 DEF markRunning, Goto, LifeInv, Unclosed
    <3>2. rec'[j].version > 0 /\ ~IsTerminal(rec'[j])
      BY <3>1 DEF TypeOK, Record, Stamped, IsTerminal, Terminal, Known
    <3>3. pc' = [pc EXCEPT ![j] = "saveRunning"] /\ pc[j] = "mark" /\ cancelFuncs' = cancelFuncs
      BY <2>1 DEF markRunning, Goto
    <3> QED BY <3>1, <3>2, <3>3 DEF LifeInv, Active, Known, Unclosed, TypeOK
  <2>2. CASE markTerminalCause(j)
    <3>1. /\ rec' = [rec EXCEPT ![j] = Stamped([rec[j] EXCEPT !.state = verdict[j].state,
                                                              !.cause = verdict[j].cause])]
          /\ pc' = [pc EXCEPT ![j] = "saveTerminal"] /\ cancelFuncs' = cancelFuncs \ {j}
      BY <2>2 DEF markTerminalCause, Goto
    <3>2. IsTerminal(rec'[j])
      BY <3>1 DEF TypeOK, Record, Verdict, Stamped, IsTerminal
    <3> QED BY <3>1, <3>2 DEF LifeInv, Active, Known, Unclosed, TypeOK
  <2>3. CASE ~markRunning(j) /\ ~markTerminalCause(j)
    <3>1. rec' = rec /\ cancelFuncs' = cancelFuncs
      BY <1>2, <2>3 DEF WorkerStep, AcquireSlot, CancelledWhileQueued, CheckContext, SaveRunning,
         DecideVerdict, SaveTerminal, CloseTerminalCh, ReleaseSlot, WorkerDone, manager
    <3>2. \A i \in Jobs : pc'[i] \in Unclosed <=> pc[i] \in Unclosed
      BY <1>2, <2>3 DEF WorkerStep, AcquireSlot, CancelledWhileQueued, CheckContext, SaveRunning,
         DecideVerdict, SaveTerminal, CloseTerminalCh, ReleaseSlot, WorkerDone, Goto, Unclosed, TypeOK
    <3> QED BY <3>1, <3>2, <1>0
  <2> QED BY <2>1, <2>2, <2>3
<1>3. ASSUME NEW j \in Jobs, Progress(j) PROVE LifeInv'
  BY <1>3, <1>0 DEF Progress, manager, worker
<1>4. ASSUME NEW j \in Jobs, WorkEnds(j) \/ Panic(j) PROVE LifeInv'
  <2>1. \A i \in Jobs : pc'[i] \in Unclosed <=> pc[i] \in Unclosed
    BY <1>4 DEF WorkEnds, Panic, Goto, Unclosed, TypeOK
  <2> QED BY <1>4, <2>1, <1>0 DEF WorkEnds, Panic, manager
<1>5. ASSUME NEW s \in Stoppers, NEW targets \in SUBSET Jobs, NEW req \in Request,
             \A j \in targets : Known(j), StampRequest(s, targets, req),
             cancelFuncs' = cancelFuncs, pc' = pc
      PROVE  LifeInv'
  BY <1>5, StampRequestKeepsState DEF LifeInv, Active, Known, IsTerminal
<1>6. Cancellable \in SUBSET Jobs /\ \A j \in Cancellable : Known(j)
  BY DEF Cancellable, Active, TypeOK
<1>7. ASSUME NEW u \in Users, NEW j \in Jobs, Cancel(u, j) PROVE LifeInv'
  <2>1. u \in Stoppers /\ {j} \in SUBSET Jobs /\ "user" \in Request
    BY Names DEF Stoppers
  <2>2. StampRequest(u, {j}, "user") /\ Known(j) /\ cancelFuncs' = cancelFuncs /\ pc' = pc
    BY <1>6, <1>7 DEF Cancel, worker
  <2> QED BY <1>5, <2>1, <2>2
<1>8. ASSUME NEW u \in Users, CancelAll(u) PROVE LifeInv'
  <2>1. u \in Stoppers /\ "user" \in Request
    BY Names DEF Stoppers
  <2> QED BY <1>5, <1>6, <1>8, <2>1 DEF CancelAll, worker
<1>9. CASE ShutdownStops
  <2>1. "shutdown" \in Stoppers /\ "shutdown" \in Request
    BY Names DEF Stoppers
  <2> QED BY <1>5, <1>6, <1>9, <2>1 DEF ShutdownStops, worker
<1>10. ASSUME NEW s \in Stoppers, SaveRequest(s) \/ CallCancelFunc(s) PROVE LifeInv'
  BY <1>10, <1>0 DEF SaveRequest, CallCancelFunc, manager, worker
<1>11. CASE ShutdownCloses \/ CancelBase \/ ShutdownWaits \/ ShutdownFlushes \/ ShutdownAgain
  BY <1>11, <1>0 DEF ShutdownCloses, CancelBase, ShutdownWaits, ShutdownFlushes, ShutdownAgain,
                     manager, worker
<1>12. CASE Crash
  BY <1>12 DEF Crash, LifeInv, Active, Known, NoRecord, Unclosed
<1>13. CASE Restart
  <2>0. \A r \in Record : IsTerminal(Reconciled(r))
    BY DEF Reconciled, IsTerminal, Terminal, Record
  <2>1. \A j \in Jobs : rec'[j] = NoRecord \/ IsTerminal(rec'[j])
    BY <1>13, <2>0 DEF Restart, TypeOK
  <2>2. \A j \in Jobs : ~Active(j)'
    BY <2>1 DEF Active, Known, NoRecord
  <2>3. cancelFuncs' = {} /\ \A j \in Jobs : pc'[j] = "none"
    BY <1>13 DEF Restart, DownInv, LifeInv, worker, Active, Known, NoRecord, TypeOK
  <2> QED BY <2>2, <2>3 DEF LifeInv, Unclosed
<1>14. CASE UNCHANGED vars
  BY <1>14, <1>0 DEF vars, manager, worker
<1> QED BY <1>1, <1>2, <1>3, <1>4, <1>7, <1>8, <1>9, <1>10, <1>11, <1>12, <1>13, <1>14 DEF Next

(* markTerminal ends a record and its worker together, so a job is never    *)
(* left active without a worker or a cancel function.                       *)
THEOREM LifeCorrect == Spec => []LifeInv
<1>1. Init => LifeInv
  BY DEF Init, LifeInv, Active, Known, NoRecord, Unclosed
<1> QED BY <1>1, LifeNext, TypeCorrect, DownCorrect, PTL DEF Spec

(* Every active job can be stopped: it has a cancel function and a worker.   *)
THEOREM Stoppable == Spec => []ActiveCanBeStopped
<1>1. LifeInv => ActiveCanBeStopped
  BY DEF LifeInv, ActiveCanBeStopped, Live, Unclosed
<1> QED BY <1>1, LifeCorrect, PTL

-----------------------------------------------------------------------------
(* How a record changes, job by job. *)

SpawnChange(j) ==
    /\ up /\ ~closed /\ ~Known(j) /\ disk[j] = NoRecord
    /\ rec'[j] = Stamped(NoRecord)

WorkerChange(j) ==
    /\ up /\ Active(j)
    /\ \/ rec'[j] = Stamped([rec[j] EXCEPT !.state = "running"])
       \/ rec'[j] = Stamped([rec[j] EXCEPT !.state = verdict[j].state,
                                           !.cause = verdict[j].cause])

StopperChange(j) ==
    /\ up /\ Active(j)
    /\ \E req \in {"user", "shutdown"} :
          /\ rec'[j] = Stamped([rec[j] EXCEPT !.request = req])
          /\ req = "shutdown" => shutdown = "closing"

(* A step that is neither a crash nor a restart changes a record in one of  *)
(* three ways: by Spawn, by its worker, or by a stopper's stamp.            *)
LEMMA RecordStep ==
    ASSUME TypeOK, LifeInv, [Next]_vars
    PROVE  \/ Crash
           \/ Restart
           \/ \A j \in Jobs : \/ rec'[j] = rec[j]
                             \/ SpawnChange(j)
                             \/ WorkerChange(j)
                             \/ StopperChange(j)
<1> DEFINE Goal == \A j \in Jobs : \/ rec'[j] = rec[j]
                                 \/ SpawnChange(j)
                                 \/ WorkerChange(j)
                                 \/ StopperChange(j)
<1>1. ASSUME NEW i \in Jobs, Spawn(i) PROVE Goal
  BY <1>1 DEF Spawn, SpawnChange, TypeOK
<1>2. ASSUME NEW i \in Jobs, WorkerStep(i) PROVE Goal
  <2>1. CASE markRunning(i)
    <3>1. Active(i)
      BY <2>1 DEF markRunning, Goto, LifeInv, Unclosed
    <3> QED BY <2>1, <3>1 DEF markRunning, Goto, WorkerChange, TypeOK
  <2>2. CASE markTerminalCause(i)
    <3>1. Active(i)
      BY <2>2 DEF markTerminalCause, Goto, LifeInv, Unclosed
    <3> QED BY <2>2, <3>1 DEF markTerminalCause, Goto, WorkerChange, TypeOK
  <2>3. CASE ~markRunning(i) /\ ~markTerminalCause(i)
    BY <1>2, <2>3 DEF WorkerStep, AcquireSlot, CancelledWhileQueued, CheckContext, SaveRunning,
       DecideVerdict, SaveTerminal, CloseTerminalCh, ReleaseSlot, WorkerDone, manager
  <2> QED BY <2>1, <2>2, <2>3
<1>3. ASSUME NEW i \in Jobs, Progress(i) \/ WorkEnds(i) \/ Panic(i) PROVE Goal
  BY <1>3 DEF Progress, WorkEnds, Panic, manager
<1>4. ASSUME up, NEW s \in Stoppers, NEW targets \in SUBSET Cancellable,
             NEW req \in {"user", "shutdown"}, req = "shutdown" => shutdown = "closing",
             StampRequest(s, targets, req)
      PROVE  Goal
  BY <1>4 DEF StampRequest, StopperChange, Cancellable
<1>5. ASSUME NEW u \in Users, CancelAll(u) \/ \E j \in Jobs : Cancel(u, j) PROVE Goal
  <2>1. CASE CancelAll(u)
    BY <2>1, <1>4 DEF CancelAll, Stoppers
  <2>2. ASSUME NEW j \in Jobs, Cancel(u, j) PROVE Goal
    <3>1. {j} \in SUBSET Cancellable /\ u \in Stoppers /\ up /\ StampRequest(u, {j}, "user")
      BY <2>2 DEF Cancel, Stoppers
    <3> QED BY <1>4, <3>1
  <2> QED BY <1>5, <2>1, <2>2
<1>6. CASE ShutdownStops
  <2>1. "shutdown" \in Stoppers /\ Cancellable \in SUBSET Cancellable
    BY DEF Stoppers
  <2> QED BY <1>4, <1>6, <2>1 DEF ShutdownStops
<1>7. ASSUME NEW s \in Stoppers, SaveRequest(s) \/ CallCancelFunc(s) PROVE Goal
  BY <1>7 DEF SaveRequest, CallCancelFunc, manager
<1>8. CASE ShutdownCloses \/ CancelBase \/ ShutdownWaits \/ ShutdownFlushes \/ ShutdownAgain
  BY <1>8 DEF ShutdownCloses, CancelBase, ShutdownWaits, ShutdownFlushes, ShutdownAgain, manager
<1>9. CASE UNCHANGED vars
  BY <1>9 DEF vars, manager
<1> QED BY <1>1, <1>2, <1>3, <1>5, <1>6, <1>7, <1>8, <1>9 DEF Next

(* A request, once stamped, stays on the record while the process runs. *)
LEMMA StoppedStays ==
    ASSUME TypeOK, DownInv, LifeInv, [Next]_vars, ~Crash
    PROVE  \A j \in Jobs : Stopped(j) => Stopped(j)'
<1> SUFFICES ASSUME NEW j \in Jobs, Stopped(j) PROVE Stopped(j)'
  OBVIOUS
<1>0. rec[j] \in Record /\ verdict[j] \in Verdict
  BY DEF TypeOK
<1>1. CASE rec'[j] = rec[j]
  BY <1>1 DEF Stopped, Active, Known
<1>2. CASE SpawnChange(j)
  BY <1>2 DEF SpawnChange, Stopped
<1>3. CASE WorkerChange(j)
  <2>1. verdict[j].state \in State /\ verdict[j].cause \in Cause
    BY <1>0, Names DEF Verdict
  <2>2. "running" \in State /\ "none" \in Request
    BY Names
  <2>3. rec'[j].version = rec[j].version + 1 /\ rec'[j].request = rec[j].request
    <3>1. CASE rec'[j] = Stamped([rec[j] EXCEPT !.state = "running"])
      BY <1>0, <2>1, <2>2, <3>1, StampedState
    <3>2. CASE rec'[j] = Stamped([rec[j] EXCEPT !.state = verdict[j].state,
                                                !.cause = verdict[j].cause])
      BY <1>0, <3>2 DEF Stamped, Record
    <3> QED BY <1>3, <3>1, <3>2 DEF WorkerChange
  <2>4. rec[j].version \in Nat
    BY <1>0 DEF Record
  <2> QED BY <1>3, <2>3, <2>4 DEF WorkerChange, Stopped, Active, Known
<1>4. CASE StopperChange(j)
  BY <1>0, <1>4 DEF StopperChange, Stopped, Active, Known, Stamped, Record
<1>5. CASE Restart
  BY <1>5 DEF Restart, DownInv, Stopped, Known, NoRecord
<1> QED BY <1>1, <1>2, <1>3, <1>4, <1>5, RecordStep

(* Only Spawn makes a job active.                                           *)
LEMMA ActiveSteps ==
    ASSUME TypeOK, LifeInv, [Next]_vars
    PROVE  \A j \in Jobs : Active(j)' => Active(j) \/ SpawnChange(j)
<1> SUFFICES ASSUME NEW j \in Jobs, Active(j)' PROVE Active(j) \/ SpawnChange(j)
  OBVIOUS
<1>1. CASE rec'[j] = rec[j] \/ SpawnChange(j) \/ WorkerChange(j) \/ StopperChange(j)
  BY <1>1 DEF WorkerChange, StopperChange, Active, Known
<1>2. CASE Crash
  BY <1>2 DEF Crash, Active, Known, NoRecord
<1>3. CASE Restart
  <2>1. \A r \in Record : IsTerminal(Reconciled(r))
    BY DEF Reconciled, IsTerminal, Terminal, Record
  <2>2. rec'[j] = NoRecord \/ IsTerminal(rec'[j])
    BY <1>3, <2>1 DEF Restart, TypeOK
  <2> QED BY <2>2 DEF Active, Known, NoRecord
<1> QED BY <1>1, <1>2, <1>3, RecordStep

-----------------------------------------------------------------------------
(* Why a context is dead. *)

(* Every step keeps the order of a stop: stamp first, then cancel.          *)
LEMMA StopNext == TypeOK /\ DownInv /\ LifeInv /\ StopInv /\ [Next]_vars => StopInv'
<1> SUFFICES ASSUME TypeOK, DownInv, LifeInv, StopInv, [Next]_vars PROVE StopInv'
  OBVIOUS
<1>1. CASE Crash
  BY <1>1 DEF Crash, StopInv, NoCall
<1>2. CASE ~Crash
  <2>0. \A j \in Jobs : Stopped(j) => Stopped(j)'
    BY <1>2, StoppedStays
  <2>1. ASSUME ctxDone' = ctxDone, canceller' = canceller,
               shutdown' = shutdown, baseDone' = baseDone, closed => closed'
        PROVE  StopInv'
    <3>1. shutdown \notin {"no", "closing"} => \A j \in Jobs : ~SpawnChange(j)
      BY DEF SpawnChange, StopInv
    <3>2. shutdown \notin {"no", "closing"} =>
             \A j \in Jobs : Active(j)' => rec'[j].request # "none"
      BY <2>0, <3>1, ActiveSteps DEF StopInv, Stopped, Active
    <3>3. (\A j \in ctxDone : Stopped(j))' /\
          (\A s \in Stoppers : \A j \in canceller[s].cancel : Stopped(j))'
      BY <2>0, <2>1 DEF StopInv, TypeOK, Call
    <3> QED BY <2>1, <3>2, <3>3 DEF StopInv
  <2>2. ASSUME NEW j \in Jobs, Spawn(j) \/ WorkerStep(j) \/ Progress(j) \/ WorkEnds(j) \/ Panic(j)
        PROVE  StopInv'
    BY <2>1, <2>2 DEF Spawn, WorkerStep, AcquireSlot, CancelledWhileQueued, CheckContext,
       markRunning, SaveRunning, DecideVerdict, markTerminalCause, SaveTerminal, CloseTerminalCh,
       ReleaseSlot, WorkerDone, Progress, WorkEnds, Panic, manager, contexts, stoppers
  <2>3. ASSUME NEW s \in Stoppers, NEW targets \in SUBSET Cancellable,
               NEW req \in {"user", "shutdown"}, StampRequest(s, targets, req)
        PROVE  /\ \A j \in targets : Stopped(j)'
               /\ \A t \in Stoppers : \A j \in canceller'[t].cancel :
                     j \in targets \/ j \in canceller[t].cancel
    <3>1. targets \in SUBSET Jobs /\ req \in Request /\ \A j \in targets : Known(j)
      BY <2>3, Names DEF Cancellable, Active, TypeOK
    <3>2. \A j \in targets : Stopped(j)'
      BY <2>3, <3>1, StampRequestKeepsState DEF Stopped
    <3>3. canceller'[s].cancel = targets /\ \A t \in Stoppers \ {s} : canceller'[t] = canceller[t]
      BY <2>3 DEF StampRequest, TypeOK
    <3> QED BY <3>2, <3>3
  <2>4. ASSUME ctxDone' = ctxDone, baseDone' = baseDone, closed' = closed,
               NEW s \in Stoppers, NEW targets \in SUBSET Cancellable,
               NEW req \in {"user", "shutdown"}, StampRequest(s, targets, req),
               \/ shutdown' = shutdown
               \/ shutdown = "closing" /\ targets = Cancellable /\ shutdown' = "stopping"
        PROVE  StopInv'
    <3>1. /\ \A j \in targets : Stopped(j)'
          /\ \A t \in Stoppers : \A j \in canceller'[t].cancel :
                j \in targets \/ j \in canceller[t].cancel
      BY <2>3, <2>4
    <3>2. \A j \in Jobs : ~SpawnChange(j) \/ ~closed
      BY DEF SpawnChange
    <3>3. shutdown' \notin {"no", "closing"} =>
             \A j \in Jobs : Active(j)' => rec'[j].request # "none"
      <4>1. CASE shutdown' = shutdown
        BY <2>0, <3>2, <4>1, ActiveSteps DEF StopInv, Stopped, Active
      <4>2. CASE shutdown = "closing" /\ targets = Cancellable
        <5>1. \A j \in Jobs : Active(j) => j \in targets
          BY <4>2 DEF LifeInv, Cancellable
        <5> QED BY <3>1, <3>2, <4>2, <5>1, ActiveSteps DEF StopInv, Stopped
      <4> QED BY <2>4, <4>1, <4>2
    <3>4. (\A j \in ctxDone : Stopped(j))' /\
          (\A t \in Stoppers : \A j \in canceller[t].cancel : Stopped(j))'
      BY <2>0, <2>4, <3>1 DEF StopInv, TypeOK, Call
    <3> QED BY <2>4, <3>3, <3>4 DEF StopInv
  <2>5. ASSUME NEW u \in Users, CancelAll(u) \/ \E j \in Jobs : Cancel(u, j) PROVE StopInv'
    <3>1. CASE CancelAll(u)
      BY <2>4, <3>1 DEF CancelAll, Stoppers, contexts
    <3>2. ASSUME NEW j \in Jobs, Cancel(u, j) PROVE StopInv'
      <4>1. {j} \in SUBSET Cancellable /\ u \in Stoppers /\ StampRequest(u, {j}, "user")
        BY <3>2 DEF Cancel, Stoppers
      <4>2. ctxDone' = ctxDone /\ baseDone' = baseDone /\ closed' = closed /\ shutdown' = shutdown
        BY <3>2 DEF Cancel, contexts
      <4> QED BY <2>4, <4>1, <4>2
    <3> QED BY <2>5, <3>1, <3>2
  <2>6. CASE ShutdownStops
    <3>1. "shutdown" \in Stoppers /\ Cancellable \in SUBSET Cancellable
      BY DEF Stoppers
    <3> QED BY <2>4, <2>6, <3>1 DEF ShutdownStops, contexts
  <2>7. ASSUME NEW s \in Stoppers, SaveRequest(s) PROVE StopInv'
    <3>1. \A t \in Stoppers : canceller'[t].cancel = canceller[t].cancel
      BY <2>7 DEF SaveRequest, TypeOK, Call
    <3>2. rec' = rec /\ ctxDone' = ctxDone /\ baseDone' = baseDone /\ closed' = closed
                    /\ shutdown' = shutdown
      BY <2>7 DEF SaveRequest, manager, contexts
    <3> QED BY <3>1, <3>2 DEF StopInv, Stopped, Active, Known
  <2>8. ASSUME NEW s \in Stoppers, CallCancelFunc(s) PROVE StopInv'
    <3>1. PICK j \in canceller[s].cancel :
             /\ ctxDone' = ctxDone \cup {j}
             /\ canceller' = [canceller EXCEPT ![s].cancel = @ \ {j}]
      BY <2>8 DEF CallCancelFunc
    <3>2. \A t \in Stoppers : canceller'[t].cancel \subseteq canceller[t].cancel
      BY <3>1 DEF TypeOK, Call
    <3>3. rec' = rec /\ baseDone' = baseDone /\ closed' = closed /\ shutdown' = shutdown
      BY <2>8 DEF CallCancelFunc, manager
    <3> QED BY <3>1, <3>2, <3>3 DEF StopInv, Stopped, Active, Known
  <2>9. CASE ShutdownCloses \/ CancelBase \/ ShutdownWaits \/ ShutdownFlushes \/ ShutdownAgain
    <3>1. rec' = rec /\ ctxDone' = ctxDone /\ canceller' = canceller /\ (closed => closed')
      BY <2>9 DEF ShutdownCloses, CancelBase, ShutdownWaits, ShutdownFlushes, ShutdownAgain,
                  manager, contexts, TypeOK
    <3>2. shutdown' # "no" => closed'
      BY <2>9 DEF ShutdownCloses, CancelBase, ShutdownWaits, ShutdownFlushes, ShutdownAgain,
                  manager, StopInv
    <3>3. baseDone' => shutdown' \notin {"no", "closing"}
      BY <2>9 DEF ShutdownCloses, CancelBase, ShutdownWaits, ShutdownFlushes, ShutdownAgain,
                  contexts, StopInv
    <3>4. shutdown' \notin {"no", "closing"} => shutdown \notin {"no", "closing"}
      BY <2>9 DEF ShutdownCloses, CancelBase, ShutdownWaits, ShutdownFlushes, ShutdownAgain
    <3> QED BY <3>1, <3>2, <3>3, <3>4 DEF StopInv, Stopped, Active, Known
  <2>10. CASE Restart
    <3>1. ctxDone' = {} /\ ~baseDone' /\ shutdown' = "no"
      BY <2>10 DEF Restart, DownInv, contexts, stoppers
    <3>2. \A s \in Stoppers : canceller'[s] = NoCall
      BY <2>10 DEF Restart, DownInv, stoppers
    <3> QED BY <3>1, <3>2 DEF StopInv, NoCall
  <2>11. CASE UNCHANGED vars
    BY <2>1, <2>11 DEF vars, manager, contexts, stoppers
  <2> QED BY <1>2, <2>2, <2>5, <2>6, <2>7, <2>8, <2>9, <2>10, <2>11 DEF Next
<1> QED BY <1>1, <1>2

(* Cancel, CancelAll and Shutdown stamp a record before they cancel its     *)
(* context, and no record becomes active behind a closing manager's back.   *)
THEOREM StopCorrect == Spec => []StopInv
<1>1. Init => StopInv
  BY DEF Init, StopInv, NoCall
<1> QED BY <1>1, StopNext, TypeCorrect, DownCorrect, LifeCorrect, PTL DEF Spec

(* A dead context always has a recorded reason (Cancel, Shutdown).           *)
THEOREM StopAlwaysRecorded == Spec => []StopIsRecorded
<1>1. StopInv => StopIsRecorded
  BY DEF StopInv, StopIsRecorded, Stopped, CtxErr
<1> QED BY <1>1, StopCorrect, PTL

-----------------------------------------------------------------------------
(* Slots. *)

(* Every step keeps the slots and the workers that hold one in agreement.   *)
LEMMA SlotNext == TypeOK /\ DownInv /\ SlotInv /\ [Next]_vars => SlotInv'
<1> SUFFICES ASSUME TypeOK, DownInv, SlotInv, [Next]_vars PROVE SlotInv'
  OBVIOUS
<1>0. IsFiniteSet(sem) /\ Cardinality(sem) \in Nat /\ Cardinality({}) = 0
  BY JobsCount, FS_EmptySet DEF TypeOK
<1>1. ASSUME NEW j \in Jobs, AcquireSlot(j) PROVE SlotInv'
  <2>1. Cardinality(sem \cup {j}) <= MaxConcurrent
    <3>1. Cardinality(sem \cup {j}) \in {Cardinality(sem), Cardinality(sem) + 1}
      BY <1>0, FS_AddElement
    <3>2. Cardinality(sem) < MaxConcurrent
      BY <1>1 DEF AcquireSlot
    <3> QED BY <1>0, <3>1, <3>2, ManagerAssumption
  <2>2. Working' \subseteq Working \cup {j}
    BY <1>1 DEF AcquireSlot, Goto, Working, TypeOK
  <2> QED BY <1>1, <2>1, <2>2 DEF AcquireSlot, SlotInv
<1>2. ASSUME NEW j \in Jobs, sem' = sem \ {j}, Working' \subseteq Working \ {j} PROVE SlotInv'
  <2>1. Cardinality(sem \ {j}) <= Cardinality(sem) /\ Cardinality(sem \ {j}) \in Nat
    <3>1. Cardinality(sem \ {j}) \in {Cardinality(sem), Cardinality(sem) - 1}
      BY <1>0, FS_RemoveElement
    <3>2. Cardinality(sem \ {j}) \in Nat
      BY <1>0, JobsCount DEF TypeOK
    <3> QED BY <1>0, <3>1, <3>2
  <2> QED BY <1>0, <1>2, <2>1, ManagerAssumption DEF SlotInv
<1>3. ASSUME sem' = sem, Working' \subseteq Working PROVE SlotInv'
  BY <1>3 DEF SlotInv
<1>4. ASSUME NEW j \in Jobs, WorkerStep(j) PROVE SlotInv'
  <2>1. CASE ReleaseSlot(j)
    BY <1>2, <2>1 DEF ReleaseSlot, Goto, Working, TypeOK
  <2>2. CASE ~AcquireSlot(j) /\ ~ReleaseSlot(j)
    <3>1. sem' = sem
      BY <1>4, <2>2 DEF WorkerStep, CancelledWhileQueued, CheckContext, markRunning, SaveRunning,
         DecideVerdict, markTerminalCause, SaveTerminal, CloseTerminalCh, WorkerDone
    <3>2. Working' \subseteq Working
      BY <1>4, <2>2 DEF WorkerStep, CancelledWhileQueued, CheckContext, markRunning, SaveRunning,
         DecideVerdict, markTerminalCause, SaveTerminal, CloseTerminalCh, WorkerDone,
         Goto, Working, TypeOK
    <3> QED BY <1>3, <3>1, <3>2
  <2> QED BY <1>1, <2>1, <2>2
<1>5. ASSUME NEW j \in Jobs, Spawn(j) \/ Progress(j) \/ WorkEnds(j) PROVE SlotInv'
  <2>1. sem' = sem
    BY <1>5 DEF Spawn, Progress, WorkEnds, worker
  <2>2. Working' \subseteq Working
    BY <1>5 DEF Spawn, Progress, WorkEnds, Goto, Working, worker, TypeOK
  <2> QED BY <1>3, <2>1, <2>2
<1>6. ASSUME NEW j \in Jobs, Panic(j) PROVE SlotInv'
  BY <1>2, <1>6 DEF Panic, Goto, Working, TypeOK
<1>7. ASSUME NEW u \in Users, CancelAll(u) \/ \E j \in Jobs : Cancel(u, j) PROVE SlotInv'
  <2>1. sem' = sem /\ pc' = pc
    <3>1. CASE CancelAll(u)
      BY <3>1 DEF CancelAll, worker
    <3>2. ASSUME NEW j \in Jobs, Cancel(u, j) PROVE sem' = sem /\ pc' = pc
      BY <3>2 DEF Cancel, worker
    <3> QED BY <1>7, <3>1, <3>2
  <2> QED BY <1>3, <2>1 DEF Working
<1>8. ASSUME \/ \E s \in Stoppers : SaveRequest(s) \/ CallCancelFunc(s)
             \/ ShutdownCloses \/ ShutdownStops \/ CancelBase \/ ShutdownWaits
             \/ ShutdownFlushes \/ ShutdownAgain \/ Restart \/ UNCHANGED vars
      PROVE SlotInv'
  <2>1. sem' = sem /\ pc' = pc
    BY <1>8 DEF SaveRequest, CallCancelFunc, ShutdownCloses, ShutdownStops, CancelBase,
       ShutdownWaits, ShutdownFlushes, ShutdownAgain, Restart, worker, vars
  <2> QED BY <1>3, <2>1 DEF Working
<1>9. CASE Crash
  BY <1>0, <1>9, ManagerAssumption DEF Crash, SlotInv, Working
<1> QED BY <1>4, <1>5, <1>6, <1>7, <1>8, <1>9 DEF Next

(* No more agents at work than slots, for any MaxConcurrent.                 *)
THEOREM WorkStaysBounded == Spec => []WorkIsBounded
<1>1. Init => SlotInv
  BY FS_EmptySet, ManagerAssumption DEF Init, SlotInv, Working
<1>2. TypeOK /\ SlotInv => WorkIsBounded
  <2> SUFFICES ASSUME TypeOK, SlotInv PROVE WorkIsBounded
    OBVIOUS
  <2>1. Cardinality(Working) <= Cardinality(sem)
    BY FS_Subset, JobsCount DEF SlotInv, TypeOK
  <2>2. Cardinality(Working) \in Nat /\ Cardinality(sem) \in Nat
    BY JobsCount DEF Working, TypeOK
  <2> QED BY <2>1, <2>2, ManagerAssumption DEF SlotInv, WorkIsBounded, Working
<1> QED BY <1>1, <1>2, SlotNext, TypeCorrect, DownCorrect, PTL DEF Spec

-----------------------------------------------------------------------------
(* Where the copies of a record come from. *)

(* The copies a stopper holds of one job, as a set.                         *)
LEMMA SavesMember ==
    ASSUME TypeOK, NEW j \in Jobs, NEW a
    PROVE  a \in SavesOf(j) <=> \E s \in Stoppers : <<j, a>> \in canceller[s].save
<1>1. \A s \in Stoppers : \A c \in canceller[s].save : c = <<c[1], c[2]>>
  BY DEF TypeOK, Call
<1> QED BY <1>1 DEF SavesOf

(* What saving a copy may leave in the file and in the retained copy. *)
LEMMA SaveValues ==
    ASSUME TypeOK, NEW j \in Jobs, NEW copy, Save(j, copy)
    PROVE  /\ \A i \in Jobs \ {j} : disk'[i] = disk[i] /\ pending'[i] = pending[i]
           /\ disk'[j] \in {disk[j], pending[j], copy}
           /\ pending'[j] \in {pending[j], copy, NoRecord}
BY DEF Save, Newer, TypeOK

Fresh(j) == {rec[j], rec'[j], NoRecord}

NoNewCopy(j) ==
    /\ disk'[j] \in Copies(j) \cup Fresh(j)
    /\ Volatile(j)' \subseteq Volatile(j) \cup Fresh(j)

(* Every copy of a record was a copy before, or is the one just stamped.    *)
LEMMA CopyStep ==
    ASSUME TypeOK, TypeOK', [Next]_vars, ~Crash, ~Restart
    PROVE  \A j \in Jobs : NoNewCopy(j)
<1> DEFINE Goal == \A j \in Jobs : NoNewCopy(j)
<1>1. ASSUME \A j \in Jobs : SavesOf(j)' \subseteq SavesOf(j) \cup Fresh(j),
             \A j \in Jobs : held'[j] \in Volatile(j) \cup Fresh(j),
             \A j \in Jobs : pending'[j] \in Volatile(j) \cup Fresh(j),
             \A j \in Jobs : disk'[j] \in Copies(j) \cup Fresh(j)
      PROVE  Goal
  BY <1>1 DEF NoNewCopy, Volatile
<1>2. ASSUME canceller' = canceller PROVE \A j \in Jobs : SavesOf(j)' \subseteq SavesOf(j)
  BY <1>2 DEF SavesOf
<1>3. ASSUME NEW j \in Jobs, NEW copy, Save(j, copy), copy \in Volatile(j) \cup Fresh(j)
      PROVE  /\ \A i \in Jobs : pending'[i] \in Volatile(i) \cup Fresh(i)
             /\ \A i \in Jobs : disk'[i] \in Copies(i) \cup Fresh(i)
  BY <1>3, SaveValues DEF Volatile, Copies, Fresh
<1>4. ASSUME disk' = disk, pending' = pending
      PROVE  /\ \A i \in Jobs : pending'[i] \in Volatile(i) \cup Fresh(i)
             /\ \A i \in Jobs : disk'[i] \in Copies(i) \cup Fresh(i)
  BY <1>4 DEF Volatile, Copies
<1>5. ASSUME NEW j \in Jobs, Spawn(j) PROVE Goal
  <2>1. held' = held /\ pending' = pending /\ canceller' = canceller
    BY <1>5 DEF Spawn, stoppers
  <2>2. \A i \in Jobs : disk'[i] \in Copies(i) \cup Fresh(i)
    BY <1>5 DEF Spawn, Copies, Fresh, TypeOK
  <2> QED BY <1>1, <1>2, <2>1, <2>2 DEF Volatile
<1>6. ASSUME NEW j \in Jobs, WorkerStep(j) PROVE Goal
  <2>1. canceller' = canceller
    BY <1>6 DEF WorkerStep, AcquireSlot, CancelledWhileQueued, CheckContext, markRunning,
       SaveRunning, DecideVerdict, markTerminalCause, SaveTerminal, CloseTerminalCh, ReleaseSlot,
       WorkerDone, stoppers
  <2>2. \A i \in Jobs : held'[i] \in {held[i], rec'[i], NoRecord}
    BY <1>6 DEF WorkerStep, AcquireSlot, CancelledWhileQueued, CheckContext, markRunning,
       SaveRunning, DecideVerdict, markTerminalCause, SaveTerminal, CloseTerminalCh, ReleaseSlot,
       WorkerDone, TypeOK
  <2>3. CASE SaveRunning(j) \/ SaveTerminal(j)
    <3>1. Save(j, held[j]) /\ held[j] \in Volatile(j) \cup Fresh(j)
      BY <2>3 DEF SaveRunning, SaveTerminal, Volatile
    <3> QED BY <1>1, <1>2, <1>3, <2>1, <2>2, <3>1 DEF Volatile, Fresh
  <2>4. CASE ~SaveRunning(j) /\ ~SaveTerminal(j)
    <3>1. disk' = disk /\ pending' = pending
      BY <1>6, <2>4 DEF WorkerStep, AcquireSlot, CancelledWhileQueued, CheckContext, markRunning,
         DecideVerdict, markTerminalCause, CloseTerminalCh, ReleaseSlot, WorkerDone, file
    <3> QED BY <1>1, <1>2, <1>4, <2>1, <2>2, <3>1 DEF Volatile, Fresh
  <2> QED BY <2>3, <2>4
<1>7. ASSUME NEW j \in Jobs, Progress(j) PROVE Goal
  <2>1. Save(j, rec[j]) /\ held' = held /\ canceller' = canceller
    BY <1>7 DEF Progress, worker, stoppers
  <2> QED BY <1>1, <1>2, <1>3, <2>1 DEF Volatile, Fresh
<1>8. ASSUME NEW j \in Jobs, WorkEnds(j) \/ Panic(j) PROVE Goal
  <2>1. held' = held /\ canceller' = canceller /\ disk' = disk /\ pending' = pending
    BY <1>8 DEF WorkEnds, Panic, file, stoppers
  <2> QED BY <1>1, <1>2, <1>4, <2>1 DEF Volatile
<1>9. ASSUME NEW s \in Stoppers, NEW targets \in SUBSET Jobs, NEW req \in Request,
             StampRequest(s, targets, req), held' = held, disk' = disk, pending' = pending
      PROVE  Goal
  <2>1. \A t \in Stoppers \ {s} : canceller'[t] = canceller[t]
    BY <1>9 DEF StampRequest, TypeOK
  <2>2. \A c \in canceller'[s].save : c[2] = rec'[c[1]]
    <3> DEFINE stamp(j) == Stamped([rec[j] EXCEPT !.request = req])
    <3>1. canceller'[s].save = {<<j, stamp(j)>> : j \in targets}
      BY <1>9 DEF StampRequest, TypeOK
    <3>2. \A j \in targets : rec'[j] = stamp(j)
      BY <1>9 DEF StampRequest
    <3> HIDE DEF stamp
    <3> QED BY <3>1, <3>2
  <2>3. ASSUME NEW j \in Jobs, NEW a \in SavesOf(j)' PROVE a \in SavesOf(j) \cup Fresh(j)
    <3>1. PICK t \in Stoppers : \E c \in canceller'[t].save : c[1] = j /\ a = c[2]
      BY <2>3 DEF SavesOf
    <3>2. CASE t = s
      BY <2>2, <3>1, <3>2 DEF Fresh
    <3>3. CASE t # s
      BY <2>1, <3>1, <3>3 DEF SavesOf
    <3> QED BY <3>2, <3>3
  <2> QED BY <1>1, <1>4, <1>9, <2>3 DEF Volatile
<1>10. ASSUME NEW u \in Users, CancelAll(u) \/ \E j \in Jobs : Cancel(u, j) PROVE Goal
  <2>1. u \in Stoppers /\ Cancellable \in SUBSET Jobs /\ "user" \in Request
    BY Names DEF Stoppers, Cancellable, TypeOK
  <2>2. CASE CancelAll(u)
    BY <1>9, <2>1, <2>2 DEF CancelAll, worker, file
  <2>3. ASSUME NEW j \in Jobs, Cancel(u, j) PROVE Goal
    <3>1. {j} \in SUBSET Jobs /\ StampRequest(u, {j}, "user")
          /\ held' = held /\ disk' = disk /\ pending' = pending
      BY <2>3 DEF Cancel, worker, file
    <3> QED BY <1>9, <2>1, <3>1
  <2> QED BY <1>10, <2>2, <2>3
<1>11. CASE ShutdownStops
  <2>1. "shutdown" \in Stoppers /\ Cancellable \in SUBSET Jobs /\ "shutdown" \in Request
    BY Names DEF Stoppers, Cancellable, TypeOK
  <2> QED BY <1>9, <1>11, <2>1 DEF ShutdownStops, worker, file
<1>12. ASSUME NEW s \in Stoppers, SaveRequest(s) PROVE Goal
  <2>1. PICK c \in canceller[s].save :
           Save(c[1], c[2]) /\ canceller' = [canceller EXCEPT ![s].save = @ \ {c}]
    BY <1>12 DEF SaveRequest
  <2>2. c[1] \in Jobs /\ c = <<c[1], c[2]>>
    BY DEF TypeOK, Call
  <2>3. c[2] \in Volatile(c[1]) \cup Fresh(c[1])
    BY <2>2, SavesMember DEF Volatile
  <2>4. \A t \in Stoppers : canceller'[t].save \subseteq canceller[t].save
    BY <2>1 DEF TypeOK, Call
  <2>5. \A j \in Jobs : SavesOf(j)' \subseteq SavesOf(j)
    BY <2>4 DEF SavesOf
  <2>6. held' = held
    BY <1>12 DEF SaveRequest, worker
  <2> QED BY <1>1, <1>3, <2>1, <2>2, <2>3, <2>5, <2>6 DEF Volatile
<1>13. ASSUME NEW s \in Stoppers, CallCancelFunc(s) PROVE Goal
  <2>1. \A t \in Stoppers : canceller'[t].save = canceller[t].save
    BY <1>13 DEF CallCancelFunc, TypeOK, Call
  <2>2. \A j \in Jobs : SavesOf(j)' \subseteq SavesOf(j)
    BY <2>1 DEF SavesOf
  <2>3. held' = held /\ disk' = disk /\ pending' = pending
    BY <1>13 DEF CallCancelFunc, worker, file
  <2> QED BY <1>1, <1>4, <2>2, <2>3 DEF Volatile
<1>14. CASE ShutdownCloses \/ CancelBase \/ ShutdownWaits \/ ShutdownAgain \/ UNCHANGED vars
  <2>1. held' = held /\ canceller' = canceller /\ disk' = disk /\ pending' = pending
    BY <1>14 DEF ShutdownCloses, CancelBase, ShutdownWaits, ShutdownAgain, vars,
       worker, file, stoppers
  <2> QED BY <1>1, <1>2, <1>4, <2>1 DEF Volatile
<1>15. CASE ShutdownFlushes
  <2>1. held' = held /\ canceller' = canceller
    BY <1>15 DEF ShutdownFlushes, worker
  <2>2. \A j \in Jobs : disk'[j] \in {disk[j], pending[j]} /\ pending'[j] \in {pending[j], NoRecord}
    BY <1>15 DEF ShutdownFlushes, Newer, TypeOK
  <2> QED BY <1>1, <1>2, <2>1, <2>2 DEF Volatile, Copies, Fresh
<1> QED BY <1>5, <1>6, <1>7, <1>8, <1>10, <1>11, <1>12, <1>13, <1>14, <1>15 DEF Next

-----------------------------------------------------------------------------
(* The copies of a record form one history. *)

(* Older is a partial order with NoRecord below everything stamped.         *)
LEMMA OlderFacts ==
    ASSUME NEW a \in Record, NEW b \in Record, NEW c \in Record
    PROVE  /\ Older(a, a)
           /\ Older(a, b) /\ Older(b, c) => Older(a, c)
           /\ (a.version = 0 => a = NoRecord) => Older(NoRecord, a)
<1>1. a.version \in Nat /\ b.version \in Nat /\ c.version \in Nat
  BY DEF Record
<1>2. Older(a, a)
  BY <1>1 DEF Older
<1>3. Older(a, b) /\ Older(b, c) => Older(a, c)
  BY <1>1 DEF Older, IsTerminal
<1>4. (a.version = 0 => a = NoRecord) => Older(NoRecord, a)
  BY <1>1 DEF Older, NoRecord, IsTerminal, Terminal
<1> QED BY <1>2, <1>3, <1>4

(* Every copy of a record is a record.                                      *)
LEMMA CopiesType == ASSUME TypeOK, NEW j \in Jobs PROVE Copies(j) \in SUBSET Record
<1>1. SavesOf(j) \subseteq Record
  BY DEF SavesOf, TypeOK, Call
<1> QED BY <1>1 DEF Copies, Volatile, TypeOK

(* The record in memory only moves on, and never out of a terminal state. *)
LEMMA RecordAdvances ==
    ASSUME TypeOK, LifeInv, [Next]_vars, ~Crash, ~Restart, NEW j \in Jobs, ~SpawnChange(j)
    PROVE  Older(rec[j], rec'[j]) /\ (Known(j)' <=> Known(j))
<1>0. /\ rec[j] \in Record /\ rec[j].version \in Nat
      /\ "running" \in State /\ {"user", "shutdown"} \subseteq Request /\ "none" \in Request
  BY Names DEF TypeOK, Record
<1>1. CASE rec'[j] = rec[j]
  BY <1>0, <1>1, OlderFacts DEF Known
<1>2. CASE WorkerChange(j)
  <2>1. rec'[j].version = rec[j].version + 1 /\ rec'[j].request = rec[j].request
    <3>1. CASE rec'[j] = Stamped([rec[j] EXCEPT !.state = "running"])
      BY <1>0, <3>1, StampedState
    <3>2. CASE rec'[j] = Stamped([rec[j] EXCEPT !.state = verdict[j].state,
                                                !.cause = verdict[j].cause])
      BY <1>0, <3>2 DEF Stamped, Record
    <3> QED BY <1>2, <3>1, <3>2 DEF WorkerChange
  <2> QED BY <1>0, <1>2, <2>1 DEF WorkerChange, Older, Active, Known
<1>3. CASE StopperChange(j)
  <2>1. PICK req \in {"user", "shutdown"} : rec'[j] = Stamped([rec[j] EXCEPT !.request = req])
    BY <1>3 DEF StopperChange
  <2>2. rec'[j].version = rec[j].version + 1 /\ rec'[j].request # "none"
    BY <1>0, <2>1, StampedRequest
  <2> QED BY <1>0, <1>3, <2>2 DEF StopperChange, Older, Active, Known
<1> QED BY <1>1, <1>2, <1>3, RecordStep

(* The copies before a step and the one it stamps still form one history.   *)
LEMMA OrderedStep ==
    ASSUME TypeOK, TypeOK', LifeInv, OrderInv, [Next]_vars, ~Crash, ~Restart, NEW j \in Jobs
    PROVE  /\ \A a \in Copies(j) \cup Fresh(j) : a.version = 0 => a = NoRecord
           /\ \A a, b \in Copies(j) \cup Fresh(j) : Comparable(a, b)
           /\ Known(j)' => \A a \in Copies(j) \cup Fresh(j) : Older(a, rec'[j])
           /\ ~Known(j)' => Volatile(j) \cup Fresh(j) \subseteq {NoRecord}
<1>0. /\ rec[j] \in Record /\ rec'[j] \in Record /\ disk[j] \in Record
      /\ NoRecord \in Record /\ Copies(j) \in SUBSET Record
      /\ rec[j].version \in Nat /\ NoRecord.version = 0
  BY Defaults, CopiesType DEF TypeOK, Record, NoRecord
<1>1. CASE Known(j)
  <2>1. ~SpawnChange(j) /\ Older(rec[j], rec'[j]) /\ Known(j)'
    BY <1>1, RecordAdvances DEF SpawnChange
  <2>2. \A a \in Copies(j) \cup Fresh(j) : a \in Record /\ (a.version = 0 => a = NoRecord)
    BY <1>0, <1>1, <2>1 DEF OrderInv, Fresh, Known
  <2>3. \A a \in Copies(j) \cup Fresh(j) : Older(NoRecord, a)
    BY <2>2, OlderFacts
  <2>4. \A a \in Copies(j) \cup {rec[j]} : Older(a, rec[j])
    BY <1>0, <1>1, OlderFacts DEF OrderInv
  <2>5. \A a \in Copies(j) \cup Fresh(j) : Older(a, rec'[j])
    <3>1. \A a \in Copies(j) \cup {rec[j]} : Older(a, rec'[j])
      BY <1>0, <2>1, <2>4, OlderFacts
    <3> QED BY <1>0, <2>3, <3>1, OlderFacts DEF Fresh
  <2>6. \A a, b \in Copies(j) \cup Fresh(j) : Comparable(a, b)
    <3>1. \A a, b \in Copies(j) : Comparable(a, b)
      BY DEF OrderInv
    <3> QED BY <2>3, <2>4, <2>5, <3>1 DEF Comparable, Fresh
  <2> QED BY <2>1, <2>2, <2>5, <2>6
<1>2. CASE ~Known(j)
  <2>1. /\ rec[j] = NoRecord /\ Volatile(j) \subseteq {NoRecord}
        /\ (disk[j].version = 0 => disk[j] = NoRecord)
    BY <1>0, <1>2 DEF OrderInv, Known, Copies
  <2>2. Copies(j) \subseteq {disk[j], NoRecord}
    BY <2>1 DEF Copies
  <2>3. Older(NoRecord, NoRecord) /\ Older(disk[j], disk[j]) /\ Older(NoRecord, disk[j])
    BY <1>0, <2>1, OlderFacts
  <2>4. CASE SpawnChange(j)
    <3>1. disk[j] = NoRecord /\ rec'[j].version = 1
      BY <2>4 DEF SpawnChange, Stamped, NoRecord
    <3>2. Copies(j) \cup Fresh(j) = {NoRecord, rec'[j]}
      BY <2>1, <2>2, <3>1 DEF Fresh
    <3>3. Older(NoRecord, rec'[j]) /\ Older(rec'[j], rec'[j]) /\ Known(j)'
      BY <1>0, <3>1, OlderFacts DEF Known
    <3> QED BY <2>3, <3>1, <3>2, <3>3 DEF Comparable
  <2>5. CASE ~SpawnChange(j)
    <3>1. ~Known(j)' /\ rec'[j] = NoRecord
      BY <1>2, <2>1, <2>5, RecordStep DEF WorkerChange, StopperChange, Active, Known
    <3>2. Copies(j) \cup Fresh(j) \subseteq {disk[j], NoRecord} /\ Fresh(j) = {NoRecord}
      BY <2>1, <2>2, <3>1 DEF Fresh
    <3> QED BY <2>1, <2>3, <3>1, <3>2 DEF Comparable
  <2> QED BY <2>4, <2>5
<1> QED BY <1>1, <1>2

(* Every step keeps the copies of a record snapshots of one history.        *)
LEMMA OrderNext == TypeOK /\ TypeOK' /\ DownInv /\ LifeInv /\ OrderInv /\ [Next]_vars => OrderInv'
<1> SUFFICES ASSUME TypeOK, TypeOK', DownInv, LifeInv, OrderInv, [Next]_vars, NEW j \in Jobs
             PROVE  /\ \A a \in Copies(j)' \cup {rec'[j]} : a.version = 0 => a = NoRecord
                    /\ \A a, b \in Copies(j)' : Comparable(a, b)
                    /\ Known(j)'  => \A a \in Copies(j)' : Older(a, rec'[j])
                    /\ ~Known(j)' => \A a \in Volatile(j)' : a = NoRecord
  BY DEF OrderInv, Older, Comparable, NoRecord, IsTerminal
<1>0. /\ rec[j] \in Record /\ rec'[j] \in Record /\ disk[j] \in Record /\ disk'[j] \in Record
      /\ NoRecord \in Record /\ rec[j].version \in Nat /\ NoRecord.version = 0
  BY Defaults DEF TypeOK, Record, NoRecord
<1>1. CASE ~Crash /\ ~Restart
  <2>1. disk'[j] \in Copies(j) \cup Fresh(j) /\ Volatile(j)' \subseteq Volatile(j) \cup Fresh(j)
    BY <1>1, CopyStep DEF NoNewCopy
  <2>2. Copies(j)' \subseteq Copies(j) \cup Fresh(j)
    BY <2>1 DEF Copies
  <2> QED BY <1>1, <2>1, <2>2, OrderedStep DEF Fresh
<1>2. CASE Crash
  <2>1. SavesOf(j)' = {}
    BY <1>2 DEF Crash, SavesOf, NoCall
  <2>2. Volatile(j)' = {NoRecord} /\ Copies(j)' = {disk[j], NoRecord} /\ rec'[j] = NoRecord
    BY <1>2, <2>1 DEF Crash, Volatile, Copies
  <2>3. disk[j].version = 0 => disk[j] = NoRecord
    BY DEF OrderInv, Copies
  <2>4. Older(NoRecord, NoRecord) /\ Older(disk[j], disk[j]) /\ Older(NoRecord, disk[j])
    BY <1>0, <2>3, OlderFacts
  <2>5. ~Known(j)'
    BY <1>0, <2>2 DEF Known
  <2> QED BY <1>0, <2>2, <2>3, <2>4, <2>5 DEF Comparable
<1>3. CASE Restart
  <2>1. SavesOf(j)' = {}
    BY <1>3 DEF Restart, DownInv, stoppers, SavesOf, NoCall
  <2>2. Volatile(j)' = {NoRecord} /\ Copies(j)' = {disk'[j], NoRecord}
    BY <1>3, <2>1 DEF Restart, DownInv, worker, Volatile, Copies
  <2>3. disk'[j] = disk[j] \/ (disk[j] # NoRecord /\ disk'[j] = Reconciled(disk[j]))
    BY <1>3, <1>0 DEF Restart
  <2>4. disk[j].version = 0 => disk[j] = NoRecord
    BY DEF OrderInv, Copies
  <2>5. Reconciled(disk[j]).version = disk[j].version
    BY <1>0 DEF Reconciled, Record
  <2>6. disk'[j].version = 0 => disk'[j] = NoRecord
    BY <2>3, <2>4, <2>5
  <2>7. rec'[j] \in {disk'[j], NoRecord}
    BY <1>3 DEF Restart
  <2>8. Older(NoRecord, NoRecord) /\ Older(disk'[j], disk'[j]) /\ Older(NoRecord, disk'[j])
    BY <1>0, <2>6, OlderFacts
  <2>9. Known(j)' => rec'[j] = disk'[j]
    BY <1>0, <2>7 DEF Known
  <2> QED BY <2>2, <2>6, <2>7, <2>8, <2>9 DEF Comparable
<1> QED BY <1>1, <1>2, <1>3

(* The copies that saves, stoppers and workers hold outside Manager.mu, and *)
(* the file, are snapshots of one history of the record in memory.          *)
THEOREM OrderCorrect == Spec => []OrderInv
<1>1. Init => OrderInv
  BY DEF Init, OrderInv, Copies, Volatile, SavesOf, NoCall, Comparable, Older, NoRecord, Known,
         IsTerminal, Terminal
<1> QED BY <1>1, OrderNext, TypeCorrect, DownCorrect, LifeCorrect, PTL DEF Spec

(* A file only moves on along the history of its record. *)
LEMMA DiskVersion ==
    ASSUME TypeOK, [Next]_vars, ~Restart, OrderInv, NEW j \in Jobs
    PROVE  disk'[j].version >= disk[j].version
<1>0. disk[j].version \in Nat /\ pending[j].version \in Nat
  BY DEF TypeOK, Record
<1>1. ASSUME disk' = disk PROVE disk'[j].version >= disk[j].version
  BY <1>0, <1>1
<1>2. ASSUME NEW i \in Jobs, NEW copy \in Record, Save(i, copy)
      PROVE  disk'[j].version >= disk[j].version
  <2>1. copy.version \in Nat
    BY DEF Record
  <2> QED BY <1>0, <1>2, <2>1 DEF Save, Newer, TypeOK
<1>3. ASSUME NEW i \in Jobs, Spawn(i) PROVE disk'[j].version >= disk[j].version
  BY <1>0, <1>3 DEF Spawn, Stamped, NoRecord, TypeOK
<1>4. ASSUME NEW i \in Jobs, WorkerStep(i) PROVE disk'[j].version >= disk[j].version
  <2>1. CASE SaveRunning(i) \/ SaveTerminal(i)
    BY <1>2, <2>1 DEF SaveRunning, SaveTerminal, TypeOK
  <2>2. CASE ~SaveRunning(i) /\ ~SaveTerminal(i)
    BY <1>1, <1>4, <2>2 DEF WorkerStep, AcquireSlot, CancelledWhileQueued, CheckContext, markRunning,
         DecideVerdict, markTerminalCause, CloseTerminalCh, ReleaseSlot, WorkerDone, file
  <2> QED BY <2>1, <2>2
<1>5. ASSUME NEW i \in Jobs, Progress(i) \/ WorkEnds(i) \/ Panic(i)
      PROVE  disk'[j].version >= disk[j].version
  BY <1>1, <1>2, <1>5 DEF Progress, WorkEnds, Panic, file, TypeOK
<1>6. ASSUME NEW u \in Users, CancelAll(u) \/ \E i \in Jobs : Cancel(u, i)
      PROVE  disk'[j].version >= disk[j].version
  <2>1. CASE CancelAll(u)
    BY <1>1, <2>1 DEF CancelAll, file
  <2>2. ASSUME NEW i \in Jobs, Cancel(u, i) PROVE disk'[j].version >= disk[j].version
    BY <1>1, <2>2 DEF Cancel, file
  <2> QED BY <1>6, <2>1, <2>2
<1>7. ASSUME NEW s \in Stoppers, SaveRequest(s) \/ CallCancelFunc(s)
      PROVE  disk'[j].version >= disk[j].version
  <2>1. CASE SaveRequest(s)
    <3>1. \A c \in canceller[s].save : c[1] \in Jobs /\ c[2] \in Record
      BY DEF TypeOK, Call
    <3> QED BY <1>2, <2>1, <3>1 DEF SaveRequest
  <2>2. CASE CallCancelFunc(s)
    BY <1>1, <2>2 DEF CallCancelFunc, file
  <2> QED BY <1>7, <2>1, <2>2
<1>8. CASE \/ ShutdownCloses \/ ShutdownStops \/ CancelBase \/ ShutdownWaits \/ ShutdownAgain
           \/ Crash \/ UNCHANGED vars
  BY <1>1, <1>8 DEF ShutdownCloses, ShutdownStops, CancelBase, ShutdownWaits, ShutdownAgain,
     Crash, file, vars
<1>9. CASE ShutdownFlushes
  BY <1>0, <1>9 DEF ShutdownFlushes, Newer, TypeOK
<1> QED BY <1>3, <1>4, <1>5, <1>6, <1>7, <1>8, <1>9 DEF Next

(* A write only replaces a file by a later snapshot (savePersistedSnapshot).*)
LEMMA DiskAdvances ==
    ASSUME TypeOK, TypeOK', LifeInv, OrderInv, [Next]_vars, ~Crash, ~Restart, NEW j \in Jobs
    PROVE  Older(disk[j], disk'[j])
<1>1. disk[j] \in Copies(j) /\ disk'[j] \in Copies(j) \cup Fresh(j)
  BY CopyStep DEF NoNewCopy, Copies
<1>2. Comparable(disk[j], disk'[j])
  BY <1>1, OrderedStep
<1>3. disk[j] \in Record /\ disk[j].version \in Nat /\ disk'[j].version \in Nat
      /\ disk'[j].version >= disk[j].version
  BY DiskVersion DEF TypeOK, Record
<1>4. Older(disk[j], disk[j])
  BY <1>3, OlderFacts
<1> QED BY <1>2, <1>3, <1>4 DEF Comparable, Older

(* A terminal state is final, and a file never loses one, in whatever order  *)
(* the worker, the stoppers and Shutdown save their copies.                  *)
THEOREM TerminalStaysFinal == Spec => TerminalIsFinal
<1> DEFINE Final(j) == /\ IsTerminal(rec[j]) /\ up' => rec'[j].state = rec[j].state
                       /\ IsTerminal(disk[j]) => disk'[j].state = disk[j].state
<1>1. ASSUME TypeOK, TypeOK', DownInv, LifeInv, OrderInv, [Next]_vars PROVE \A j \in Jobs : Final(j)
  <2> TAKE j \in Jobs
  <2>1. CASE ~Crash /\ ~Restart
    <3>1. IsTerminal(rec[j]) => Known(j)
      <4>1. rec[j].version \in Nat /\ (rec[j].version = 0 => rec[j] = NoRecord)
        BY <1>1 DEF OrderInv, TypeOK, Record
      <4>2. ~IsTerminal(NoRecord)
        BY DEF IsTerminal, NoRecord, Terminal
      <4> QED BY <4>1, <4>2 DEF Known
    <3>2. IsTerminal(rec[j]) => rec'[j].state = rec[j].state
      BY <1>1, <2>1, <3>1, RecordAdvances DEF Older, SpawnChange
    <3> QED BY <1>1, <2>1, <3>2, DiskAdvances DEF Older
  <2>2. CASE Crash
    BY <2>2 DEF Crash
  <2>3. CASE Restart
    <3>1. disk'[j] = disk[j] \/ (~IsTerminal(disk[j]) /\ disk'[j] = Reconciled(disk[j]))
      BY <2>3 DEF Restart
    <3>2. rec[j] = NoRecord
      BY <1>1, <2>3 DEF Restart, DownInv
    <3> QED BY <3>1, <3>2 DEF IsTerminal, NoRecord, Terminal
  <2> QED BY <2>1, <2>2, <2>3
<1>2. ASSUME TypeOK, TypeOK', DownInv, LifeInv, OrderInv, [Next]_vars
      PROVE  [\A j \in Jobs : Final(j)]_vars
  BY <1>1, <1>2
<1> QED BY <1>2, TypeCorrect, DownCorrect, LifeCorrect, OrderCorrect, PTL DEF TerminalIsFinal, Spec

-----------------------------------------------------------------------------
(* What may be claimed about a job that was stopped. *)

(* An exit, or a manager that closes for one, is not undone.                *)
LEMMA ExitStays == TypeOK /\ [Next]_vars /\ ExitSeen => ExitSeen'
<1> SUFFICES ASSUME TypeOK, [Next]_vars, ExitSeen PROVE ExitSeen'
  OBVIOUS
<1>1. CASE Crash
  BY <1>1, ManagerAssumption DEF Crash, ExitSeen, TypeOK
<1>2. ASSUME crashes' = crashes, closed => closed' PROVE ExitSeen'
  BY <1>2 DEF ExitSeen
<1>3. ASSUME NEW j \in Jobs, Spawn(j) \/ WorkerStep(j) \/ Progress(j) \/ WorkEnds(j) \/ Panic(j)
      PROVE  ExitSeen'
  BY <1>2, <1>3 DEF Spawn, WorkerStep, AcquireSlot, CancelledWhileQueued, CheckContext,
     markRunning, SaveRunning, DecideVerdict, markTerminalCause, SaveTerminal, CloseTerminalCh,
     ReleaseSlot, WorkerDone, Progress, WorkEnds, Panic, manager
<1>4. ASSUME NEW u \in Users, CancelAll(u) \/ \E j \in Jobs : Cancel(u, j) PROVE ExitSeen'
  <2>1. CASE CancelAll(u)
    BY <1>2, <2>1 DEF CancelAll
  <2>2. ASSUME NEW j \in Jobs, Cancel(u, j) PROVE ExitSeen'
    BY <1>2, <2>2 DEF Cancel
  <2> QED BY <1>4, <2>1, <2>2
<1>5. ASSUME NEW s \in Stoppers, SaveRequest(s) \/ CallCancelFunc(s) PROVE ExitSeen'
  BY <1>2, <1>5 DEF SaveRequest, CallCancelFunc, manager
<1>6. CASE \/ ShutdownCloses \/ ShutdownStops \/ CancelBase \/ ShutdownWaits \/ ShutdownFlushes
           \/ ShutdownAgain \/ Restart \/ UNCHANGED vars
  BY <1>2, <1>6 DEF ShutdownCloses, ShutdownStops, CancelBase, ShutdownWaits, ShutdownFlushes,
     ShutdownAgain, Restart, vars, manager
<1> QED BY <1>1, <1>3, <1>4, <1>5, <1>6 DEF Next

(* The only verdict that claims a loss is the one on a dead context. *)
LEMMA VerdictStep ==
    ASSUME TypeOK, LifeInv, [Next]_vars, NEW j \in Jobs
    PROVE  \/ verdict'[j] = verdict[j]
           \/ verdict'[j].state \in {"completed", "failed", "cancelled"}
           \/ CtxErr(j) /\ Active(j) /\ verdict'[j] = classifyCancelled(j)
<1> DEFINE Goal == \/ verdict'[j] = verdict[j]
                   \/ verdict'[j].state \in {"completed", "failed", "cancelled"}
                   \/ CtxErr(j) /\ Active(j) /\ verdict'[j] = classifyCancelled(j)
<1>1. ASSUME NEW i \in Jobs, WorkerStep(i) PROVE Goal
  <2>1. CASE DecideVerdict(i)
    <3>1. Active(i)
      BY <2>1 DEF DecideVerdict, Goto, LifeInv, Unclosed
    <3> QED BY <2>1, <3>1 DEF DecideVerdict, TypeOK
  <2>2. CASE CancelledWhileQueued(i) \/ CheckContext(i)
    BY <2>2 DEF CancelledWhileQueued, CheckContext, TypeOK
  <2>3. CASE markTerminalCause(i)
    BY <2>3 DEF markTerminalCause, NoVerdict, TypeOK
  <2>4. CASE ~DecideVerdict(i) /\ ~CancelledWhileQueued(i) /\ ~CheckContext(i) /\ ~markTerminalCause(i)
    BY <1>1, <2>4 DEF WorkerStep, AcquireSlot, markRunning, SaveRunning, SaveTerminal,
       CloseTerminalCh, ReleaseSlot, WorkerDone
  <2> QED BY <2>1, <2>2, <2>3, <2>4
<1>2. ASSUME NEW i \in Jobs, Spawn(i) \/ Progress(i) \/ WorkEnds(i) PROVE Goal
  BY <1>2 DEF Spawn, Progress, WorkEnds, worker
<1>3. ASSUME NEW i \in Jobs, Panic(i) PROVE Goal
  BY <1>3 DEF Panic, TypeOK
<1>4. ASSUME NEW u \in Users, CancelAll(u) \/ \E i \in Jobs : Cancel(u, i) PROVE Goal
  <2>1. CASE CancelAll(u)
    BY <2>1 DEF CancelAll, worker
  <2>2. ASSUME NEW i \in Jobs, Cancel(u, i) PROVE Goal
    BY <2>2 DEF Cancel, worker
  <2> QED BY <1>4, <2>1, <2>2
<1>5. ASSUME NEW s \in Stoppers, SaveRequest(s) \/ CallCancelFunc(s) PROVE Goal
  BY <1>5 DEF SaveRequest, CallCancelFunc, worker
<1>6. CASE \/ ShutdownCloses \/ ShutdownStops \/ CancelBase \/ ShutdownWaits \/ ShutdownFlushes
           \/ ShutdownAgain \/ Restart \/ UNCHANGED vars
  BY <1>6 DEF ShutdownCloses, ShutdownStops, CancelBase, ShutdownWaits, ShutdownFlushes,
     ShutdownAgain, Restart, vars, worker
<1>7. CASE Crash
  BY <1>7 DEF Crash, NoVerdict
<1> QED BY <1>1, <1>2, <1>3, <1>4, <1>5, <1>6, <1>7 DEF Next

(* Every step keeps verdicts and copies free of invented losses.            *)
LEMMA CauseNext ==
    TypeOK /\ TypeOK' /\ DownInv /\ LifeInv /\ StopInv /\ CauseInv /\ [Next]_vars => CauseInv'
<1> SUFFICES ASSUME TypeOK, TypeOK', DownInv, LifeInv, StopInv, CauseInv, [Next]_vars,
                    NEW j \in Jobs
             PROVE  /\ \A a \in Copies(j)' \cup {rec'[j], verdict'[j]} : Honest(a)
                    /\ rec'[j].request = "shutdown" => ExitSeen'
                    /\ rec'[j].state = "abandoned" => ExitSeen'
                    /\ verdict'[j].state = "abandoned" => ExitSeen'
  BY DEF CauseInv, Honest
<1>0. /\ rec[j] \in Record /\ disk[j] \in Record /\ verdict[j] \in Verdict
      /\ "running" \in State /\ {"user", "shutdown"} \subseteq Request
      /\ Honest(NoRecord) /\ Honest(rec[j]) /\ Honest(disk[j]) /\ Honest(verdict[j])
      /\ \A a \in Copies(j) : Honest(a)
      /\ NoRecord.request = "none" /\ NoRecord.state = "queued"
  BY Names DEF TypeOK, Honest, NoRecord, CauseInv, Copies
<1>1. Honest(verdict'[j]) /\ (verdict'[j].state = "abandoned" => ExitSeen')
  <2>1. CASE CtxErr(j) /\ Active(j) /\ verdict'[j] = classifyCancelled(j)
    <3>1. rec[j].request \in {"user", "shutdown"}
      BY <1>0, <2>1 DEF StopInv, Stopped, CtxErr, Record, Request
    <3>2. CASE rec[j].request = "user"
      BY <2>1, <3>2 DEF classifyCancelled, Honest
    <3>3. CASE rec[j].request = "shutdown"
      BY <2>1, <3>3, ExitStays DEF classifyCancelled, Honest, CauseInv
    <3> QED BY <3>1, <3>2, <3>3
  <2>2. CASE verdict'[j] = verdict[j]
    BY <1>0, <2>2, ExitStays DEF CauseInv
  <2>3. CASE verdict'[j].state \in {"completed", "failed", "cancelled"}
    BY <2>3 DEF Honest
  <2> QED BY <2>1, <2>2, <2>3, VerdictStep
<1>2. CASE ~Crash /\ ~Restart
  <2>1. Honest(rec'[j]) /\ (rec'[j].request = "shutdown" => ExitSeen')
                        /\ (rec'[j].state = "abandoned" => ExitSeen')
    <3>1. CASE rec'[j] = rec[j]
      BY <1>0, <3>1, ExitStays DEF CauseInv
    <3>2. CASE SpawnChange(j)
      BY <3>2 DEF SpawnChange, Stamped, NoRecord, Honest
    <3>3. CASE rec'[j] = Stamped([rec[j] EXCEPT !.state = "running"])
      <4>1. rec'[j].state = "running" /\ rec'[j].request = rec[j].request
        BY <1>0, <3>3, StampedState
      <4> QED BY <4>1, ExitStays DEF CauseInv, Honest
    <3>4. CASE rec'[j] = Stamped([rec[j] EXCEPT !.state = verdict[j].state,
                                                !.cause = verdict[j].cause])
      <4>1. rec'[j].state = verdict[j].state /\ rec'[j].cause = verdict[j].cause
            /\ rec'[j].request = rec[j].request
        BY <1>0, <3>4 DEF Stamped, Record
      <4> QED BY <1>0, <4>1, ExitStays DEF CauseInv, Honest
    <3>5. CASE StopperChange(j)
      <4>1. PICK req \in {"user", "shutdown"} :
               /\ rec'[j] = Stamped([rec[j] EXCEPT !.request = req])
               /\ req = "shutdown" => shutdown = "closing"
        BY <3>5 DEF StopperChange
      <4>2. rec'[j].state = rec[j].state /\ rec'[j].cause = rec[j].cause /\ rec'[j].request = req
        BY <1>0, <4>1, StampedRequest
      <4>3. req = "shutdown" => ExitSeen'
        BY <4>1, ExitStays DEF StopInv, ExitSeen
      <4> QED BY <1>0, <4>2, <4>3, ExitStays DEF CauseInv, Honest
    <3> QED BY <1>2, <3>1, <3>2, <3>3, <3>4, <3>5, RecordStep DEF WorkerChange
  <2>2. Copies(j)' \subseteq Copies(j) \cup Fresh(j)
    BY <1>2, CopyStep DEF NoNewCopy, Copies
  <2> QED BY <1>0, <1>1, <2>1, <2>2 DEF Fresh
<1>3. CASE Crash
  <2>1. SavesOf(j)' = {}
    BY <1>3 DEF Crash, SavesOf, NoCall
  <2>2. Copies(j)' \subseteq {disk[j], NoRecord} /\ rec'[j] = NoRecord
    BY <1>3, <2>1 DEF Crash, Volatile, Copies
  <2> QED BY <1>0, <1>1, <2>2
<1>4. CASE Restart
  <2>1. ExitSeen'
    BY <1>4, ExitStays DEF Restart, DownInv, ExitSeen
  <2>2. SavesOf(j)' = {}
    BY <1>4 DEF Restart, DownInv, stoppers, SavesOf, NoCall
  <2>3. Copies(j)' \subseteq {disk'[j], NoRecord} /\ rec'[j] \in {disk'[j], NoRecord}
    BY <1>4, <2>2 DEF Restart, DownInv, worker, Volatile, Copies
  <2>4. disk'[j] = disk[j] \/ disk'[j] = Reconciled(disk[j])
    BY <1>4 DEF Restart
  <2>5. Honest(Reconciled(disk[j]))
    BY <1>0 DEF Reconciled, Honest, Record
  <2> QED BY <1>0, <1>1, <2>1, <2>3, <2>4, <2>5
<1> QED BY <1>2, <1>3, <1>4

(* The worker classifies a cancelled context by the recorded request, so no *)
(* record is called abandoned unless the app went away.                     *)
THEOREM CauseCorrect == Spec => []CauseInv
<1>1. Init => CauseInv
  BY DEF Init, CauseInv, Copies, Volatile, SavesOf, NoCall, Honest, NoRecord, NoVerdict
<1> QED BY <1>1, CauseNext, TypeCorrect, DownCorrect, LifeCorrect, StopCorrect, PTL DEF Spec

(* Abandoned is claimed only for an exit of the app, never as a guess.       *)
THEOREM AbandonedIsAppExit == Spec => []AbandonedMeansAppExit
<1>1. CauseInv => AbandonedMeansAppExit
  BY DEF CauseInv, AbandonedMeansAppExit, Honest, ExitSeen
<1> QED BY <1>1, CauseCorrect, PTL

-----------------------------------------------------------------------------
(***************************************************************************)
(* What a stop, an end and a shutdown have claimed is on disk, and what is *)
(* said of a cancelled job is true: with whatever writes are refused and   *)
(* crashes.                                                                *)
(***************************************************************************)

(* The strengthenings, on top of TypeOK, DownInv, LifeInv, StopInv and       *)
(* OrderInv.                                                                 *)

Ended == {"close", "release", "exit", "gone"}

(* Where the newest version of a record that is settled is: in the hands of  *)
(* its worker, then in the file or retained for it; from the start in the    *)
(* file, for a record that was recovered.                                    *)
NewestInv ==
    \A j \in Jobs : /\ pc[j] # "none" => Known(j)
                    /\ pc[j] = "saveTerminal" => held[j] = rec[j]
                    /\ pc[j] \in Ended => rec[j] \in {disk[j], pending[j]}
                    /\ Known(j) /\ pc[j] = "none" => disk[j] = rec[j]
                    /\ j \in terminalCh => pc[j] \in {"release", "exit", "gone"}
                    /\ shutdown \in {"flushing", "nil"} => ~Live(j)
                    /\ shutdown = "nil" /\ Known(j) => disk[j] = rec[j]

Requested(a) == a.request # "none"

(* Unless a write was refused, whoever is about to cancel a context has the  *)
(* request on disk, or has still to save a copy that carries it.             *)
StampInv ==
    failures = 0 =>
        \A j \in Jobs : /\ pending[j] = NoRecord
                        /\ j \in ctxDone => Requested(disk[j])
                        /\ \A s \in Stoppers : j \in canceller[s].cancel =>
                              \/ Requested(disk[j])
                              \/ \E c \in canceller[s].save : c[1] = j /\ Requested(c[2])

(* A version that has left the queue is not followed by one that has not.    *)
Left(a, b) == a.version <= b.version /\ a.state # "queued" => b.state # "queued"

(* A record that says cancelled names who asked, or the agent never ran.     *)
Truthful(j, a) == a.state = "cancelled" => Requested(a) \/ j \notin ran \/ failures > 0

HistoryInv == \A j \in Jobs : \A a, b \in Copies(j) \cup {rec[j]} : Left(a, b)

TruthInv ==
    \A j \in Jobs : /\ \A a \in Copies(j) \cup {rec[j]} : Truthful(j, a)
                    /\ verdict[j].state = "cancelled" => Requested(rec[j])

(* The file knows of the agents that were started, and what the last start   *)
(* closed stays closed.                                                      *)
RanInv ==
    \A j \in Jobs : /\ pc[j] = "saveRunning" => held[j].state = "running"
                    /\ j \in ran => disk[j].state # "queued" \/ failures > 0
                    /\ j \in recovered => /\ crashes > 0 /\ Known(j) /\ ~Active(j)
                                          /\ rec[j].state = "cancelled" => j \notin ran \/ failures > 0

-----------------------------------------------------------------------------
(* What a step does to one job. *)

(* Only Spawn and the worker move a worker; nothing else touches what the   *)
(* worker holds or makes a record known.                                    *)
LEMMA OwnStep ==
    ASSUME TypeOK, LifeInv, [Next]_vars, ~Crash, ~Restart, NEW j \in Jobs
    PROVE  \/ Spawn(j) \/ WorkerStep(j) \/ WorkEnds(j) \/ Panic(j)
           \/ /\ pc'[j] = pc[j] /\ held'[j] = held[j] /\ verdict'[j] = verdict[j]
              /\ j \in terminalCh' <=> j \in terminalCh
              /\ j \in ran' <=> j \in ran
              /\ Known(j)' => Known(j)
<1> DEFINE Others == /\ pc'[j] = pc[j] /\ held'[j] = held[j] /\ verdict'[j] = verdict[j]
                     /\ j \in terminalCh' <=> j \in terminalCh
                     /\ j \in ran' <=> j \in ran
                     /\ Known(j)' => Known(j)
<1>1. ASSUME NEW i \in Jobs, i # j, Spawn(i) PROVE Others
  BY <1>1 DEF Spawn, Known, TypeOK
<1>2. ASSUME NEW i \in Jobs, i # j, WorkerStep(i) PROVE Others
  <2>1. CASE \/ AcquireSlot(i) \/ CancelledWhileQueued(i) \/ CheckContext(i) \/ SaveRunning(i)
             \/ DecideVerdict(i) \/ SaveTerminal(i) \/ CloseTerminalCh(i) \/ ReleaseSlot(i)
             \/ WorkerDone(i)
    BY <1>2, <2>1 DEF AcquireSlot, CancelledWhileQueued, CheckContext, SaveRunning, DecideVerdict,
       SaveTerminal, CloseTerminalCh, ReleaseSlot, WorkerDone, Goto, Known, manager, TypeOK
  <2>2. CASE markRunning(i) \/ markTerminalCause(i)
    BY <1>2, <2>2 DEF markRunning, markTerminalCause, Goto, Known, TypeOK
  <2> QED BY <1>2, <2>1, <2>2 DEF WorkerStep
<1>3. ASSUME NEW i \in Jobs, i # j, WorkEnds(i) \/ Panic(i) PROVE Others
  BY <1>3 DEF WorkEnds, Panic, Goto, Known, manager, TypeOK
<1>4. ASSUME NEW i \in Jobs, Progress(i) PROVE Others
  BY <1>4 DEF Progress, Known, manager, worker
<1>5. ASSUME NEW s \in Stoppers, NEW targets \in SUBSET Cancellable, NEW req \in {"user", "shutdown"},
             StampRequest(s, targets, req), worker' = worker, terminalCh' = terminalCh
      PROVE  Others
  <2>1. targets \in SUBSET Jobs /\ req \in Request /\ \A i \in targets : Known(i)
    BY Names DEF Cancellable, Active, TypeOK
  <2>2. Known(j)' <=> Known(j)
    BY <1>5, <2>1, StampRequestKeepsState
  <2> QED BY <1>5, <2>2 DEF worker
<1>6. ASSUME NEW u \in Users, CancelAll(u) \/ \E i \in Jobs : Cancel(u, i) PROVE Others
  <2>1. CASE CancelAll(u)
    BY <1>5, <2>1 DEF CancelAll, Stoppers
  <2>2. ASSUME NEW i \in Jobs, Cancel(u, i) PROVE Others
    <3>1. {i} \in SUBSET Cancellable /\ u \in Stoppers /\ StampRequest(u, {i}, "user")
      BY <2>2 DEF Cancel, Stoppers
    <3> QED BY <1>5, <2>2, <3>1 DEF Cancel
  <2> QED BY <1>6, <2>1, <2>2
<1>7. CASE ShutdownStops
  <2>1. "shutdown" \in Stoppers /\ Cancellable \in SUBSET Cancellable
    BY DEF Stoppers
  <2> QED BY <1>5, <1>7, <2>1 DEF ShutdownStops
<1>8. ASSUME NEW s \in Stoppers, SaveRequest(s) \/ CallCancelFunc(s) PROVE Others
  BY <1>8 DEF SaveRequest, CallCancelFunc, Known, manager, worker
<1>9. CASE \/ ShutdownCloses \/ CancelBase \/ ShutdownWaits \/ ShutdownFlushes \/ ShutdownAgain
           \/ UNCHANGED vars
  BY <1>9 DEF ShutdownCloses, CancelBase, ShutdownWaits, ShutdownFlushes, ShutdownAgain, Known,
     manager, worker, vars
<1> QED BY <1>1, <1>2, <1>3, <1>4, <1>6, <1>7, <1>8, <1>9 DEF Next

(* The file of a job changes by its Spawn, by the save of a copy that some  *)
(* goroutine holds, or by the flush of Shutdown.                            *)
LEMMA FileStep ==
    ASSUME TypeOK, [Next]_vars, ~Crash, ~Restart, NEW j \in Jobs
    PROVE  \/ disk'[j] = disk[j] /\ pending'[j] = pending[j]
           \/ Spawn(j)
           \/ \E copy \in Volatile(j) \cup {rec[j]} : Save(j, copy)
           \/ /\ disk'[j] = Newer(disk[j], pending[j])
              /\ pending'[j] = NoRecord
<1> DEFINE Goal == \/ disk'[j] = disk[j] /\ pending'[j] = pending[j]
                   \/ Spawn(j)
                   \/ \E copy \in Volatile(j) \cup {rec[j]} : Save(j, copy)
                   \/ /\ disk'[j] = Newer(disk[j], pending[j])
                      /\ pending'[j] = NoRecord
<1>1. ASSUME NEW i \in Jobs, NEW copy \in Volatile(i) \cup {rec[i]}, Save(i, copy) PROVE Goal
  BY <1>1, SaveValues
<1>2. ASSUME disk' = disk, pending' = pending PROVE Goal
  BY <1>2
<1>3. ASSUME NEW i \in Jobs, Spawn(i) PROVE Goal
  BY <1>3 DEF Spawn, TypeOK
<1>4. ASSUME NEW i \in Jobs, WorkerStep(i) PROVE Goal
  <2>1. CASE SaveRunning(i) \/ SaveTerminal(i)
    BY <1>1, <2>1 DEF SaveRunning, SaveTerminal, Volatile
  <2>2. CASE ~SaveRunning(i) /\ ~SaveTerminal(i)
    BY <1>2, <1>4, <2>2 DEF WorkerStep, AcquireSlot, CancelledWhileQueued, CheckContext, markRunning,
       DecideVerdict, markTerminalCause, CloseTerminalCh, ReleaseSlot, WorkerDone, file
  <2> QED BY <2>1, <2>2
<1>5. ASSUME NEW i \in Jobs, Progress(i) \/ WorkEnds(i) \/ Panic(i) PROVE Goal
  BY <1>1, <1>2, <1>5 DEF Progress, WorkEnds, Panic, file
<1>6. ASSUME NEW u \in Users, CancelAll(u) \/ \E i \in Jobs : Cancel(u, i) PROVE Goal
  <2>1. CASE CancelAll(u)
    BY <1>2, <2>1 DEF CancelAll, file
  <2>2. ASSUME NEW i \in Jobs, Cancel(u, i) PROVE Goal
    BY <1>2, <2>2 DEF Cancel, file
  <2> QED BY <1>6, <2>1, <2>2
<1>7. ASSUME NEW s \in Stoppers, SaveRequest(s) PROVE Goal
  <2>1. PICK c \in canceller[s].save : Save(c[1], c[2])
    BY <1>7 DEF SaveRequest
  <2>2. c[1] \in Jobs /\ c = <<c[1], c[2]>>
    BY DEF TypeOK, Call
  <2>3. c[2] \in Volatile(c[1])
    BY <2>2, SavesMember DEF Volatile
  <2> QED BY <1>1, <2>1, <2>2, <2>3
<1>8. ASSUME NEW s \in Stoppers, CallCancelFunc(s) PROVE Goal
  BY <1>2, <1>8 DEF CallCancelFunc, file
<1>9. CASE \/ ShutdownCloses \/ ShutdownStops \/ CancelBase \/ ShutdownWaits \/ ShutdownAgain
           \/ UNCHANGED vars
  BY <1>2, <1>9 DEF ShutdownCloses, ShutdownStops, CancelBase, ShutdownWaits, ShutdownAgain,
     file, vars
<1>10. CASE ShutdownFlushes
  BY <1>10 DEF ShutdownFlushes
<1> QED BY <1>3, <1>4, <1>5, <1>6, <1>7, <1>8, <1>9, <1>10 DEF Next

(* A refused write is counted for good. *)
LEMMA FailuresGrow ==
    ASSUME TypeOK, [Next]_vars
    PROVE  failures' >= failures
<1>0. failures \in Nat
  BY ManagerAssumption DEF TypeOK
<1>1. ASSUME NEW j, NEW copy, Save(j, copy) PROVE failures' >= failures
  BY <1>0, <1>1 DEF Save
<1>2. ASSUME failures' = failures PROVE failures' >= failures
  BY <1>0, <1>2
<1>3. ASSUME NEW j \in Jobs, Spawn(j) \/ Progress(j) \/ WorkEnds(j) \/ Panic(j)
      PROVE  failures' >= failures
  BY <1>0, <1>1, <1>3 DEF Spawn, Progress, WorkEnds, Panic, file
<1>4. ASSUME NEW j \in Jobs, WorkerStep(j) PROVE failures' >= failures
  BY <1>1, <1>2, <1>4 DEF WorkerStep, AcquireSlot, CancelledWhileQueued, CheckContext, markRunning,
     SaveRunning, DecideVerdict, markTerminalCause, SaveTerminal, CloseTerminalCh, ReleaseSlot,
     WorkerDone, file
<1>5. ASSUME NEW u \in Users, CancelAll(u) \/ \E j \in Jobs : Cancel(u, j)
      PROVE  failures' >= failures
  <2>1. CASE CancelAll(u)
    BY <1>2, <2>1 DEF CancelAll, file
  <2>2. ASSUME NEW j \in Jobs, Cancel(u, j) PROVE failures' >= failures
    BY <1>2, <2>2 DEF Cancel, file
  <2> QED BY <1>5, <2>1, <2>2
<1>6. ASSUME NEW s \in Stoppers, SaveRequest(s) \/ CallCancelFunc(s) PROVE failures' >= failures
  BY <1>1, <1>2, <1>6 DEF SaveRequest, CallCancelFunc, file
<1>7. CASE \/ ShutdownCloses \/ ShutdownStops \/ CancelBase \/ ShutdownWaits \/ ShutdownAgain
           \/ Crash \/ UNCHANGED vars
  BY <1>2, <1>7 DEF ShutdownCloses, ShutdownStops, CancelBase, ShutdownWaits, ShutdownAgain,
     Crash, file, vars
<1>8. CASE ShutdownFlushes
  <2>1. PICK refused \in SUBSET {j \in Jobs : pending[j] # NoRecord} :
           failures' = failures + Cardinality(refused)
    BY <1>8 DEF ShutdownFlushes
  <2> QED BY <1>0, <2>1, JobsCount
<1>9. CASE Restart
  <2>1. PICK unread \in SUBSET {j \in Jobs : disk[j] # NoRecord} :
           failures' = failures + Cardinality(unread)
    BY <1>9 DEF Restart
  <2> QED BY <1>0, <2>1, JobsCount
<1> QED BY <1>3, <1>4, <1>5, <1>6, <1>7, <1>8, <1>9 DEF Next

-----------------------------------------------------------------------------
(* The newest version of a record that is settled. *)

(* The newer of two copies is the newest one, when that is among them.      *)
LEMMA NewerNewest ==
    ASSUME NEW a \in Record, NEW b \in Record, NEW r \in {a, b}, Older(a, r), Older(b, r)
    PROVE  Newer(a, b) = r
BY DEF Newer, Older, Record

(* A save does not lose the newest version: it is in the file, or retained  *)
(* because the write was refused.                                           *)
LEMMA SaveKeepsNewest ==
    ASSUME TypeOK, NEW j \in Jobs, NEW copy \in Record, Save(j, copy),
           NEW r \in {disk[j], pending[j], copy},
           Older(disk[j], r), Older(pending[j], r), Older(copy, r)
    PROVE  /\ r \in {disk'[j], pending'[j]}
           /\ failures' = failures => disk'[j] = r
<1> DEFINE p == Newer(pending[j], copy)
<1>0. disk[j] \in Record /\ pending[j] \in Record /\ failures \in Nat
  BY ManagerAssumption DEF TypeOK
<1>1. p \in {pending[j], copy} /\ p \in Record /\ Older(p, r)
  BY <1>0 DEF Newer
<1>2. r \in {pending[j], copy} => p = r
  BY <1>0, NewerNewest
<1>3. r \in {disk[j], p}
  BY <1>2
<1>4. Newer(disk[j], p) = r
  BY <1>0, <1>1, <1>3, NewerNewest
<1>5. CASE disk' = [disk EXCEPT ![j] = Newer(@, p)]
  BY <1>4, <1>5 DEF TypeOK
<1>6. CASE /\ p.version >= disk[j].version /\ failures' = failures + 1
           /\ pending' = [pending EXCEPT ![j] = p] /\ disk' = disk
  BY <1>0, <1>3, <1>6 DEF TypeOK
<1> QED BY <1>5, <1>6 DEF Save

(* A record that its worker has closed does not change any more, and a file *)
(* that has it keeps it.                                                    *)
LEMMA SettledStays ==
    ASSUME TypeOK, TypeOK', LifeInv, OrderInv, OrderInv', [Next]_vars, ~Crash, ~Restart,
           NEW j \in Jobs, Known(j), ~Active(j)
    PROVE  /\ rec'[j] = rec[j] /\ Known(j)'
           /\ disk[j] = rec[j] => disk'[j] = rec[j]
<1>1. rec'[j] = rec[j]
  BY RecordStep DEF SpawnChange, WorkerChange, StopperChange
<1>2. Known(j)'
  BY <1>1 DEF Known
<1>3. Older(disk[j], disk'[j]) /\ Older(disk'[j], rec[j])
  BY <1>1, <1>2, DiskAdvances DEF OrderInv, Copies
<1>4. disk[j].version \in Nat /\ disk'[j].version \in Nat
  BY DEF TypeOK, Record
<1> QED BY <1>1, <1>2, <1>3, <1>4 DEF Older

(* The settled version of a record stays in the file or retained.           *)
LEMMA NewestStays ==
    ASSUME TypeOK, TypeOK', LifeInv, OrderInv, OrderInv', [Next]_vars, ~Crash, ~Restart,
           NEW j \in Jobs, Known(j), ~Active(j), rec[j] \in {disk[j], pending[j]}
    PROVE  rec'[j] \in {disk'[j], pending'[j]}
<1>0. /\ rec[j] \in Record /\ disk[j] \in Record /\ pending[j] \in Record
      /\ \A a \in Copies(j) \cup {rec[j]} : a \in Record /\ Older(a, rec[j])
  BY CopiesType, OlderFacts DEF TypeOK, OrderInv
<1>1. rec'[j] = rec[j]
  BY SettledStays
<1>2. CASE disk'[j] = disk[j] /\ pending'[j] = pending[j]
  BY <1>1, <1>2
<1>3. CASE Spawn(j)
  BY <1>3 DEF Spawn
<1>4. ASSUME NEW copy \in Volatile(j) \cup {rec[j]}, Save(j, copy)
      PROVE  rec'[j] \in {disk'[j], pending'[j]}
  BY <1>0, <1>1, <1>4, SaveKeepsNewest DEF Copies, Volatile
<1>5. CASE disk'[j] = Newer(disk[j], pending[j])
  BY <1>0, <1>1, <1>5, NewerNewest DEF Copies, Volatile
<1> QED BY <1>2, <1>3, <1>4, <1>5, FileStep

(* Shutdown waits for the workers before it flushes.                        *)
LEMMA FlushStep ==
    ASSUME [Next]_vars, shutdown' \in {"flushing", "nil"}
    PROVE  shutdown' = shutdown \/ ShutdownWaits \/ ShutdownFlushes
<1>1. ASSUME NEW j \in Jobs, Spawn(j) \/ WorkerStep(j) \/ Progress(j) \/ WorkEnds(j) \/ Panic(j)
      PROVE  shutdown' = shutdown
  BY <1>1 DEF Spawn, WorkerStep, AcquireSlot, CancelledWhileQueued, CheckContext,
     markRunning, SaveRunning, DecideVerdict, markTerminalCause, SaveTerminal, CloseTerminalCh,
     ReleaseSlot, WorkerDone, Progress, WorkEnds, Panic, stoppers
<1>2. ASSUME NEW u \in Users, CancelAll(u) \/ \E j \in Jobs : Cancel(u, j)
      PROVE  shutdown' = shutdown
  <2>1. CASE CancelAll(u)
    BY <2>1 DEF CancelAll
  <2>2. ASSUME NEW j \in Jobs, Cancel(u, j) PROVE shutdown' = shutdown
    BY <2>2 DEF Cancel
  <2> QED BY <1>2, <2>1, <2>2
<1>3. ASSUME NEW s \in Stoppers, SaveRequest(s) \/ CallCancelFunc(s) PROVE shutdown' = shutdown
  BY <1>3 DEF SaveRequest, CallCancelFunc
<1>4. CASE ShutdownCloses \/ ShutdownStops \/ CancelBase \/ ShutdownAgain \/ Crash \/ Restart
  BY <1>4 DEF ShutdownCloses, ShutdownStops, CancelBase, ShutdownAgain, Crash, Restart, stoppers
<1>5. CASE UNCHANGED vars
  BY <1>5 DEF vars, stoppers
<1> QED BY <1>1, <1>2, <1>3, <1>4, <1>5 DEF Next

(* What the steps of a job's own goroutines do to where its newest version  *)
(* is.                                                                      *)
LEMMA NewestOwn ==
    ASSUME TypeOK, TypeOK', LifeInv, OrderInv, OrderInv', NewestInv, [Next]_vars, ~Crash, ~Restart,
           NEW j \in Jobs, Spawn(j) \/ WorkerStep(j) \/ WorkEnds(j) \/ Panic(j)
    PROVE  /\ pc'[j] # "none" => Known(j)'
           /\ pc'[j] = "saveTerminal" => held'[j] = rec'[j]
           /\ pc'[j] \in Ended => rec'[j] \in {disk'[j], pending'[j]}
           /\ Known(j)' => pc'[j] # "none"
           /\ j \in terminalCh' => pc'[j] \in {"release", "exit", "gone"}
<1>0. rec[j] \in Record /\ (pc[j] # "none" => Known(j)')
  <2>1. pc[j] # "none" => Known(j) /\ ~SpawnChange(j)
    BY DEF NewestInv, SpawnChange
  <2> QED BY <2>1, RecordAdvances DEF TypeOK
<1>1. CASE Spawn(j)
  <2>1. pc[j] = "none" /\ j \notin terminalCh
    BY <1>1 DEF Spawn, NewestInv
  <2> QED BY <1>1, <2>1 DEF Spawn, Known, Stamped, NoRecord, Ended, TypeOK
<1>2. CASE WorkEnds(j) \/ Panic(j)
  BY <1>0, <1>2 DEF WorkEnds, Panic, Goto, NewestInv, Ended, manager, TypeOK
<1>3. CASE WorkerStep(j)
  <2>1. CASE \/ AcquireSlot(j) \/ CancelledWhileQueued(j) \/ CheckContext(j) \/ markRunning(j)
             \/ SaveRunning(j) \/ DecideVerdict(j)
    BY <1>0, <2>1 DEF AcquireSlot, CancelledWhileQueued, CheckContext, markRunning, SaveRunning,
       DecideVerdict, Goto, NewestInv, Ended, manager, TypeOK
  <2>2. CASE markTerminalCause(j)
    BY <1>0, <2>2 DEF markTerminalCause, Goto, NewestInv, Ended, TypeOK
  <2>3. CASE SaveTerminal(j)
    <3>1. pc[j] = "saveTerminal" /\ pc'[j] = "close" /\ held[j] = rec[j] /\ Known(j)
      BY <2>3 DEF SaveTerminal, Goto, NewestInv, TypeOK
    <3>2. Save(j, rec[j]) /\ rec' = rec /\ terminalCh' = terminalCh
      BY <2>3, <3>1 DEF SaveTerminal, manager
    <3>3. /\ rec[j] \in Record /\ Older(rec[j], rec[j])
          /\ Older(disk[j], rec[j]) /\ Older(pending[j], rec[j])
      BY <3>1, OlderFacts DEF TypeOK, OrderInv, Copies, Volatile
    <3>4. rec'[j] \in {disk'[j], pending'[j]}
      BY <3>2, <3>3, SaveKeepsNewest
    <3> QED BY <1>0, <3>1, <3>2, <3>4 DEF NewestInv
  <2>4. CASE CloseTerminalCh(j) \/ ReleaseSlot(j) \/ WorkerDone(j)
    <3>1. pc[j] \in Ended /\ pc'[j] \in {"release", "exit", "gone"}
      BY <2>4 DEF CloseTerminalCh, ReleaseSlot, WorkerDone, Goto, Ended, TypeOK
    <3>2. Known(j) /\ ~Active(j) /\ rec[j] \in {disk[j], pending[j]}
      BY <3>1 DEF NewestInv, LifeInv, Ended, Unclosed
    <3>3. rec'[j] \in {disk'[j], pending'[j]}
      BY <3>2, NewestStays
    <3> QED BY <1>0, <3>1, <3>3 DEF Ended
  <2> QED BY <1>3, <2>1, <2>2, <2>3, <2>4 DEF WorkerStep
<1> QED BY <1>1, <1>2, <1>3

(* Every step knows where the newest version of a settled record is.        *)
LEMMA NewestNext ==
    TypeOK /\ TypeOK' /\ DownInv /\ LifeInv /\ StopInv /\ OrderInv /\ NewestInv /\ [Next]_vars
        => NewestInv'
<1> SUFFICES ASSUME TypeOK, TypeOK', DownInv, LifeInv, StopInv, OrderInv, NewestInv, [Next]_vars
             PROVE  NewestInv'
  OBVIOUS
<1>0. OrderInv'
  BY OrderNext
<1>1. CASE ~Crash /\ ~Restart
  <2> SUFFICES ASSUME NEW j \in Jobs
               PROVE  /\ pc'[j] # "none" => Known(j)'
                      /\ pc'[j] = "saveTerminal" => held'[j] = rec'[j]
                      /\ pc'[j] \in Ended => rec'[j] \in {disk'[j], pending'[j]}
                      /\ Known(j)' /\ pc'[j] = "none" => disk'[j] = rec'[j]
                      /\ j \in terminalCh' => pc'[j] \in {"release", "exit", "gone"}
                      /\ shutdown' \in {"flushing", "nil"} => ~Live(j)'
                      /\ shutdown' = "nil" /\ Known(j)' => disk'[j] = rec'[j]
    BY DEF NewestInv
  <2> DEFINE Own == Spawn(j) \/ WorkerStep(j) \/ WorkEnds(j) \/ Panic(j)
             Same == /\ pc'[j] = pc[j] /\ held'[j] = held[j]
                     /\ j \in terminalCh' <=> j \in terminalCh
                     /\ Known(j)' => Known(j)
  <2>1. Own \/ Same
    BY <1>1, OwnStep
  <2>2. Known(j) => Known(j)'
    BY <1>1, RecordAdvances DEF SpawnChange
  <2>3. pc[j] \notin Unclosed /\ Known(j) =>
           /\ rec'[j] = rec[j]
           /\ disk[j] = rec[j] => disk'[j] = rec'[j]
    BY <1>0, <1>1, SettledStays DEF LifeInv
  <2>4. /\ pc'[j] # "none" => Known(j)'
        /\ pc'[j] = "saveTerminal" => held'[j] = rec'[j]
        /\ j \in terminalCh' => pc'[j] \in {"release", "exit", "gone"}
    <3>1. CASE Own
      BY <1>0, <1>1, <3>1, NewestOwn
    <3>2. CASE Same
      BY <2>2, <2>3, <3>2 DEF NewestInv, Unclosed
    <3> QED BY <2>1, <3>1, <3>2
  <2>5. pc'[j] \in Ended => rec'[j] \in {disk'[j], pending'[j]}
    <3>1. CASE Own
      BY <1>0, <1>1, <3>1, NewestOwn
    <3>2. CASE Same
      <4>1. pc[j] \in Ended => Known(j) /\ ~Active(j) /\ rec[j] \in {disk[j], pending[j]}
        BY DEF NewestInv, LifeInv, Ended, Unclosed
      <4> QED BY <1>0, <1>1, <3>2, <4>1, NewestStays
    <3> QED BY <2>1, <3>1, <3>2
  <2>6. Known(j)' /\ pc'[j] = "none" => disk'[j] = rec'[j]
    <3>1. CASE Own
      BY <1>0, <1>1, <3>1, NewestOwn
    <3>2. CASE Same
      BY <2>3, <3>2 DEF NewestInv, Unclosed
    <3> QED BY <2>1, <3>1, <3>2
  <2>7. shutdown' \in {"flushing", "nil"} => ~Live(j)'
    <3>1. CASE shutdown' \in {"flushing", "nil"} /\ (ShutdownWaits \/ ShutdownFlushes)
      BY <3>1 DEF ShutdownWaits, ShutdownFlushes, worker, NewestInv, Live
    <3>2. CASE shutdown' \in {"flushing", "nil"} /\ shutdown' = shutdown
      <4>1. closed /\ ~Live(j)
        BY <3>2 DEF NewestInv, StopInv
      <4>2. ~Own
        BY <4>1 DEF Spawn, WorkerStep, AcquireSlot, CancelledWhileQueued, CheckContext, markRunning,
           SaveRunning, DecideVerdict, markTerminalCause, SaveTerminal, CloseTerminalCh,
           ReleaseSlot, WorkerDone, WorkEnds, Panic, Goto, Live
      <4> QED BY <2>1, <4>1, <4>2 DEF Live
    <3> QED BY <3>1, <3>2, FlushStep
  <2>8. shutdown' = "nil" /\ Known(j)' => disk'[j] = rec'[j]
    <3> SUFFICES ASSUME shutdown' = "nil", Known(j)' PROVE disk'[j] = rec'[j]
      OBVIOUS
    <3>1. closed /\ ~Live(j) /\ ((shutdown = "flushing" /\ ShutdownFlushes) \/ shutdown = "nil")
      BY FlushStep DEF ShutdownWaits, ShutdownFlushes, NewestInv, StopInv
    <3>2. Known(j)
      BY <1>1, <3>1, RecordAdvances DEF SpawnChange
    <3>3. pc[j] \in {"none", "gone"}
      BY <3>1 DEF Live
    <3>4. CASE shutdown = "flushing" /\ ShutdownFlushes
      <4>1. disk'[j] = Newer(disk[j], pending[j]) /\ rec'[j] = rec[j]
        BY <3>4 DEF ShutdownFlushes, manager
      <4>2. rec[j] \in {disk[j], pending[j]}
        BY <3>2, <3>3 DEF NewestInv, Ended
      <4>3. Older(disk[j], rec[j]) /\ Older(pending[j], rec[j])
        BY <3>2 DEF OrderInv, Copies, Volatile
      <4> QED BY <4>1, <4>2, <4>3, NewerNewest DEF TypeOK
    <3>5. CASE shutdown = "nil"
      BY <2>3, <3>2, <3>3, <3>5 DEF NewestInv, Unclosed
    <3> QED BY <3>1, <3>4, <3>5
  <2> QED BY <2>4, <2>5, <2>6, <2>7, <2>8
<1>2. CASE Crash
  BY <1>2 DEF Crash, NewestInv, Known, NoRecord, Live, Ended
<1>3. CASE Restart
  <2>1. \A j \in Jobs : pc'[j] = "none"
    BY <1>3 DEF Restart, DownInv, worker
  <2>2. terminalCh' = {} /\ shutdown' = "no"
    BY <1>3 DEF Restart, DownInv, stoppers
  <2>3. \A j \in Jobs : rec'[j] \in {disk'[j], NoRecord}
    BY <1>3 DEF Restart
  <2> QED BY <2>1, <2>2, <2>3 DEF NewestInv, Known, NoRecord, Live, Ended
<1> QED BY <1>1, <1>2, <1>3

(* Where the newest version of every settled record is, for every instance. *)
THEOREM NewestCorrect == Spec => []NewestInv
<1>1. Init => NewestInv
  BY DEF Init, NewestInv, Known, NoRecord, Live, Ended
<1> QED BY <1>1, NewestNext, TypeCorrect, DownCorrect, LifeCorrect, StopCorrect, OrderCorrect, PTL
        DEF Spec

-----------------------------------------------------------------------------
(* The request of a stop is on disk before the context is cancelled. *)

(* A write that is not refused leaves nothing behind, and the file is no    *)
(* older than the copy.                                                     *)
LEMMA SaveWritten ==
    ASSUME TypeOK, NEW j \in Jobs, NEW copy \in Record, Save(j, copy), failures' = failures,
           pending[j] = NoRecord, Comparable(disk[j], copy)
    PROVE  pending'[j] = NoRecord /\ Older(copy, disk'[j])
<1>0. /\ disk[j] \in Record /\ failures \in Nat
      /\ disk[j].version \in Nat /\ copy.version \in Nat /\ NoRecord.version = 0
  BY ManagerAssumption DEF TypeOK, Record, NoRecord
<1>1. disk' = [disk EXCEPT ![j] = Newer(@, Newer(pending[j], copy))]
      /\ pending' = [pending EXCEPT ![j] = NoRecord]
  BY <1>0 DEF Save
<1>2. Newer(pending[j], copy) = copy
  BY <1>0 DEF Newer
<1>3. disk'[j] = IF disk[j].version > copy.version THEN disk[j] ELSE copy
  BY <1>1, <1>2 DEF Newer, TypeOK
<1>4. Older(copy, copy)
  BY OlderFacts
<1>5. disk[j].version > copy.version => Older(copy, disk[j])
  BY <1>0 DEF Comparable, Older
<1> QED BY <1>1, <1>3, <1>4, <1>5 DEF TypeOK

(* A call of Cancel is stamped, saves a copy or cancels a context, and only *)
(* a call cancels one.                                                      *)
LEMMA CallStep ==
    ASSUME TypeOK, [Next]_vars, ~Crash, ~Restart
    PROVE  /\ \A s \in Stoppers :
                 \/ canceller'[s] = canceller[s]
                 \/ SaveRequest(s) \/ CallCancelFunc(s)
                 \/ \E targets \in SUBSET Cancellable, req \in {"user", "shutdown"} :
                       StampRequest(s, targets, req)
           /\ ctxDone' = ctxDone \/ \E s \in Stoppers : CallCancelFunc(s)
<1> DEFINE Goal == /\ \A s \in Stoppers :
                         \/ canceller'[s] = canceller[s]
                         \/ SaveRequest(s) \/ CallCancelFunc(s)
                         \/ \E targets \in SUBSET Cancellable, req \in {"user", "shutdown"} :
                               StampRequest(s, targets, req)
                   /\ ctxDone' = ctxDone \/ \E s \in Stoppers : CallCancelFunc(s)
<1>1. ASSUME NEW j \in Jobs, Spawn(j) \/ WorkerStep(j) \/ Progress(j) \/ WorkEnds(j) \/ Panic(j)
      PROVE  Goal
  BY <1>1 DEF Spawn, WorkerStep, AcquireSlot, CancelledWhileQueued, CheckContext,
     markRunning, SaveRunning, DecideVerdict, markTerminalCause, SaveTerminal, CloseTerminalCh,
     ReleaseSlot, WorkerDone, Progress, WorkEnds, Panic, stoppers, contexts
<1>2. ASSUME NEW s \in Stoppers, NEW targets \in SUBSET Cancellable, NEW req \in {"user", "shutdown"},
             StampRequest(s, targets, req), ctxDone' = ctxDone
      PROVE  Goal
  <2>1. \A t \in Stoppers \ {s} : canceller'[t] = canceller[t]
    BY <1>2 DEF StampRequest, TypeOK
  <2> QED BY <1>2, <2>1
<1>3. ASSUME NEW u \in Users, CancelAll(u) \/ \E j \in Jobs : Cancel(u, j) PROVE Goal
  <2>1. CASE CancelAll(u)
    BY <1>2, <2>1 DEF CancelAll, Stoppers, contexts
  <2>2. ASSUME NEW j \in Jobs, Cancel(u, j) PROVE Goal
    <3>1. {j} \in SUBSET Cancellable /\ u \in Stoppers /\ StampRequest(u, {j}, "user")
      BY <2>2 DEF Cancel, Stoppers
    <3> QED BY <1>2, <2>2, <3>1 DEF Cancel, contexts
  <2> QED BY <1>3, <2>1, <2>2
<1>4. CASE ShutdownStops
  <2>1. "shutdown" \in Stoppers /\ Cancellable \in SUBSET Cancellable
    BY DEF Stoppers
  <2> QED BY <1>2, <1>4, <2>1 DEF ShutdownStops, contexts
<1>5. ASSUME NEW s \in Stoppers, SaveRequest(s) \/ CallCancelFunc(s) PROVE Goal
  <2>1. \A t \in Stoppers \ {s} : canceller'[t] = canceller[t]
    BY <1>5 DEF SaveRequest, CallCancelFunc, TypeOK
  <2> QED BY <1>5, <2>1 DEF SaveRequest, contexts
<1>6. CASE \/ ShutdownCloses \/ CancelBase \/ ShutdownWaits \/ ShutdownFlushes \/ ShutdownAgain
           \/ UNCHANGED vars
  BY <1>6 DEF ShutdownCloses, CancelBase, ShutdownWaits, ShutdownFlushes, ShutdownAgain,
     stoppers, contexts, vars
<1> QED BY <1>1, <1>3, <1>4, <1>5, <1>6 DEF Next

(* Every step keeps a stop on disk, or on its way there, before its cancel. *)
LEMMA StampNext ==
    TypeOK /\ TypeOK' /\ DownInv /\ LifeInv /\ OrderInv /\ StampInv /\ [Next]_vars => StampInv'
<1> SUFFICES ASSUME TypeOK, TypeOK', DownInv, LifeInv, OrderInv, StampInv, [Next]_vars, failures' = 0,
                    NEW j \in Jobs
             PROVE  /\ pending'[j] = NoRecord
                    /\ j \in ctxDone' => Requested(disk'[j])
                    /\ \A s \in Stoppers : j \in canceller'[s].cancel =>
                          \/ Requested(disk'[j])
                          \/ \E c \in canceller'[s].save : c[1] = j /\ Requested(c[2])
  BY DEF StampInv, Requested
<1>0. failures = 0
  BY FailuresGrow, ManagerAssumption DEF TypeOK
<1>1. CASE ~Crash /\ ~Restart
  <2>1. pending[j] = NoRecord /\ failures' = failures
    BY <1>0 DEF StampInv
  <2>2. \A copy \in Copies(j) \cup {rec[j]} : Comparable(disk[j], copy)
    <3>1. rec[j] \in Record /\ (Known(j) => Older(disk[j], rec[j]))
      BY DEF TypeOK, OrderInv, Copies
    <3>2. ~Known(j) => rec[j] = NoRecord /\ Older(NoRecord, disk[j])
      BY <3>1, OlderFacts DEF Known, OrderInv, Copies, Record, TypeOK
    <3> QED BY <3>1, <3>2 DEF OrderInv, Comparable, Copies
  <2>3. pending'[j] = NoRecord
    <3>1. ASSUME NEW copy \in Volatile(j) \cup {rec[j]}, Save(j, copy) PROVE pending'[j] = NoRecord
      <4>1. copy \in Record /\ Comparable(disk[j], copy)
        BY <2>2, CopiesType DEF Copies, TypeOK
      <4> QED BY <2>1, <3>1, <4>1, SaveWritten
    <3> QED BY <1>1, <2>1, <3>1, FileStep DEF Spawn
  <2>4. Requested(disk[j]) => Requested(disk'[j])
    BY <1>1, DiskAdvances DEF Older, Requested
  <2>5. ASSUME j \in ctxDone' PROVE Requested(disk'[j])
    <3>1. CASE j \in ctxDone
      BY <1>0, <2>4, <3>1 DEF StampInv
    <3>2. CASE j \notin ctxDone
      <4>1. PICK s \in Stoppers : CallCancelFunc(s)
        BY <1>1, <2>5, <3>2, CallStep
      <4>2. canceller[s].save = {} /\ j \in canceller[s].cancel
        BY <2>5, <3>2, <4>1 DEF CallCancelFunc
      <4> QED BY <1>0, <2>4, <4>2 DEF StampInv
    <3> QED BY <3>1, <3>2
  <2>6. ASSUME NEW s \in Stoppers, j \in canceller'[s].cancel
        PROVE  \/ Requested(disk'[j])
               \/ \E c \in canceller'[s].save : c[1] = j /\ Requested(c[2])
    <3>1. CASE canceller'[s] = canceller[s]
      BY <1>0, <2>4, <2>6, <3>1 DEF StampInv
    <3>2. CASE CallCancelFunc(s)
      <4>1. canceller'[s].save = canceller[s].save /\ canceller'[s].cancel \subseteq canceller[s].cancel
        BY <3>2 DEF CallCancelFunc, TypeOK, Call
      <4> QED BY <1>0, <2>4, <2>6, <4>1 DEF StampInv
    <3>3. CASE SaveRequest(s)
      <4>1. PICK c \in canceller[s].save :
               Save(c[1], c[2]) /\ canceller' = [canceller EXCEPT ![s].save = @ \ {c}]
        BY <3>3 DEF SaveRequest
      <4>2. canceller'[s].save = canceller[s].save \ {c} /\ canceller'[s].cancel = canceller[s].cancel
        BY <4>1 DEF TypeOK, Call
      <4>3. CASE c[1] = j /\ Requested(c[2])
        <5>1. c[2] \in Record /\ c = <<j, c[2]>>
          BY <4>3 DEF TypeOK, Call
        <5>2. c[2] \in Copies(j)
          BY <5>1, SavesMember DEF Copies, Volatile
        <5>3. Older(c[2], disk'[j])
          BY <2>1, <2>2, <4>1, <4>3, <5>1, <5>2, SaveWritten
        <5> QED BY <4>3, <5>3 DEF Older, Requested
      <4>4. CASE ~(c[1] = j /\ Requested(c[2]))
        BY <1>0, <2>4, <2>6, <4>2, <4>4 DEF StampInv
      <4> QED BY <4>3, <4>4
    <3>4. ASSUME NEW targets \in SUBSET Cancellable, NEW req \in {"user", "shutdown"},
                 StampRequest(s, targets, req)
          PROVE  \E c \in canceller'[s].save : c[1] = j /\ Requested(c[2])
      <4> DEFINE stamp(i) == Stamped([rec[i] EXCEPT !.request = req])
      <4>1. canceller'[s] = [save |-> {<<i, stamp(i)>> : i \in targets}, cancel |-> targets]
        BY <3>4 DEF StampRequest, TypeOK
      <4>2. j \in targets /\ <<j, stamp(j)>> \in canceller'[s].save
        BY <2>6, <4>1
      <4>3. stamp(j).request = req
        BY DEF Stamped, TypeOK, Record
      <4> QED BY <4>2, <4>3 DEF Requested
    <3> QED BY <1>1, <3>1, <3>2, <3>3, <3>4, CallStep
  <2> QED BY <2>3, <2>5, <2>6
<1>2. CASE Crash
  BY <1>2 DEF Crash, NoCall
<1>3. CASE Restart
  BY <1>3 DEF Restart, DownInv, NoCall, contexts, stoppers
<1> QED BY <1>1, <1>2, <1>3

(* Stops on disk before their contexts are cancelled, for every instance.   *)
THEOREM StampCorrect == Spec => []StampInv
<1>1. Init => StampInv
  BY DEF Init, StampInv, NoCall
<1> QED BY <1>1, StampNext, TypeCorrect, DownCorrect, LifeCorrect, OrderCorrect, PTL DEF Spec

(* What a stop or an end has claimed is on disk, or a write was refused and *)
(* somebody knows: a context is cancelled after the request is durable, a   *)
(* waiter is woken after the terminal record is, and a Shutdown that        *)
(* returns nil has lost nothing.                                            *)
THEOREM StopsStayKept == Spec => []StopsAreKept
<1>1. TypeOK /\ StampInv => StopIsDurable
  BY DEF TypeOK, StampInv, StopIsDurable, Requested
<1>2. TypeOK /\ LifeInv /\ NewestInv /\ StampInv => WakeAfterDurable
  <2> SUFFICES ASSUME TypeOK, LifeInv, NewestInv, StampInv, failures = 0, NEW j \in terminalCh
               PROVE  disk[j] = rec[j] /\ IsTerminal(disk[j])
    BY DEF WakeAfterDurable
  <2>1. j \in Jobs /\ pc[j] \in {"release", "exit", "gone"}
    BY DEF TypeOK, NewestInv
  <2>2. Known(j) /\ ~Active(j) /\ rec[j] \in {disk[j], pending[j]} /\ pending[j] = NoRecord
    BY <2>1 DEF NewestInv, LifeInv, StampInv, Ended, Unclosed
  <2> QED BY <2>2 DEF Active, Known, NoRecord
<1>3. NewestInv => NilShutdownLosesNothing
  BY DEF NewestInv, NilShutdownLosesNothing
<1> QED BY <1>1, <1>2, <1>3, TypeCorrect, LifeCorrect, NewestCorrect, StampCorrect, PTL
        DEF StopsAreKept

-----------------------------------------------------------------------------
(* Cancelled means that the stop was asked for, or that the agent never ran. *)

(* Only a crash or a start changes which records count as recovered.        *)
LEMMA RecoveredStep ==
    ASSUME [Next]_vars, ~Crash, ~Restart PROVE recovered' = recovered /\ crashes' = crashes
<1>1. ASSUME NEW j \in Jobs, Spawn(j) \/ WorkerStep(j) \/ Progress(j) \/ WorkEnds(j) \/ Panic(j)
      PROVE  recovered' = recovered /\ crashes' = crashes
  BY <1>1 DEF Spawn, WorkerStep, AcquireSlot, CancelledWhileQueued, CheckContext,
     markRunning, SaveRunning, DecideVerdict, markTerminalCause, SaveTerminal, CloseTerminalCh,
     ReleaseSlot, WorkerDone, Progress, WorkEnds, Panic, manager
<1>2. ASSUME NEW u \in Users, CancelAll(u) \/ \E j \in Jobs : Cancel(u, j)
      PROVE  recovered' = recovered /\ crashes' = crashes
  <2>1. CASE CancelAll(u)
    BY <2>1 DEF CancelAll
  <2>2. ASSUME NEW j \in Jobs, Cancel(u, j) PROVE recovered' = recovered /\ crashes' = crashes
    BY <2>2 DEF Cancel
  <2> QED BY <1>2, <2>1, <2>2
<1>3. ASSUME NEW s \in Stoppers, SaveRequest(s) \/ CallCancelFunc(s)
      PROVE  recovered' = recovered /\ crashes' = crashes
  BY <1>3 DEF SaveRequest, CallCancelFunc, manager
<1>4. CASE \/ ShutdownCloses \/ ShutdownStops \/ CancelBase \/ ShutdownWaits \/ ShutdownFlushes
           \/ ShutdownAgain \/ UNCHANGED vars
  BY <1>4 DEF ShutdownCloses, ShutdownStops, CancelBase, ShutdownWaits, ShutdownFlushes,
     ShutdownAgain, manager, vars
<1> QED BY <1>1, <1>2, <1>3, <1>4 DEF Next

(* An agent is started by the worker that has marked its record running.    *)
LEMMA RanStep ==
    ASSUME TypeOK, LifeInv, [Next]_vars, NEW j \in Jobs, j \in ran'
    PROVE  j \in ran \/ (SaveRunning(j) /\ Active(j) /\ rec'[j] = rec[j])
<1>1. CASE Crash \/ Restart
  BY <1>1 DEF Crash, Restart, worker
<1>2. CASE Spawn(j) \/ WorkEnds(j) \/ Panic(j)
  BY <1>2 DEF Spawn, WorkEnds, Panic
<1>3. CASE SaveRunning(j)
  BY <1>3 DEF SaveRunning, Goto, LifeInv, Unclosed, manager
<1>4. CASE WorkerStep(j) /\ ~SaveRunning(j)
  BY <1>4 DEF WorkerStep, AcquireSlot, CancelledWhileQueued, CheckContext, markRunning,
     DecideVerdict, markTerminalCause, SaveTerminal, CloseTerminalCh, ReleaseSlot, WorkerDone
<1> QED BY <1>1, <1>2, <1>3, <1>4, OwnStep

(* No copy of a version that has left the queue is followed by one that has *)
(* not, also among the copies of the next state.                            *)
LEMMA LeftStep ==
    ASSUME TypeOK, TypeOK', LifeInv, OrderInv, HistoryInv, [Next]_vars, ~Crash, ~Restart,
           NEW j \in Jobs
    PROVE  \A a, b \in Copies(j) \cup Fresh(j) : Left(a, b)
<1>0. /\ rec[j] \in Record /\ rec'[j] \in Record /\ rec[j].version \in Nat /\ rec'[j].version \in Nat
      /\ \A a \in Copies(j) \cup Fresh(j) : a.version \in Nat /\ (a.version = 0 => a = NoRecord)
      /\ NoRecord.version = 0 /\ NoRecord.state = "queued"
  <2>1. \A a \in Copies(j) \cup Fresh(j) : a \in Record
    BY CopiesType, Defaults DEF Fresh, TypeOK
  <2> QED BY <2>1, OrderedStep DEF Record, Fresh, NoRecord
<1>1. \A a \in Copies(j) \cup Fresh(j) : Left(a, NoRecord) /\ Left(NoRecord, a) /\ Left(a, a)
  BY <1>0 DEF Left
<1>2. \A a, b \in Copies(j) \cup {rec[j]} : Left(a, b)
  BY DEF HistoryInv
<1>3. CASE rec'[j] = rec[j]
  BY <1>1, <1>2, <1>3 DEF Fresh
<1>4. CASE SpawnChange(j)
  <2>1. Copies(j) \cup {rec[j]} \subseteq {NoRecord}
    <3>1. rec[j] = NoRecord /\ \A a \in Volatile(j) : a = NoRecord
      BY <1>0, <1>4 DEF SpawnChange, Known, OrderInv
    <3> QED BY <1>4, <3>1 DEF SpawnChange, Copies
  <2> QED BY <1>1, <2>1 DEF Fresh
<1>5. CASE WorkerChange(j) \/ StopperChange(j)
  <2>1. Known(j) /\ rec'[j].version = rec[j].version + 1
        /\ (rec[j].state # "queued" => rec'[j].state # "queued")
    <3>1. CASE WorkerChange(j)
      <4>1. verdict[j].state # "queued"
        BY DEF TypeOK, Verdict, Terminal
      <4> QED BY <1>0, <3>1, <4>1 DEF WorkerChange, Active, Stamped, Record
    <3>2. CASE StopperChange(j)
      BY <1>0, <3>2 DEF StopperChange, Active, Stamped, Record
    <3> QED BY <1>5, <3>1, <3>2
  <2>2. \A a \in Copies(j) \cup {rec[j]} : a.version <= rec[j].version
    BY <1>0, <2>1 DEF OrderInv, Older
  <2>3. \A a \in Copies(j) \cup {rec[j]} : Left(a, rec'[j]) /\ Left(rec'[j], a)
    <3> TAKE a \in Copies(j) \cup {rec[j]}
    <3>1. a.version \in Nat /\ a.version <= rec[j].version /\ Left(a, rec[j])
      BY <1>0, <1>2, <2>2 DEF Fresh
    <3> QED BY <1>0, <2>1, <3>1 DEF Left
  <2> QED BY <1>1, <1>2, <2>3 DEF Fresh
<1> QED BY <1>3, <1>4, <1>5, RecordStep

(* After a crash or a start only the file is left.                          *)
LEMMA OnlyTheFile ==
    ASSUME TypeOK, DownInv, Crash \/ Restart, NEW j \in Jobs
    PROVE  /\ Copies(j)' \cup {rec'[j]} \subseteq {disk'[j], NoRecord}
           /\ Crash => disk'[j] = disk[j] /\ rec'[j] = NoRecord
           /\ Restart => \/ disk'[j] = disk[j]
                         \/ ~IsTerminal(disk[j]) /\ disk[j] # NoRecord /\ disk'[j] = Reconciled(disk[j])
<1>1. SavesOf(j)' = {}
  BY DEF Crash, Restart, DownInv, stoppers, SavesOf, NoCall
<1>2. CASE Crash
  BY <1>1, <1>2 DEF Crash, Volatile, Copies, Restart
<1>3. CASE Restart
  <2>1. pending'[j] = NoRecord /\ held'[j] = NoRecord /\ rec'[j] \in {disk'[j], NoRecord}
    BY <1>3 DEF Restart, DownInv, worker
  <2>2. \/ disk'[j] = disk[j]
        \/ ~IsTerminal(disk[j]) /\ disk[j] # NoRecord /\ disk'[j] = Reconciled(disk[j])
    BY <1>3 DEF Restart
  <2> QED BY <1>1, <1>3, <2>1, <2>2 DEF Volatile, Copies, Crash, Restart
<1> QED BY <1>2, <1>3

(* Every step keeps the copies of a record a history that leaves the queue  *)
(* once.                                                                    *)
LEMMA HistoryNext ==
    TypeOK /\ TypeOK' /\ DownInv /\ LifeInv /\ OrderInv /\ OrderInv' /\ HistoryInv /\ [Next]_vars
        => HistoryInv'
<1> SUFFICES ASSUME TypeOK, TypeOK', DownInv, LifeInv, OrderInv, OrderInv', HistoryInv, [Next]_vars,
                    NEW j \in Jobs
             PROVE  \A a, b \in Copies(j)' \cup {rec'[j]} : Left(a, b)
  BY DEF HistoryInv, Left
<1>1. CASE ~Crash /\ ~Restart
  <2>1. Copies(j)' \cup {rec'[j]} \subseteq Copies(j) \cup Fresh(j)
    BY <1>1, CopyStep DEF NoNewCopy, Copies, Fresh
  <2> QED BY <1>1, <2>1, LeftStep
<1>2. CASE Crash \/ Restart
  <2>1. disk'[j].version \in Nat /\ (disk'[j].version = 0 => disk'[j] = NoRecord)
    BY DEF TypeOK, Record, OrderInv, Copies
  <2>2. NoRecord.version = 0 /\ NoRecord.state = "queued"
    BY DEF NoRecord
  <2> QED BY <1>2, <2>1, <2>2, OnlyTheFile DEF Left
<1> QED BY <1>1, <1>2

(* The copies of a record leave the queue once, for every instance.         *)
THEOREM HistoryCorrect == Spec => []HistoryInv
<1>1. Init => HistoryInv
  BY DEF Init, HistoryInv, Copies, Volatile, SavesOf, NoCall, Left, NoRecord
<1> QED BY <1>1, HistoryNext, TypeCorrect, DownCorrect, LifeCorrect, OrderCorrect, PTL DEF Spec

(* A worker decides that a job was cancelled only after the stop has been   *)
(* recorded.                                                                *)
LEMMA CancelVerdict ==
    ASSUME TypeOK, LifeInv, StopInv, [Next]_vars, ~Crash, ~Restart, NEW j \in Jobs,
           verdict'[j].state = "cancelled"
    PROVE  verdict'[j] = verdict[j] \/ (Requested(rec[j]) /\ rec'[j] = rec[j])
<1>1. CtxErr(j) /\ pc[j] \in Unclosed => Requested(rec[j])
  BY DEF LifeInv, StopInv, Stopped, CtxErr, Requested
<1>2. CASE Spawn(j) \/ WorkEnds(j)
  BY <1>2 DEF Spawn, WorkEnds
<1>3. CASE Panic(j)
  BY <1>3 DEF Panic, TypeOK
<1>4. CASE \/ AcquireSlot(j) \/ markRunning(j) \/ SaveRunning(j) \/ SaveTerminal(j)
           \/ CloseTerminalCh(j) \/ ReleaseSlot(j) \/ WorkerDone(j)
  BY <1>4 DEF AcquireSlot, markRunning, SaveRunning, SaveTerminal, CloseTerminalCh, ReleaseSlot,
     WorkerDone
<1>5. CASE CancelledWhileQueued(j) \/ CheckContext(j)
  BY <1>1, <1>5 DEF CancelledWhileQueued, CheckContext, Goto, Unclosed, manager
<1>6. CASE DecideVerdict(j)
  <2>1. verdict'[j] = IF CtxErr(j) /\ outcome[j] # "setupError" THEN classifyCancelled(j)
                      ELSE [state |-> IF outcome[j] = "done" THEN "completed" ELSE "failed",
                            cause |-> "none"]
    BY <1>6 DEF DecideVerdict, TypeOK
  <2>2. CtxErr(j) /\ pc[j] \in Unclosed /\ rec'[j] = rec[j]
    BY <1>6, <2>1 DEF DecideVerdict, Goto, Unclosed, manager
  <2> QED BY <1>1, <2>2
<1>7. CASE markTerminalCause(j)
  BY <1>7 DEF markTerminalCause, NoVerdict, TypeOK
<1> QED BY <1>2, <1>3, <1>4, <1>5, <1>6, <1>7, OwnStep DEF WorkerStep

(* Every step keeps what the file and the last start know of the agents.    *)
LEMMA RanNext ==
    TypeOK /\ TypeOK' /\ DownInv /\ LifeInv /\ OrderInv /\ OrderInv' /\ StampInv /\ HistoryInv
        /\ RanInv /\ [Next]_vars => RanInv'
<1> SUFFICES ASSUME TypeOK, TypeOK', DownInv, LifeInv, OrderInv, OrderInv', StampInv, HistoryInv,
                    RanInv, [Next]_vars, NEW j \in Jobs
             PROVE  /\ pc'[j] = "saveRunning" => held'[j].state = "running"
                    /\ j \in ran' => disk'[j].state # "queued" \/ failures' > 0
                    /\ j \in recovered' =>
                          /\ crashes' > 0 /\ Known(j)' /\ ~Active(j)'
                          /\ rec'[j].state = "cancelled" => j \notin ran' \/ failures' > 0
  BY DEF RanInv
<1>0. /\ failures \in Nat /\ failures' \in Nat /\ failures' >= failures
      /\ disk[j] \in Record /\ held[j] \in Record /\ rec[j] \in Record
  BY FailuresGrow, ManagerAssumption DEF TypeOK
<1>1. CASE ~Crash /\ ~Restart
  <2>1. ASSUME pc'[j] = "saveRunning" PROVE held'[j].state = "running"
    <3>1. CASE markRunning(j)
      BY <1>0, <3>1 DEF markRunning, Stamped, Record, TypeOK
    <3>2. CASE Spawn(j)
      BY <2>1, <3>2 DEF Spawn, TypeOK, RanInv
    <3>3. CASE (WorkerStep(j) /\ ~markRunning(j)) \/ WorkEnds(j) \/ Panic(j)
      BY <2>1, <3>3 DEF WorkerStep, WorkEnds, Panic, AcquireSlot, CancelledWhileQueued,
         CheckContext, SaveRunning, DecideVerdict, markTerminalCause, SaveTerminal,
         CloseTerminalCh, ReleaseSlot, WorkerDone, Goto, TypeOK
    <3> QED BY <1>1, <2>1, <3>1, <3>2, <3>3, OwnStep DEF RanInv
  <2>2. \A a, b \in Copies(j) \cup Fresh(j) : Left(a, b)
    BY <1>1, LeftStep
  <2>3. disk[j] \in Copies(j) /\ held[j] \in Copies(j) /\ disk'[j] \in Copies(j) \cup Fresh(j)
    BY <1>1, CopyStep DEF NoNewCopy, Copies, Volatile
  <2>4. ASSUME j \in ran', failures' = 0 PROVE disk'[j].state # "queued"
    <3>0. failures = 0
      BY <1>0, <2>4
    <3>1. CASE j \in ran
      <4>1. disk[j].state # "queued" /\ disk[j].version <= disk'[j].version
        BY <1>1, <3>0, <3>1, DiskAdvances DEF RanInv, Older
      <4> QED BY <2>2, <2>3, <4>1 DEF Left
    <3>2. CASE SaveRunning(j)
      <4>1. Save(j, held[j]) /\ held[j].state = "running" /\ pending[j] = NoRecord
        BY <3>0, <3>2 DEF SaveRunning, Goto, RanInv, StampInv
      <4>2. Comparable(disk[j], held[j])
        BY <2>3 DEF OrderInv
      <4>3. held[j].version <= disk'[j].version
        BY <1>0, <2>4, <3>0, <4>1, <4>2, SaveWritten DEF Older
      <4> QED BY <2>2, <2>3, <4>1, <4>3 DEF Left
    <3> QED BY <2>4, <3>1, <3>2, RanStep
  <2>5. ASSUME j \in recovered'
        PROVE  /\ crashes' > 0 /\ Known(j)' /\ ~Active(j)'
               /\ rec'[j].state = "cancelled" => j \notin ran' \/ failures' > 0
    <3>1. /\ crashes' > 0 /\ Known(j) /\ ~Active(j)
          /\ rec[j].state = "cancelled" => j \notin ran \/ failures > 0
      BY <1>1, <2>5, RecoveredStep DEF RanInv
    <3>2. rec'[j] = rec[j] /\ Known(j)' /\ (j \in ran' => j \in ran)
      BY <1>1, <3>1, SettledStays, RanStep
    <3> QED BY <1>0, <3>1, <3>2 DEF Active
  <2> QED BY <1>0, <2>1, <2>4, <2>5
<1>2. CASE Crash
  BY <1>2 DEF Crash, RanInv
<1>3. CASE Restart
  <2>1. pc'[j] = "none" /\ ran' = ran /\ crashes' = crashes /\ crashes > 0
    BY <1>3 DEF Restart, DownInv, worker
  <2>2. \/ disk'[j] = disk[j]
        \/ ~IsTerminal(disk[j]) /\ disk[j] # NoRecord /\ disk'[j] = Reconciled(disk[j])
    BY <1>3, OnlyTheFile
  <2>3. disk[j].state = "queued" /\ j \in ran => failures' > 0
    BY <1>0 DEF RanInv
  <2>4. ASSUME ~IsTerminal(disk[j])
        PROVE  /\ IsTerminal(Reconciled(disk[j]))
               /\ Reconciled(disk[j]).version = disk[j].version
               /\ Reconciled(disk[j]).state = "cancelled" => disk[j].state = "queued"
    BY <1>0, <2>4 DEF Reconciled, IsTerminal, Terminal, State, Record
  <2>5. ASSUME j \in recovered'
        PROVE  ~IsTerminal(disk[j]) /\ disk[j] # NoRecord /\ rec'[j] = Reconciled(disk[j])
    BY <1>3, <2>5 DEF Restart
  <2>6. disk[j] # NoRecord => disk[j].version > 0
    BY <1>0 DEF OrderInv, Copies, Record
  <2>7. j \in ran' => disk'[j].state # "queued" \/ failures' > 0
    BY <2>1, <2>2, <2>3, <2>4 DEF IsTerminal, Terminal
  <2> QED BY <2>1, <2>3, <2>4, <2>5, <2>6, <2>7 DEF Known, Active
<1> QED BY <1>1, <1>2, <1>3

(* Every step keeps what is said of a cancelled job true.                   *)
LEMMA TruthNext ==
    TypeOK /\ TypeOK' /\ DownInv /\ LifeInv /\ StopInv /\ OrderInv /\ RanInv /\ TruthInv
        /\ [Next]_vars => TruthInv'
<1> SUFFICES ASSUME TypeOK, TypeOK', DownInv, LifeInv, StopInv, OrderInv, RanInv, TruthInv,
                    [Next]_vars, NEW j \in Jobs
             PROVE  /\ \A a \in Copies(j)' \cup {rec'[j]} :
                          a.state = "cancelled" => Requested(a) \/ j \notin ran' \/ failures' > 0
                    /\ verdict'[j].state = "cancelled" => Requested(rec'[j])
  BY DEF TruthInv, Truthful, Requested
<1>0. /\ failures \in Nat /\ failures' \in Nat /\ failures' >= failures
      /\ disk[j] \in Record /\ rec[j] \in Record
      /\ NoRecord.state = "queued" /\ ~Requested(NoRecord)
  BY FailuresGrow, ManagerAssumption DEF TypeOK, NoRecord, Requested
<1>1. CASE ~Crash /\ ~Restart
  <2>1. Copies(j)' \cup {rec'[j]} \subseteq Copies(j) \cup {rec[j], rec'[j], NoRecord}
    BY <1>1, CopyStep DEF NoNewCopy, Copies, Fresh
  <2>2. ASSUME NEW a \in Copies(j) \cup {rec[j]}, a.state = "cancelled"
        PROVE  Requested(a) \/ j \notin ran' \/ failures' > 0
    <3>1. Requested(a) \/ j \notin ran \/ failures > 0
      BY <2>2 DEF TruthInv, Truthful
    <3>2. ASSUME Active(j) PROVE FALSE
      <4>1. a = rec[j] \/ Older(a, rec[j])
        BY <2>2, <3>2 DEF OrderInv, Active
      <4> QED BY <2>2, <3>2, <4>1 DEF Older, Active, IsTerminal, Terminal
    <3> QED BY <1>0, <3>1, <3>2, RanStep
  <2>3. Requested(rec[j]) => Requested(rec'[j])
    <3>1. CASE SpawnChange(j)
      BY <1>0, <3>1 DEF SpawnChange, Known, OrderInv, Record
    <3>2. CASE ~SpawnChange(j)
      BY <1>1, <3>2, RecordAdvances DEF Older, Requested
    <3> QED BY <3>1, <3>2
  <2>4. ASSUME rec'[j] # rec[j], rec'[j].state = "cancelled" PROVE Requested(rec'[j])
    <3>1. CASE SpawnChange(j)
      BY <2>4, <3>1 DEF SpawnChange, Stamped, NoRecord
    <3>2. CASE StopperChange(j)
      BY <1>0, <2>4, <3>2 DEF StopperChange, Active, Stamped, Record, IsTerminal, Terminal
    <3>3. CASE WorkerChange(j)
      <4>1. verdict[j].state = "cancelled"
        BY <1>0, <2>4, <3>3 DEF WorkerChange, Stamped, Record
      <4> QED BY <2>3, <4>1 DEF TruthInv
    <3> QED BY <1>1, <2>4, <3>1, <3>2, <3>3, RecordStep
  <2>5. verdict'[j].state = "cancelled" => Requested(rec'[j])
    BY <1>1, <2>3, CancelVerdict DEF TruthInv
  <2> QED BY <1>0, <2>1, <2>2, <2>4, <2>5
<1>2. CASE Crash
  <2>1. verdict'[j].state # "cancelled" /\ ran' = ran
    BY <1>2 DEF Crash, NoVerdict
  <2>2. Copies(j)' \cup {rec'[j]} \subseteq {disk[j], NoRecord}
    BY <1>2, OnlyTheFile
  <2> QED BY <1>0, <2>1, <2>2 DEF TruthInv, Truthful, Copies
<1>3. CASE Restart
  <2>1. verdict'[j].state # "cancelled" /\ ran' = ran
    BY <1>0, <1>3 DEF Restart, DownInv, TruthInv, worker
  <2>2. /\ Copies(j)' \cup {rec'[j]} \subseteq {disk'[j], NoRecord}
        /\ \/ disk'[j] = disk[j]
           \/ ~IsTerminal(disk[j]) /\ disk'[j] = Reconciled(disk[j])
    BY <1>3, OnlyTheFile
  <2>3. ~IsTerminal(disk[j]) /\ Reconciled(disk[j]).state = "cancelled" => disk[j].state = "queued"
    BY <1>0 DEF Reconciled, IsTerminal, Terminal, State, Record
  <2>4. disk'[j].state = "cancelled" => Requested(disk'[j]) \/ j \notin ran \/ failures' > 0
    BY <1>0, <2>2, <2>3 DEF TruthInv, Truthful, RanInv, Copies
  <2> QED BY <1>0, <2>1, <2>2, <2>4
<1> QED BY <1>1, <1>2, <1>3

(* The file knows of the agents that ran, for every instance.               *)
THEOREM RanCorrect == Spec => []RanInv
<1>1. Init => RanInv
  BY DEF Init, RanInv
<1> QED BY <1>1, RanNext, TypeCorrect, DownCorrect, LifeCorrect, OrderCorrect, StampCorrect,
        HistoryCorrect, PTL DEF Spec

(* A cancelled record names who asked, or its agent never ran, or a write   *)
(* was refused, for every instance.                                         *)
THEOREM CancelledTruthful == Spec => [](TruthInv /\ CancelledMeansAskedOrNeverRan)
<1>1. Init => TruthInv
  BY DEF Init, TruthInv, Truthful, Copies, Volatile, SavesOf, NoCall, NoRecord, NoVerdict
<1>2. TruthInv => CancelledMeansAskedOrNeverRan
  BY DEF TruthInv, Truthful, Requested, CancelledMeansAskedOrNeverRan
<1> QED BY <1>1, <1>2, TruthNext, TypeCorrect, DownCorrect, LifeCorrect, StopCorrect, OrderCorrect,
        RanCorrect, PTL DEF Spec

(* What is said of a cancelled job is true, by its own worker and by the    *)
(* start that finds its record, as long as refused writes and crashes do    *)
(* not meet: a refused save of the running record followed by a crash       *)
(* leaves a queued record, which the next start closes as cancelled         *)
(* although its agent ran (the hazard at internal/jobs/manager.go:1373).    *)
THEOREM CancelledStaysTrue == Spec => []((failures = 0 \/ crashes = 0) => CancelledIsTrue)
<1>1. RanInv /\ TypeOK /\ (failures = 0 \/ crashes = 0) => RecoveredCancelledNeverRan
  BY DEF RanInv, TypeOK, RecoveredCancelledNeverRan
<1> QED BY <1>1, RanCorrect, CancelledTruthful, TypeCorrect, PTL DEF CancelledIsTrue
=============================================================================
