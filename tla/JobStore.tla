------------------------------ MODULE JobStore ------------------------------
(***************************************************************************)
(* The write path of internal/jobs.Manager: how snapshots of job records   *)
(* get from memory to <jobsDir>/<id>.json.                                 *)
(*                                                                         *)
(* A handler stamps a record under Manager.mu, copies it, releases the     *)
(* lock and only then saves the copy under Manager.persistMu.  Copies of   *)
(* one job are therefore in the hands of several goroutines at once and    *)
(* reach the store in any order.  The store drops copies that are older    *)
(* than what it wrote, coalesces progress updates behind a debounce timer, *)
(* keeps the newest copy whose write failed, and is flushed by Shutdown.   *)
(*                                                                         *)
(* One action is one critical section.  A record is reduced to the fields  *)
(* the store and the restart look at.  Records of other project roots and  *)
(* of newer formats are left alone by the code and are not in the model.   *)
(***************************************************************************)
EXTENDS Integers, Sequences, FiniteSets

CONSTANTS
    Jobs,         \* job identifiers; each is also the name of its worker
    Others,       \* goroutines other than workers: UI, tools, other agents
    NoJob,        \* no successor
    MaxSeq,       \* bound: snapshots stamped
    MaxFailures,  \* bound: writes the file system refuses
    MaxCrashes    \* bound: exits without Shutdown

ConstantsOK ==
    /\ MaxSeq \in Nat \ {0}
    /\ MaxFailures \in Nat
    /\ MaxCrashes \in Nat
    /\ NoJob \notin Jobs
    /\ Jobs \cap Others = {}

VARIABLES
    up,             \* the process is running
    seq,            \* Manager.seq
    jobs,           \* domain of Manager.jobs
    current,        \* current[j]: the record of job j in memory
    toSave,         \* toSave[t]: copies goroutine t still has to save, in order
    persistSeq,     \* Manager.persistSeq
    persistPending, \* Manager.persistPending, NoSnapshot when absent
    persistTimers,  \* domain of Manager.persistTimers
    callbacks,      \* callbacks[j]: debounce callbacks that will still run
    flushing,       \* jobs flushAllPendingSnapshots still has to write
    flushErr,       \* firstErr of the flush under way
    disk,           \* disk[j]: the record file of job j, NoSnapshot if none
    failures,       \* writes refused so far
    failed,         \* history: jobs whose latest write was refused
    crashes         \* exits without Shutdown so far

memory == <<seq, jobs, current>>
store  == <<persistSeq, persistPending, persistTimers, callbacks>>
flush  == <<flushing, flushErr>>
file   == <<disk, failures, failed>>
vars   == <<up, memory, toSave, store, flush, file, crashes>>

Threads == Jobs \cup Others

Snapshot == [seq: 0..MaxSeq, terminal: BOOLEAN, recovered: BOOLEAN,
             resubmittedAs: Jobs \cup {NoJob}]

NoSnapshot == [seq |-> 0, terminal |-> FALSE, recovered |-> FALSE,
               resubmittedAs |-> NoJob]

Copy == [job: Jobs, snap: Snapshot, immediate: BOOLEAN]

TypeOK ==
    /\ up \in BOOLEAN
    /\ seq \in 0..MaxSeq
    /\ jobs \subseteq Jobs
    /\ current \in [Jobs -> Snapshot]
    /\ toSave \in [Threads -> Seq(Copy)]
    /\ persistSeq \in [Jobs -> 0..MaxSeq]
    /\ persistPending \in [Jobs -> Snapshot]
    /\ persistTimers \subseteq Jobs
    /\ callbacks \in [Jobs -> Nat]
    /\ flushing \subseteq Jobs
    /\ flushErr \in BOOLEAN
    /\ disk \in [Jobs -> Snapshot]
    /\ failures \in 0..MaxFailures
    /\ failed \subseteq Jobs
    /\ crashes \in 0..MaxCrashes

Init ==
    /\ up = TRUE
    /\ seq = 0
    /\ jobs = {}
    /\ current = [j \in Jobs |-> NoSnapshot]
    /\ toSave = [t \in Threads |-> << >>]
    /\ persistSeq = [j \in Jobs |-> 0]
    /\ persistPending = [j \in Jobs |-> NoSnapshot]
    /\ persistTimers = {}
    /\ callbacks = [j \in Jobs |-> 0]
    /\ flushing = {}
    /\ flushErr = FALSE
    /\ disk = [j \in Jobs |-> NoSnapshot]
    /\ failures = 0
    /\ failed = {}
    /\ crashes = 0

-----------------------------------------------------------------------------
(* Writing under persistMu.  While a flush is under way it holds the lock. *)

PersistMuFree == up /\ flushing = {}

(* The file level: an existing record with a larger sequence number wins. *)
Newest(existing, p) == IF existing.seq > p.seq THEN existing ELSE p

Superseded(j, p) ==
    /\ p.seq < persistSeq[j]
    /\ persistPending' = [persistPending EXCEPT ![j] =
                            IF @.seq <= persistSeq[j] THEN NoSnapshot ELSE @]
    /\ UNCHANGED <<persistSeq, file>>

(* Mutant: a refused write advances the durable sequence number. *)
WriteRefusedAdvances(j, p) ==
    /\ p.seq >= persistSeq[j]
    /\ failures < MaxFailures
    /\ failures' = failures + 1
    /\ failed' = failed \cup {j}
    /\ persistSeq' = [persistSeq EXCEPT ![j] = p.seq]
    /\ UNCHANGED <<persistPending, disk>>

(* Mutant: a refused write is forgotten. *)
WriteRefusedForgets(j, p) ==
    /\ p.seq >= persistSeq[j]
    /\ failures < MaxFailures
    /\ failures' = failures + 1
    /\ failed' = failed \cup {j}
    /\ persistPending' = [persistPending EXCEPT ![j] = NoSnapshot]
    /\ UNCHANGED <<persistSeq, disk>>

WriteRefused(j, p) ==
    /\ p.seq >= persistSeq[j]
    /\ failures < MaxFailures
    /\ failures' = failures + 1
    /\ failed' = failed \cup {j}
    /\ persistPending' = [persistPending EXCEPT ![j] = IF p.seq >= @.seq THEN p ELSE @]
    /\ UNCHANGED <<persistSeq, disk>>

Written(j, p) ==
    /\ p.seq >= persistSeq[j]
    /\ disk' = [disk EXCEPT ![j] = Newest(@, p)]
    /\ persistSeq' = [persistSeq EXCEPT ![j] = p.seq]
    /\ persistPending' = [persistPending EXCEPT ![j] =
                            IF @.seq <= p.seq THEN NoSnapshot ELSE @]
    /\ failed' = failed \ {j}
    /\ UNCHANGED failures

(* Mutant: the last copy to arrive is written, whatever its number. *)
savePersistedSnapshotUnordered(j, p) ==
    /\ disk' = [disk EXCEPT ![j] = p]
    /\ persistSeq' = [persistSeq EXCEPT ![j] = p.seq]
    /\ UNCHANGED <<persistPending, failures, failed>>

savePersistedSnapshotLocked(j, p) ==
    Superseded(j, p) \/ WriteRefused(j, p) \/ Written(j, p)

(* Mutant: Stop is counted for jobs that have no timer. *)
StopAnyTimers(S) ==
    /\ persistTimers' = persistTimers \ S
    /\ \E stopped \in SUBSET S :
          callbacks' = [j \in Jobs |->
              IF j \in stopped THEN callbacks[j] - 1 ELSE callbacks[j]]

(* Mutant: the stopped timer stays registered, so no new one is started. *)
StopTimersKeepsHandle(S) ==
    /\ UNCHANGED persistTimers
    /\ \E stopped \in SUBSET (S \cap persistTimers) :
          callbacks' = [j \in Jobs |->
              IF j \in stopped THEN callbacks[j] - 1 ELSE callbacks[j]]

(* time.Timer.Stop: a callback that already fired cannot be recalled. *)
StopTimers(S) ==
    /\ persistTimers' = persistTimers \ S
    /\ \E stopped \in SUBSET (S \cap persistTimers) :
          callbacks' = [j \in Jobs |->
              IF j \in stopped THEN callbacks[j] - 1 ELSE callbacks[j]]

savePersistedSnapshotImmediate(j, p) ==
    /\ StopTimers({j})
    /\ savePersistedSnapshotLocked(j,
          IF persistPending[j].seq > p.seq THEN persistPending[j] ELSE p)

(* Mutant: coalescing keeps the first update of the interval, not the newest. *)
DebounceKeepsFirst(j, p) ==
    /\ persistPending' = [persistPending EXCEPT ![j] = IF @ = NoSnapshot THEN p ELSE @]
    /\ persistTimers' = persistTimers \cup {j}
    /\ callbacks' = IF j \in persistTimers THEN callbacks
                    ELSE [callbacks EXCEPT ![j] = @ + 1]
    /\ UNCHANGED <<persistSeq, file>>

DebounceSnapshot(j, p) ==
    /\ persistPending' = [persistPending EXCEPT ![j] = IF p.seq >= @.seq THEN p ELSE @]
    /\ persistTimers' = persistTimers \cup {j}
    /\ callbacks' = IF j \in persistTimers THEN callbacks
                    ELSE [callbacks EXCEPT ![j] = @ + 1]
    /\ UNCHANGED <<persistSeq, file>>

savePersistedSnapshot(c) ==
    IF c.immediate \/ c.snap.terminal
    THEN savePersistedSnapshotImmediate(c.job, c.snap)
    ELSE DebounceSnapshot(c.job, c.snap)

-----------------------------------------------------------------------------
(* Stamping under mu. *)

Idle(t) == toSave[t] = << >>

(* Goroutine t changes job j, stamps it and keeps a copy to save. *)
StampSnapshot(t, j, rec, immediate) ==
    /\ seq < MaxSeq
    /\ seq' = seq + 1
    /\ LET stamped == [rec EXCEPT !.seq = seq + 1] IN
          /\ current' = [current EXCEPT ![j] = stamped]
          /\ toSave' = [toSave EXCEPT ![t] =
                Append(@, [job |-> j, snap |-> stamped, immediate |-> immediate])]
    /\ UNCHANGED jobs

(* The first record is written before the job exists; mu is held throughout. *)
(* A refused write leaves no trace but the sequence number.                  *)
Spawn(j) ==
    /\ PersistMuFree
    /\ j \notin jobs /\ disk[j] = NoSnapshot
    /\ seq < MaxSeq
    /\ seq' = seq + 1
    /\ LET queued == [NoSnapshot EXCEPT !.seq = seq + 1] IN
          \/ /\ StopTimers({j})
             /\ Written(j, queued)
             /\ jobs' = jobs \cup {j}
             /\ current' = [current EXCEPT ![j] = queued]
          \/ /\ failures < MaxFailures
             /\ failures' = failures + 1
             /\ UNCHANGED <<jobs, current, store, disk, failed>>
    /\ UNCHANGED <<up, toSave, flush, crashes>>

(* updateActivity, applyUsage, setWorktree: debounced. *)
Progress(j) ==
    /\ up /\ Idle(j) /\ j \in jobs
    /\ ~current[j].terminal
    /\ StampSnapshot(j, j, current[j], FALSE)
    /\ UNCHANGED <<up, store, flush, file, crashes>>

(* markRunning by the worker, Cancel by another goroutine: immediate. *)
Transition(t, j) ==
    /\ up /\ Idle(t) /\ j \in jobs
    /\ t = j \/ t \in Others
    /\ ~current[j].terminal
    /\ StampSnapshot(t, j, current[j], TRUE)
    /\ UNCHANGED <<up, store, flush, file, crashes>>

(* markTerminalCause by the worker. *)
Finish(j) ==
    /\ up /\ Idle(j) /\ j \in jobs
    /\ ~current[j].terminal
    /\ StampSnapshot(j, j, [current[j] EXCEPT !.terminal = TRUE], TRUE)
    /\ UNCHANGED <<up, store, flush, file, crashes>>

(* A decision on the result of a terminal job: seen, ignored, consumed, ... *)
Decide(c, j) ==
    /\ up /\ Idle(c) /\ j \in jobs
    /\ current[j].terminal
    /\ StampSnapshot(c, j, current[j], FALSE)
    /\ UNCHANGED <<up, store, flush, file, crashes>>

(* The end of Resubmit: both records change, neither gets a new number. *)
LinkResubmission(c, old, new) ==
    /\ up /\ Idle(c)
    /\ {old, new} \subseteq jobs
    /\ current[old].terminal /\ current[old].recovered
    /\ current[old].resubmittedAs = NoJob
    /\ new # old /\ ~current[new].recovered
    /\ \A j \in Jobs : current[j].resubmittedAs # new
    /\ LET linked == [current[old] EXCEPT !.resubmittedAs = new] IN
          /\ current' = [current EXCEPT ![old] = linked]
          /\ toSave' = [toSave EXCEPT ![c] =
                <<[job |-> old, snap |-> linked, immediate |-> TRUE],
                  [job |-> new, snap |-> current[new], immediate |-> TRUE]>>]
    /\ UNCHANGED <<up, seq, jobs, store, flush, file, crashes>>

-----------------------------------------------------------------------------
(* Saving under persistMu. *)

SaveCopy(t) ==
    /\ PersistMuFree
    /\ ~Idle(t)
    /\ savePersistedSnapshot(Head(toSave[t]))
    /\ toSave' = [toSave EXCEPT ![t] = Tail(@)]
    /\ UNCHANGED <<up, memory, flush, crashes>>

(* Mutant: the callback leaves its handle behind. *)
flushPendingKeepsHandle(j) ==
    /\ PersistMuFree
    /\ callbacks[j] > 0
    /\ callbacks' = [callbacks EXCEPT ![j] = @ - 1]
    /\ \/ /\ persistPending[j] = NoSnapshot
          /\ UNCHANGED <<persistSeq, persistPending, file>>
       \/ /\ persistPending[j] # NoSnapshot
          /\ savePersistedSnapshotLocked(j, persistPending[j])
    /\ UNCHANGED <<up, memory, toSave, persistTimers, flush, crashes>>

(* The debounce callback: it flushes whatever is pending when it runs. *)
flushPendingSnapshot(j) ==
    /\ PersistMuFree
    /\ callbacks[j] > 0
    /\ callbacks' = [callbacks EXCEPT ![j] = @ - 1]
    /\ persistTimers' = persistTimers \ {j}
    /\ \/ /\ persistPending[j] = NoSnapshot
          /\ UNCHANGED <<persistSeq, persistPending, file>>
       \/ /\ persistPending[j] # NoSnapshot
          /\ savePersistedSnapshotLocked(j, persistPending[j])
    /\ UNCHANGED <<up, memory, toSave, flush, crashes>>

BeginFlush ==
    /\ PersistMuFree
    /\ flushing' = {j \in Jobs : persistPending[j] # NoSnapshot}
    /\ flushErr' = FALSE
    /\ StopTimers(Jobs)
    /\ UNCHANGED <<up, memory, toSave, persistSeq, persistPending, file, crashes>>

(* Mutant: the flush reports its last error instead of its first. *)
FlushJobLastError(j) ==
    /\ up /\ j \in flushing
    /\ flushing' = flushing \ {j}
    /\ savePersistedSnapshotLocked(j, persistPending[j])
    /\ flushErr' = (failures' > failures)
    /\ UNCHANGED <<up, memory, toSave, persistTimers, callbacks, crashes>>

FlushJob(j) ==
    /\ up /\ j \in flushing
    /\ flushing' = flushing \ {j}
    /\ savePersistedSnapshotLocked(j, persistPending[j])
    /\ flushErr' = (flushErr \/ failures' > failures)
    /\ UNCHANGED <<up, memory, toSave, persistTimers, callbacks, crashes>>

-----------------------------------------------------------------------------
(* The end of the process and the next start (NewManager). *)

Crash ==
    /\ up
    /\ crashes < MaxCrashes
    /\ crashes' = crashes + 1
    /\ up' = FALSE
    /\ seq' = 0
    /\ jobs' = {}
    /\ current' = [j \in Jobs |-> NoSnapshot]
    /\ toSave' = [t \in Threads |-> << >>]
    /\ persistSeq' = [j \in Jobs |-> 0]
    /\ persistPending' = [j \in Jobs |-> NoSnapshot]
    /\ persistTimers' = {}
    /\ callbacks' = [j \in Jobs |-> 0]
    /\ flushing' = {}
    /\ flushErr' = FALSE
    /\ failed' = {}
    /\ UNCHANGED <<disk, failures>>

OnDisk == {j \in Jobs : disk[j] # NoSnapshot}
ActiveOnDisk == {j \in OnDisk : ~disk[j].terminal}

Reconciled(rec) == [rec EXCEPT !.terminal = TRUE, !.recovered = TRUE]

(* A record left active is closed in place, at the sequence number it had.  *)
(* A record that cannot be read or closed is reported and not loaded.       *)
Restart ==
    /\ ~up
    /\ up' = TRUE
    /\ \E refused \in SUBSET OnDisk :
          /\ failures + Cardinality(refused) <= MaxFailures
          /\ failures' = failures + Cardinality(refused)
          /\ jobs' = OnDisk \ refused
          /\ disk' = [j \in Jobs |-> IF j \in ActiveOnDisk \ refused
                                     THEN Reconciled(disk[j]) ELSE disk[j]]
    /\ current' = [j \in Jobs |-> IF j \in jobs' THEN disk'[j] ELSE NoSnapshot]
    /\ persistSeq' = [j \in Jobs |-> current'[j].seq]
    /\ seq' \in {current'[j].seq : j \in Jobs} \cup {0}
    /\ \A j \in Jobs : current'[j].seq <= seq'
    /\ UNCHANGED <<toSave, persistPending, persistTimers, callbacks, flush, failed, crashes>>

-----------------------------------------------------------------------------
Next ==
    \/ \E j \in Jobs : \/ Spawn(j)
                       \/ Progress(j)
                       \/ Finish(j)
                       \/ flushPendingSnapshot(j)
                       \/ FlushJob(j)
    \/ \E t \in Threads, j \in Jobs : Transition(t, j)
    \/ \E c \in Others, j \in Jobs : Decide(c, j)
    \/ \E c \in Others, old, new \in Jobs : LinkResubmission(c, old, new)
    \/ \E t \in Threads : SaveCopy(t)
    \/ BeginFlush
    \/ Crash
    \/ Restart

(* Goroutines that hold a copy run on, timers fire, a flush ends. *)
Fairness ==
    /\ \A t \in Threads : WF_vars(SaveCopy(t))
    /\ \A j \in Jobs : WF_vars(flushPendingSnapshot(j)) /\ WF_vars(FlushJob(j))

Spec == Init /\ [][Next]_vars /\ Fairness

-----------------------------------------------------------------------------
(* Properties. *)

Copies(j) ==
    UNION {{toSave[t][i].snap : i \in {k \in DOMAIN toSave[t] : toSave[t][k].job = j}} :
              t \in Threads}

(* persistSeq caches what the file holds: for a loaded job it is exactly the *)
(* sequence number on disk, so the check of savePersistedSnapshotLocked      *)
(* drops a copy only when something newer really is durable.                 *)
PersistSeqIsOnDisk == \A j \in jobs : persistSeq[j] = disk[j].seq

(* While the process runs, the newest version of a job is on disk, held by a *)
(* goroutine that will save it, or retained as pending: a refused write and  *)
(* a debounced update are never forgotten in favour of something older.      *)
NothingStranded ==
    \A j \in jobs : \E s \in Copies(j) \cup {disk[j], persistPending[j]} :
        s.seq = current[j].seq

(* A pending update has a debounce callback that will write it, unless it is *)
(* pending because its write was refused (then Shutdown reports it) or a     *)
(* flush is writing it now.                                                  *)
PendingWillBeWritten ==
    \A j \in Jobs : persistPending[j] # NoSnapshot =>
        callbacks[j] > 0 \/ j \in failed \/ j \in flushing

(* All of it, in every state: what is not on disk is on its way there.       *)
NothingIsLost == TypeOK /\ NothingStranded /\ PendingWillBeWritten /\ PersistSeqIsOnDisk

(* A record on disk never goes back to an older version, and a job that is   *)
(* terminal on disk never becomes active again, whatever the order in which  *)
(* goroutines, timers and restarts save their copies.                        *)
DiskNeverGoesBack ==
    [][\A j \in Jobs : /\ disk'[j].seq >= disk[j].seq
                       /\ disk[j].terminal => disk'[j].terminal]_vars

(* When the flush of Shutdown ends without an error nothing is pending.      *)
FlushReportsLoss ==
    [][flushing # {} /\ flushing' = {} /\ up' /\ ~flushErr' =>
          \A j \in Jobs : persistPending'[j] = NoSnapshot]_vars

(* If the file system refuses nothing and the process keeps running, no job  *)
(* is for ever newer in memory than on disk: its last version, and whatever  *)
(* was not overtaken by a newer one, gets there.                             *)
EventuallyDurable ==
    []<>(~up \/ failures > 0 \/ \A j \in jobs : disk[j].seq = current[j].seq)

(* Resubmit "only once", and "a restart still shows the lineage"             *)
(* (internal/jobs/resubmit.go): a link that reached the disk stays there.    *)
LineageSurvives ==
    [][\A j \in Jobs : disk[j].resubmittedAs # NoJob =>
          disk'[j].resubmittedAs = disk[j].resubmittedAs]_vars

(* The promise of DurableRecord: versions newer than the file are            *)
(* outstanding, and are lost only by a crash.                                *)
VersionOf(s) == [seq |-> s.seq, terminal |-> s.terminal]

Outstanding(j) ==
    {VersionOf(s) : s \in {c \in Copies(j) \cup {persistPending[j]} : c.seq > disk[j].seq}}

Abstract == INSTANCE DurableRecord WITH
    Seqs <- 0..MaxSeq,
    durable <- [j \in Jobs |-> VersionOf(disk[j])],
    outstanding <- [j \in Jobs |-> Outstanding(j)]

RefinesDurableRecord == Abstract!Spec

(* All of it, over time: the file only gets newer, what it lacks is          *)
(* outstanding until a crash, and a flush without an error leaves nothing.   *)
RecordIsDurable == RefinesDurableRecord /\ DiskNeverGoesBack /\ FlushReportsLoss
=============================================================================
