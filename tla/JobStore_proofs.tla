--------------------------- MODULE JobStore_proofs ---------------------------
(***************************************************************************)
(* What the write path of JobStore keeps for any number of jobs,           *)
(* goroutines and versions: nothing newer than the file is lost but by a   *)
(* crash, the file never goes back, and the whole of it implements         *)
(* DurableRecord.                                                          *)
(***************************************************************************)
EXTENDS JobStore, FiniteSetTheorems, TLAPS

(* The constants of a run: an app run has a finite number of jobs. *)
StoreOK == ConstantsOK /\ IsFiniteSet(Jobs)

-----------------------------------------------------------------------------
(* The inductive invariant, in parts. *)

(* A registered debounce timer has a callback that has not run.              *)
TimerInv == \A j \in Jobs : j \in persistTimers => callbacks[j] > 0

(* A process that is down holds nothing.                                     *)
DownInv ==
    ~up => /\ jobs = {} /\ flushing = {}
           /\ \A t \in Threads : toSave[t] = << >>

Versions(j) == Copies(j) \cup {persistPending[j], disk[j], current[j]}

(* All versions of a job are snapshots of one history: none is newer than   *)
(* the record in memory, and no later one is active again.  persistSeq is   *)
(* the number in the file.                                                  *)
VersionOK(j) ==
    /\ j \in jobs => persistSeq[j] = disk[j].seq /\ disk[j].seq > 0
    /\ j \notin jobs => /\ Copies(j) = {}
                        /\ persistPending[j] = NoSnapshot /\ current[j] = NoSnapshot
    /\ \A s \in Copies(j) : s.seq > 0
    /\ \A s \in {persistPending[j], disk[j]} : s.seq = 0 => s = NoSnapshot
    /\ j \in jobs => \A s \in Versions(j) : s.seq <= current[j].seq
    /\ current[j].seq <= seq
    /\ \A a, b \in Versions(j) : a.seq <= b.seq /\ a.terminal => b.terminal

VersionInv == \A j \in Jobs : VersionOK(j)

(* A flush writes what is pending, and remembers what it could not write.    *)
FlushInv ==
    /\ \A j \in flushing : persistPending[j] # NoSnapshot
    /\ flushing # {} => \A j \in Jobs : persistPending[j] # NoSnapshot => j \in flushing \/ flushErr

-----------------------------------------------------------------------------
(* Type correctness. *)

(* The record nobody has written yet is a snapshot. *)
LEMMA Defaults == ASSUME StoreOK PROVE NoSnapshot \in Snapshot
BY DEF StoreOK, ConstantsOK, NoSnapshot, Snapshot

(* What the handlers change in a snapshot leaves it a snapshot. *)
LEMMA SnapshotUpdates ==
    ASSUME StoreOK, NEW r \in Snapshot
    PROVE  /\ \A n \in 0..MaxSeq : [r EXCEPT !.seq = n] \in Snapshot
           /\ [r EXCEPT !.terminal = TRUE] \in Snapshot
           /\ Reconciled(r) \in Snapshot
           /\ \A k \in Jobs : [r EXCEPT !.resubmittedAs = k] \in Snapshot
BY DEF Snapshot, Reconciled

(* A write, refused, dropped or done, keeps the store typed.                *)
LEMMA LockedType ==
    ASSUME StoreOK, TypeOK, NEW j \in Jobs, NEW p \in Snapshot, savePersistedSnapshotLocked(j, p)
    PROVE  /\ persistSeq' \in [Jobs -> 0..MaxSeq]
           /\ persistPending' \in [Jobs -> Snapshot]
           /\ disk' \in [Jobs -> Snapshot]
           /\ failures' \in 0..MaxFailures
           /\ failed' \subseteq Jobs
<1>0. NoSnapshot \in Snapshot /\ p.seq \in 0..MaxSeq /\ MaxFailures \in Nat
  BY Defaults DEF Snapshot, StoreOK, ConstantsOK
<1>1. CASE Superseded(j, p)
  BY <1>0, <1>1 DEF Superseded, file, TypeOK
<1>2. CASE WriteRefused(j, p)
  BY <1>0, <1>2 DEF WriteRefused, TypeOK
<1>3. CASE Written(j, p)
  BY <1>0, <1>3 DEF Written, Newest, TypeOK
<1> QED BY <1>1, <1>2, <1>3 DEF savePersistedSnapshotLocked

(* Stopping timers takes each callback back at most once.                   *)
LEMMA StopType ==
    ASSUME TypeOK, TimerInv, NEW S, StopTimers(S)
    PROVE  /\ persistTimers' \subseteq Jobs
           /\ callbacks' \in [Jobs -> Nat]
           /\ \A j \in Jobs : j \in persistTimers' => callbacks'[j] > 0
           /\ \A j \in Jobs \ S : callbacks'[j] = callbacks[j]
<1>1. PICK stopped \in SUBSET (S \cap persistTimers) :
         callbacks' = [j \in Jobs |-> IF j \in stopped THEN callbacks[j] - 1 ELSE callbacks[j]]
  BY DEF StopTimers
<1>2. \A j \in stopped : callbacks[j] > 0
  BY DEF TimerInv, TypeOK
<1> QED BY <1>1, <1>2 DEF StopTimers, TypeOK, TimerInv

(* Saving a copy, at once or debounced, keeps the store typed.              *)
LEMMA SaveType ==
    ASSUME StoreOK, TypeOK, TimerInv, NEW c \in Copy, savePersistedSnapshot(c)
    PROVE  /\ persistSeq' \in [Jobs -> 0..MaxSeq]
           /\ persistPending' \in [Jobs -> Snapshot]
           /\ disk' \in [Jobs -> Snapshot]
           /\ failures' \in 0..MaxFailures
           /\ failed' \subseteq Jobs
           /\ persistTimers' \subseteq Jobs
           /\ callbacks' \in [Jobs -> Nat]
           /\ \A j \in Jobs : j \in persistTimers' => callbacks'[j] > 0
<1>0. c.job \in Jobs /\ c.snap \in Snapshot /\ persistPending[c.job] \in Snapshot
  BY DEF Copy, TypeOK
<1>1. CASE savePersistedSnapshotImmediate(c.job, c.snap)
  <2>1. PICK p \in Snapshot : savePersistedSnapshotLocked(c.job, p)
    BY <1>0, <1>1 DEF savePersistedSnapshotImmediate
  <2>2. StopTimers({c.job})
    BY <1>1 DEF savePersistedSnapshotImmediate
  <2> QED BY <1>0, <2>1, <2>2, LockedType, StopType
<1>2. CASE DebounceSnapshot(c.job, c.snap)
  BY <1>0, <1>2 DEF DebounceSnapshot, file, TypeOK, TimerInv
<1> QED BY <1>1, <1>2 DEF savePersistedSnapshot

(* Stamping a version keeps memory and the copies to save typed.            *)
LEMMA StampType ==
    ASSUME StoreOK, TypeOK, NEW t \in Threads, NEW j \in Jobs, NEW r \in Snapshot,
           NEW immediate \in BOOLEAN, StampSnapshot(t, j, r, immediate)
    PROVE  /\ seq' \in 0..MaxSeq
           /\ jobs' \subseteq Jobs
           /\ current' \in [Jobs -> Snapshot]
           /\ toSave' \in [Threads -> Seq(Copy)]
<1> DEFINE stamped == [r EXCEPT !.seq = seq + 1]
           c == [job |-> j, snap |-> stamped, immediate |-> immediate]
<1>1. seq + 1 \in 0..MaxSeq /\ seq' = seq + 1 /\ jobs' = jobs
  BY DEF StampSnapshot, TypeOK, StoreOK, ConstantsOK
<1>2. stamped \in Snapshot
  BY <1>1, SnapshotUpdates
<1>3. /\ current' = [current EXCEPT ![j] = stamped]
      /\ toSave' = [toSave EXCEPT ![t] = Append(@, c)]
  BY DEF StampSnapshot
<1>4. c \in Copy
  BY <1>2 DEF Copy
<1> HIDE DEF stamped, c
<1>5. Append(toSave[t], c) \in Seq(Copy)
  BY <1>4 DEF TypeOK
<1> QED BY <1>1, <1>2, <1>3, <1>5 DEF TypeOK

(* The process starts well typed.                                           *)
LEMMA TypeInit == ASSUME StoreOK, Init PROVE TypeOK /\ TimerInv
<1>1. /\ NoSnapshot \in Snapshot /\ << >> \in Seq(Copy)
      /\ 0 \in 0..MaxSeq /\ 0 \in 0..MaxFailures /\ 0 \in 0..MaxCrashes
  BY Defaults DEF StoreOK, ConstantsOK
<1>2. toSave \in [Threads -> Seq(Copy)]
  BY <1>1 DEF Init
<1> QED BY <1>1, <1>2 DEF Init, TypeOK, TimerInv

(* Every step keeps the state well typed.                                   *)
LEMMA TypeNext == ASSUME StoreOK, TypeOK, TimerInv, [Next]_vars PROVE TypeOK' /\ TimerInv'
<1>0. NoSnapshot \in Snapshot /\ MaxSeq \in Nat /\ MaxFailures \in Nat /\ MaxCrashes \in Nat
  BY Defaults DEF StoreOK, ConstantsOK
<1>1. ASSUME NEW j \in Jobs, Spawn(j) PROVE TypeOK' /\ TimerInv'
  <2>1. seq + 1 \in 0..MaxSeq
    BY <1>0, <1>1 DEF Spawn, TypeOK
  <2>2. [NoSnapshot EXCEPT !.seq = seq + 1] \in Snapshot
    BY <1>0, <2>1, SnapshotUpdates
  <2>3. ASSUME StopTimers({j}), Written(j, [NoSnapshot EXCEPT !.seq = seq + 1])
        PROVE  /\ persistSeq' \in [Jobs -> 0..MaxSeq]
               /\ persistPending' \in [Jobs -> Snapshot]
               /\ disk' \in [Jobs -> Snapshot]
               /\ failures' \in 0..MaxFailures
               /\ failed' \subseteq Jobs
               /\ persistTimers' \subseteq Jobs
               /\ callbacks' \in [Jobs -> Nat]
               /\ \A i \in Jobs : i \in persistTimers' => callbacks'[i] > 0
    BY <2>2, <2>3, LockedType, StopType DEF savePersistedSnapshotLocked
  <2>4. CASE failures' = failures + 1 /\ UNCHANGED <<jobs, current, store, disk, failed>>
    BY <1>0, <1>1, <2>1, <2>4 DEF Spawn, TypeOK, TimerInv, store, flush
  <2>5. CASE /\ StopTimers({j})
             /\ Written(j, [NoSnapshot EXCEPT !.seq = seq + 1])
             /\ jobs' = jobs \cup {j}
             /\ current' = [current EXCEPT ![j] = [NoSnapshot EXCEPT !.seq = seq + 1]]
    <3>1. jobs' \subseteq Jobs /\ current' \in [Jobs -> Snapshot]
      BY <2>2, <2>5 DEF TypeOK
    <3>2. /\ seq' = seq + 1 /\ up' = up /\ toSave' = toSave /\ crashes' = crashes
          /\ flushing' = flushing /\ flushErr' = flushErr
      BY <1>1 DEF Spawn, flush
    <3> QED BY <2>1, <2>3, <2>5, <3>1, <3>2 DEF TypeOK, TimerInv
  <2> QED BY <1>1, <2>4, <2>5 DEF Spawn
<1>2. ASSUME NEW t \in Threads, NEW j \in Jobs, NEW r \in Snapshot, NEW immediate \in BOOLEAN,
             StampSnapshot(t, j, r, immediate), UNCHANGED <<up, store, flush, file, crashes>>
      PROVE  TypeOK' /\ TimerInv'
  BY <1>2, StampType DEF TypeOK, TimerInv, store, flush, file
<1>3. ASSUME NEW j \in Jobs, Progress(j) \/ Finish(j) PROVE TypeOK' /\ TimerInv'
  <2>1. j \in Threads /\ current[j] \in Snapshot /\ [current[j] EXCEPT !.terminal = TRUE] \in Snapshot
    BY SnapshotUpdates DEF Threads, TypeOK
  <2> QED BY <1>2, <1>3, <2>1 DEF Progress, Finish
<1>4. ASSUME NEW t \in Threads, NEW j \in Jobs, Transition(t, j) PROVE TypeOK' /\ TimerInv'
  BY <1>2, <1>4 DEF Transition, TypeOK
<1>5. ASSUME NEW c \in Others, NEW j \in Jobs, Decide(c, j) PROVE TypeOK' /\ TimerInv'
  BY <1>2, <1>5 DEF Decide, TypeOK, Threads
<1>6. ASSUME NEW c \in Others, NEW old \in Jobs, NEW new \in Jobs, LinkResubmission(c, old, new)
      PROVE  TypeOK' /\ TimerInv'
  <2> DEFINE linked == [current[old] EXCEPT !.resubmittedAs = new]
             a == [job |-> old, snap |-> linked, immediate |-> TRUE]
             b == [job |-> new, snap |-> current[new], immediate |-> TRUE]
  <2>1. linked \in Snapshot /\ current[new] \in Snapshot /\ c \in Threads
    BY SnapshotUpdates DEF TypeOK, Threads
  <2>2. a \in Copy /\ b \in Copy
    BY <2>1 DEF Copy
  <2>3. current' = [current EXCEPT ![old] = linked] /\ toSave' = [toSave EXCEPT ![c] = <<a, b>>]
    BY <1>6 DEF LinkResubmission
  <2> HIDE DEF linked, a, b
  <2>4. <<a, b>> \in Seq(Copy)
    BY <2>2
  <2> QED BY <1>6, <2>1, <2>3, <2>4 DEF LinkResubmission, TypeOK, TimerInv, store, flush, file
<1>7. ASSUME NEW t \in Threads, SaveCopy(t) PROVE TypeOK' /\ TimerInv'
  <2>1. toSave[t] \in Seq(Copy) /\ toSave[t] # << >>
    BY <1>7 DEF SaveCopy, Idle, TypeOK
  <2>2. Head(toSave[t]) \in Copy /\ Tail(toSave[t]) \in Seq(Copy)
    BY <2>1
  <2>3. toSave' \in [Threads -> Seq(Copy)]
    BY <1>7, <2>2 DEF SaveCopy, TypeOK
  <2> QED BY <1>7, <2>2, <2>3, SaveType DEF SaveCopy, TypeOK, TimerInv, memory, flush
<1>8. ASSUME NEW j \in Jobs, flushPendingSnapshot(j) PROVE TypeOK' /\ TimerInv'
  <2>1. /\ persistSeq' \in [Jobs -> 0..MaxSeq] /\ persistPending' \in [Jobs -> Snapshot]
        /\ disk' \in [Jobs -> Snapshot] /\ failures' \in 0..MaxFailures /\ failed' \subseteq Jobs
    <3>1. CASE savePersistedSnapshotLocked(j, persistPending[j])
      BY <3>1, LockedType DEF TypeOK
    <3> QED BY <1>8, <3>1 DEF flushPendingSnapshot, file, TypeOK
  <2>2. /\ callbacks[j] > 0 /\ callbacks' = [callbacks EXCEPT ![j] = @ - 1]
        /\ persistTimers' = persistTimers \ {j}
    BY <1>8 DEF flushPendingSnapshot
  <2>3. /\ callbacks' \in [Jobs -> Nat] /\ persistTimers' \subseteq Jobs
        /\ \A i \in Jobs : i \in persistTimers' => callbacks'[i] > 0
    BY <2>2 DEF TypeOK, TimerInv
  <2> QED BY <1>8, <2>1, <2>3 DEF flushPendingSnapshot, TypeOK, TimerInv, memory, flush
<1>9. ASSUME NEW j \in Jobs, FlushJob(j) PROVE TypeOK' /\ TimerInv'
  <2>1. persistPending[j] \in Snapshot /\ savePersistedSnapshotLocked(j, persistPending[j])
    BY <1>9 DEF FlushJob, TypeOK
  <2> QED BY <1>9, <2>1, LockedType DEF FlushJob, TypeOK, TimerInv, memory
<1>10. CASE BeginFlush
  BY <1>10, StopType DEF BeginFlush, TypeOK, TimerInv, memory, file
<1>11. CASE Crash
  <2>1. << >> \in Seq(Copy) /\ crashes' \in 0..MaxCrashes
    BY <1>0, <1>11 DEF Crash, TypeOK
  <2>2. toSave' \in [Threads -> Seq(Copy)]
    BY <1>11, <2>1 DEF Crash
  <2>3. /\ current' \in [Jobs -> Snapshot] /\ persistPending' \in [Jobs -> Snapshot]
        /\ persistSeq' \in [Jobs -> 0..MaxSeq] /\ callbacks' \in [Jobs -> Nat]
    BY <1>0, <1>11 DEF Crash
  <2>4. seq' \in 0..MaxSeq /\ disk' = disk /\ failures' = failures
    BY <1>0, <1>11 DEF Crash
  <2>5. /\ up' = FALSE /\ flushErr' = FALSE
        /\ jobs' = {} /\ persistTimers' = {} /\ flushing' = {} /\ failed' = {}
    BY <1>11 DEF Crash
  <2> QED BY <2>1, <2>2, <2>3, <2>4, <2>5 DEF TypeOK, TimerInv
<1>12. CASE Restart
  <2>1. PICK refused \in SUBSET OnDisk :
          /\ failures + Cardinality(refused) <= MaxFailures
          /\ failures' = failures + Cardinality(refused)
          /\ jobs' = OnDisk \ refused
          /\ disk' = [j \in Jobs |-> IF j \in ActiveOnDisk \ refused
                                     THEN Reconciled(disk[j]) ELSE disk[j]]
    BY <1>12 DEF Restart
  <2>2. Cardinality(refused) \in Nat
    BY FS_Subset, FS_CardinalityType DEF OnDisk, StoreOK
  <2>3. disk' \in [Jobs -> Snapshot] /\ failures' \in 0..MaxFailures /\ jobs' \subseteq Jobs
    <3>1. \A r \in Snapshot : Reconciled(r) \in Snapshot
      BY SnapshotUpdates
    <3>2. failures' \in 0..MaxFailures
      BY <1>0, <2>1, <2>2 DEF TypeOK
    <3>3. jobs' \subseteq Jobs
      BY <2>1 DEF OnDisk
    <3>4. disk' \in [Jobs -> Snapshot]
      BY <2>1, <3>1 DEF TypeOK
    <3> QED BY <3>2, <3>3, <3>4
  <2>4. current' \in [Jobs -> Snapshot] /\ persistSeq' = [j \in Jobs |-> current'[j].seq]
    BY <1>0, <1>12, <2>3 DEF Restart
  <2>5. persistSeq' \in [Jobs -> 0..MaxSeq] /\ seq' \in 0..MaxSeq
    BY <1>0, <1>12, <2>4 DEF Restart, Snapshot
  <2> QED BY <1>12, <2>3, <2>4, <2>5 DEF Restart, TypeOK, TimerInv, flush
<1>13. CASE UNCHANGED vars
  BY <1>13 DEF vars, memory, store, flush, file, TypeOK, TimerInv
<1> QED BY <1>1, <1>3, <1>4, <1>5, <1>6, <1>7, <1>8, <1>9, <1>10, <1>11, <1>12, <1>13 DEF Next

(* The types of the store, for every instance.                              *)
THEOREM StoreTypeCorrect == ASSUME StoreOK PROVE Spec => [](TypeOK /\ TimerInv)
<1>1. Init => TypeOK /\ TimerInv
  BY TypeInit
<1>2. TypeOK /\ TimerInv /\ [Next]_vars => TypeOK' /\ TimerInv'
  BY TypeNext
<1> QED BY <1>1, <1>2, PTL DEF Spec

-----------------------------------------------------------------------------
(* The copies in the hands of goroutines. *)

(* The copies of job j in one queue. *)
Held(q, j) == {q[k].snap : k \in {i \in DOMAIN q : q[i].job = j}}

(* The copies of a job, queue by queue. *)
LEMMA CopiesMember ==
    ASSUME NEW j, NEW s
    PROVE  s \in Copies(j) <=> \E t \in Threads : s \in Held(toSave[t], j)
BY DEF Copies, Held

(* The same, in the next state. *)
LEMMA CopiesMemberNext ==
    ASSUME NEW j, NEW s
    PROVE  s \in Copies(j)' <=> \E t \in Threads : s \in Held(toSave'[t], j)
BY DEF Copies, Held

(* A queue that grows holds one copy more. *)
LEMMA HeldAppend ==
    ASSUME NEW q \in Seq(Copy), NEW c \in Copy, NEW j
    PROVE  Held(Append(q, c), j) = Held(q, j) \cup (IF c.job = j THEN {c.snap} ELSE {})
<1> DEFINE r == Append(q, c)
<1>1. /\ DOMAIN q = 1..Len(q) /\ DOMAIN r = 1..Len(q) + 1 /\ Len(q) \in Nat
      /\ r[Len(q) + 1] = c /\ \A k \in 1..Len(q) : r[k] = q[k]
  OBVIOUS
<1> HIDE DEF r
<1>2. DOMAIN r = DOMAIN q \cup {Len(q) + 1}
  BY <1>1
<1>3. \A s : s \in Held(r, j) <=> s \in Held(q, j) \/ (c.job = j /\ s = c.snap)
  BY <1>1, <1>2 DEF Held
<1> QED BY <1>3 DEF r

(* A queue that loses its head loses at most that copy. *)
LEMMA HeldTail ==
    ASSUME NEW q \in Seq(Copy), q # << >>, NEW j
    PROVE  /\ Held(q, j) = Held(Tail(q), j) \cup (IF Head(q).job = j THEN {Head(q).snap} ELSE {})
           /\ Head(q) \in Copy
<1> DEFINE r == Tail(q)
<1>1. /\ DOMAIN q = 1..Len(q) /\ DOMAIN r = 1..Len(q) - 1 /\ Len(q) \in Nat \ {0}
      /\ Head(q) = q[1] /\ \A k \in 1..Len(q) - 1 : r[k] = q[k + 1]
  OBVIOUS
<1> HIDE DEF r
<1>2. \A k \in DOMAIN q : k = 1 \/ (k - 1 \in DOMAIN r /\ r[k - 1] = q[k])
  BY <1>1
<1>3. 1 \in DOMAIN q /\ \A k \in DOMAIN r : k + 1 \in DOMAIN q /\ q[k + 1] = r[k]
  BY <1>1
<1>4. \A s : s \in Held(q, j) <=> s \in Held(r, j) \/ (q[1].job = j /\ s = q[1].snap)
  BY <1>2, <1>3 DEF Held
<1>5. Head(q) \in Copy
  OBVIOUS
<1> QED BY <1>1, <1>4, <1>5 DEF r

(* Goroutine t replaces its queue: the copies of j in the other queues stay. *)
LEMMA CopiesStep ==
    ASSUME TypeOK, NEW t \in Threads, NEW q, toSave' = [toSave EXCEPT ![t] = q], NEW j
    PROVE  /\ Held(toSave[t], j) \subseteq Copies(j) /\ Held(q, j) \subseteq Copies(j)'
           /\ Copies(j)' \subseteq Copies(j) \cup Held(q, j)
           /\ Copies(j) \subseteq Copies(j)' \cup Held(toSave[t], j)
<1>1. toSave'[t] = q /\ \A u \in Threads : u # t => toSave'[u] = toSave[u]
  BY DEF TypeOK
<1>2. ASSUME NEW s \in Copies(j)' PROVE s \in Copies(j) \cup Held(q, j)
  BY <1>1, <1>2, CopiesMember, CopiesMemberNext
<1>3. ASSUME NEW s \in Copies(j) PROVE s \in Copies(j)' \cup Held(toSave[t], j)
  BY <1>1, <1>3, CopiesMember, CopiesMemberNext
<1>4. ASSUME NEW s \in Held(toSave[t], j) PROVE s \in Copies(j)
  BY <1>4, CopiesMember
<1>5. ASSUME NEW s \in Held(q, j) PROVE s \in Copies(j)'
  BY <1>1, <1>5, CopiesMemberNext
<1> QED BY <1>2, <1>3, <1>4, <1>5

(* Copies and the versions of a job are snapshots. *)
LEMMA VersionsType == ASSUME TypeOK, NEW j \in Jobs PROVE Versions(j) \subseteq Snapshot
<1>1. ASSUME NEW s \in Copies(j) PROVE s \in Snapshot
  <2>1. PICK t \in Threads : s \in Held(toSave[t], j)
    BY <1>1, CopiesMember
  <2>2. PICK k \in DOMAIN toSave[t] : s = toSave[t][k].snap
    BY <2>1 DEF Held
  <2>3. toSave[t][k] \in Copy
    BY <2>2 DEF TypeOK
  <2> QED BY <2>2, <2>3 DEF Copy
<1> QED BY <1>1 DEF Versions, TypeOK

-----------------------------------------------------------------------------
(* What a step does to the versions of a job. *)

SameStore(j) == disk'[j] = disk[j] /\ persistPending'[j] = persistPending[j] /\ persistSeq'[j] = persistSeq[j]

Same(j) == SameStore(j) /\ Copies(j)' = Copies(j) /\ current'[j] = current[j]

(* A version handed to the store is kept as pending, written, or dropped     *)
(* for what the file holds.                                                  *)
Retained(j, p) ==
    /\ persistPending'[j] = p
    /\ disk'[j] = disk[j] /\ persistSeq'[j] = persistSeq[j]

Saved(j, p) ==
    /\ persistPending'[j] = NoSnapshot
    /\ disk'[j] = p /\ persistSeq'[j] = p.seq /\ disk[j].seq <= p.seq

Dropped(j, p) ==
    /\ persistPending'[j] = NoSnapshot
    /\ disk'[j] = disk[j] /\ persistSeq'[j] = persistSeq[j] /\ p.seq < disk[j].seq

(* The store settles on the newer, p, of the pending version and a copy.     *)
Moved(j) ==
    /\ j \in jobs /\ current' = current /\ jobs' = jobs /\ seq' = seq
    /\ \E p, q \in Copies(j) \cup {persistPending[j]} :
          /\ q.seq <= p.seq /\ persistPending[j] \in {p, q}
          /\ Copies(j)' \subseteq Copies(j) /\ Copies(j) \subseteq Copies(j)' \cup {p, q}
          /\ Retained(j, p) \/ Saved(j, p) \/ Dropped(j, p)
    /\ \A i \in Jobs \ {j} : Same(i)

Spawned(j) ==
    /\ j \notin jobs /\ disk[j] = NoSnapshot /\ jobs' = jobs \cup {j}
    /\ seq' = seq + 1 /\ current'[j] = [NoSnapshot EXCEPT !.seq = seq + 1]
    /\ disk'[j] = current'[j] /\ persistPending'[j] = NoSnapshot /\ persistSeq'[j] = seq + 1
    /\ Copies(j)' = Copies(j)
    /\ \A i \in Jobs \ {j} : Same(i)

(* A new version in memory, and one more copy to save. *)
Stamped(j) ==
    /\ j \in jobs /\ jobs' = jobs
    /\ seq' = seq + 1 /\ current'[j].seq = seq + 1
    /\ current[j].terminal => current'[j].terminal
    /\ SameStore(j) /\ Copies(j)' = Copies(j) \cup {current'[j]}
    /\ \A i \in Jobs \ {j} : Same(i)

(* A version changes in memory under the number it has. *)
Linked ==
    /\ jobs' = jobs /\ seq' = seq
    /\ \A j \in Jobs : /\ SameStore(j) /\ VersionOf(current'[j]) = VersionOf(current[j])
                       /\ j \notin jobs => Same(j)
                       /\ Copies(j) \subseteq Copies(j)'
                       /\ Copies(j)' \subseteq Copies(j) \cup {current'[j]}

Quiet == jobs' = jobs /\ seq' \in {seq, seq + 1} /\ \A j \in Jobs : Same(j)

(* A step that leaves the queues alone leaves the copies alone. *)
LEMMA CopiesStay == ASSUME toSave' = toSave, NEW j PROVE Copies(j)' = Copies(j)
BY DEF Copies

(* The write under the lock settles on the version it is given. *)
LEMMA LockedMoves ==
    ASSUME StoreOK, TypeOK, VersionInv, NEW j \in Jobs, j \in jobs, NEW p \in Snapshot,
           persistPending[j].seq <= p.seq, savePersistedSnapshotLocked(j, p)
    PROVE  /\ \/ Retained(j, p) /\ failures' = failures + 1 /\ j \in failed'
              \/ (Saved(j, p) \/ Dropped(j, p)) /\ failures' = failures
           /\ \A i \in Jobs \ {j} : SameStore(i) /\ (i \in failed' <=> i \in failed)
<1>1. /\ persistSeq[j] = disk[j].seq /\ p.seq \in Nat /\ disk[j].seq \in Nat
      /\ persistPending[j].seq \in Nat
  BY DEF VersionInv, VersionOK, Snapshot, TypeOK
<1>2. CASE Superseded(j, p)
  BY <1>1, <1>2 DEF Superseded, Dropped, SameStore, file, TypeOK
<1>3. CASE WriteRefused(j, p)
  BY <1>1, <1>3 DEF WriteRefused, Retained, SameStore, TypeOK
<1>4. CASE Written(j, p)
  BY <1>1, <1>4 DEF Written, Newest, Saved, SameStore, TypeOK
<1> QED BY <1>2, <1>3, <1>4 DEF savePersistedSnapshotLocked

(* Saving a copy settles on the newer of it and the pending version. *)
LEMMA SaveMoves ==
    ASSUME StoreOK, TypeOK, TimerInv, VersionInv, NEW c \in Copy, c.job \in jobs,
           savePersistedSnapshot(c)
    PROVE  /\ \E p \in {c.snap, persistPending[c.job]} :
                 /\ c.snap.seq <= p.seq /\ persistPending[c.job].seq <= p.seq
                 /\ \/ Retained(c.job, p) /\ (callbacks'[c.job] > 0 \/ c.job \in failed')
                    \/ Saved(c.job, p)
                    \/ Dropped(c.job, p)
           /\ \A i \in Jobs \ {c.job} : /\ SameStore(i) /\ callbacks'[i] = callbacks[i]
                                        /\ i \in failed' <=> i \in failed
<1> DEFINE j == c.job
           p == IF persistPending[j].seq > c.snap.seq THEN persistPending[j] ELSE c.snap
<1>1. /\ j \in Jobs /\ c.snap \in Snapshot /\ persistPending[j] \in Snapshot
      /\ c.snap.seq \in Nat /\ persistPending[j].seq \in Nat
  BY DEF Copy, TypeOK, Snapshot
<1>2. /\ p \in {c.snap, persistPending[j]} /\ p \in Snapshot
      /\ c.snap.seq <= p.seq /\ persistPending[j].seq <= p.seq
  BY <1>1
<1>3. CASE savePersistedSnapshotImmediate(j, c.snap)
  <2>1. savePersistedSnapshotLocked(j, p) /\ StopTimers({j})
    BY <1>3 DEF savePersistedSnapshotImmediate
  <2> HIDE DEF p
  <2> QED BY <1>1, <1>2, <2>1, LockedMoves, StopType
<1>4. CASE DebounceSnapshot(j, c.snap)
  <2>1. Retained(j, p) /\ callbacks'[j] > 0
    BY <1>1, <1>4 DEF DebounceSnapshot, Retained, file, TypeOK, TimerInv
  <2>2. \A i \in Jobs \ {j} : SameStore(i) /\ callbacks'[i] = callbacks[i] /\ (i \in failed' <=> i \in failed)
    BY <1>1, <1>4 DEF DebounceSnapshot, SameStore, file, TypeOK
  <2> HIDE DEF p
  <2> QED BY <1>2, <2>1, <2>2
<1> QED BY <1>3, <1>4 DEF savePersistedSnapshot

(* A goroutine that saves a copy moves the job of that copy. *)
LEMMA SaveCopyMoves ==
    ASSUME StoreOK, TypeOK, TimerInv, VersionInv, NEW t \in Threads, SaveCopy(t)
    PROVE  \E j \in Jobs : Moved(j)
<1>0. toSave[t] \in Seq(Copy) /\ toSave[t] # << >> /\ toSave' = [toSave EXCEPT ![t] = Tail(@)]
  BY DEF SaveCopy, Idle, TypeOK
<1>1. PICK c \in Copy : c = Head(toSave[t])
  BY <1>0
<1> DEFINE j == c.job
<1>2. j \in Jobs /\ c.snap \in Held(toSave[t], j)
  BY <1>0, <1>1, HeldTail DEF Copy
<1>3. c.snap \in Copies(j) /\ j \in jobs
  BY <1>2, CopiesMember DEF VersionInv, VersionOK
<1>4. /\ Copies(j)' \subseteq Copies(j) /\ Copies(j) \subseteq Copies(j)' \cup {c.snap}
      /\ \A i \in Jobs \ {j} : Copies(i)' = Copies(i)
  <2>1. \A i \in Jobs : Held(toSave[t], i) =
           Held(Tail(toSave[t]), i) \cup (IF j = i THEN {c.snap} ELSE {})
    BY <1>0, <1>1, HeldTail
  <2>2. \A i \in Jobs :
           /\ Held(toSave[t], i) \subseteq Copies(i) /\ Held(Tail(toSave[t]), i) \subseteq Copies(i)'
           /\ Copies(i)' \subseteq Copies(i) \cup Held(Tail(toSave[t]), i)
           /\ Copies(i) \subseteq Copies(i)' \cup Held(toSave[t], i)
    BY <1>0, CopiesStep
  <2>3. Copies(j)' \subseteq Copies(j) /\ Copies(j) \subseteq Copies(j)' \cup {c.snap}
    BY <1>2, <2>1, <2>2
  <2>4. ASSUME NEW i \in Jobs \ {j} PROVE Copies(i)' = Copies(i)
    <3>1. Held(toSave[t], i) = Held(Tail(toSave[t]), i)
      BY <2>1, <2>4
    <3> QED BY <2>2, <3>1
  <2> QED BY <2>3, <2>4
<1>5. /\ \E p \in {c.snap, persistPending[j]} :
            /\ c.snap.seq <= p.seq /\ persistPending[j].seq <= p.seq
            /\ Retained(j, p) \/ Saved(j, p) \/ Dropped(j, p)
      /\ \A i \in Jobs \ {j} : SameStore(i)
  <2>1. savePersistedSnapshot(c)
    BY <1>1 DEF SaveCopy
  <2> QED BY <1>2, <1>3, <2>1, SaveMoves
<1>6. current' = current /\ jobs' = jobs /\ seq' = seq
  BY DEF SaveCopy, memory
<1>7. \E p, q \in Copies(j) \cup {persistPending[j]} :
          /\ q.seq <= p.seq /\ persistPending[j] \in {p, q}
          /\ Copies(j)' \subseteq Copies(j) /\ Copies(j) \subseteq Copies(j)' \cup {p, q}
          /\ Retained(j, p) \/ Saved(j, p) \/ Dropped(j, p)
  <2>1. PICK p \in {c.snap, persistPending[j]} :
            /\ c.snap.seq <= p.seq /\ persistPending[j].seq <= p.seq
            /\ Retained(j, p) \/ Saved(j, p) \/ Dropped(j, p)
    BY <1>5
  <2>2. CASE p = c.snap
    BY <1>3, <1>4, <2>1, <2>2
  <2>3. CASE p = persistPending[j]
    BY <1>3, <1>4, <2>1, <2>3
  <2> QED BY <2>1, <2>2, <2>3
<1>8. \A i \in Jobs \ {j} : Same(i)
  BY <1>4, <1>5, <1>6 DEF Same
<1>9. Moved(j)
  BY <1>2, <1>3, <1>6, <1>7, <1>8 DEF Moved
<1> QED BY <1>2, <1>9

(* The debounce callback and the flush move the job whose version is pending. *)
LEMMA FlushMoves ==
    ASSUME StoreOK, TypeOK, VersionInv, NEW j \in Jobs, persistPending[j] # NoSnapshot,
           savePersistedSnapshotLocked(j, persistPending[j]),
           UNCHANGED <<toSave, memory>>
    PROVE  Moved(j)
<1>1. j \in jobs /\ persistPending[j] \in Snapshot /\ persistPending[j].seq \in Nat
  BY DEF VersionInv, VersionOK, TypeOK, Snapshot
<1>2. /\ Retained(j, persistPending[j]) \/ Saved(j, persistPending[j]) \/ Dropped(j, persistPending[j])
      /\ \A i \in Jobs \ {j} : SameStore(i)
  BY <1>1, LockedMoves
<1>3. \A i \in Jobs : Copies(i)' = Copies(i)
  BY CopiesStay
<1> QED BY <1>1, <1>2, <1>3 DEF Moved, Same, memory

(* A goroutine that stamps a version queues a copy of it. *)
LEMMA StampMoves ==
    ASSUME StoreOK, TypeOK, NEW t \in Threads, NEW j \in Jobs, NEW r \in Snapshot,
           NEW immediate \in BOOLEAN, StampSnapshot(t, j, r, immediate),
           UNCHANGED <<up, store, flush, file, crashes>>, j \in jobs,
           current[j].terminal => r.terminal
    PROVE  Stamped(j)
<1> DEFINE stamped == [r EXCEPT !.seq = seq + 1]
           c == [job |-> j, snap |-> stamped, immediate |-> immediate]
<1>1. seq + 1 \in 0..MaxSeq /\ seq' = seq + 1 /\ jobs' = jobs
  BY DEF StampSnapshot, TypeOK, StoreOK, ConstantsOK
<1>2. stamped \in Snapshot /\ stamped.seq = seq + 1 /\ stamped.terminal = r.terminal
  BY <1>1, SnapshotUpdates DEF Snapshot
<1>3. /\ current' = [current EXCEPT ![j] = stamped]
      /\ toSave' = [toSave EXCEPT ![t] = Append(@, c)]
  BY DEF StampSnapshot
<1>4. c \in Copy /\ c.job = j /\ c.snap = stamped
  BY <1>2 DEF Copy
<1> HIDE DEF stamped, c
<1>5. ASSUME NEW i \in Jobs, NEW gain, gain = IF j = i THEN {stamped} ELSE {}
      PROVE  Copies(i)' = Copies(i) \cup gain
  <2>1. Held(Append(toSave[t], c), i) = Held(toSave[t], i) \cup gain
    BY <1>4, <1>5, HeldAppend DEF TypeOK
  <2>2. /\ Held(toSave[t], i) \subseteq Copies(i)
        /\ Held(Append(toSave[t], c), i) \subseteq Copies(i)'
        /\ Copies(i)' \subseteq Copies(i) \cup Held(Append(toSave[t], c), i)
        /\ Copies(i) \subseteq Copies(i)' \cup Held(toSave[t], i)
    BY <1>3, CopiesStep
  <2> QED BY <2>1, <2>2
<1>6. current'[j] = stamped /\ \A i \in Jobs \ {j} : current'[i] = current[i]
  BY <1>3 DEF TypeOK
<1>7. \A i \in Jobs : SameStore(i)
  BY DEF SameStore, store, file
<1>8. Copies(j)' = Copies(j) \cup {stamped}
  BY <1>5
<1>9. ASSUME NEW i \in Jobs \ {j} PROVE Same(i)
  <2>1. Copies(i)' = Copies(i) \cup {}
    BY <1>5
  <2> QED BY <1>6, <1>7, <2>1 DEF Same
<1> QED BY <1>1, <1>2, <1>6, <1>7, <1>8, <1>9 DEF Stamped

(* The first record of a job. *)
LEMMA SpawnMoves ==
    ASSUME StoreOK, TypeOK, VersionInv, NEW j \in Jobs, Spawn(j)
    PROVE  Spawned(j) \/ Quiet
<1> DEFINE queued == [NoSnapshot EXCEPT !.seq = seq + 1]
<1>1. /\ j \notin jobs /\ disk[j] = NoSnapshot /\ seq' = seq + 1
      /\ \A i \in Jobs : Copies(i)' = Copies(i)
  BY CopiesStay DEF Spawn
<1>2. queued.seq = seq + 1 /\ persistPending[j] = NoSnapshot /\ seq \in Nat /\ NoSnapshot.seq = 0
  BY <1>1 DEF VersionInv, VersionOK, NoSnapshot, TypeOK
<1>3. CASE Written(j, queued) /\ jobs' = jobs \cup {j} /\ current' = [current EXCEPT ![j] = queued]
  <2>1. /\ disk' = [disk EXCEPT ![j] = Newest(@, queued)]
        /\ persistSeq' = [persistSeq EXCEPT ![j] = queued.seq]
        /\ persistPending' = [persistPending EXCEPT ![j] = IF @.seq <= queued.seq THEN NoSnapshot ELSE @]
    BY <1>3 DEF Written
  <2> HIDE DEF queued
  <2>2. disk'[j] = queued /\ persistPending'[j] = NoSnapshot /\ persistSeq'[j] = seq + 1
    BY <1>1, <1>2, <2>1 DEF Newest, TypeOK
  <2>3. \A i \in Jobs \ {j} : Same(i)
    BY <1>1, <1>3, <2>1 DEF Same, SameStore, TypeOK
  <2>4. current'[j] = queued
    BY <1>3 DEF TypeOK
  <2> QED BY <1>1, <1>3, <2>2, <2>3, <2>4 DEF Spawned, queued
<1>4. CASE UNCHANGED <<jobs, current, store, disk, failed>>
  BY <1>1, <1>4 DEF Quiet, Same, SameStore, store
<1> QED BY <1>3, <1>4 DEF Spawn

(* The link of a resubmission changes two records and their copies to save. *)
LEMMA LinkMoves ==
    ASSUME StoreOK, TypeOK, NEW c \in Others, NEW old \in Jobs, NEW new \in Jobs,
           LinkResubmission(c, old, new)
    PROVE  Linked
<1> DEFINE linked == [current[old] EXCEPT !.resubmittedAs = new]
           a == [job |-> old, snap |-> linked, immediate |-> TRUE]
           b == [job |-> new, snap |-> current[new], immediate |-> TRUE]
<1>1. /\ linked \in Snapshot /\ current[new] \in Snapshot /\ c \in Threads
      /\ VersionOf(linked) = VersionOf(current[old])
  <2>1. linked \in Snapshot /\ current[new] \in Snapshot /\ c \in Threads
    BY SnapshotUpdates DEF TypeOK, Threads
  <2>2. linked.seq = current[old].seq /\ linked.terminal = current[old].terminal
    BY DEF TypeOK, Snapshot
  <2> QED BY <2>1, <2>2 DEF VersionOf
<1>2. a \in Copy /\ b \in Copy /\ a.job = old /\ a.snap = linked /\ b.job = new /\ b.snap = current[new]
  BY <1>1 DEF Copy
<1>3. /\ current' = [current EXCEPT ![old] = linked] /\ toSave' = [toSave EXCEPT ![c] = <<a, b>>]
      /\ toSave[c] = << >> /\ old # new /\ {old, new} \subseteq jobs /\ jobs' = jobs /\ seq' = seq
      /\ \A j \in Jobs : SameStore(j)
  BY DEF LinkResubmission, Idle, SameStore, store, file
<1> HIDE DEF linked, a, b
<1>4. /\ current'[old] = linked
      /\ \A j \in Jobs \ {old} : current'[j] = current[j]
  BY <1>3 DEF TypeOK
<1>5. ASSUME NEW j \in Jobs
      PROVE  /\ j \notin {old, new} => Copies(j)' = Copies(j)
             /\ Copies(j) \subseteq Copies(j)'
             /\ Copies(j)' \subseteq Copies(j) \cup {current'[j]}
  <2>1. Held(toSave[c], j) = {}
    BY <1>3 DEF Held
  <2>2. \A s \in Held(<<a, b>>, j) : j \in {old, new} /\ s = current'[j]
    BY <1>2, <1>3, <1>4 DEF Held
  <2>3. /\ Copies(j)' \subseteq Copies(j) \cup Held(<<a, b>>, j)
        /\ Copies(j) \subseteq Copies(j)' \cup Held(toSave[c], j)
    BY <1>1, <1>3, CopiesStep
  <2>4. Copies(j)' \subseteq Copies(j) \cup {current'[j]}
    BY <2>2, <2>3
  <2>5. j \notin {old, new} => Copies(j)' \subseteq Copies(j)
    BY <2>2, <2>3
  <2> QED BY <2>1, <2>3, <2>4, <2>5
<1>6. ASSUME NEW j \in Jobs
      PROVE  /\ SameStore(j) /\ VersionOf(current'[j]) = VersionOf(current[j])
             /\ j \notin jobs => Same(j)
  BY <1>1, <1>3, <1>4, <1>5 DEF Same
<1> QED BY <1>3, <1>5, <1>6 DEF Linked

(* Every step of a running process does one of five things to the versions. *)
LEMMA StepCases ==
    ASSUME StoreOK, TypeOK, TimerInv, VersionInv, FlushInv, [Next]_vars
    PROVE  \/ Crash
           \/ Restart
           \/ \E j \in Jobs : Spawned(j) \/ Stamped(j) \/ Moved(j)
           \/ Linked
           \/ Quiet
<1>1. ASSUME NEW j \in Jobs, Progress(j) \/ Finish(j) PROVE Stamped(j)
  <2>1. /\ j \in Threads /\ current[j] \in Snapshot
        /\ [current[j] EXCEPT !.terminal = TRUE] \in Snapshot
    BY SnapshotUpdates DEF Threads, TypeOK
  <2>2. [current[j] EXCEPT !.terminal = TRUE].terminal = TRUE
    BY DEF TypeOK, Snapshot
  <2> QED BY <1>1, <2>1, <2>2, StampMoves DEF Progress, Finish
<1>2. ASSUME NEW t \in Threads, NEW j \in Jobs, Transition(t, j) PROVE Stamped(j)
  BY <1>2, StampMoves DEF Transition, TypeOK
<1>3. ASSUME NEW c \in Others, NEW j \in Jobs, Decide(c, j) PROVE Stamped(j)
  BY <1>3, StampMoves DEF Decide, TypeOK, Threads
<1>4. ASSUME UNCHANGED <<toSave, memory, persistPending, persistSeq, disk>> PROVE Quiet
  BY <1>4, CopiesStay DEF Quiet, Same, SameStore, memory
<1>5. ASSUME NEW j \in Jobs, flushPendingSnapshot(j) PROVE Moved(j) \/ Quiet
  BY <1>4, <1>5, FlushMoves DEF flushPendingSnapshot, file
<1>6. ASSUME NEW j \in Jobs, FlushJob(j) PROVE Moved(j)
  BY <1>6, FlushMoves DEF FlushJob, FlushInv
<1>7. CASE BeginFlush
  BY <1>4, <1>7 DEF BeginFlush, file
<1>8. CASE UNCHANGED vars
  BY <1>4, <1>8 DEF vars, store, file
<1> QED BY <1>1, <1>2, <1>3, <1>5, <1>6, <1>7, <1>8, SpawnMoves, LinkMoves, SaveCopyMoves DEF Next

-----------------------------------------------------------------------------
(* The invariant is inductive. *)

(* A process that is down does nothing but start. *)
LEMMA DownNext == ASSUME TypeOK, DownInv, [Next]_vars PROVE DownInv' /\ (~up => Restart \/ UNCHANGED vars)
<1>1. ASSUME NEW j \in Jobs, \/ Spawn(j) \/ Progress(j) \/ Finish(j) \/ flushPendingSnapshot(j)
                             \/ FlushJob(j)
      PROVE  up /\ up'
  BY <1>1 DEF Spawn, Progress, Finish, flushPendingSnapshot, FlushJob, PersistMuFree, TypeOK
<1>2. ASSUME NEW t \in Threads, SaveCopy(t) \/ \E j \in Jobs : Transition(t, j) PROVE up /\ up'
  BY <1>2 DEF SaveCopy, Transition, PersistMuFree, TypeOK
<1>3. ASSUME NEW c \in Others, \/ \E j \in Jobs : Decide(c, j)
                                \/ \E old, new \in Jobs : LinkResubmission(c, old, new)
      PROVE  up /\ up'
  <2>1. ASSUME NEW j \in Jobs, Decide(c, j) PROVE up /\ up'
    BY <2>1 DEF Decide
  <2>2. ASSUME NEW old \in Jobs, NEW new \in Jobs, LinkResubmission(c, old, new) PROVE up /\ up'
    <3>1. up /\ UNCHANGED up
      BY <2>2 DEF LinkResubmission
    <3> QED BY <3>1
  <2> QED BY <1>3, <2>1, <2>2
<1>4. CASE BeginFlush
  BY <1>4 DEF BeginFlush, PersistMuFree, DownInv
<1>5. CASE Crash
  BY <1>5 DEF Crash, DownInv
<1>6. CASE Restart
  BY <1>6 DEF Restart, DownInv
<1>7. CASE UNCHANGED vars
  BY <1>7 DEF vars, memory, flush, DownInv
<1> QED BY <1>1, <1>2, <1>3, <1>4, <1>5, <1>6, <1>7 DEF Next, DownInv

(* A job whose versions a step leaves alone. *)
LEMMA SameKeeps ==
    ASSUME StoreOK, TypeOK, NEW j \in Jobs, VersionOK(j), Same(j), j \in jobs' <=> j \in jobs,
           seq' \in {seq, seq + 1}
    PROVE  VersionOK(j)'
<1>1. Versions(j)' = Versions(j) /\ current[j].seq \in Nat /\ seq \in Nat
  BY DEF Versions, Same, SameStore, TypeOK, Snapshot
<1> QED BY <1>1 DEF VersionOK, Same, SameStore

(* Settling on the newest keeps the history of the job. *)
LEMMA MovedKeeps ==
    ASSUME StoreOK, TypeOK, NEW j \in Jobs, VersionOK(j), Moved(j)
    PROVE  VersionOK(j)' /\ Versions(j)' \subseteq Versions(j) \cup {NoSnapshot}
<1>1. PICK p \in Copies(j) \cup {persistPending[j]} :
          /\ Copies(j)' \subseteq Copies(j)
          /\ Retained(j, p) \/ Saved(j, p) \/ Dropped(j, p)
  BY DEF Moved
<1>2. j \in jobs /\ jobs' = jobs /\ seq' = seq /\ current' = current
  BY DEF Moved
<1>3. p \in Versions(j) /\ (p.seq = 0 => p = NoSnapshot)
  BY DEF Versions, VersionOK
<1>4. /\ disk'[j] \in {disk[j], p} /\ persistPending'[j] \in {p, NoSnapshot}
      /\ persistSeq'[j] = disk'[j].seq /\ disk'[j].seq >= disk[j].seq
  BY <1>1, <1>2, VersionsType DEF Retained, Saved, Dropped, VersionOK, Versions, Snapshot
<1>5. Versions(j)' \subseteq Versions(j) \cup {NoSnapshot}
  BY <1>1, <1>2, <1>3, <1>4 DEF Versions
<1>6. \A s \in Versions(j) : s.seq \in Nat
  BY VersionsType DEF Snapshot
<1>7. NoSnapshot.seq = 0 /\ ~NoSnapshot.terminal
  BY DEF NoSnapshot
<1>8. current[j].seq > 0 /\ current[j].seq \in Nat
  BY <1>2, <1>6 DEF VersionOK, Versions
<1>9. \A a \in Versions(j) : a.seq = 0 => ~a.terminal
  BY <1>2, <1>7, <1>8 DEF VersionOK, Versions
<1>10. \A a, b \in Versions(j)' : a.seq <= b.seq /\ a.terminal => b.terminal
  BY <1>5, <1>6, <1>7, <1>9 DEF VersionOK
<1>11. \A s \in Versions(j)' : s.seq <= current'[j].seq
  BY <1>2, <1>5, <1>7, <1>8 DEF VersionOK
<1>12. disk[j].seq \in Nat /\ disk'[j].seq \in Nat /\ disk'[j].seq > 0
  BY <1>2, <1>3, <1>4, <1>6 DEF VersionOK, Versions
<1> QED BY <1>1, <1>2, <1>3, <1>4, <1>5, <1>10, <1>11, <1>12 DEF VersionOK

(* Stamping adds the newest version. *)
LEMMA StampedKeeps ==
    ASSUME StoreOK, TypeOK, NEW j \in Jobs, VersionOK(j), Stamped(j)
    PROVE  VersionOK(j)'
<1>1. /\ j \in jobs /\ jobs' = jobs /\ seq' = seq + 1 /\ current'[j].seq = seq + 1
      /\ SameStore(j) /\ Copies(j)' = Copies(j) \cup {current'[j]}
      /\ current[j].terminal => current'[j].terminal
  BY DEF Stamped
<1>2. Versions(j)' \subseteq Versions(j) \cup {current'[j]}
  BY <1>1 DEF Versions, SameStore
<1>3. \A a \in Versions(j) : /\ a.seq \in Nat /\ a.seq <= current[j].seq
                             /\ a.terminal => current[j].terminal
  BY <1>1, VersionsType DEF VersionOK, Versions, Snapshot
<1>4. seq \in Nat /\ current[j].seq \in Nat /\ current[j].seq <= seq
  BY DEF VersionOK, TypeOK, Snapshot
<1>5. \A a \in Versions(j) : a.seq < current'[j].seq /\ (a.terminal => current'[j].terminal)
  BY <1>1, <1>3, <1>4
<1>6. \A a, b \in Versions(j)' : a.seq <= b.seq /\ a.terminal => b.terminal
  BY <1>1, <1>2, <1>3, <1>4, <1>5 DEF VersionOK
<1>7. \A a \in Versions(j)' : a.seq <= current'[j].seq
  BY <1>1, <1>2, <1>3, <1>4, <1>5
<1> QED BY <1>1, <1>4, <1>6, <1>7 DEF VersionOK, SameStore

(* A link changes no version number and no state. *)
LEMMA LinkedKeeps ==
    ASSUME StoreOK, TypeOK, NEW j \in Jobs, VersionOK(j), Linked
    PROVE  VersionOK(j)'
<1>1. /\ jobs' = jobs /\ seq' = seq /\ SameStore(j) /\ (j \notin jobs => Same(j))
      /\ VersionOf(current'[j]) = VersionOf(current[j])
      /\ Copies(j)' \subseteq Copies(j) \cup {current'[j]}
  BY DEF Linked
<1>2. current'[j].seq = current[j].seq /\ current'[j].terminal = current[j].terminal
  BY <1>1 DEF VersionOf
<1>3. CASE j \in jobs
  <2>1. Versions(j)' \subseteq Versions(j) \cup {current'[j]} /\ current[j] \in Versions(j)
    BY <1>1 DEF Versions, SameStore
  <2>2. \A a \in Versions(j)' : \E b \in Versions(j) : a.seq = b.seq /\ a.terminal = b.terminal
    BY <1>2, <2>1
  <2>3. current[j].seq \in Nat /\ disk[j].seq \in Nat /\ disk[j] \in Versions(j)
    BY DEF TypeOK, Snapshot, Versions
  <2>4. current'[j].seq > 0
    BY <1>2, <1>3, <2>3 DEF VersionOK
  <2>5. \A a, b \in Versions(j)' : a.seq <= b.seq /\ a.terminal => b.terminal
    BY <2>2 DEF VersionOK
  <2>6. \A a \in Versions(j)' : a.seq <= current'[j].seq
    BY <1>2, <1>3, <2>2 DEF VersionOK
  <2> QED BY <1>1, <1>2, <1>3, <2>4, <2>5, <2>6 DEF VersionOK, SameStore
<1>4. CASE j \notin jobs
  BY <1>1, <1>4, SameKeeps
<1> QED BY <1>3, <1>4

(* The first version of a job. *)
LEMMA SpawnedKeeps ==
    ASSUME StoreOK, TypeOK, NEW j \in Jobs, VersionOK(j), Spawned(j)
    PROVE  VersionOK(j)'
<1>1. seq \in Nat /\ NoSnapshot.seq = 0 /\ ~NoSnapshot.terminal
  BY DEF TypeOK, NoSnapshot
<1>2. current'[j].seq = seq + 1 /\ ~current'[j].terminal
  BY <1>1 DEF Spawned, NoSnapshot
<1>3. /\ Copies(j)' = {} /\ persistPending'[j] = NoSnapshot /\ disk'[j] = current'[j]
      /\ persistSeq'[j] = seq + 1 /\ seq' = seq + 1 /\ j \in jobs'
  BY DEF Spawned, VersionOK
<1>4. Versions(j)' = {NoSnapshot, current'[j]}
  BY <1>3 DEF Versions
<1> QED BY <1>1, <1>2, <1>3, <1>4 DEF VersionOK

(* A crash leaves the file. *)
LEMMA CrashKeeps ==
    ASSUME StoreOK, TypeOK, NEW j \in Jobs, VersionOK(j), Crash
    PROVE  VersionOK(j)'
<1>1. Copies(j)' = {}
  <2>1. \A t \in Threads : Held(toSave'[t], j) = {}
    BY DEF Crash, Held
  <2> QED BY <2>1, CopiesMemberNext
<1>2. /\ jobs' = {} /\ persistPending'[j] = NoSnapshot /\ current'[j] = NoSnapshot
      /\ disk'[j] = disk[j] /\ seq' = 0
  BY DEF Crash
<1>3. NoSnapshot.seq = 0 /\ ~NoSnapshot.terminal /\ disk[j].seq \in Nat
  BY DEF NoSnapshot, TypeOK, Snapshot
<1>4. Versions(j)' = {NoSnapshot, disk[j]}
  BY <1>1, <1>2 DEF Versions
<1>5. disk[j].seq = 0 => disk[j] = NoSnapshot
  BY DEF VersionOK
<1> QED BY <1>1, <1>2, <1>3, <1>4, <1>5 DEF VersionOK

(* A start takes what the files hold. *)
LEMMA RestartKeeps ==
    ASSUME StoreOK, TypeOK, DownInv, NEW j \in Jobs, VersionOK(j), Restart
    PROVE  /\ VersionOK(j)'
           /\ Copies(j)' = {} /\ persistPending'[j] = NoSnapshot
           /\ j \notin jobs /\ persistPending[j] = NoSnapshot
           /\ j \in jobs' => current'[j] = disk'[j]
           /\ \/ disk'[j] = disk[j]
              \/ disk[j] # NoSnapshot /\ disk'[j] = Reconciled(disk[j])
<1>1. /\ j \notin jobs /\ persistPending[j] = NoSnapshot
      /\ persistPending'[j] = persistPending[j]
  BY DEF Restart, DownInv, VersionOK
<1>2. Copies(j)' = {}
  <2>1. \A t \in Threads : Held(toSave'[t], j) = {}
    BY DEF Restart, DownInv, Held
  <2> QED BY <2>1, CopiesMemberNext
<1>3. PICK refused \in SUBSET OnDisk :
          /\ jobs' = OnDisk \ refused
          /\ disk' = [i \in Jobs |-> IF i \in ActiveOnDisk \ refused
                                     THEN Reconciled(disk[i]) ELSE disk[i]]
  BY DEF Restart
<1>4. \/ disk'[j] = disk[j]
      \/ disk[j] # NoSnapshot /\ disk'[j] = Reconciled(disk[j])
  BY <1>3 DEF ActiveOnDisk, OnDisk
<1>5. /\ current'[j] = IF j \in jobs' THEN disk'[j] ELSE NoSnapshot
      /\ persistSeq'[j] = current'[j].seq /\ current'[j].seq <= seq'
  BY DEF Restart
<1>6. Reconciled(disk[j]).seq = disk[j].seq /\ disk[j].seq \in Nat
  BY DEF Reconciled, TypeOK, Snapshot
<1>7. /\ disk'[j].seq = disk[j].seq /\ (disk[j].seq = 0 => disk[j] = NoSnapshot)
      /\ disk'[j].seq = 0 => disk'[j] = NoSnapshot
  BY <1>4, <1>6 DEF VersionOK
<1>8. j \in jobs' => disk[j] # NoSnapshot /\ disk'[j].seq > 0
  BY <1>3, <1>6, <1>7 DEF OnDisk
<1>9. NoSnapshot.seq = 0 /\ ~NoSnapshot.terminal
  BY DEF NoSnapshot
<1>10. Versions(j)' \subseteq {NoSnapshot, disk'[j]}
  BY <1>1, <1>2, <1>5 DEF Versions
<1>11. \A a, b \in Versions(j)' : a.seq <= b.seq /\ a.terminal => b.terminal
  BY <1>6, <1>7, <1>9, <1>10
<1>12. j \in jobs' => \A a \in Versions(j)' : a.seq <= current'[j].seq
  BY <1>5, <1>6, <1>7, <1>9, <1>10
<1>13. VersionOK(j)'
  BY <1>1, <1>2, <1>5, <1>7, <1>8, <1>9, <1>11, <1>12 DEF VersionOK
<1> QED BY <1>1, <1>2, <1>4, <1>5, <1>13

(* Every step keeps the versions of every job one history. *)
LEMMA VersionNext ==
    ASSUME StoreOK, TypeOK, TimerInv, DownInv, VersionInv, FlushInv, [Next]_vars
    PROVE  VersionInv'
<1>0. \A j \in Jobs : VersionOK(j)
  BY DEF VersionInv
<1> SUFFICES ASSUME NEW i \in Jobs PROVE VersionOK(i)'
  BY DEF VersionInv
<1>1. CASE Crash \/ Restart
  BY <1>0, <1>1, CrashKeeps, RestartKeeps
<1>2. ASSUME NEW j \in Jobs, Spawned(j) PROVE VersionOK(i)'
  <2>1. CASE i = j
    BY <1>0, <1>2, <2>1, SpawnedKeeps
  <2>2. CASE i # j
    BY <1>0, <1>2, <2>2, SameKeeps DEF Spawned
  <2> QED BY <2>1, <2>2
<1>3. ASSUME NEW j \in Jobs, Stamped(j) PROVE VersionOK(i)'
  <2>1. CASE i = j
    BY <1>0, <1>3, <2>1, StampedKeeps
  <2>2. CASE i # j
    BY <1>0, <1>3, <2>2, SameKeeps DEF Stamped
  <2> QED BY <2>1, <2>2
<1>4. ASSUME NEW j \in Jobs, Moved(j) PROVE VersionOK(i)'
  <2>1. CASE i = j
    BY <1>0, <1>4, <2>1, MovedKeeps
  <2>2. CASE i # j
    BY <1>0, <1>4, <2>2, SameKeeps DEF Moved
  <2> QED BY <2>1, <2>2
<1>5. CASE Linked
  BY <1>0, <1>5, LinkedKeeps
<1>6. CASE Quiet
  BY <1>0, <1>6, SameKeeps DEF Quiet
<1> QED BY <1>1, <1>2, <1>3, <1>4, <1>5, <1>6, StepCases

(* Every step keeps the newest version of a job within reach. *)
LEMMA StrandedNext ==
    ASSUME StoreOK, TypeOK, TimerInv, DownInv, VersionInv, FlushInv, NothingStranded, [Next]_vars
    PROVE  NothingStranded'
<1> DEFINE Reach(j) == Copies(j) \cup {disk[j], persistPending[j]}
           Found(j) == \E s \in Reach(j) : s.seq = current[j].seq
<1>0. \A j \in jobs : j \in Jobs /\ Found(j)
  BY DEF NothingStranded, TypeOK
<1> SUFFICES ASSUME NEW i \in Jobs, i \in jobs' PROVE Found(i)'
  <2>1. jobs' \subseteq Jobs
    BY TypeNext DEF TypeOK
  <2> QED BY <2>1 DEF NothingStranded
<1>1. CASE Crash
  BY <1>1 DEF Crash
<1>2. CASE Restart
  <2>1. VersionOK(i) /\ i \in Jobs
    BY DEF VersionInv
  <2>2. current'[i] = disk'[i]
    BY <1>2, <2>1, RestartKeeps
  <2> QED BY <2>2
<1>3. CASE Same(i) /\ i \in jobs
  BY <1>0, <1>3 DEF Same, SameStore
<1>4. CASE Spawned(i)
  BY <1>4 DEF Spawned
<1>5. CASE Stamped(i)
  BY <1>5 DEF Stamped
<1>6. CASE Moved(i)
  <2>1. PICK p \in Copies(i) \cup {persistPending[i]}, q \in Copies(i) \cup {persistPending[i]} :
            /\ q.seq <= p.seq /\ persistPending[i] \in {p, q}
            /\ Copies(i) \subseteq Copies(i)' \cup {p, q}
            /\ Retained(i, p) \/ Saved(i, p) \/ Dropped(i, p)
    BY <1>6 DEF Moved
  <2>2. /\ i \in jobs /\ current'[i] = current[i]
        /\ p \in Versions(i) /\ q \in Versions(i) /\ disk[i] \in Versions(i)
    BY <1>6 DEF Moved, Versions
  <2>3. /\ p.seq \in Nat /\ q.seq \in Nat /\ disk[i].seq \in Nat /\ current[i].seq \in Nat
        /\ p.seq <= current[i].seq /\ disk[i].seq <= current[i].seq
    BY <2>2, VersionsType DEF VersionInv, VersionOK, Versions, Snapshot
  <2>4. PICK s \in Reach(i) : s.seq = current[i].seq
    BY <1>0, <2>2
  <2>5. CASE s \in Copies(i)'
    BY <2>2, <2>4, <2>5
  <2>6. CASE s \in {p, q}
    <3>1. p.seq = current[i].seq
      BY <2>1, <2>3, <2>4, <2>6
    <3>2. CASE Retained(i, p)
      BY <2>2, <3>1, <3>2 DEF Retained
    <3>3. CASE Saved(i, p)
      BY <2>2, <3>1, <3>3 DEF Saved
    <3>4. CASE Dropped(i, p)
      BY <2>3, <3>1, <3>4 DEF Dropped
    <3> QED BY <2>1, <3>2, <3>3, <3>4
  <2>7. CASE s = disk[i]
    <3>1. CASE Retained(i, p) \/ Dropped(i, p)
      BY <2>2, <2>4, <2>7, <3>1 DEF Retained, Dropped
    <3>2. CASE Saved(i, p)
      <4>1. p.seq = current[i].seq
        BY <2>3, <2>4, <2>7, <3>2 DEF Saved
      <4> QED BY <2>2, <3>2, <4>1 DEF Saved
    <3> QED BY <2>1, <3>1, <3>2
  <2> QED BY <2>1, <2>4, <2>5, <2>6, <2>7
<1>7. CASE Linked
  <2>1. /\ i \in jobs /\ SameStore(i) /\ Copies(i) \subseteq Copies(i)'
        /\ current'[i].seq = current[i].seq
    BY <1>7 DEF Linked, VersionOf
  <2> QED BY <1>0, <2>1 DEF SameStore
<1>8. ASSUME NEW j \in Jobs, i # j, Spawned(j) \/ Stamped(j) \/ Moved(j) PROVE Same(i) /\ i \in jobs
  BY <1>8 DEF Spawned, Stamped, Moved
<1>9. CASE Quiet
  BY <1>3, <1>9 DEF Quiet
<1> QED BY <1>1, <1>2, <1>3, <1>4, <1>5, <1>6, <1>7, <1>8, <1>9, StepCases

(* Every step keeps what is pending in somebody's hands, and a flush honest. *)
LEMMA PendingNext ==
    ASSUME StoreOK, TypeOK, TimerInv, DownInv, VersionInv, FlushInv, PendingWillBeWritten,
           [Next]_vars
    PROVE  PendingWillBeWritten' /\ FlushInv'
<1> DEFINE Goal == PendingWillBeWritten' /\ FlushInv'
           Cared(j) == persistPending[j] # NoSnapshot =>
                          callbacks[j] > 0 \/ j \in failed \/ j \in flushing
<1>0. \A j \in Jobs : Cared(j)
  BY DEF PendingWillBeWritten
<1>1. ASSUME UNCHANGED <<persistPending, callbacks, failed, flushing, flushErr>> PROVE Goal
  BY <1>1 DEF PendingWillBeWritten, FlushInv
<1>2. ASSUME NEW j \in Jobs, flushing = {}, flushing' = {},
             Cared(j)', \A i \in Jobs \ {j} : /\ persistPending'[i] = persistPending[i]
                                              /\ callbacks'[i] = callbacks[i]
                                              /\ i \in failed' <=> i \in failed
      PROVE  Goal
  BY <1>0, <1>2 DEF PendingWillBeWritten, FlushInv
<1>3. ASSUME NEW j \in Jobs, Spawn(j) PROVE Goal
  <2>1. CASE UNCHANGED <<jobs, current, store, disk, failed>>
    BY <1>1, <1>3, <2>1 DEF Spawn, store, flush
  <2>2. CASE StopTimers({j}) /\ Written(j, [NoSnapshot EXCEPT !.seq = seq + 1])
    <3>1. flushing = {} /\ flushing' = {} /\ persistPending[j] = NoSnapshot
      BY <1>3 DEF Spawn, PersistMuFree, flush, VersionInv, VersionOK
    <3>2. persistPending'[j] = NoSnapshot
      BY <2>2, <3>1 DEF Written, TypeOK
    <3>3. \A i \in Jobs \ {j} : persistPending'[i] = persistPending[i] /\ (i \in failed' <=> i \in failed)
      BY <2>2 DEF Written, TypeOK
    <3>4. \A i \in Jobs \ {j} : callbacks'[i] = callbacks[i]
      BY <2>2, StopType
    <3> QED BY <1>2, <3>1, <3>2, <3>3, <3>4
  <2> QED BY <1>3, <2>1, <2>2 DEF Spawn
<1>4. ASSUME NEW t \in Threads, NEW j \in Jobs, Transition(t, j) PROVE Goal
  BY <1>1, <1>4 DEF Transition, store, flush, file
<1>5. ASSUME NEW j \in Jobs, Progress(j) \/ Finish(j) PROVE Goal
  BY <1>1, <1>5 DEF Progress, Finish, store, flush, file
<1>6. ASSUME NEW c \in Others, \/ \E j \in Jobs : Decide(c, j)
                                \/ \E old, new \in Jobs : LinkResubmission(c, old, new)
      PROVE  Goal
  BY <1>1, <1>6 DEF Decide, LinkResubmission, store, flush, file
<1>7. ASSUME NEW t \in Threads, SaveCopy(t) PROVE Goal
  <2>1. toSave[t] \in Seq(Copy) /\ toSave[t] # << >>
    BY <1>7 DEF SaveCopy, Idle, TypeOK
  <2>2. PICK c \in Copy : c = Head(toSave[t])
    BY <2>1
  <2>3. c.job \in Jobs /\ c.job \in jobs
    <3>1. c.job \in Jobs /\ c.snap \in Held(toSave[t], c.job)
      BY <2>1, <2>2, HeldTail DEF Copy
    <3> QED BY <3>1, CopiesMember DEF VersionInv, VersionOK
  <2>4. savePersistedSnapshot(c) /\ flushing = {} /\ flushing' = {}
    BY <1>7, <2>2 DEF SaveCopy, PersistMuFree, flush
  <2>5. Cared(c.job)'
    BY <2>3, <2>4, SaveMoves DEF Saved, Dropped
  <2>6. \A i \in Jobs \ {c.job} : /\ persistPending'[i] = persistPending[i]
                                  /\ callbacks'[i] = callbacks[i]
                                  /\ i \in failed' <=> i \in failed
    BY <2>3, <2>4, SaveMoves DEF SameStore
  <2> QED BY <1>2, <2>3, <2>4, <2>5, <2>6
<1>8. ASSUME NEW j \in Jobs, persistPending[j] # NoSnapshot,
             savePersistedSnapshotLocked(j, persistPending[j])
      PROVE  /\ persistPending'[j] = NoSnapshot \/ (j \in failed' /\ failures' > failures)
             /\ \A i \in Jobs \ {j} : /\ persistPending'[i] = persistPending[i]
                                      /\ i \in failed' <=> i \in failed
  <2>1. j \in jobs /\ persistPending[j] \in Snapshot /\ persistPending[j].seq \in Nat /\ failures \in Nat
    BY <1>8 DEF VersionInv, VersionOK, TypeOK, Snapshot, StoreOK, ConstantsOK
  <2>2. /\ \/ Retained(j, persistPending[j]) /\ failures' = failures + 1 /\ j \in failed'
           \/ (Saved(j, persistPending[j]) \/ Dropped(j, persistPending[j])) /\ failures' = failures
        /\ \A i \in Jobs \ {j} : SameStore(i) /\ (i \in failed' <=> i \in failed)
    BY <1>8, <2>1, LockedMoves
  <2> QED BY <2>1, <2>2 DEF Saved, Dropped, SameStore
<1>9. ASSUME NEW j \in Jobs, flushPendingSnapshot(j) PROVE Goal
  <2>1. /\ flushing = {} /\ flushing' = {}
        /\ \A i \in Jobs \ {j} : callbacks'[i] = callbacks[i]
    BY <1>9 DEF flushPendingSnapshot, PersistMuFree, flush, TypeOK
  <2>2. CASE persistPending[j] = NoSnapshot /\ UNCHANGED <<persistPending, file>>
    BY <1>2, <2>1, <2>2 DEF file
  <2>3. CASE persistPending[j] # NoSnapshot /\ savePersistedSnapshotLocked(j, persistPending[j])
    BY <1>2, <1>8, <2>1, <2>3
  <2> QED BY <1>9, <2>2, <2>3 DEF flushPendingSnapshot
<1>10. ASSUME NEW j \in Jobs, FlushJob(j) PROVE Goal
  <2>1. /\ flushing' = flushing \ {j} /\ callbacks' = callbacks /\ flushing # {}
        /\ flushErr' = (flushErr \/ failures' > failures)
        /\ persistPending[j] # NoSnapshot /\ savePersistedSnapshotLocked(j, persistPending[j])
    BY <1>10 DEF FlushJob, FlushInv
  <2>2. /\ persistPending'[j] = NoSnapshot \/ (j \in failed' /\ flushErr')
        /\ \A i \in Jobs \ {j} : /\ persistPending'[i] = persistPending[i]
                                 /\ i \in failed' <=> i \in failed
    BY <1>8, <2>1
  <2>3. \A i \in Jobs : Cared(i)'
    BY <1>0, <2>1, <2>2
  <2>4. \A i \in flushing' : i \in Jobs /\ persistPending'[i] # NoSnapshot
    BY <2>1, <2>2 DEF FlushInv, TypeOK
  <2>5. \A i \in Jobs : persistPending'[i] # NoSnapshot => i \in flushing' \/ flushErr'
    BY <2>1, <2>2 DEF FlushInv
  <2> QED BY <2>3, <2>4, <2>5 DEF PendingWillBeWritten, FlushInv
<1>11. CASE BeginFlush
  <2>1. flushing' = {j \in Jobs : persistPending[j] # NoSnapshot} /\ persistPending' = persistPending
    BY <1>11 DEF BeginFlush
  <2> QED BY <2>1 DEF PendingWillBeWritten, FlushInv
<1>12. CASE Crash
  BY <1>12 DEF Crash, PendingWillBeWritten, FlushInv
<1>13. CASE Restart
  <2>1. flushing' = {} /\ \A j \in Jobs : persistPending'[j] = NoSnapshot
    BY <1>13 DEF Restart, flush, DownInv, VersionInv, VersionOK
  <2> QED BY <2>1 DEF PendingWillBeWritten, FlushInv
<1>14. CASE UNCHANGED vars
  BY <1>1, <1>14 DEF vars, store, flush, file
<1> QED BY <1>3, <1>4, <1>5, <1>6, <1>7, <1>9, <1>10, <1>11, <1>12, <1>13, <1>14 DEF Next

-----------------------------------------------------------------------------
(* What the store keeps. *)

StoreInv ==
    /\ TypeOK /\ TimerInv /\ DownInv /\ VersionInv /\ FlushInv
    /\ NothingStranded /\ PendingWillBeWritten

(* The store starts in its invariant. *)
LEMMA StoreInit == ASSUME StoreOK, Init PROVE StoreInv
<1>1. TypeOK /\ TimerInv
  BY TypeInit
<1>2. /\ up /\ jobs = {} /\ flushing = {} /\ seq = 0 /\ NoSnapshot.seq = 0 /\ ~NoSnapshot.terminal
      /\ \A j \in Jobs : /\ disk[j] = NoSnapshot /\ persistPending[j] = NoSnapshot
                         /\ current[j] = NoSnapshot
  BY DEF Init, NoSnapshot
<1>3. \A j \in Jobs : Copies(j) = {}
  BY DEF Init, Copies
<1>4. VersionInv
  BY <1>2, <1>3 DEF VersionInv, VersionOK, Versions
<1> QED BY <1>1, <1>2, <1>4 DEF StoreInv, DownInv, FlushInv, NothingStranded, PendingWillBeWritten

(* Every step of the store keeps its invariant. *)
LEMMA StoreNext == ASSUME StoreOK, StoreInv, [Next]_vars PROVE StoreInv'
BY TypeNext, DownNext, VersionNext, StrandedNext, PendingNext DEF StoreInv

(* While the process runs the newest version of every job is on disk, in a  *)
(* goroutine that will save it, or pending with a callback, a flush or a    *)
(* refused write behind it; and persistSeq is the number in the file.       *)
THEOREM StoreCorrect ==
    ASSUME StoreOK
    PROVE  Spec => [](StoreInv /\ NothingIsLost)
<1>1. Init => StoreInv
  BY StoreInit
<1>2. StoreInv /\ [Next]_vars => StoreInv'
  BY StoreNext
<1>3. StoreInv => NothingIsLost
  BY DEF StoreInv, VersionInv, VersionOK, PersistSeqIsOnDisk, TypeOK, NothingIsLost
<1> QED BY <1>1, <1>2, <1>3, PTL DEF Spec

(* One step never takes the file of a job back. *)
LEMMA DiskStep ==
    ASSUME StoreOK, StoreInv, [Next]_vars, NEW i \in Jobs
    PROVE  disk'[i].seq >= disk[i].seq /\ (disk[i].terminal => disk'[i].terminal)
<1>0. /\ TypeOK /\ TimerInv /\ DownInv /\ VersionInv /\ FlushInv
      /\ disk[i].seq \in Nat /\ VersionOK(i)
  BY DEF StoreInv, TypeOK, Snapshot, VersionInv, VersionOK
<1>1. CASE disk'[i] = disk[i]
  BY <1>0, <1>1
<1>2. CASE Crash
  BY <1>1, <1>2 DEF Crash
<1>3. CASE Restart
  <2>1. Reconciled(disk[i]).seq = disk[i].seq /\ Reconciled(disk[i]).terminal
    BY <1>0 DEF Reconciled, TypeOK, Snapshot
  <2> QED BY <1>0, <1>1, <1>3, <2>1, RestartKeeps
<1>4. CASE Spawned(i)
  <2>1. disk[i].seq = 0 /\ ~disk[i].terminal /\ disk'[i].seq = seq + 1 /\ seq \in Nat
    BY <1>0, <1>4 DEF Spawned, NoSnapshot, TypeOK
  <2> QED BY <2>1
<1>5. CASE Moved(i)
  <2>1. PICK p \in Copies(i) \cup {persistPending[i]} :
            Retained(i, p) \/ Saved(i, p) \/ Dropped(i, p)
    BY <1>5 DEF Moved
  <2>2. p \in Versions(i) /\ disk[i] \in Versions(i) /\ p.seq \in Nat
    BY <1>0, VersionsType DEF Versions, Snapshot
  <2>3. CASE Saved(i, p)
    BY <1>0, <2>2, <2>3 DEF Saved, VersionOK
  <2> QED BY <1>1, <2>1, <2>3 DEF Retained, Dropped
<1>6. CASE Stamped(i) \/ Linked \/ Quiet
  BY <1>1, <1>6 DEF Stamped, Linked, Quiet, Same, SameStore
<1>7. ASSUME NEW j \in Jobs, i # j, Spawned(j) \/ Stamped(j) \/ Moved(j) PROVE disk'[i] = disk[i]
  BY <1>7 DEF Spawned, Stamped, Moved, Same, SameStore
<1> QED BY <1>0, <1>1, <1>2, <1>3, <1>4, <1>5, <1>6, <1>7, StepCases

(* A record on disk never goes back to an older version or to a state       *)
(* before its end, whatever order goroutines, timers and starts save in.    *)
THEOREM FileNeverGoesBack == ASSUME StoreOK PROVE Spec => DiskNeverGoesBack
<1>1. StoreInv /\ [Next]_vars =>
          [\A j \in Jobs : /\ disk'[j].seq >= disk[j].seq
                           /\ disk[j].terminal => disk'[j].terminal]_vars
  BY DiskStep
<1> QED BY <1>1, StoreCorrect, PTL DEF Spec, DiskNeverGoesBack

(* A flush that ends without an error leaves nothing pending. *)
LEMMA FlushStep ==
    ASSUME StoreOK, StoreInv, [Next]_vars, flushing # {}, flushing' = {}, up', ~flushErr',
           NEW i \in Jobs
    PROVE  persistPending'[i] = NoSnapshot
<1>0. TypeOK /\ VersionInv /\ FlushInv /\ up
  <2>1. TypeOK /\ VersionInv /\ FlushInv
    BY DEF StoreInv
  <2> QED BY <2>1 DEF StoreInv, DownInv
<1>1. PICK j \in Jobs : FlushJob(j)
  <2>1. ASSUME NEW j \in Jobs, \/ Spawn(j) \/ Progress(j) \/ Finish(j) \/ flushPendingSnapshot(j)
        PROVE  FALSE
    BY <2>1 DEF Spawn, Progress, Finish, flushPendingSnapshot, PersistMuFree, flush
  <2>2. ASSUME NEW t \in Threads, SaveCopy(t) \/ \E j \in Jobs : Transition(t, j) PROVE FALSE
    BY <2>2 DEF SaveCopy, Transition, PersistMuFree, flush
  <2>3. ASSUME NEW c \in Others, \/ \E j \in Jobs : Decide(c, j)
                                  \/ \E old, new \in Jobs : LinkResubmission(c, old, new)
        PROVE  FALSE
    BY <2>3 DEF Decide, LinkResubmission, flush
  <2>4. ~BeginFlush /\ ~Crash /\ ~Restart /\ ~UNCHANGED vars
    BY <1>0 DEF BeginFlush, Crash, Restart, PersistMuFree, flush, vars
  <2> QED BY <2>1, <2>2, <2>3, <2>4 DEF Next
<1>2. /\ flushing \subseteq {j} /\ persistPending[j] # NoSnapshot
      /\ savePersistedSnapshotLocked(j, persistPending[j])
      /\ ~flushErr /\ ~(failures' > failures)
  BY <1>0, <1>1 DEF FlushJob, FlushInv
<1>3. j \in jobs /\ persistPending[j] \in Snapshot /\ persistPending[j].seq \in Nat /\ failures \in Nat
  BY <1>0, <1>2 DEF VersionInv, VersionOK, TypeOK, Snapshot, StoreOK, ConstantsOK
<1>4. /\ \/ Retained(j, persistPending[j]) /\ failures' = failures + 1
         \/ Saved(j, persistPending[j]) \/ Dropped(j, persistPending[j])
      /\ \A k \in Jobs \ {j} : SameStore(k)
  BY <1>0, <1>2, <1>3, LockedMoves
<1>5. CASE i = j
  BY <1>2, <1>3, <1>4, <1>5 DEF Saved, Dropped
<1>6. CASE i # j
  BY <1>0, <1>2, <1>4, <1>6 DEF FlushInv, SameStore
<1> QED BY <1>5, <1>6

(* When the flush of Shutdown ends without an error nothing is pending.     *)
THEOREM FlushIsHonest == ASSUME StoreOK PROVE Spec => FlushReportsLoss
<1>1. StoreInv /\ [Next]_vars =>
          [flushing # {} /\ flushing' = {} /\ up' /\ ~flushErr' =>
              \A j \in Jobs : persistPending'[j] = NoSnapshot]_vars
  BY FlushStep
<1> QED BY <1>1, StoreCorrect, PTL DEF Spec, FlushReportsLoss

-----------------------------------------------------------------------------
(* The store implements DurableRecord. *)

(* Two versions of a job with one number are one version. *)
LEMMA SameVersion ==
    ASSUME TypeOK, NEW j \in Jobs, VersionOK(j), NEW a \in Versions(j), NEW b \in Versions(j),
           a.seq = b.seq
    PROVE  VersionOf(a) = VersionOf(b)
<1>1. a.seq \in Nat /\ a.terminal \in BOOLEAN /\ b.terminal \in BOOLEAN
  BY VersionsType DEF Snapshot
<1>2. a.seq <= b.seq /\ b.seq <= a.seq
  BY <1>1
<1>3. a.terminal = b.terminal
  BY <1>1, <1>2 DEF VersionOK
<1> QED BY <1>3 DEF VersionOf

(* What is outstanding, version by version, before and after a step. *)
LEMMA OutstandingMember ==
    ASSUME NEW j, NEW v
    PROVE  /\ v \in Outstanding(j) <=>
                 \E c \in Copies(j) \cup {persistPending[j]} : c.seq > disk[j].seq /\ v = VersionOf(c)
           /\ v \in Outstanding(j)' <=>
                 \E c \in Copies(j)' \cup {persistPending'[j]} : c.seq > disk'[j].seq /\ v = VersionOf(c)
<1>1. v \in Outstanding(j) <=>
          \E c \in Copies(j) \cup {persistPending[j]} : c.seq > disk[j].seq /\ v = VersionOf(c)
  BY DEF Outstanding
<1>2. v \in Outstanding(j)' <=>
          \E c \in Copies(j)' \cup {persistPending'[j]} : c.seq > disk'[j].seq /\ v = VersionOf(c)
  BY DEF Outstanding, VersionOf
<1> QED BY <1>1, <1>2

SameAbstract(j) == VersionOf(disk'[j]) = VersionOf(disk[j]) /\ Outstanding(j)' = Outstanding(j)

(* A step that leaves the file and the copies alone is not seen. *)
LEMMA SameIsStutter == ASSUME NEW j, Same(j) PROVE SameAbstract(j)
BY DEF Same, SameStore, SameAbstract, Outstanding, VersionOf

(* A version that is kept as pending replaces at most an older one. *)
LEMMA RetainedIsCoalesce ==
    ASSUME StoreOK, TypeOK, NEW j \in Jobs, VersionOK(j),
           NEW p \in Copies(j) \cup {persistPending[j]}, NEW q \in Copies(j) \cup {persistPending[j]},
           q.seq <= p.seq, persistPending[j] \in {p, q},
           Copies(j)' \subseteq Copies(j), Copies(j) \subseteq Copies(j)' \cup {p, q},
           Retained(j, p)
    PROVE  /\ VersionOf(disk'[j]) = VersionOf(disk[j])
           /\ \/ Outstanding(j)' = Outstanding(j)
              \/ \E s, t \in Outstanding(j) :
                    s.seq < t.seq /\ Outstanding(j)' = Outstanding(j) \ {s}
<1>0. /\ disk'[j] = disk[j] /\ persistPending'[j] = p
      /\ p \in Versions(j) /\ q \in Versions(j)
      /\ p.seq \in Nat /\ q.seq \in Nat /\ disk[j].seq \in Nat
  BY VersionsType DEF Retained, Versions, TypeOK, Snapshot
<1>1. Outstanding(j)' \subseteq Outstanding(j)
  BY <1>0, OutstandingMember
<1>2. \A v \in Outstanding(j) : v \in Outstanding(j)' \/ (v = VersionOf(q) /\ q.seq > disk[j].seq)
  BY <1>0, OutstandingMember
<1>3. CASE VersionOf(q) \in Outstanding(j)' \/ q.seq <= disk[j].seq
  BY <1>0, <1>1, <1>2, <1>3
<1>4. CASE VersionOf(q) \notin Outstanding(j)' /\ q.seq > disk[j].seq
  <2>1. p.seq > disk[j].seq
    BY <1>0, <1>4
  <2>2. VersionOf(p) \in Outstanding(j)' /\ VersionOf(p) \in Outstanding(j)
        /\ VersionOf(q) \in Outstanding(j)
    BY <1>0, <1>4, <2>1, OutstandingMember
  <2>3. q.seq # p.seq
    BY <1>0, <1>4, <2>2, SameVersion
  <2>4. VersionOf(q).seq < VersionOf(p).seq
    BY <1>0, <2>3 DEF VersionOf
  <2>5. Outstanding(j)' = Outstanding(j) \ {VersionOf(q)}
    BY <1>1, <1>2, <1>4
  <2> QED BY <1>0, <2>2, <2>4, <2>5
<1> QED BY <1>0, <1>3, <1>4

(* A version that is written takes all older ones with it. *)
LEMMA SavedIsWrite ==
    ASSUME StoreOK, TypeOK, NEW j \in Jobs, VersionOK(j),
           NEW p \in Copies(j) \cup {persistPending[j]}, NEW q \in Copies(j) \cup {persistPending[j]},
           q.seq <= p.seq, persistPending[j] \in {p, q},
           Copies(j)' \subseteq Copies(j), Copies(j) \subseteq Copies(j)' \cup {p, q},
           Saved(j, p)
    PROVE  \/ SameAbstract(j)
           \/ /\ VersionOf(p) \in Outstanding(j) /\ VersionOf(disk'[j]) = VersionOf(p)
              /\ Outstanding(j)' = {t \in Outstanding(j) : t.seq > VersionOf(p).seq}
<1>0. /\ disk'[j] = p /\ persistPending'[j] = NoSnapshot /\ disk[j].seq <= p.seq /\ NoSnapshot.seq = 0
      /\ p \in Versions(j) /\ q \in Versions(j) /\ disk[j] \in Versions(j)
      /\ p.seq \in Nat /\ q.seq \in Nat /\ disk[j].seq \in Nat
      /\ \A c \in Copies(j) : c.seq \in Nat
  BY VersionsType DEF Saved, Versions, TypeOK, Snapshot, NoSnapshot
<1>1. \A c : VersionOf(c).seq = c.seq
  BY DEF VersionOf
<1>2. \A v : v \in Outstanding(j)' <=> \E c \in Copies(j)' : c.seq > p.seq /\ v = VersionOf(c)
  BY <1>0, OutstandingMember
<1>3. \A v : v \in Outstanding(j) /\ v.seq > p.seq <=>
                \E c \in Copies(j)' : c.seq > p.seq /\ v = VersionOf(c)
  BY <1>0, <1>1, OutstandingMember
<1>4. Outstanding(j)' = {t \in Outstanding(j) : t.seq > VersionOf(p).seq}
  BY <1>1, <1>2, <1>3
<1>5. CASE p.seq = disk[j].seq
  <2>1. VersionOf(disk'[j]) = VersionOf(disk[j])
    BY <1>0, <1>5, SameVersion
  <2>2. \A v \in Outstanding(j) : v.seq > disk[j].seq
    BY <1>1, OutstandingMember
  <2>3. Outstanding(j)' = Outstanding(j)
    BY <1>1, <1>4, <1>5, <2>2
  <2> QED BY <2>1, <2>3 DEF SameAbstract
<1>6. CASE p.seq > disk[j].seq
  <2>1. VersionOf(p) \in Outstanding(j)
    BY <1>6, OutstandingMember
  <2> QED BY <1>0, <1>4, <2>1
<1> QED BY <1>0, <1>5, <1>6

(* A version that is dropped was not newer than the file. *)
LEMMA DroppedIsStutter ==
    ASSUME StoreOK, TypeOK, NEW j \in Jobs, VersionOK(j),
           NEW p \in Copies(j) \cup {persistPending[j]}, NEW q \in Copies(j) \cup {persistPending[j]},
           q.seq <= p.seq, persistPending[j] \in {p, q},
           Copies(j)' \subseteq Copies(j), Copies(j) \subseteq Copies(j)' \cup {p, q},
           Dropped(j, p)
    PROVE  SameAbstract(j)
<1>0. /\ disk'[j] = disk[j] /\ persistPending'[j] = NoSnapshot /\ p.seq < disk[j].seq
      /\ NoSnapshot.seq = 0
      /\ p.seq \in Nat /\ q.seq \in Nat /\ disk[j].seq \in Nat
  BY VersionsType DEF Dropped, Versions, TypeOK, Snapshot, NoSnapshot
<1>1. \A v : v \in Outstanding(j)' <=> v \in Outstanding(j)
  BY <1>0, OutstandingMember
<1> QED BY <1>0, <1>1 DEF SameAbstract

(* Settling is a write, a coalescing or nothing. *)
LEMMA MovedRefines ==
    ASSUME StoreOK, StoreInv, NEW j \in Jobs, Moved(j)
    PROVE  Abstract!Write(j) \/ Abstract!Coalesce(j) \/ UNCHANGED Abstract!vars
<1>0. TypeOK /\ VersionOK(j)
  BY DEF StoreInv, VersionInv, VersionOK
<1>1. PICK p \in Copies(j) \cup {persistPending[j]}, q \in Copies(j) \cup {persistPending[j]} :
          /\ q.seq <= p.seq /\ persistPending[j] \in {p, q}
          /\ Copies(j)' \subseteq Copies(j) /\ Copies(j) \subseteq Copies(j)' \cup {p, q}
          /\ Retained(j, p) \/ Saved(j, p) \/ Dropped(j, p)
  BY DEF Moved
<1>2. \A i \in Jobs \ {j} : SameAbstract(i)
  BY SameIsStutter DEF Moved
<1>3. CASE SameAbstract(j)
  BY <1>2, <1>3 DEF SameAbstract, Abstract!vars
<1>4. CASE Retained(j, p)
  <2>1. /\ VersionOf(disk'[j]) = VersionOf(disk[j])
        /\ \/ Outstanding(j)' = Outstanding(j)
           \/ \E s, t \in Outstanding(j) :
                 s.seq < t.seq /\ Outstanding(j)' = Outstanding(j) \ {s}
    BY <1>0, <1>1, <1>4, RetainedIsCoalesce
  <2>2. ASSUME NEW s \in Outstanding(j), NEW t \in Outstanding(j),
               s.seq < t.seq, Outstanding(j)' = Outstanding(j) \ {s}
        PROVE  Abstract!Coalesce(j)
    BY <1>2, <2>1, <2>2 DEF SameAbstract, Abstract!Coalesce
  <2> QED BY <1>3, <2>1, <2>2 DEF SameAbstract
<1>5. CASE Saved(j, p)
  <2>1. \/ SameAbstract(j)
        \/ /\ VersionOf(p) \in Outstanding(j) /\ VersionOf(disk'[j]) = VersionOf(p)
           /\ Outstanding(j)' = {t \in Outstanding(j) : t.seq > VersionOf(p).seq}
    BY <1>0, <1>1, <1>5, SavedIsWrite
  <2>2. ASSUME VersionOf(p) \in Outstanding(j), VersionOf(disk'[j]) = VersionOf(p),
               Outstanding(j)' = {t \in Outstanding(j) : t.seq > VersionOf(p).seq}
        PROVE  Abstract!Write(j)
    BY <1>2, <2>2 DEF SameAbstract, Abstract!Write, Abstract!Newer
  <2> QED BY <1>3, <2>1, <2>2
<1>6. CASE Dropped(j, p)
  BY <1>0, <1>1, <1>3, <1>6, DroppedIsStutter
<1> QED BY <1>1, <1>4, <1>5, <1>6

(* Stamping is a new outstanding version, newer than every other. *)
LEMMA StampedRefines ==
    ASSUME StoreOK, StoreInv, StoreInv', NEW j \in Jobs, Stamped(j)
    PROVE  \E s \in Abstract!Version : Abstract!Stamp(j, s)
<1> DEFINE c == current'[j]
           s == VersionOf(c)
<1>0. TypeOK /\ VersionOK(j) /\ current' \in [Jobs -> Snapshot]
  BY DEF StoreInv, TypeOK, VersionInv, VersionOK
<1>1. /\ c \in Snapshot /\ j \in jobs /\ c.seq = seq + 1 /\ SameStore(j)
      /\ (current[j].terminal => c.terminal) /\ Copies(j)' = Copies(j) \cup {c}
  BY <1>0 DEF Stamped
<1>2. s \in Abstract!Version /\ s.seq = c.seq /\ s.terminal = c.terminal
  BY <1>1 DEF VersionOf, Abstract!Version, Snapshot
<1>3. \A a \in Versions(j) : /\ a.seq \in Nat /\ a.seq <= current[j].seq
                             /\ a.terminal => current[j].terminal
  BY <1>0, <1>1, VersionsType DEF VersionOK, Versions, Snapshot
<1>4. seq \in Nat /\ current[j].seq \in Nat /\ current[j].seq <= seq /\ disk[j] \in Versions(j)
      /\ disk[j].seq > 0
  BY <1>0, <1>1 DEF VersionOK, TypeOK, Snapshot, Versions
<1>5. \A a \in Versions(j) : a.seq < c.seq /\ (a.terminal => c.terminal)
  BY <1>1, <1>3, <1>4
<1>6. VersionOf(disk[j]) # Abstract!NoVersion
  BY <1>4 DEF VersionOf, Abstract!NoVersion
<1>7. \A t \in Outstanding(j) \cup {VersionOf(disk[j])} :
          \E a \in Versions(j) : t.seq = a.seq /\ t.terminal = a.terminal
  BY <1>4, OutstandingMember DEF Versions, VersionOf
<1>8. \A t \in Outstanding(j) \cup {VersionOf(disk[j])} : s.seq > t.seq /\ (t.terminal => s.terminal)
  BY <1>2, <1>3, <1>4, <1>5, <1>7
<1>9. Outstanding(j)' = Outstanding(j) \cup {s}
  <2>1. \A v : v \in Outstanding(j)' <=> v \in Outstanding(j) \/ v = s
    BY <1>1, <1>4, <1>5, OutstandingMember DEF SameStore
  <2> QED BY <2>1
<1>10. VersionOf(disk'[j]) = VersionOf(disk[j])
  BY <1>1 DEF SameStore
<1>11. \A i \in Jobs \ {j} : SameAbstract(i)
  BY SameIsStutter DEF Stamped
<1> HIDE DEF c, s
<1>12. Abstract!Stamp(j, s)
  BY <1>6, <1>8, <1>9, <1>10, <1>11 DEF SameAbstract, Abstract!Stamp
<1> QED BY <1>2, <1>12

(* The first record of a job is created durable. *)
LEMMA SpawnedRefines ==
    ASSUME StoreOK, StoreInv, StoreInv', NEW j \in Jobs, Spawned(j)
    PROVE  \E s \in Abstract!Version : Abstract!Create(j, s)
<1> DEFINE s == VersionOf(current'[j])
<1>0. /\ TypeOK /\ VersionOK(j) /\ current'[j] \in Snapshot /\ seq \in Nat
      /\ NoSnapshot.seq = 0 /\ disk[j] = NoSnapshot
  <2>1. TypeOK /\ TypeOK' /\ VersionOK(j)
    BY DEF StoreInv, VersionInv, VersionOK
  <2>2. current'[j] \in Snapshot /\ disk[j] = NoSnapshot
    BY <2>1 DEF TypeOK, Spawned
  <2>3. seq \in Nat /\ NoSnapshot.seq = 0
    BY <2>1 DEF TypeOK, NoSnapshot, StoreOK, ConstantsOK
  <2> QED BY <2>1, <2>2, <2>3
<1>1. /\ Copies(j) = {} /\ Copies(j)' = {} /\ disk'[j] = current'[j] /\ persistPending[j] = NoSnapshot
      /\ persistPending'[j] = NoSnapshot /\ current'[j].seq = seq + 1 /\ ~current'[j].terminal
  BY <1>0 DEF Spawned, VersionOK, NoSnapshot
<1>2. s \in Abstract!Version /\ s.seq > 0 /\ ~s.terminal
  BY <1>0, <1>1 DEF VersionOf, Abstract!Version, Snapshot
<1>3. VersionOf(disk[j]) = Abstract!NoVersion
  BY <1>0 DEF VersionOf, Abstract!NoVersion, NoSnapshot
<1>4. Outstanding(j)' = Outstanding(j)
  <2>1. \A v : v \in Outstanding(j)' <=> v \in Outstanding(j)
    BY <1>0, <1>1, OutstandingMember
  <2> QED BY <2>1
<1>5. \A i \in Jobs \ {j} : SameAbstract(i)
  BY SameIsStutter DEF Spawned
<1> HIDE DEF s
<1>6. VersionOf(disk'[j]) = s
  BY <1>1 DEF s
<1>7. Abstract!Create(j, s)
  BY <1>2, <1>3, <1>4, <1>5, <1>6 DEF SameAbstract, Abstract!Create
<1> QED BY <1>2, <1>7

(* A link changes no version: what it queues was already outstanding. *)
LEMMA LinkedRefines ==
    ASSUME StoreOK, StoreInv, Linked
    PROVE  UNCHANGED Abstract!vars
<1>1. ASSUME NEW j \in Jobs PROVE SameAbstract(j)
  <2>0. TypeOK /\ VersionOK(j)
    BY DEF StoreInv, VersionInv, VersionOK
  <2>1. /\ SameStore(j) /\ VersionOf(current'[j]) = VersionOf(current[j])
        /\ Copies(j) \subseteq Copies(j)' /\ Copies(j)' \subseteq Copies(j) \cup {current'[j]}
    BY DEF Linked
  <2>2. CASE j \notin jobs
    BY <2>2, SameIsStutter DEF Linked
  <2>3. CASE j \in jobs
    <3>1. PICK r \in Copies(j) \cup {disk[j], persistPending[j]} : r.seq = current[j].seq
      BY <2>3 DEF StoreInv, NothingStranded
    <3>2. VersionOf(r) = VersionOf(current[j]) /\ current'[j].seq = r.seq
      <4>1. r \in Versions(j) /\ current[j] \in Versions(j)
        BY DEF Versions
      <4> QED BY <2>0, <2>1, <3>1, <4>1, SameVersion DEF VersionOf
    <3>3. disk[j].seq \in Nat /\ disk'[j] = disk[j] /\ persistPending'[j] = persistPending[j]
      BY <2>0, <2>1 DEF TypeOK, Snapshot, SameStore
    <3>4. current'[j].seq > disk[j].seq => r \in Copies(j) \cup {persistPending[j]}
      BY <3>1, <3>2, <3>3
    <3>5. \A v : v \in Outstanding(j)' <=> v \in Outstanding(j)
      BY <2>1, <3>2, <3>3, <3>4, OutstandingMember
    <3> QED BY <3>3, <3>5 DEF SameAbstract
  <2> QED BY <2>2, <2>3
<1> QED BY <1>1 DEF SameAbstract, Abstract!vars

(* A crash loses what is outstanding and nothing else. *)
LEMMA CrashRefines == ASSUME StoreOK, StoreInv, Crash PROVE Abstract!Crash
<1>1. ASSUME NEW j \in Jobs PROVE VersionOf(disk'[j]) = VersionOf(disk[j]) /\ Outstanding(j)' = {}
  <2>1. Copies(j)' = {}
    <3>1. \A t \in Threads : Held(toSave'[t], j) = {}
      BY DEF Crash, Held
    <3> QED BY <3>1, CopiesMemberNext
  <2>2. disk'[j] = disk[j] /\ persistPending'[j] = NoSnapshot /\ NoSnapshot.seq = 0
    BY DEF Crash, NoSnapshot
  <2>3. disk[j].seq \in Nat
    BY DEF StoreInv, TypeOK, Snapshot
  <2>4. \A v : v \notin Outstanding(j)'
    BY <2>1, <2>2, <2>3, OutstandingMember
  <2> QED BY <2>2, <2>4
<1> QED BY <1>1 DEF Abstract!Crash

(* Closing a record changes nothing else in its version. *)
LEMMA ClosedVersion ==
    ASSUME NEW r \in Snapshot, r.seq \in Nat
    PROVE  [VersionOf(r) EXCEPT !.terminal = TRUE] = [seq |-> r.seq, terminal |-> TRUE]
<1> DEFINE v == VersionOf(r)
<1>1. v \in [seq: Nat, terminal: BOOLEAN] /\ v.seq = r.seq
  BY DEF VersionOf, Snapshot
<1> HIDE DEF v
<1>2. [v EXCEPT !.terminal = TRUE] = [seq |-> v.seq, terminal |-> TRUE]
  <2>1. ASSUME NEW a \in [seq: Nat, terminal: BOOLEAN], NEW b \in [seq: Nat, terminal: BOOLEAN],
               a.seq = b.seq, a.terminal = b.terminal
        PROVE  a = b
    BY <2>1
  <2> DEFINE c == [v EXCEPT !.terminal = TRUE]
             d == [seq |-> v.seq, terminal |-> TRUE]
  <2>2. c \in [seq: Nat, terminal: BOOLEAN] /\ c.seq = v.seq /\ c.terminal = TRUE
    BY <1>1
  <2>3. d \in [seq: Nat, terminal: BOOLEAN] /\ d.seq = v.seq /\ d.terminal = TRUE
    BY <1>1
  <2> HIDE DEF c, d
  <2>4. c = d
    BY <2>1, <2>2, <2>3
  <2> QED BY <2>4 DEF c, d
<1> QED BY <1>1, <1>2 DEF v

(* A start closes the records of jobs that were active. *)
LEMMA RestartRefines ==
    ASSUME StoreOK, StoreInv, Restart
    PROVE  \E closed \in SUBSET Jobs : Abstract!Reconcile(closed)
<1> DEFINE closed == {j \in Jobs : disk'[j] # disk[j]}
<1>1. ASSUME NEW j \in Jobs
      PROVE  /\ Outstanding(j) = {} /\ Outstanding(j)' = {}
             /\ j \in closed => VersionOf(disk[j]).seq > 0
             /\ VersionOf(disk'[j]) = IF j \in closed THEN [VersionOf(disk[j]) EXCEPT !.terminal = TRUE]
                                      ELSE VersionOf(disk[j])
  <2>0. TypeOK /\ DownInv /\ VersionOK(j) /\ disk[j] \in Snapshot /\ disk[j].seq \in Nat /\ NoSnapshot.seq = 0
    <3>1. TypeOK /\ DownInv /\ VersionOK(j)
      BY DEF StoreInv, VersionInv, VersionOK
    <3> QED BY <3>1 DEF TypeOK, Snapshot, NoSnapshot
  <2>1. /\ Copies(j)' = {} /\ persistPending'[j] = NoSnapshot
        /\ j \notin jobs /\ persistPending[j] = NoSnapshot
        /\ \/ disk'[j] = disk[j]
           \/ disk[j] # NoSnapshot /\ disk'[j] = Reconciled(disk[j])
    BY <2>0, RestartKeeps
  <2>2. Copies(j) = {}
    BY <2>0, <2>1 DEF VersionOK
  <2>3. Reconciled(disk[j]).seq = disk[j].seq /\ Reconciled(disk[j]).terminal = TRUE
    BY <2>0 DEF Reconciled, TypeOK, Snapshot
  <2>4. disk'[j].seq = disk[j].seq
    BY <2>1, <2>3
  <2>5. \A v : v \notin Outstanding(j) /\ v \notin Outstanding(j)'
    BY <2>0, <2>1, <2>2, <2>4, OutstandingMember
  <2>6. j \in closed => disk[j].seq > 0 /\ disk'[j] = Reconciled(disk[j])
    BY <2>0, <2>1 DEF VersionOK
  <2>7. VersionOf(Reconciled(disk[j])) = [VersionOf(disk[j]) EXCEPT !.terminal = TRUE]
    BY <2>0, <2>3, ClosedVersion DEF VersionOf
  <2>8. VersionOf(disk[j]).seq = disk[j].seq
    BY DEF VersionOf
  <2> QED BY <2>5, <2>6, <2>7, <2>8
<1>2. closed \in SUBSET Jobs
  OBVIOUS
<1> HIDE DEF closed
<1>3. /\ [j \in Jobs |-> Outstanding(j)]' = [j \in Jobs |-> Outstanding(j)]
      /\ [j \in Jobs |-> VersionOf(disk[j])]' =
            [j \in Jobs |-> IF j \in closed THEN [VersionOf(disk[j]) EXCEPT !.terminal = TRUE]
                            ELSE VersionOf(disk[j])]
  BY <1>1
<1>4. Abstract!Reconcile(closed)
  BY <1>1, <1>2, <1>3 DEF Abstract!Reconcile
<1> QED BY <1>2, <1>4

(* Every step of the store is a step of DurableRecord or is not seen by it. *)
LEMMA StepRefines ==
    ASSUME StoreOK, StoreInv, StoreInv', [Next]_vars
    PROVE  [Abstract!Next]_(Abstract!vars)
<1>1. CASE Crash
  BY <1>1, CrashRefines DEF Abstract!Next
<1>2. CASE Restart
  BY <1>2, RestartRefines DEF Abstract!Next
<1>3. ASSUME NEW j \in Jobs, Spawned(j) PROVE Abstract!Next
  BY <1>3, SpawnedRefines DEF Abstract!Next
<1>4. ASSUME NEW j \in Jobs, Stamped(j) PROVE Abstract!Next
  BY <1>4, StampedRefines DEF Abstract!Next
<1>5. ASSUME NEW j \in Jobs, Moved(j) PROVE [Abstract!Next]_(Abstract!vars)
  BY <1>5, MovedRefines DEF Abstract!Next
<1>6. CASE Linked
  BY <1>6, LinkedRefines
<1>7. CASE Quiet
  BY <1>7, SameIsStutter DEF Quiet, SameAbstract, Abstract!vars
<1> QED BY <1>1, <1>2, <1>3, <1>4, <1>5, <1>6, <1>7, StepCases DEF StoreInv

(* The store starts as DurableRecord does. *)
LEMMA InitRefines == ASSUME StoreOK, Init PROVE Abstract!Init
<1>1. ASSUME NEW j \in Jobs PROVE VersionOf(disk[j]) = Abstract!NoVersion /\ Outstanding(j) = {}
  <2>1. disk[j] = NoSnapshot /\ persistPending[j] = NoSnapshot /\ NoSnapshot.seq = 0 /\ Copies(j) = {}
    BY DEF Init, NoSnapshot, Copies
  <2>2. \A v : v \notin Outstanding(j)
    BY <2>1, OutstandingMember
  <2> QED BY <2>1, <2>2 DEF VersionOf, Abstract!NoVersion, NoSnapshot
<1> QED BY <1>1 DEF Abstract!Init

(* The write path implements the durable record it promises: versions newer *)
(* than the file are outstanding until they are written or give way to a    *)
(* newer one, and only a crash loses them.                                  *)
THEOREM StoreRefines == ASSUME StoreOK PROVE Spec => RefinesDurableRecord
<1>1. Init => Abstract!Init
  BY InitRefines
<1>2. StoreInv /\ StoreInv' /\ [Next]_vars => [Abstract!Next]_(Abstract!vars)
  BY StepRefines
<1> QED BY <1>1, <1>2, StoreCorrect, PTL DEF Spec, RefinesDurableRecord, Abstract!Spec

(* The file only gets newer, what it lacks is outstanding until a crash, and *)
(* a flush that ends without an error leaves nothing pending.                *)
THEOREM RecordStaysDurable == ASSUME StoreOK PROVE Spec => RecordIsDurable
BY StoreRefines, FileNeverGoesBack, FlushIsHonest DEF RecordIsDurable
=============================================================================
