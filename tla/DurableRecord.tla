--------------------------- MODULE DurableRecord ---------------------------
(***************************************************************************)
(* What the job store promises, without saying how (abstract specification *)
(* of internal/jobs' write path, refined by JobStore).                     *)
(*                                                                         *)
(* Every job has one durable record and a set of newer versions that still *)
(* have to reach the disk.  A version is stamped with a fresh sequence     *)
(* number; a write replaces the durable record by an outstanding version;  *)
(* a version may be dropped only in favour of a newer outstanding one; and *)
(* only a crash loses versions.  After a crash the next start may close    *)
(* the record of a job that was still active, at the same sequence number. *)
(***************************************************************************)
EXTENDS Integers

CONSTANTS
    Jobs,
    Seqs     \* the sequence numbers a version may carry: naturals, 0 for none

VARIABLES
    durable,      \* durable[j]: the version of job j that survives a crash
    outstanding   \* outstanding[j]: stamped versions newer than durable[j]

vars == <<durable, outstanding>>

Version == [seq: Seqs, terminal: BOOLEAN]

NoVersion == [seq |-> 0, terminal |-> FALSE]

Newer(s, j) == {t \in outstanding[j] : t.seq > s.seq}

TypeOK ==
    /\ durable \in [Jobs -> Version]
    /\ outstanding \in [Jobs -> SUBSET Version]

Init ==
    /\ durable = [j \in Jobs |-> NoVersion]
    /\ outstanding = [j \in Jobs |-> {}]

(* The first version of a job is written before anybody sees the job. *)
Create(j, s) ==
    /\ durable[j] = NoVersion
    /\ s.seq > 0 /\ ~s.terminal
    /\ durable' = [durable EXCEPT ![j] = s]
    /\ UNCHANGED outstanding

(* A newer version; a terminal job stays terminal. *)
Stamp(j, s) ==
    /\ durable[j] # NoVersion
    /\ \A t \in outstanding[j] \cup {durable[j]} :
          s.seq > t.seq /\ (t.terminal => s.terminal)
    /\ outstanding' = [outstanding EXCEPT ![j] = @ \cup {s}]
    /\ UNCHANGED durable

Write(j) ==
    \E s \in outstanding[j] :
        /\ durable' = [durable EXCEPT ![j] = s]
        /\ outstanding' = [outstanding EXCEPT ![j] = Newer(s, j)]

(* An outstanding version gives way to a newer outstanding one. *)
Coalesce(j) ==
    \E s, t \in outstanding[j] :
        /\ s.seq < t.seq
        /\ outstanding' = [outstanding EXCEPT ![j] = @ \ {s}]
        /\ UNCHANGED durable

Crash ==
    /\ outstanding' = [j \in Jobs |-> {}]
    /\ UNCHANGED durable

(* The next start closes the records of some jobs that were active. *)
Reconcile(closed) ==
    /\ \A j \in closed : durable[j].seq > 0 /\ outstanding[j] = {}
    /\ durable' = [j \in Jobs |->
          IF j \in closed THEN [durable[j] EXCEPT !.terminal = TRUE] ELSE durable[j]]
    /\ UNCHANGED outstanding

Next ==
    \/ \E j \in Jobs :
          \/ \E s \in Version : Create(j, s) \/ Stamp(j, s)
          \/ Write(j)
          \/ Coalesce(j)
    \/ Crash
    \/ \E closed \in SUBSET Jobs : Reconcile(closed)

Spec == Init /\ [][Next]_vars
=============================================================================
