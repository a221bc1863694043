----------------------------- MODULE FileEdits -----------------------------
(***************************************************************************)
(* Files changed by several agents: tools/write_file.go and patch_file.go, *)
(* the backups of session/backup.go, the path lock of jobs/registry.go and *)
(* /undo.                                                                  *)
(*                                                                         *)
(* The foreground agent and the background jobs that share its workspace   *)
(* change files; a job holds the lock of the path for the whole tool call, *)
(* the foreground takes none.  A text is the set of the edits it shows,    *)
(* with 0 for what was there before and {} for no file; a patch adds to    *)
(* the text it has read, a write replaces it.  A job has a backup manager  *)
(* of its own that nothing restores from, so only the foreground's is here.*)
(***************************************************************************)
EXTENDS Integers, Sequences

CONSTANTS
    Main,      \* the foreground agent
    Jobs,      \* background jobs without a worktree of their own
    Files,
    MaxEdits   \* bound: tool calls

ConstantsOK == Main \notin Jobs /\ "free" \notin Jobs /\ Files # {} /\ MaxEdits \in Nat

VARIABLES
    text,      \* text[f]: the edits file f shows
    lock,      \* Manager.pathLocks: the job that holds f, or "free"
    pc,        \* pc[a]: where the tool call of a is
    call,      \* call[a]: the tool call of a
    edits,     \* tool calls so far
    stack,     \* BackupManager.stack of the foreground
    done,      \* history: the foreground's successful edits that are not undone
    raced      \* history: /undo ran between the backup and the write of an edit

vars == <<text, lock, pc, call, edits, stack, done, raced>>

Agents  == Jobs \cup {Main}
EditIds == 1..MaxEdits
Text    == SUBSET (0..MaxEdits)
Call    == [file: Files, kind: {"patch", "write"}, id: 0..MaxEdits, read: Text]

TypeOK ==
    /\ text \in [Files -> Text]
    /\ lock \in [Files -> Jobs \cup {"free"}]
    /\ pc \in [Agents -> {"idle", "lock", "read", "backup", "write", "rollback"}]
    /\ call \in [Agents -> Call]
    /\ edits \in 0..MaxEdits
    /\ stack \in Seq([file: Files, saved: Text, id: EditIds])
    /\ done \in Seq(EditIds)
    /\ raced \in BOOLEAN

Init ==
    /\ text \in [Files -> {{}, {0}}]
    /\ lock = [f \in Files |-> "free"]
    /\ pc = [a \in Agents |-> "idle"]
    /\ call = [a \in Agents |-> [file |-> CHOOSE f \in Files : TRUE, kind |-> "write",
                                 id |-> 0, read |-> {}]]
    /\ edits = 0
    /\ stack = << >>
    /\ done = << >>
    /\ raced = FALSE

-----------------------------------------------------------------------------
Goto(a, where) == pc' = [pc EXCEPT ![a] = where]

(* pathLockTool.Execute releases the lock when the inner tool returns.       *)
Return(a) ==
    /\ Goto(a, "idle")
    /\ lock' = IF lock[call[a].file] = a THEN [lock EXCEPT ![call[a].file] = "free"] ELSE lock

Execute(a, f, kind) ==
    /\ pc[a] = "idle"
    /\ edits < MaxEdits
    /\ edits' = edits + 1
    /\ call' = [call EXCEPT ![a] = [file |-> f, kind |-> kind, id |-> edits', read |-> {}]]
    /\ Goto(a, IF a = Main THEN "read" ELSE "lock")
    /\ UNCHANGED <<text, lock, stack, done, raced>>

(* Mutant: jobs take no lock. *)
noPathLock(a) ==
    /\ pc[a] = "lock"
    /\ Goto(a, "read")
    /\ UNCHANGED <<text, lock, call, edits, stack, done, raced>>

acquirePathLock(a) ==
    /\ pc[a] = "lock"
    /\ lock[call[a].file] = "free"
    /\ lock' = [lock EXCEPT ![call[a].file] = a]
    /\ Goto(a, "read")
    /\ UNCHANGED <<text, call, edits, stack, done, raced>>

(* patch_file reads the file and applies its patches, or fails: no such      *)
(* file, a search text that is not found or not unique.  write_file reads    *)
(* nothing it depends on.                                                    *)
ReadAndApply(a) ==
    /\ pc[a] = "read"
    /\ \/ /\ call[a].kind = "patch" => text[call[a].file] # {}
          /\ call' = [call EXCEPT ![a].read = IF @ = {} /\ call[a].kind = "patch"
                                              THEN text[call[a].file] ELSE {}]
          /\ Goto(a, "backup")
          /\ UNCHANGED lock
       \/ /\ Return(a)
          /\ UNCHANGED call
    /\ UNCHANGED <<text, edits, stack, done, raced>>

(* BackupManager.Backup: what the file holds now, or that there is none.     *)
Backup(a) ==
    /\ pc[a] = "backup"
    /\ \/ /\ stack' = IF a = Main
                      THEN Append(stack, [file |-> call[a].file, saved |-> text[call[a].file],
                                          id |-> call[a].id])
                      ELSE stack
          /\ Goto(a, "write")
          /\ UNCHANGED lock
       \/ /\ Return(a)
          /\ UNCHANGED stack
    /\ UNCHANGED <<text, call, edits, done, raced>>

(* Backend.WriteFile: a temporary file renamed into place, or an error.      *)
WriteFile(a) ==
    /\ pc[a] = "write"
    /\ \/ /\ text' = [text EXCEPT ![call[a].file] = call[a].read \cup {call[a].id}]
          /\ done' = IF a = Main THEN Append(done, call[a].id) ELSE done
          /\ Return(a)
       \/ /\ Goto(a, "rollback")
          /\ UNCHANGED <<text, lock, done>>
    /\ UNCHANGED <<call, edits, stack, raced>>

(* Mutant: a failed write leaves its backup. *)
noRollback(a) ==
    /\ pc[a] = "rollback"
    /\ Return(a)
    /\ UNCHANGED <<text, call, edits, stack, done, raced>>

(* RollbackBackup: the last entry goes if it is of this file.                *)
rollbackBackup(a) ==
    /\ pc[a] = "rollback"
    /\ stack' = IF /\ a = Main /\ stack # << >>
                   /\ stack[Len(stack)].file = call[a].file
                THEN SubSeq(stack, 1, Len(stack) - 1) ELSE stack
    /\ Return(a)
    /\ UNCHANGED <<text, call, edits, done, raced>>

(* /undo, at any time: an error leaves the entry where it is.                *)
Undo ==
    /\ stack # << >>
    /\ LET last == stack[Len(stack)] IN text' = [text EXCEPT ![last.file] = last.saved]
    /\ stack' = SubSeq(stack, 1, Len(stack) - 1)
    /\ IF pc[Main] \in {"write", "rollback"}
       THEN raced' = TRUE /\ UNCHANGED done
       ELSE UNCHANGED raced /\ done' = SubSeq(done, 1, Len(done) - 1)
    /\ UNCHANGED <<lock, pc, call, edits>>

(* Another session is loaded; only between turns. *)
SwitchSession ==
    /\ pc[Main] = "idle"
    /\ stack # << >>
    /\ stack' = << >>
    /\ done' = << >>
    /\ UNCHANGED <<text, lock, pc, call, edits, raced>>

Next ==
    \/ \E a \in Agents : \/ \E f \in Files, kind \in {"patch", "write"} : Execute(a, f, kind)
                         \/ acquirePathLock(a) \/ ReadAndApply(a) \/ Backup(a)
                         \/ WriteFile(a) \/ rollbackBackup(a)
    \/ Undo \/ SwitchSession

Spec == Init /\ [][Next]_vars

-----------------------------------------------------------------------------
(* What the foreground can undo is what it did, in that order: each          *)
(* successful edit once, no failed one - unless /undo came between a backup  *)
(* and its write.  (RollbackBackup: "so failed writes do not become undoable *)
(* operations")                                                              *)
UndoStackIsHonest ==
    pc[Main] = "idle" /\ ~raced => done = [i \in DOMAIN stack |-> stack[i].id]

(* While a job has read a file and not yet written it back, no other job     *)
(* writes it, so no job's edit is lost in another's.  (pathLockTool:         *)
(* "concurrent jobs writing to the same path serialise")                     *)
JobsKeepEachOther ==
    [][\A a, b \in Jobs :
          /\ a # b
          /\ pc[b] = "write" /\ pc'[b] = "idle"
          /\ call[a].file = call[b].file
          => pc[a] \notin {"backup", "write"}]_vars
=============================================================================
