----------------------------- MODULE SessionStore -----------------------------
(***************************************************************************)
(* Saved conversations (internal/session/session.go) and the commands that *)
(* change which one is current (internal/app/slashcmd_sessions.go, start-up*)
(* in cmd/packetcode/runtime.go).  The sessions directory is shared by     *)
(* every packetcode of the user: other processes, of this build or a newer *)
(* one, write to it too.                                                   *)
(*                                                                         *)
(* A message is the session whose turn it was written in; a record is what *)
(* a session file holds.                                                   *)
(***************************************************************************)
EXTENDS Integers, Sequences, SequencesExt

CONSTANTS
    Sessions,      \* session ids
    Computers,     \* Packet Computers
    NoSession,
    MaxMessages,   \* messages of one session
    Faults         \* which calls may fail: subset of AllFaults

AllFaults == {"append", "replace", "migrate", "new", "bind", "restore", "delete", "cleanup"}

ConstantsOK ==
    /\ NoSession \notin Sessions /\ "local" \notin Computers
    /\ MaxMessages \in Nat /\ Faults \subseteq AllFaults

VARIABLES
    disk,      \* the file of each session, or Absent
    computer,  \* where this process works: "local" or a Packet Computer
    current,   \* Manager.current: its id ...
    mem,       \* ... and its record in memory
    root,      \* BackupManager.root: the session /undo works for
    turn,      \* the session a running turn was started in, or NoSession
    newer      \* files a newer build has written

vars == <<disk, computer, current, mem, root, turn, newer>>

currentFormatVersion == 1
Record(v, b, ms) == [version |-> v, bound |-> b, messages |-> ms]
Absent == Record(-1, "local", << >>)
There  == {s \in Sessions : disk[s] # Absent}

\* Mutant: a version is a number to this build, whatever it is.
NotTooNew(r) == FALSE

\* compat.TooNew
TooNew(r) == r.version > currentFormatVersion

\* A call fails, or not, if it may.
Outcome(call) == IF call \in Faults THEN BOOLEAN ELSE {TRUE}

-----------------------------------------------------------------------------
\* writeSessionFile refuses to write for a newer build.
Writable(r) == ~TooNew(r)

File(s, r) == [disk EXCEPT ![s] = r]

\* Manager.Load: refused for a missing or newer file; migrates an old one.
Loadable(s) == disk[s] # Absent /\ ~TooNew(disk[s])
migrateSession(r) == [r EXCEPT !.version = currentFormatVersion]

\* Mutant: any saved session goes with any workspace.
AnyWorkspace(r) == TRUE

\* A local session goes with the local filesystem, a bound one with its computer.
ValidateWorkspace(r) == r.bound = computer

New == Record(currentFormatVersion, "local", << >>)

-----------------------------------------------------------------------------
\* Sessions on disk from earlier runs, of any age; the process starts with a
\* fresh session.
Init ==
    /\ computer \in {"local"} \cup Computers
    /\ \E s \in Sessions, olds \in [Sessions -> {0, 1, 2}], bounds \in [Sessions -> {"local"} \cup Computers] :
         /\ disk = [x \in Sessions |-> Record(IF x = s THEN 1 ELSE olds[x], IF x = s THEN computer ELSE bounds[x], << >>)]
         /\ current = s /\ root = s
         /\ mem = Record(1, computer, << >>)
         /\ newer = {x \in Sessions : disk[x].version = 2}
    /\ turn = NoSession

\* AddMessage, UpdateUsage, Rename ...: the record in memory, then a save whose
\* failure leaves it there for the next save.
AddMessage ==
    /\ turn # NoSession /\ current # NoSession
    /\ Len(mem.messages) < MaxMessages
    /\ mem' = [mem EXCEPT !.messages = Append(@, turn)]
    /\ \E ok \in Outcome("append") :
         disk' = IF ok /\ Writable(mem) THEN File(current, mem') ELSE disk
    /\ UNCHANGED <<computer, current, root, turn, newer>>

Save ==
    /\ current # NoSession
    /\ disk' = IF Writable(mem) THEN File(current, mem) ELSE disk
    /\ UNCHANGED <<computer, current, mem, root, turn, newer>>

\* ReplaceMessagesAfterCompaction: rolled back when the write fails.
ReplaceMessages ==
    /\ turn # NoSession /\ turn = current
    /\ \E ok \in Outcome("replace"), k \in 1 .. MaxMessages :
         /\ k <= Len(mem.messages)
         /\ IF ok /\ Writable(mem)
            THEN /\ mem' = [mem EXCEPT !.messages = SubSeq(@, k, Len(@))]
                 /\ disk' = File(current, mem')
            ELSE UNCHANGED <<mem, disk>>
    /\ turn' = NoSession
    /\ UNCHANGED <<computer, current, root, newer>>

StartTurn ==
    /\ turn = NoSession /\ current # NoSession
    /\ turn' = current
    /\ UNCHANGED <<disk, computer, current, mem, root, newer>>

TurnEnds ==
    /\ turn # NoSession
    /\ turn' = NoSession
    /\ UNCHANGED <<disk, computer, current, mem, root, newer>>

-----------------------------------------------------------------------------
\* Mutant: the previous session is not restored.
noRestore(loaded) == current' = loaded /\ mem' = migrateSession(disk[loaded])

\* restorePreviousSession loads the previous one from its file and does not
\* look at the error.
restorePreviousSession(loaded) ==
    \E ok \in Outcome("restore") :
        IF ok /\ Loadable(current)
        THEN mem' = migrateSession(disk[current]) /\ UNCHANGED current
        ELSE current' = loaded /\ mem' = migrateSession(disk[loaded])

\* Mutant: a session is resumed under a running turn.
resumeUnderTurn(s) ==
    /\ disk[s] # Absent /\ Loadable(s) /\ ValidateWorkspace(disk[s])
    /\ current' = s /\ mem' = migrateSession(disk[s]) /\ root' = s
    /\ disk' = File(s, mem')
    /\ UNCHANGED <<computer, turn, newer>>

\* resumeSessionByID.  The migrated record is written when it is loaded.
resumeSessionByID(s) ==
    /\ turn = NoSession /\ disk[s] # Absent /\ ~TooNew(disk[s])
    /\ \E ok \in Outcome("migrate") :
         IF ~ok /\ disk[s].version < currentFormatVersion
         THEN UNCHANGED <<disk, current, mem, root>>
         ELSE /\ disk' = File(s, migrateSession(disk[s]))
              /\ \/ /\ ValidateWorkspace(disk[s])
                    /\ current' = s /\ mem' = disk'[s] /\ root' = s
                 \/ \* another workspace, or a provider that cannot be set
                    /\ restorePreviousSession(s)
                    /\ UNCHANGED root
    /\ UNCHANGED <<computer, turn, newer>>

\* /sessions delete of another session, turn or no turn.
DeleteOther(s) ==
    /\ s # current /\ s \in There /\ ~TooNew(disk[s])
    /\ disk' = File(s, Absent)
    /\ UNCHANGED <<computer, current, mem, root, turn, newer>>

\* /sessions delete of the active one: a replacement is created, bound and
\* made current before the file goes; each step may fail, and returns.
DeleteActive(s) ==
    LET bound == Record(currentFormatVersion, computer, << >>)
        stepsTo(d, r) == disk' = d /\ current' = s /\ mem' = r /\ root' = root
    IN  /\ turn = NoSession /\ current # NoSession /\ s \notin There
        /\ current \in There /\ ~TooNew(disk[current])
        /\ \E new \in Outcome("new"), bind \in Outcome("bind"), del \in Outcome("delete"),
              cleanup \in Outcome("cleanup") :
             CASE ~new -> stepsTo(disk, New)
               [] new /\ ~bind /\ computer # "local" -> stepsTo(File(s, New), bound)
               [] new /\ (bind \/ computer = "local") /\ ~del ->
                     \* the old one is loaded again, the replacement removed
                     /\ mem' = migrateSession(disk[current]) /\ root' = current
                     /\ UNCHANGED <<disk, current>>
               [] OTHER -> /\ disk' = [File(s, bound) EXCEPT ![current] = Absent]
                           /\ current' = s /\ mem' = bound
                           /\ root' = IF cleanup THEN s ELSE root
        /\ UNCHANGED <<computer, turn, newer>>

-----------------------------------------------------------------------------
\* The process ends, and one is started: with a session to resume, or a new one.
Restart ==
    /\ turn' = NoSession
    /\ computer' \in {"local"} \cup Computers
    /\ \E s \in Sessions :
         \/ /\ Loadable(s) /\ disk[s].bound = computer'
            /\ disk' = File(s, migrateSession(disk[s]))
            /\ current' = s /\ mem' = disk'[s] /\ root' = s
         \/ /\ s \notin There
            /\ disk' = File(s, Record(currentFormatVersion, computer', << >>))
            /\ current' = s /\ mem' = disk'[s] /\ root' = s
    /\ UNCHANGED newer

\* Another process, in another terminal, resumes a session nobody else has
\* open and a newer build rewrites it; or deletes it.
NewerBuild(s) ==
    /\ s # current /\ s \in There
    /\ disk' = File(s, [disk[s] EXCEPT !.version = 2])
    /\ newer' = newer \cup {s}
    /\ UNCHANGED <<computer, current, mem, root, turn>>

Next ==
    \/ AddMessage \/ Save \/ ReplaceMessages \/ StartTurn \/ TurnEnds \/ Restart
    \/ \E s \in Sessions : resumeSessionByID(s) \/ DeleteOther(s) \/ DeleteActive(s) \/ NewerBuild(s)

Spec == Init /\ [][Next]_vars

-----------------------------------------------------------------------------
TypeOK ==
    /\ current \in Sessions \cup {NoSession} /\ root \in Sessions
    /\ turn \in Sessions \cup {NoSession}
    /\ \A s \in Sessions : Len(disk[s].messages) <= MaxMessages

\* session.go "Refuse a session written by a newer build, before anything can be
\* saved over it": what a newer build wrote stays as it wrote it.
NewerIsKept == \A s \in newer : disk[s].version > currentFormatVersion

\* resumeSessionByID, handleSessionsCommand: no command moves the session from
\* under a running turn, so every message is in the file of its own session.
MessagesAreTheirs ==
    \A s \in Sessions : \A i \in 1 .. Len(disk[s].messages) : disk[s].messages[i] = s

\* session.go "prevents a remote transcript from being resumed against a
\* different computer (or against the local filesystem)": no turn runs in a
\* session of another workspace.
TurnsMatchWorkspace == turn # NoSession => mem.bound = computer

\* All of it: what the saved conversations owe their user.
MessagesStayHome == TypeOK /\ MessagesAreTheirs /\ NewerIsKept /\ TurnsMatchWorkspace

=============================================================================
