-------------------------- MODULE MCServices_proofs --------------------------
(***************************************************************************)
(* What runs beside the conversation, for any size: the parts of           *)
(* MCServices keep their invariants, each by an inductive one of its own.  *)
(***************************************************************************)
EXTENDS MCServices, SequenceTheorems, TLAPS

-----------------------------------------------------------------------------
(* McpClient, for any number of calls: a call that still waits when the      *)
(* server has been declared dead has its answer in the channel.              *)

(* The inductive invariant, in parts. *)

(* A registered call is found by whoever empties the table, or has been      *)
(* answered.                                                                 *)
RegisteredInv ==
    \A c \in Calls : pc[c] \in {"writing", "waiting"} /\ channel[c] = "empty" => c \in pending

(* A call takes a number of its own and declares the server dead at most     *)
(* once, when its write is cancelled.                                        *)
NumberInv ==
    \A c \in Calls : /\ c > nextID => pc[c] = "new"
                     /\ pc[c] \in {"new", "called", "writing", "waiting"} => ending[c] = "no"

(* Nobody empties the table before the client is marked dead, and whoever    *)
(* marked it closes stdin next: a call can be registered after the table was *)
(* emptied, but then it cannot be written, or its table is emptied again.    *)
DeadInv ==
    /\ ~dead => \A p \in Parties : ending[p] \in {"no", "mark"}
    /\ dead /\ stdin => \E p \in Parties : ending[p] = "close"

(* Somebody will still find call c in the table. *)
WillFind(p, c) ==
    \/ ending[p] \in {"mark", "close", "range"}
    \/ (ending[p] = "flush" /\ c \in todo[p])

(* Once the reader has walked the table, a call that waits with an empty     *)
(* channel will be found by somebody else.                                   *)
FoundInv ==
    ending[Reader] \in {"flush", "ended"} =>
        \A c \in Calls : pc[c] = "waiting" /\ channel[c] = "empty" =>
            \E p \in Parties : WillFind(p, c)

ClientInv == TypeOK /\ NumberInv /\ RegisteredInv /\ DeadInv /\ FoundInv

-----------------------------------------------------------------------------
(* The client is well typed. *)
LEMMA TypeInit == ASSUME ConstantsOK, Init PROVE TypeOK
<1>1. nextID \in 0..MaxCalls
  BY DEF Init, ConstantsOK
<1> QED BY <1>1 DEF Init, TypeOK

LEMMA TypeNext == ASSUME ConstantsOK, TypeOK, [Next]_vars PROVE TypeOK'
<1> USE DEF TypeOK, ConstantsOK
<1>1. CASE CallTool
  BY <1>1 DEF CallTool, Calls
<1>2. ASSUME NEW c \in Calls, callTimed(c) PROVE TypeOK'
  BY <1>2 DEF callTimed
<1>3. ASSUME NEW c \in Calls, Write(c) PROVE TypeOK'
  BY <1>3 DEF Write, Return
<1>4. ASSUME NEW c \in Calls, CancelWrite(c) PROVE TypeOK'
  BY <1>4 DEF CancelWrite
<1>5. ASSUME NEW c \in Calls, AbortReturns(c) \/ Receive(c) \/ Timeout(c) PROVE TypeOK'
  BY <1>5 DEF AbortReturns, Receive, Timeout, Return
<1>6. ASSUME NEW c \in Calls, Answer(c) \/ deliverResponse(c) PROVE TypeOK'
  BY <1>6 DEF Answer, deliverResponse, Send
<1>7. CASE Exit \/ readerLoopEnds \/ reaperLoop
  BY <1>7 DEF Exit, readerLoopEnds, reaperLoop
<1>8. ASSUME NEW p \in Parties, markDead(p) PROVE TypeOK'
  BY <1>8 DEF markDead
<1>9. ASSUME NEW p \in Parties, flushPendingExited(p) PROVE TypeOK'
  BY <1>9 DEF flushPendingExited, Send
<1>10. CASE Close \/ CloseTimeout
  BY <1>10 DEF Close, CloseTimeout
<1>11. CASE UNCHANGED vars
  BY <1>11 DEF vars
<1> QED BY <1>1, <1>2, <1>3, <1>4, <1>5, <1>6, <1>7, <1>8, <1>9, <1>10, <1>11 DEF Next

-----------------------------------------------------------------------------
(* A call goes through its states once.                                      *)
LEMMA NumberNext == ASSUME ConstantsOK, TypeOK, NumberInv, [Next]_vars PROVE NumberInv'
<1> USE DEF TypeOK, NumberInv, Calls
<1>1. CASE CallTool
  BY <1>1 DEF CallTool
<1>2. ASSUME NEW c \in Calls, callTimed(c) \/ Write(c) \/ AbortReturns(c) \/ Receive(c) \/ Timeout(c)
      PROVE  NumberInv'
  <2>1. /\ pc[c] # "new" /\ pc'[c] \in {"writing", "waiting", "done"}
        /\ pc'[c] # "done" => ending[c] = "no"
        /\ \A d \in Calls \ {c} : pc'[d] = pc[d]
        /\ UNCHANGED <<nextID, ending>>
    BY <1>2 DEF callTimed, Write, AbortReturns, Receive, Timeout, Return
  <2> QED BY <2>1
<1>6. ASSUME NEW c \in Calls, CancelWrite(c) PROVE NumberInv'
  BY <1>6 DEF CancelWrite
<1>3. CASE UNCHANGED <<nextID, pc, ending>>
  BY <1>3
<1>4. CASE readerLoopEnds \/ reaperLoop
  <2>1. \A c \in Calls : c \in Parties /\ c # Reader /\ c # Reaper
    BY DEF Parties, Reader, Reaper
  <2> QED BY <1>4, <2>1 DEF readerLoopEnds, reaperLoop
<1>5. ASSUME NEW p \in Parties, markDead(p) \/ flushPendingExited(p) PROVE NumberInv'
  <2>1. ending[p] # "no" /\ \A q \in Parties \ {p} : ending'[q] = ending[q]
    BY <1>5 DEF markDead, flushPendingExited
  <2>2. UNCHANGED <<nextID, pc>> /\ Calls \subseteq Parties
    BY <1>5 DEF markDead, flushPendingExited, Parties
  <2> QED BY <2>1, <2>2
<1> QED BY <1>1, <1>2, <1>3, <1>4, <1>5, <1>6
        DEF Next, vars, Answer, deliverResponse, Exit, Close, CloseTimeout

(* A registered call stays in the table until it is answered.                *)
LEMMA RegisteredNext ==
    ASSUME ConstantsOK, TypeOK, RegisteredInv, [Next]_vars PROVE RegisteredInv'
<1> USE DEF TypeOK, RegisteredInv
<1>1. CASE CallTool
  BY <1>1 DEF CallTool
<1>2. ASSUME NEW c \in Calls, callTimed(c) PROVE RegisteredInv'
  BY <1>2 DEF callTimed
<1>3. ASSUME NEW c \in Calls, Write(c) PROVE RegisteredInv'
  BY <1>3 DEF Write, Return
<1>4. ASSUME NEW c \in Calls, CancelWrite(c) PROVE RegisteredInv'
  BY <1>4 DEF CancelWrite
<1>5. ASSUME NEW c \in Calls, AbortReturns(c) \/ Receive(c) \/ Timeout(c) PROVE RegisteredInv'
  BY <1>5 DEF AbortReturns, Receive, Timeout, Return
<1>6. ASSUME NEW c \in Calls, Answer(c) PROVE RegisteredInv'
  BY <1>6 DEF Answer
<1>7. ASSUME NEW c \in Calls, deliverResponse(c) PROVE RegisteredInv'
  BY <1>7 DEF deliverResponse, Send
<1>8. CASE Exit \/ readerLoopEnds \/ reaperLoop \/ Close \/ CloseTimeout \/ UNCHANGED vars
  BY <1>8 DEF Exit, readerLoopEnds, reaperLoop, Close, CloseTimeout, vars
<1>9. ASSUME NEW p \in Parties, markDead(p) PROVE RegisteredInv'
  BY <1>9 DEF markDead
<1>10. ASSUME NEW p \in Parties, flushPendingExited(p) PROVE RegisteredInv'
  <2>1. CASE UNCHANGED <<channel, pending>>
    BY <2>1, <1>10 DEF flushPendingExited
  <2>2. ASSUME NEW c \in todo[p], pending' = pending \ {c}, channel' = Send(channel, c, "exited")
        PROVE  RegisteredInv'
    BY <2>2, <1>10 DEF flushPendingExited, Send
  <2> QED BY <2>1, <2>2, <1>10 DEF flushPendingExited
<1> QED BY <1>1, <1>2, <1>3, <1>4, <1>5, <1>6, <1>7, <1>8, <1>9, <1>10 DEF Next

(* The flag comes first, then stdin, then the table.                         *)
LEMMA DeadNext == ASSUME TypeOK, NumberInv, DeadInv, [Next]_vars PROVE DeadInv'
<1> USE DEF TypeOK, DeadInv
<1>1. CASE UNCHANGED <<dead, stdin, ending>>
  BY <1>1
<1>2. ASSUME NEW c \in Calls, CancelWrite(c) PROVE DeadInv'
  <2>1. c \in Parties /\ ending[c] = "no"
    BY <1>2 DEF Parties, NumberInv, CancelWrite
  <2> QED BY <1>2, <2>1 DEF CancelWrite
<1>3. CASE readerLoopEnds \/ reaperLoop
  BY <1>3 DEF readerLoopEnds, reaperLoop, Parties
<1>4. ASSUME NEW p \in Parties, markDead(p) PROVE DeadInv'
  BY <1>4 DEF markDead
<1>5. ASSUME NEW p \in Parties, flushPendingExited(p) PROVE DeadInv'
  BY <1>5 DEF flushPendingExited
<1>6. CASE Close \/ CloseTimeout
  BY <1>6 DEF Close, CloseTimeout
<1> QED BY <1>1, <1>2, <1>3, <1>4, <1>5, <1>6
        DEF Next, vars, CallTool, callTimed, Write, AbortReturns, Receive, Timeout, Answer,
            deliverResponse, Exit

(* Whoever will find a call in the table does, or passes it on.              *)
LEMMA FoundNext == ASSUME ConstantsOK, ClientInv, [Next]_vars PROVE FoundInv'
<1> USE DEF ClientInv, TypeOK
<1>0. SUFFICES ASSUME ending'[Reader] \in {"flush", "ended"}, NEW c \in Calls,
                      pc'[c] = "waiting", channel'[c] = "empty"
               PROVE  \E p \in Parties : WillFind(p, c)'
  BY DEF FoundInv
<1> DEFINE Goal == \E p \in Parties : WillFind(p, c)'
<1>1. ASSUME channel[c] = "empty", pc[c] = "waiting", ending[Reader] \in {"flush", "ended"}
      PROVE  \E p \in Parties : WillFind(p, c)
  BY <1>1 DEF FoundInv
<1>2. ASSUME UNCHANGED <<ending, todo>>, pc[c] = "waiting", channel[c] = "empty" PROVE Goal
  BY <1>0, <1>1, <1>2 DEF WillFind
<1>3. ASSUME NEW d \in Calls, Write(d) PROVE Goal
  <2>1. CASE pc[c] = "waiting"
    BY <1>2, <1>3, <2>1, <1>0 DEF Write
  <2>2. CASE pc[c] # "waiting"
    <3>1. stdin /\ dead /\ UNCHANGED <<ending, todo>>
      BY <1>0, <1>3, <2>2 DEF Write, Return, DeadInv, Parties
    <3> QED BY <3>1 DEF DeadInv, WillFind
  <2> QED BY <2>1, <2>2
<1>4. ASSUME NEW d \in Calls, CancelWrite(d) PROVE Goal
  <2>1. d \in Parties /\ ending'[d] = "mark"
    BY <1>4 DEF CancelWrite, Parties
  <2> QED BY <2>1 DEF WillFind
<1>5. ASSUME NEW d \in Calls, deliverResponse(d) PROVE Goal
  BY <1>0, <1>2, <1>5 DEF deliverResponse, Send
<1>6. CASE readerLoopEnds \/ reaperLoop
  <2>1. Reader \in Parties /\ Reaper \in Parties /\ Reader # Reaper
    BY DEF Parties, Reader, Reaper
  <2>2. ending'[Reaper] = "mark"
    BY <1>0, <1>6, <2>1 DEF readerLoopEnds, reaperLoop
  <2> QED BY <2>1, <2>2 DEF WillFind
<1>7. ASSUME NEW p \in Parties, markDead(p) PROVE Goal
  <2>1. ending'[p] \in {"close", "range"}
    BY <1>7 DEF markDead
  <2> QED BY <2>1 DEF WillFind
<1>8. ASSUME NEW p \in Parties, flushPendingExited(p) PROVE Goal
  <2>1. CASE ending[p] = "range" /\ todo'[p] = pending /\ ending'[p] = "flush" /\ UNCHANGED channel
    <3>1. c \in pending
      BY <1>0, <1>8, <2>1 DEF flushPendingExited, RegisteredInv
    <3> QED BY <2>1, <3>1 DEF WillFind
  <2>2. ASSUME NEW d \in todo[p], ending[p] = "flush", todo' = [todo EXCEPT ![p] = @ \ {d}],
               channel' = Send(channel, d, "exited"), UNCHANGED ending
        PROVE  Goal
    <3>1. c # d /\ channel[c] = "empty" /\ pc[c] = "waiting"
      BY <1>0, <1>8, <2>2 DEF flushPendingExited, Send
    <3>2. PICK q \in Parties : WillFind(q, c)
      BY <1>0, <1>1, <2>2, <3>1
    <3>3. WillFind(q, c)'
      BY <2>2, <3>1, <3>2 DEF WillFind
    <3> QED BY <3>3
  <2>3. CASE ending[p] = "flush" /\ todo[p] = {} /\ ending' = [ending EXCEPT ![p] = "ended"]
             /\ UNCHANGED <<channel, todo>>
    <3>1. ending[Reader] \in {"flush", "ended"} /\ pc[c] = "waiting"
      BY <1>0, <1>8, <2>3 DEF flushPendingExited, Parties
    <3>2. PICK q \in Parties : WillFind(q, c)
      BY <1>0, <1>1, <2>3, <3>1
    <3>3. WillFind(q, c)'
      BY <2>3, <3>2 DEF WillFind
    <3> QED BY <3>3
  <2> QED BY <1>8, <2>1, <2>2, <2>3 DEF flushPendingExited
<1>9. CASE CallTool \/ \E d \in Calls : callTimed(d) \/ AbortReturns(d) \/ Receive(d) \/ Timeout(d) \/ Answer(d)
  BY <1>0, <1>2, <1>9 DEF CallTool, callTimed, AbortReturns, Receive, Timeout, Answer, Return
<1>10. CASE Exit \/ Close \/ CloseTimeout \/ UNCHANGED vars
  BY <1>0, <1>2, <1>10 DEF Exit, Close, CloseTimeout, vars
<1> QED BY <1>3, <1>4, <1>5, <1>6, <1>7, <1>8, <1>9, <1>10 DEF Next

-----------------------------------------------------------------------------
(* The invariant holds, for any number of calls. *)
THEOREM ClientCorrect == ASSUME ConstantsOK PROVE Spec => []ClientInv
<1>1. Init => ClientInv
  BY TypeInit DEF Init, ClientInv, TypeOK, NumberInv, RegisteredInv, DeadInv, FoundInv, Parties
<1>2. ClientInv /\ [Next]_vars => ClientInv'
  BY TypeNext, NumberNext, RegisteredNext, DeadNext, FoundNext DEF ClientInv
<1> QED BY <1>1, <1>2, PTL DEF Spec

(* No call waits in vain for a server that has been declared dead. *)
THEOREM CallsReturn == ASSUME ConstantsOK PROVE Spec => []CallsAreAnswered
<1>1. ClientInv => CallsAreAnswered
  BY DEF ClientInv, FoundInv, NoCallLeftBehind, WillFind, CallsAreAnswered
<1> QED BY <1>1, ClientCorrect, PTL
-----------------------------------------------------------------------------
(* FileEdits: for any number of jobs, files and edits. *)

(* A tool call that is under way has a number, and the foreground waits for  *)
(* no lock.                                                                  *)
CallInv ==
    /\ \A a \in Edits!Agents : editPc[a] # "idle" => call[a].id \in Edits!EditIds
    /\ editPc[Main] # "lock"

(* A job inside its tool call holds the lock of the path.                    *)
LockInv ==
    \A j \in Jobs : editPc[j] \in {"read", "backup", "write", "rollback"} => lock[call[j].file] = j

Ahead == IF editPc[Main] \in {"write", "rollback"} THEN 1 ELSE 0

(* Between a backup and its write the stack is one entry ahead of what was   *)
(* done, and the entry is the call's.                                        *)
StackInv ==
    ~raced =>
        /\ Len(stack) = Len(done) + Ahead
        /\ \A i \in 1..Len(done) : done[i] = stack[i].id
        /\ Ahead = 1 => stack[Len(stack)].file = call[Main].file /\ stack[Len(stack)].id = call[Main].id

EditInv == Edits!TypeOK /\ CallInv /\ LockInv /\ StackInv

LEMMA EditInit == ASSUME Edits!ConstantsOK, Edits!Init PROVE EditInv
<1> USE DEF Edits!ConstantsOK, Edits!Init
<1>1. Edits!TypeOK
  <2>1. 0 \in 0..MaxEdits /\ {} \in Edits!Text /\ {0} \in Edits!Text
    BY DEF Edits!Text
  <2>2. text \in [Files -> Edits!Text]
    BY <2>1
  <2>3. call \in [Edits!Agents -> Edits!Call]
    BY <2>1 DEF Edits!Call
  <2>4. stack \in Seq([file: Files, saved: Edits!Text, id: Edits!EditIds]) /\ done \in Seq(Edits!EditIds)
    OBVIOUS
  <2>5. lock \in [Files -> Jobs \cup {"free"}] /\ editPc \in [Edits!Agents -> {"idle", "lock", "read", "backup", "write", "rollback"}]
    OBVIOUS
  <2> QED BY <2>1, <2>2, <2>3, <2>4, <2>5 DEF Edits!TypeOK
<1>2. CallInv /\ LockInv
  BY DEF CallInv, LockInv, Edits!Agents
<1>3. StackInv
  BY DEF StackInv, Ahead, Edits!Agents
<1> QED BY <1>1, <1>2, <1>3 DEF EditInv

(* A sequence without its last element. *)
LEMMA ButLast ==
    ASSUME NEW S, NEW s \in Seq(S)
    PROVE  LET t == SubSeq(s, 1, Len(s) - 1)
           IN  /\ t \in Seq(S)
               /\ Len(t) = IF s = << >> THEN 0 ELSE Len(s) - 1
               /\ \A i \in 1..Len(t) : t[i] = s[i]
<1>1. \A i \in 1..Len(s) - 1 : s[i] \in S
  OBVIOUS
<1>2. Len(s) \in Nat /\ (s = << >> <=> Len(s) = 0)
  OBVIOUS
<1> QED BY <1>1, <1>2, SubSeqProperties

Entry == [file: Files, saved: Edits!Text, id: Edits!EditIds]
EditPcs == {"idle", "lock", "read", "backup", "write", "rollback"}

(* A call that returns gives its lock back.                                  *)
LEMMA ReturnTyped ==
    ASSUME Edits!TypeOK, CallInv, NEW a \in Edits!Agents, Edits!Return(a)
    PROVE  /\ lock' \in [Files -> Jobs \cup {"free"}] /\ editPc' \in [Edits!Agents -> EditPcs]
           /\ \A b \in Edits!Agents : editPc'[b] = IF b = a THEN "idle" ELSE editPc[b]
  BY DEF Edits!TypeOK, Edits!Return, Edits!Goto, EditPcs

LEMMA GotoTyped ==
    ASSUME Edits!TypeOK, NEW a \in Edits!Agents, NEW where \in EditPcs, Edits!Goto(a, where)
    PROVE  /\ editPc' \in [Edits!Agents -> EditPcs]
           /\ \A b \in Edits!Agents : editPc'[b] = IF b = a THEN where ELSE editPc[b]
  BY DEF Edits!TypeOK, Edits!Goto, EditPcs

LEMMA EditTypeNext ==
    ASSUME Edits!ConstantsOK, Edits!TypeOK, CallInv, [Edits!Next]_editVars
    PROVE  Edits!TypeOK' /\ CallInv'
<1>0. stack \in Seq(Entry)
  BY DEF Edits!TypeOK, Entry
<1> USE DEF Edits!TypeOK, CallInv, Edits!ConstantsOK, EditPcs
<1> Main \in Edits!Agents
  BY DEF Edits!Agents
<1>1. ASSUME NEW a \in Edits!Agents, NEW f \in Files, NEW kind \in {"patch", "write"}, Edits!Execute(a, f, kind)
      PROVE Edits!TypeOK' /\ CallInv'
  <2>1. edits' \in 1..MaxEdits /\ edits' \in 0..MaxEdits /\ {} \in Edits!Text
    BY <1>1 DEF Edits!Execute, Edits!Text
  <2>2. [file |-> f, kind |-> kind, id |-> edits', read |-> {}] \in Edits!Call
    BY <2>1 DEF Edits!Call
  <2>3. call' \in [Edits!Agents -> Edits!Call] /\ call'[a].id = edits' /\ \A b \in Edits!Agents \ {a} : call'[b] = call[b]
    BY <1>1, <2>2 DEF Edits!Execute
  <2>4. /\ editPc' \in [Edits!Agents -> EditPcs] /\ editPc'[Main] # "lock"
        /\ \A b \in Edits!Agents \ {a} : editPc'[b] = editPc[b]
    BY <1>1 DEF Edits!Execute, Edits!Goto
  <2> QED BY <1>1, <2>1, <2>3, <2>4 DEF Edits!Execute, Edits!EditIds
<1>2. ASSUME NEW a \in Edits!Agents, Edits!acquirePathLock(a) PROVE Edits!TypeOK' /\ CallInv'
  <2>1. a \in Jobs
    BY <1>2 DEF Edits!acquirePathLock, Edits!Agents
  <2> QED BY <1>2, <2>1, GotoTyped DEF Edits!acquirePathLock
<1>3. ASSUME NEW a \in Edits!Agents, Edits!ReadAndApply(a) PROVE Edits!TypeOK' /\ CallInv'
  <2>1. CASE Edits!Return(a) /\ UNCHANGED call
    BY <1>3, <2>1, ReturnTyped DEF Edits!ReadAndApply
  <2>2. CASE Edits!Goto(a, "backup") /\ UNCHANGED lock
    <3>1. PICK r \in Edits!Text : call' = [call EXCEPT ![a].read = r]
      <4>1. {} \in Edits!Text /\ text[call[a].file] \in Edits!Text
        BY DEF Edits!Text, Edits!Call
      <4> QED BY <1>3, <2>2, <4>1, ReturnTyped DEF Edits!ReadAndApply, Edits!Return, Edits!Goto
    <3>2. call' \in [Edits!Agents -> Edits!Call] /\ \A b \in Edits!Agents : call'[b].id = call[b].id
      BY <3>1 DEF Edits!Call
    <3> QED BY <1>3, <2>2, <3>2, GotoTyped DEF Edits!ReadAndApply
  <2> QED BY <1>3, <2>1, <2>2 DEF Edits!ReadAndApply
<1>4. ASSUME NEW a \in Edits!Agents, Edits!Backup(a) PROVE Edits!TypeOK' /\ CallInv'
  <2>1. [file |-> call[a].file, saved |-> text[call[a].file], id |-> call[a].id] \in Entry
    BY <1>4 DEF Edits!Backup, Edits!Call, Entry
  <2>2. stack' \in Seq(Entry)
    <3> HIDE DEF Edits!TypeOK, CallInv
    <3> QED BY <1>0, <1>4, <2>1 DEF Edits!Backup
  <2>3. Edits!Return(a) \/ (Edits!Goto(a, "write") /\ UNCHANGED lock)
    BY <1>4 DEF Edits!Backup
  <2> QED BY <1>4, <2>2, <2>3, ReturnTyped, GotoTyped DEF Edits!Backup, Entry
<1>5. ASSUME NEW a \in Edits!Agents, Edits!WriteFile(a) PROVE Edits!TypeOK' /\ CallInv'
  <2>1. CASE Edits!Return(a) /\ text' = [text EXCEPT ![call[a].file] = call[a].read \cup {call[a].id}]
                            /\ done' = IF a = Main THEN Append(done, call[a].id) ELSE done
    <3>1. text' \in [Files -> Edits!Text]
      BY <2>1 DEF Edits!Text, Edits!Call
    <3>2. done' \in Seq(Edits!EditIds)
      BY <1>5, <2>1 DEF Edits!WriteFile
    <3> QED BY <1>5, <2>1, <3>1, <3>2, ReturnTyped DEF Edits!WriteFile
  <2>2. CASE Edits!Goto(a, "rollback") /\ UNCHANGED <<text, lock, done>>
    BY <1>5, <2>2, GotoTyped DEF Edits!WriteFile
  <2> QED BY <1>5, <2>1, <2>2 DEF Edits!WriteFile
<1>6. ASSUME NEW a \in Edits!Agents, Edits!rollbackBackup(a) PROVE Edits!TypeOK' /\ CallInv'
  BY <1>6, ReturnTyped DEF Edits!rollbackBackup
<1>7. CASE Edits!Undo
  <2>1. stack[Len(stack)] \in Entry
    <3> HIDE DEF Edits!TypeOK, CallInv
    <3> QED BY <1>0, <1>7 DEF Edits!Undo
  <2>2. text' \in [Files -> Edits!Text]
    BY <1>7, <2>1 DEF Edits!Undo, Entry
  <2>3. stack' \in Seq(Entry) /\ done' \in Seq(Edits!EditIds)
    <3>1. done \in Seq(Edits!EditIds)
      OBVIOUS
    <3> HIDE DEF Edits!TypeOK, CallInv
    <3>2. stack' = SubSeq(stack, 1, Len(stack) - 1) /\ (done' = done \/ done' = SubSeq(done, 1, Len(done) - 1))
      BY <1>7 DEF Edits!Undo
    <3>3. SubSeq(stack, 1, Len(stack) - 1) \in Seq(Entry)
      BY <1>0, ButLast
    <3>4. SubSeq(done, 1, Len(done) - 1) \in Seq(Edits!EditIds)
      BY <3>1, ButLast
    <3> QED BY <3>1, <3>2, <3>3, <3>4
  <2>4. UNCHANGED <<lock, editPc, call, edits>> /\ raced' \in BOOLEAN
    BY <1>7 DEF Edits!Undo
  <2> QED BY <2>2, <2>3, <2>4 DEF Entry
<1>8. CASE Edits!SwitchSession
  <2>1. stack' \in Seq(Entry) /\ done' \in Seq(Edits!EditIds)
    BY <1>8 DEF Edits!SwitchSession
  <2> QED BY <1>8, <2>1 DEF Edits!SwitchSession, Entry
<1>9. CASE UNCHANGED editVars
  BY <1>9 DEF editVars
<1> QED BY <1>1, <1>2, <1>3, <1>4, <1>5, <1>6, <1>7, <1>8, <1>9 DEF Edits!Next

(* Nobody but its holder releases a path. *)
LEMMA LockNext ==
    ASSUME Edits!ConstantsOK, Edits!TypeOK, CallInv, LockInv, [Edits!Next]_editVars
    PROVE  LockInv'
<1> USE DEF Edits!TypeOK, LockInv, Edits!ConstantsOK, Edits!Goto, Edits!Return
<1> Jobs \subseteq Edits!Agents
  BY DEF Edits!Agents
<1> \A a \in Edits!Agents : call[a].file \in Files
  BY DEF Edits!Call
<1>1. ASSUME NEW a \in Edits!Agents, NEW f \in Files, NEW kind \in {"patch", "write"}, Edits!Execute(a, f, kind)
      PROVE LockInv'
  BY <1>1 DEF Edits!Execute
<1>2. ASSUME NEW a \in Edits!Agents, Edits!acquirePathLock(a) PROVE LockInv'
  BY <1>2 DEF Edits!acquirePathLock
<1>3. ASSUME NEW a \in Edits!Agents, Edits!ReadAndApply(a) PROVE LockInv'
  <2>1. call' = call \/ \E r : call' = [call EXCEPT ![a].read = r]
    BY <1>3 DEF Edits!ReadAndApply
  <2>2. \A b \in Edits!Agents : call'[b].file = call[b].file
    BY <2>1 DEF Edits!Call
  <2> QED BY <1>3, <2>2 DEF Edits!ReadAndApply
<1>4. ASSUME NEW a \in Edits!Agents, Edits!Backup(a) PROVE LockInv'
  BY <1>4 DEF Edits!Backup
<1>5. ASSUME NEW a \in Edits!Agents, Edits!WriteFile(a) PROVE LockInv'
  BY <1>5 DEF Edits!WriteFile
<1>6. ASSUME NEW a \in Edits!Agents, Edits!rollbackBackup(a) PROVE LockInv'
  BY <1>6 DEF Edits!rollbackBackup
<1>7. CASE Edits!Undo \/ Edits!SwitchSession \/ UNCHANGED editVars
  BY <1>7 DEF Edits!Undo, Edits!SwitchSession, editVars
<1> QED BY <1>1, <1>2, <1>3, <1>4, <1>5, <1>6, <1>7 DEF Edits!Next

(* The stack follows what the foreground does, whoever else writes. *)
LEMMA StackNext ==
    ASSUME Edits!ConstantsOK, Edits!TypeOK, CallInv, StackInv, [Edits!Next]_editVars
    PROVE  StackInv'
<1>0. stack \in Seq(Entry) /\ done \in Seq(Edits!EditIds) /\ Len(stack) \in Nat /\ Len(done) \in Nat
  BY DEF Edits!TypeOK, Entry
<1> USE DEF StackInv, Ahead
<1> Main \in Edits!Agents
  BY DEF Edits!Agents
<1>1. ASSUME NEW a \in Edits!Agents, NEW f \in Files, NEW kind \in {"patch", "write"}, Edits!Execute(a, f, kind)
      PROVE StackInv'
  <2>1. UNCHANGED <<stack, done, raced>> /\ Ahead' = Ahead /\ (Ahead = 1 => call'[Main] = call[Main])
    BY <1>1 DEF Edits!Execute, Edits!Goto, Edits!TypeOK
  <2> QED BY <2>1
<1>2. ASSUME NEW a \in Edits!Agents, Edits!acquirePathLock(a) PROVE StackInv'
  <2>1. UNCHANGED <<stack, done, raced, call>> /\ Ahead' = Ahead
    BY <1>2 DEF Edits!acquirePathLock, Edits!Goto, Edits!TypeOK
  <2> QED BY <2>1
<1>3. ASSUME NEW a \in Edits!Agents, Edits!ReadAndApply(a) PROVE StackInv'
  <2>1. /\ UNCHANGED <<stack, done, raced>> /\ Ahead' = Ahead
        /\ call'[Main].file = call[Main].file /\ call'[Main].id = call[Main].id
    BY <1>3 DEF Edits!ReadAndApply, Edits!Goto, Edits!Return, Edits!TypeOK, Edits!Call
  <2> QED BY <2>1
<1>4. ASSUME NEW a \in Edits!Agents, Edits!Backup(a) PROVE StackInv'
  <2>1. CASE a # Main \/ stack' = stack
    <3>1. UNCHANGED <<stack, done, raced, call>> /\ Ahead' = Ahead
      BY <1>4, <2>1 DEF Edits!Backup, Edits!Goto, Edits!Return, Edits!TypeOK
    <3> QED BY <3>1
  <2>2. CASE a = Main /\ stack' # stack
    <3> DEFINE e == [file |-> call[a].file, saved |-> text[call[a].file], id |-> call[a].id]
    <3>1. /\ stack' = Append(stack, e) /\ UNCHANGED <<done, raced, call>>
          /\ Ahead = 0 /\ Ahead' = 1
      BY <1>4, <2>2 DEF Edits!Backup, Edits!Goto, Edits!Return, Edits!TypeOK
    <3>2. /\ Len(stack') = Len(stack) + 1 /\ stack'[Len(stack')] = e
          /\ \A i \in 1..Len(stack) : stack'[i] = stack[i]
      BY <1>0, <3>1
    <3> QED BY <1>0, <2>2, <3>1, <3>2
  <2> QED BY <2>1, <2>2
<1>5. ASSUME NEW a \in Edits!Agents, Edits!WriteFile(a) PROVE StackInv'
  <2>1. CASE a # Main \/ done' = done
    <3>1. UNCHANGED <<stack, done, raced, call>> /\ Ahead' = Ahead
      BY <1>0, <1>5, <2>1 DEF Edits!WriteFile, Edits!Goto, Edits!Return, Edits!TypeOK
    <3> QED BY <3>1
  <2>2. CASE a = Main /\ done' # done
    <3>1. /\ done' = Append(done, call[Main].id) /\ UNCHANGED <<stack, raced, call>>
          /\ Ahead = 1 /\ Ahead' = 0
      BY <1>5, <2>2 DEF Edits!WriteFile, Edits!Goto, Edits!Return, Edits!TypeOK
    <3>2. /\ Len(done') = Len(done) + 1 /\ done'[Len(done')] = call[Main].id
          /\ \A i \in 1..Len(done) : done'[i] = done[i]
      BY <1>0, <3>1
    <3> QED BY <1>0, <3>1, <3>2
  <2> QED BY <2>1, <2>2
<1>6. ASSUME NEW a \in Edits!Agents, Edits!rollbackBackup(a) PROVE StackInv'
  <2>1. CASE a # Main
    <3>1. UNCHANGED <<stack, done, raced, call>> /\ Ahead' = Ahead
      BY <1>6, <2>1 DEF Edits!rollbackBackup, Edits!Goto, Edits!Return, Edits!TypeOK
    <3> QED BY <3>1
  <2>2. CASE a = Main /\ ~raced
    <3>1. /\ UNCHANGED <<done, raced, call>> /\ Ahead = 1 /\ Ahead' = 0
          /\ stack # << >> => stack[Len(stack)].file = call[Main].file
      BY <1>6, <2>2 DEF Edits!rollbackBackup, Edits!Goto, Edits!Return, Edits!TypeOK
    <3>2. Len(stack) = Len(done) + 1 /\ stack # << >>
      BY <1>0, <2>2, <3>1
    <3>3. stack' = SubSeq(stack, 1, Len(stack) - 1)
      BY <1>6, <2>2, <3>1, <3>2 DEF Edits!rollbackBackup
    <3>4. Len(stack') = Len(done) /\ \A i \in 1..Len(done) : stack'[i] = stack[i]
      BY <1>0, <3>2, <3>3, ButLast
    <3> QED BY <1>0, <2>2, <3>1, <3>4
  <2>3. CASE raced
    BY <1>6, <2>3 DEF Edits!rollbackBackup
  <2> QED BY <2>1, <2>2, <2>3
<1>7. CASE Edits!Undo
  <2>1. CASE Ahead = 1
    BY <1>7, <2>1 DEF Edits!Undo
  <2>2. CASE Ahead = 0 /\ ~raced
    <3>1. /\ UNCHANGED <<editPc, raced, call>> /\ Ahead' = 0 /\ stack # << >>
          /\ stack' = SubSeq(stack, 1, Len(stack) - 1) /\ done' = SubSeq(done, 1, Len(done) - 1)
      BY <1>7, <2>2 DEF Edits!Undo
    <3>2. Len(stack) = Len(done) /\ done # << >>
      BY <1>0, <2>2, <3>1
    <3>3. Len(stack') = Len(stack) - 1 /\ \A i \in 1..Len(stack') : stack'[i] = stack[i]
      BY <1>0, <3>1, ButLast
    <3>4. Len(done') = Len(done) - 1 /\ \A i \in 1..Len(done') : done'[i] = done[i]
      BY <1>0, <3>1, <3>2, ButLast
    <3>5. ASSUME NEW i \in 1..Len(done') PROVE done'[i] = stack'[i].id
      <4>1. Len(done) \in Nat /\ Len(stack') = Len(done')
        BY <1>0, <3>2, <3>3, <3>4
      <4>2. i \in 1..Len(done) /\ i \in 1..Len(stack')
        BY <3>4, <4>1
      <4>3. done'[i] = done[i] /\ stack'[i] = stack[i]
        BY <3>3, <3>4, <4>2
      <4>4. done[i] = stack[i].id
        BY <1>0, <2>2, <4>2
      <4> QED BY <4>3, <4>4
    <3>6. Len(stack') = Len(done')
      BY <1>0, <3>2, <3>3, <3>4
    <3>7. Ahead' = 0 /\ Len(stack') = Len(done') + 0
      <4>1. Len(done') \in Int
        BY <1>0, <3>4
      <4> QED BY <3>1, <3>6, <4>1
    <3> QED BY <3>5, <3>7
  <2>3. CASE raced
    BY <1>7, <2>3 DEF Edits!Undo
  <2> QED BY <2>1, <2>2, <2>3
<1>8. CASE Edits!SwitchSession
  BY <1>8 DEF Edits!SwitchSession
<1>9. CASE UNCHANGED editVars
  <2>1. UNCHANGED <<stack, done, raced, call, editPc>>
    BY <1>9 DEF editVars
  <2> QED BY <2>1
<1> QED BY <1>1, <1>2, <1>3, <1>4, <1>5, <1>6, <1>7, <1>8, <1>9 DEF Edits!Next

LEMMA EditNext == ASSUME Edits!ConstantsOK, EditInv, [Edits!Next]_editVars PROVE EditInv'
  BY EditTypeNext, LockNext, StackNext DEF EditInv

(* Two jobs are not inside their calls for one file. *)
LEMMA JobsApart ==
    ASSUME EditInv,
           NEW i \in Jobs, NEW j \in Jobs, i # j, call[i].file = call[j].file,
           editPc[j] = "write"
    PROVE  editPc[i] \notin {"backup", "write"}
  BY DEF EditInv, LockInv

(* The foreground's stack and the jobs' edits, for any number of them: what  *)
(* can be undone is what was done, and no job writes over what another has   *)
(* read and not yet written back.                                            *)
THEOREM UndoIsHonest == ASSUME Edits!ConstantsOK PROVE ServicesSpec => UndoStackIsHonest
<1>1. ServicesInit => EditInv
  BY EditInit DEF ServicesInit
<1>2. [ServicesNext]_serviceVars => [Edits!Next]_editVars
  BY DEF ServicesNext, ClientNext, EditsNext, AcpNext, serviceVars
<1>3. EditInv /\ [ServicesNext]_serviceVars => EditInv'
  BY <1>2, EditNext
<1>4. EditInv => (part = "edits" => Edits!TypeOK /\ Edits!UndoStackIsHonest)
  <2> SUFFICES ASSUME EditInv, editPc[Main] = "idle", ~raced
               PROVE  done = [i \in DOMAIN stack |-> stack[i].id]
    BY DEF EditInv, Edits!UndoStackIsHonest
  <2>1. stack \in Seq(Entry) /\ done \in Seq(Edits!EditIds)
    BY DEF EditInv, Edits!TypeOK, Entry
  <2>2. Len(done) = Len(stack) /\ \A i \in 1..Len(done) : done[i] = stack[i].id
    BY <2>1 DEF EditInv, StackInv, Ahead
  <2> QED BY <2>1, <2>2
<1>5. EditInv /\ [ServicesNext]_serviceVars =>
        [\A a, b \in Jobs :
            /\ a # b
            /\ editPc[b] = "write" /\ editPc'[b] = "idle"
            /\ call[a].file = call[b].file
            => editPc[a] \notin {"backup", "write"}]_editVars
  BY JobsApart
<1> QED BY <1>1, <1>3, <1>4, <1>5, PTL DEF ServicesSpec, UndoStackIsHonest, Edits!JobsKeepEachOther, Edits!vars, editVars
=============================================================================
