----------------------------- MODULE McpClient -----------------------------
(***************************************************************************)
(* One connection to an MCP server: internal/mcp/client.go.                *)
(*                                                                         *)
(* Any number of goroutines call; one goroutine reads the server's output  *)
(* and one waits for the process.  A call registers a channel under its    *)
(* id, writes its request and waits.  The end of the server is noticed by  *)
(* the reader, by the reaper, or by a call whose write was cancelled; each *)
(* of them marks the client dead and answers the calls still registered.   *)
(*                                                                         *)
(* What is written and answered is abstracted to the id of the call.  The  *)
(* handshake is three such calls.  A write that does not land is a pipe    *)
(* the server does not read.                                               *)
(***************************************************************************)
EXTENDS Integers, FiniteSets

CONSTANT MaxCalls   \* bound: calls made on one connection

ConstantsOK == MaxCalls \in Nat

VARIABLES
    nextID,    \* Client.nextID: the calls made so far
    pc,        \* pc[c]: where call c is
    channel,   \* channel[c]: what is buffered for call c
    pending,   \* Client.pending: ids with a registered channel
    written,   \* requests the server has received
    replies,   \* ids in the server's output that the reader has not read
    dead,      \* Client.dead
    stdin,     \* Client.stdin is open
    child,     \* the process runs
    stdout,    \* the server's output is open
    ending,    \* ending[p]: how far p is in declaring the server dead
    todo       \* todo[p]: entries p has still to flush

vars == <<nextID, pc, channel, pending, written, replies, dead, stdin, child, stdout, ending, todo>>

Calls   == 1..MaxCalls
Reader  == 0
Reaper  == -1
Parties == Calls \cup {Reader, Reaper}

TypeOK ==
    /\ nextID \in 0..MaxCalls
    /\ pc \in [Calls -> {"new", "called", "writing", "waiting", "aborting", "done"}]
    /\ channel \in [Calls -> {"empty", "answer", "exited"}]
    /\ pending \subseteq Calls
    /\ written \subseteq Calls
    /\ replies \subseteq Calls
    /\ dead \in BOOLEAN /\ stdin \in BOOLEAN /\ child \in BOOLEAN /\ stdout \in BOOLEAN
    /\ ending \in [Parties -> {"no", "mark", "close", "range", "flush", "ended"}]
    /\ todo \in [Parties -> SUBSET Calls]

Init ==
    /\ nextID = 0
    /\ pc = [c \in Calls |-> "new"]
    /\ channel = [c \in Calls |-> "empty"]
    /\ pending = {} /\ written = {} /\ replies = {}
    /\ dead = FALSE /\ stdin = TRUE /\ child = TRUE /\ stdout = TRUE
    /\ ending = [p \in Parties |-> "no"]
    /\ todo = [p \in Parties |-> {}]

-----------------------------------------------------------------------------
Send(ch, c, what) == IF ch[c] = "empty" THEN [ch EXCEPT ![c] = what] ELSE ch

(* CallTool: a dead client refuses at once. *)
CallTool ==
    /\ nextID < MaxCalls /\ ~dead
    /\ nextID' = nextID + 1
    /\ pc' = [pc EXCEPT ![nextID'] = "called"]
    /\ UNCHANGED <<channel, pending, written, replies, dead, stdin, child, stdout, ending, todo>>

(* The head of callTimed: the client may have died since CallTool looked, and *)
(* the table been emptied.                                                    *)
callTimed(c) ==
    /\ pc[c] = "called"
    /\ pc' = [pc EXCEPT ![c] = "writing"]
    /\ pending' = pending \cup {c}
    /\ UNCHANGED <<nextID, channel, written, replies, dead, stdin, child, stdout, ending, todo>>

Return(c) ==
    /\ pc' = [pc EXCEPT ![c] = "done"]
    /\ pending' = pending \ {c}

(* writeLine: into the pipe, or an error once stdin is closed. *)
Write(c) ==
    /\ pc[c] = "writing"
    /\ \/ /\ stdin
          /\ pc' = [pc EXCEPT ![c] = "waiting"]
          /\ written' = written \cup {c}
          /\ UNCHANGED pending
       \/ /\ ~stdin
          /\ Return(c)
          /\ UNCHANGED written
    /\ UNCHANGED <<nextID, channel, replies, dead, stdin, child, stdout, ending, todo>>

(* The context ends during the write: the transport is aborted, the process  *)
(* killed.                                                                   *)
CancelWrite(c) ==
    /\ pc[c] = "writing"
    /\ pc' = [pc EXCEPT ![c] = "aborting"]
    /\ child' = FALSE
    /\ ending' = [ending EXCEPT ![c] = "mark"]
    /\ UNCHANGED <<nextID, channel, pending, written, replies, dead, stdin, stdout, todo>>

AbortReturns(c) ==
    /\ pc[c] = "aborting" /\ ending[c] = "ended"
    /\ Return(c)
    /\ UNCHANGED <<nextID, channel, written, replies, dead, stdin, child, stdout, ending, todo>>

(* The wait of callTimed ends with what is in the channel, or with the       *)
(* context.                                                                  *)
Receive(c) ==
    /\ pc[c] = "waiting" /\ channel[c] # "empty"
    /\ Return(c)
    /\ UNCHANGED <<nextID, channel, written, replies, dead, stdin, child, stdout, ending, todo>>

Timeout(c) ==
    /\ pc[c] = "waiting"
    /\ Return(c)
    /\ UNCHANGED <<nextID, channel, written, replies, dead, stdin, child, stdout, ending, todo>>

-----------------------------------------------------------------------------
(* The server answers in any order, or ends; a killed or exited process      *)
(* leaves what it wrote in the pipe.                                         *)
Answer(c) ==
    /\ child /\ stdout
    /\ c \in written
    /\ written' = written \ {c}
    /\ replies' = replies \cup {c}
    /\ UNCHANGED <<nextID, pc, channel, pending, dead, stdin, child, stdout, ending, todo>>

Exit ==
    /\ child
    /\ child' = FALSE
    /\ UNCHANGED <<nextID, pc, channel, pending, written, replies, dead, stdin, stdout, ending, todo>>

(* deliverResponse: an answer nobody waits for is dropped. *)
deliverResponse(c) ==
    /\ ending[Reader] = "no" /\ stdout
    /\ c \in replies
    /\ replies' = replies \ {c}
    /\ pending' = pending \ {c}
    /\ channel' = IF c \in pending THEN Send(channel, c, "answer") ELSE channel
    /\ UNCHANGED <<nextID, pc, written, dead, stdin, child, stdout, ending, todo>>

(* The reader sees the end of the output; the server may close it and live.  *)
readerLoopEnds ==
    /\ ending[Reader] = "no"
    /\ replies = {} \/ ~stdout
    /\ ending' = [ending EXCEPT ![Reader] = "mark"]
    /\ stdout' = FALSE
    /\ UNCHANGED <<nextID, pc, channel, pending, written, replies, dead, stdin, child, todo>>

(* cmd.Wait returns, having closed the pipe the reader reads.                *)
reaperLoop ==
    /\ ~child /\ ending[Reaper] = "no"
    /\ ending' = [ending EXCEPT ![Reaper] = "mark"]
    /\ stdout' = FALSE
    /\ UNCHANGED <<nextID, pc, channel, pending, written, replies, dead, stdin, child, todo>>

(* Mutant: whoever declares the server dead leaves its stdin open. *)
markDeadKeepsStdin(p) ==
    /\ ending[p] = "mark"
    /\ dead' = TRUE
    /\ ending' = [ending EXCEPT ![p] = "range"]
    /\ UNCHANGED <<nextID, pc, channel, pending, written, replies, stdin, child, stdout, todo>>

(* markDead: the first one to set the flag closes stdin.  A cancelled write  *)
(* then closes stdout.                                                       *)
markDead(p) ==
    /\ \/ /\ ending[p] = "mark"
          /\ dead' = TRUE
          /\ ending' = [ending EXCEPT ![p] = IF dead THEN "range" ELSE "close"]
          /\ UNCHANGED stdin
       \/ /\ ending[p] = "close"
          /\ stdin' = FALSE
          /\ ending' = [ending EXCEPT ![p] = "range"]
          /\ UNCHANGED dead
    /\ UNCHANGED <<nextID, pc, channel, pending, written, replies, child, stdout, todo>>

(* flushPendingExited: an entry that is stored while the table is walked may *)
(* be missed.                                                                *)
flushPendingExited(p) ==
    /\ \/ /\ ending[p] = "range"
          /\ todo' = [todo EXCEPT ![p] = pending]
          /\ ending' = [ending EXCEPT ![p] = "flush"]
          /\ UNCHANGED <<channel, pending>>
       \/ \E c \in todo[p] :
             /\ ending[p] = "flush"
             /\ todo' = [todo EXCEPT ![p] = @ \ {c}]
             /\ pending' = pending \ {c}
             /\ channel' = Send(channel, c, "exited")
             /\ UNCHANGED ending
       \/ /\ ending[p] = "flush" /\ todo[p] = {}
          /\ ending' = [ending EXCEPT ![p] = "ended"]
          /\ UNCHANGED <<channel, pending, todo>>
    /\ stdout' = IF p \in Calls THEN FALSE ELSE stdout
    /\ UNCHANGED <<nextID, pc, written, replies, dead, stdin, child>>

(* Close: stdin first; a server that does not end is killed, and at last     *)
(* given up as dead with nothing flushed.                                    *)
Close ==
    /\ ~dead /\ stdin
    /\ stdin' = FALSE
    /\ UNCHANGED <<nextID, pc, channel, pending, written, replies, dead, child, stdout, ending, todo>>

CloseTimeout ==
    /\ ~dead /\ ~stdin
    /\ \/ child' = FALSE /\ UNCHANGED dead
       \/ dead' = TRUE /\ UNCHANGED child
    /\ UNCHANGED <<nextID, pc, channel, pending, written, replies, stdin, stdout, ending, todo>>

Next ==
    \/ CallTool
    \/ \E c \in Calls : \/ callTimed(c) \/ Write(c) \/ CancelWrite(c) \/ AbortReturns(c)
                        \/ Receive(c) \/ Timeout(c)
                        \/ Answer(c) \/ deliverResponse(c)
    \/ Exit \/ readerLoopEnds \/ reaperLoop
    \/ \E p \in Parties : markDead(p) \/ flushPendingExited(p)
    \/ Close \/ CloseTimeout

Spec == Init /\ [][Next]_vars

-----------------------------------------------------------------------------
(* When the reader has ended and nobody else is in the middle of declaring   *)
(* the server dead, no call is left waiting for its timeout: not even one    *)
(* that was registered while the table was being emptied.  (callTimed;       *)
(* readerLoop: "mark dead and unblock all pending callers")                  *)
NoCallLeftBehind ==
    /\ ending[Reader] = "ended"
    /\ \A p \in Parties : ending[p] \in {"no", "ended"}
    => \A c \in Calls : pc[c] = "waiting" => channel[c] # "empty"

(* All of it: whoever calls is answered.                                     *)
CallsAreAnswered == TypeOK /\ NoCallLeftBehind
=============================================================================
