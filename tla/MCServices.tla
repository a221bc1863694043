----------------------------- MODULE MCServices -----------------------------
(* What runs beside the conversation, for TLC: the MCP client, the edits of  *)
(* the foreground and of jobs in one directory, and the ACP server.  They    *)
(* share no variable, and `part' says which of them moves in this behaviour. *)
(* The client is McpClient's own, and so is CallsAreAnswered.                *)
EXTENDS McpClient, Sequences

CONSTANTS
    Main, Jobs, Files, MaxEdits,            \* of FileEdits
    Sessions, MaxRuntimes, MaxPrompts       \* of AcpServer

VARIABLES
    part,
    text, lock, editPc, call, edits, stack, done, raced,
    sessions, runtimes, active, cancelled, cancel, prompts, of, promptPc, ended, verdict, reply,
    releasing, closes, serve, serveClosing, replayed, stray

Edits == INSTANCE FileEdits WITH pc <- editPc
Acp   == INSTANCE AcpServer WITH pc <- promptPc, closing <- serveClosing

ASSUME ConstantsOK /\ Edits!ConstantsOK /\ Acp!ConstantsOK

clientVars  == vars
editVars    == <<text, lock, editPc, call, edits, stack, done, raced>>
acpVars     == <<sessions, runtimes, active, cancelled, cancel, prompts, of, promptPc, ended,
                 verdict, reply, releasing, closes, serve, serveClosing, replayed, stray>>
serviceVars == <<part, clientVars, editVars, acpVars>>

ServicesInit ==
    /\ part \in {"client", "edits", "acp"}
    /\ Init /\ Acp!Init
    /\ Edits!Init /\ (part # "edits" => text = [f \in Files |-> {}])

ClientNext ==
    /\ part = "client" /\ Next
    /\ UNCHANGED <<part, editVars, acpVars>>
EditsNext ==
    /\ part = "edits" /\ Edits!Next
    /\ UNCHANGED <<part, clientVars, acpVars>>
AcpNext ==
    /\ part = "acp" /\ Acp!Next
    /\ UNCHANGED <<part, clientVars, editVars>>
ServicesNext == ClientNext \/ EditsNext \/ AcpNext

\* The fairness that AcpServer states, while it is the one that moves.
AcpFairness ==
    /\ \A p \in Acp!Prompts :
           /\ WF_acpVars(part = "acp" /\ Acp!Worker(p) /\ promptPc[p] # "run")
           /\ SF_acpVars(part = "acp" /\ Acp!StreamEnds(p) /\ p \in ended)
    /\ \A r \in Acp!Runtimes : WF_acpVars(part = "acp" /\ Acp!Release(r))
    /\ WF_acpVars(part = "acp" /\ Acp!Shutdown)

ServicesSpec == ServicesInit /\ [][ServicesNext]_serviceVars /\ AcpFairness

-----------------------------------------------------------------------------
\* FileEdits: what can be undone is what was done, and no job's edit is lost in another's.
UndoStackIsHonest ==
    [](part = "edits" => Edits!TypeOK /\ Edits!UndoStackIsHonest) /\ Edits!JobsKeepEachOther

\* AcpServer: a cancelled turn and a closed session end without the client, every runtime is
\* closed once and not under a running prompt, no update lands between replayed turns, and
\* an allow after a cancel starts no tool.
CancelledTurnEnds ==
    /\ [](part = "acp" => Acp!TypeOK /\ Acp!RuntimeClosedOnce /\ Acp!ReplayIsNotInterleaved)
    /\ Acp!LateAllowIsRefused /\ Acp!CancelledTurnEnds

=============================================================================
