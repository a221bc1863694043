----------------------------- MODULE McpManager -----------------------------
(***************************************************************************)
(* The fleet of MCP servers: internal/mcp/manager.go.                      *)
(*                                                                         *)
(* Start runs before the application does; /mcp restart runs on a          *)
(* goroutine of its own, next to other restarts and to Shutdown.  A client *)
(* is here only its process: NewClient spawns one and, if the handshake    *)
(* fails or is cancelled, kills it; Close ends it.  McpClient has the rest *)
(* of a client's life.                                                     *)
(***************************************************************************)
EXTENDS Integers, FiniteSets

CONSTANTS
    Servers,     \* Config.Servers, the enabled ones
    MaxClients   \* bound: processes spawned

ConstantsOK == MaxClients \in Nat

VARIABLES
    closed,      \* Manager.closed
    clients,     \* Manager.clients: the process registered for a server, 0 for none
    report,      \* Manager.reports: the status of each server
    restarting,  \* Manager.restarting
    step,        \* step[s]: where Restart(s) is
    previous,    \* previous[s]: the client it replaces
    started,     \* started[s]: the client it has spawned
    spawned,     \* processes so far
    alive,       \* processes that run
    shutdown,    \* where Shutdown is
    closing      \* the clients Shutdown has still to close

vars == <<closed, clients, report, restarting, step, previous, started, spawned, alive,
          shutdown, closing>>

Processes == 1..MaxClients

TypeOK ==
    /\ closed \in BOOLEAN
    /\ clients \in [Servers -> 0..MaxClients]
    /\ report \in [Servers -> {"none", "running", "failed"}]
    /\ restarting \subseteq Servers
    /\ step \in [Servers -> {"idle", "close", "spawn", "install", "report"}]
    /\ previous \in [Servers -> 0..MaxClients]
    /\ started \in [Servers -> 0..MaxClients]
    /\ spawned \in 0..MaxClients
    /\ alive \subseteq Processes
    /\ shutdown \in {"no", "closing", "returned"}
    /\ closing \subseteq Processes

(* Start: every server that completes its handshake is registered.          *)
Init ==
    /\ closed = FALSE
    /\ \E order \in [Servers -> 0..Cardinality(Servers)] :
          /\ \A s, r \in Servers : order[s] = order[r] => s = r \/ order[s] = 0
          /\ clients = order
    /\ report = [s \in Servers |-> IF clients[s] = 0 THEN "failed" ELSE "running"]
    /\ restarting = {}
    /\ step = [s \in Servers |-> "idle"]
    /\ previous = [s \in Servers |-> 0]
    /\ started = [s \in Servers |-> 0]
    /\ spawned = Cardinality(Servers)
    /\ alive = {clients[s] : s \in Servers} \ {0}
    /\ shutdown = "no"
    /\ closing = {}

-----------------------------------------------------------------------------
(* Restart: one at a time for a server, none once the manager is closed.    *)
Restart(s) ==
    /\ ~closed /\ s \notin restarting
    /\ restarting' = restarting \cup {s}
    /\ previous' = [previous EXCEPT ![s] = clients[s]]
    /\ step' = [step EXCEPT ![s] = "close"]
    /\ UNCHANGED <<closed, clients, report, started, spawned, alive, shutdown, closing>>

ClosePrevious(s) ==
    /\ step[s] = "close"
    /\ alive' = alive \ {previous[s]}
    /\ step' = [step EXCEPT ![s] = "spawn"]
    /\ UNCHANGED <<closed, clients, report, restarting, previous, started, spawned, shutdown, closing>>

(* NewClient: the process starts and the handshake succeeds, or nothing is   *)
(* left of it.  A stopped manager cancels the handshake.                     *)
Spawn(s) ==
    /\ step[s] = "spawn"
    /\ \/ /\ spawned < MaxClients
          /\ spawned' = spawned + 1
          /\ alive' = alive \cup {spawned'}
          /\ started' = [started EXCEPT ![s] = spawned']
          /\ step' = [step EXCEPT ![s] = "install"]
          /\ UNCHANGED restarting
       \/ /\ started' = [started EXCEPT ![s] = 0]
          /\ step' = [step EXCEPT ![s] = "report"]
          /\ UNCHANGED <<spawned, alive, restarting>>
    /\ UNCHANGED <<closed, clients, report, previous, shutdown, closing>>

(* Mutant: a client that is ready after Shutdown is registered all the same. *)
InstallLate(s) ==
    /\ step[s] = "install"
    /\ clients' = [clients EXCEPT ![s] = started[s]]
    /\ step' = [step EXCEPT ![s] = "report"]
    /\ UNCHANGED <<closed, report, restarting, previous, started, spawned, alive, shutdown, closing>>

(* The new client is registered, unless the manager was closed meanwhile.    *)
Install(s) ==
    /\ step[s] = "install"
    /\ \/ /\ ~closed
          /\ clients' = [clients EXCEPT ![s] = started[s]]
          /\ step' = [step EXCEPT ![s] = "report"]
          /\ UNCHANGED <<restarting, alive>>
       \/ /\ closed
          /\ alive' = alive \ {started[s]}
          /\ step' = [step EXCEPT ![s] = "idle"]
          /\ restarting' = restarting \ {s}
          /\ UNCHANGED clients
    /\ UNCHANGED <<closed, report, previous, started, spawned, shutdown, closing>>

(* replaceReport and the deferred end of Restart. *)
replaceReport(s) ==
    /\ step[s] = "report"
    /\ report' = [report EXCEPT ![s] = IF started[s] = 0 THEN "failed" ELSE "running"]
    /\ restarting' = restarting \ {s}
    /\ step' = [step EXCEPT ![s] = "idle"]
    /\ UNCHANGED <<closed, clients, previous, started, spawned, alive, shutdown, closing>>

ServerExits(p) ==
    /\ p \in alive
    /\ alive' = alive \ {p}
    /\ UNCHANGED <<closed, clients, report, restarting, step, previous, started, spawned,
                   shutdown, closing>>

(* Shutdown: no operation starts any more; what is registered is closed.     *)
Shutdown ==
    /\ shutdown = "no"
    /\ shutdown' = "closing"
    /\ closed' = TRUE
    /\ closing' = {clients[s] : s \in Servers} \ {0}
    /\ UNCHANGED <<clients, report, restarting, step, previous, started, spawned, alive>>

ShutdownCloses(p) ==
    /\ p \in closing
    /\ closing' = closing \ {p}
    /\ alive' = alive \ {p}
    /\ UNCHANGED <<closed, clients, report, restarting, step, previous, started, spawned, shutdown>>

(* It returns when all are closed and no operation is under way, or at its   *)
(* deadline with some still closing.                                         *)
ShutdownReturns ==
    /\ shutdown = "closing"
    /\ shutdown' = "returned"
    /\ UNCHANGED <<closed, clients, report, restarting, step, previous, started, spawned, alive,
                   closing>>

Next ==
    \/ \E s \in Servers : \/ Restart(s) \/ ClosePrevious(s) \/ Spawn(s) \/ Install(s)
                          \/ replaceReport(s)
    \/ \E p \in Processes : ServerExits(p) \/ ShutdownCloses(p)
    \/ Shutdown \/ ShutdownReturns

Spec == Init /\ [][Next]_vars

-----------------------------------------------------------------------------
(* Every process the manager has spawned is somebody's to close: registered, *)
(* being replaced, or in the hands of the restart that spawned it; and once  *)
(* Shutdown has closed what it found and no restart is under way, none runs. *)
(* (Restart, Shutdown: the closed flag is looked at before and after a       *)
(* client is started)                                                        *)
NoServerIsForgotten ==
    /\ \A p \in alive : \E s \in Servers :
          \/ p = clients[s]
          \/ p = previous[s] /\ step[s] = "close"
          \/ p = started[s] /\ step[s] = "install"
    /\ shutdown # "no" /\ closing = {} /\ restarting = {} => alive = {}

(* All of it: whatever runs has an owner.                                    *)
ServersAreOwned == TypeOK /\ NoServerIsForgotten
=============================================================================
