--------------------------- MODULE MCFront_proofs ---------------------------
(***************************************************************************)
(* What surrounds an agent, for any size: the parts of MCFront keep their  *)
(* invariants, each by an inductive one of its own, and so does the whole. *)
(***************************************************************************)
EXTENDS MCFront, FiniteSetTheorems, SequenceTheorems, WellFoundedInduction, TLAPS

-----------------------------------------------------------------------------
(* McpManager: for any finite fleet, whatever restarts and the shutdown      *)
(* interleave.                                                               *)

(* The configuration lists finitely many servers, and the bound on processes *)
(* leaves room for the first of each.                                        *)
ManagerOK ==
    /\ ConstantsOK
    /\ IsFiniteSet(Servers)
    /\ Cardinality(Servers) <= MaxClients

-----------------------------------------------------------------------------
(* The inductive invariant, in parts. *)

(* Processes are numbered as they are spawned: a number is never used again. *)
NumberInv ==
    /\ alive \subseteq 1..spawned
    /\ \A s \in Servers : clients[s] <= spawned /\ started[s] <= spawned

(* A server is being restarted from the start of Restart to its end.         *)
RestartInv ==
    /\ \A s \in Servers : step[s] # "idle" <=> s \in restarting
    /\ closed <=> shutdown # "no"

(* The client that a restart replaces is the registered one, and it is       *)
(* closed before its successor is spawned.                                   *)
ReplacedInv ==
    \A s \in Servers :
        /\ step[s] = "close" => previous[s] = clients[s]
        /\ step[s] \in {"spawn", "install"} => clients[s] \notin alive

(* Process p is in the hands of the restart of s.                            *)
InHand(p, s) ==
    \/ p = previous[s] /\ step[s] = "close"
    \/ (p = started[s] /\ step[s] = "install")

(* Who closes a process that runs: the restart that has it, the shutdown     *)
(* when it comes, the shutdown that is under way.                            *)
OwnerInv ==
    \A p \in alive :
        \/ \E s \in Servers : InHand(p, s)
        \/ (~closed /\ \E s \in Servers : p = clients[s])
        \/ (closed /\ p \in closing /\ \E s \in Servers : p = clients[s])

FleetInv == TypeOK /\ NumberInv /\ RestartInv /\ ReplacedInv /\ OwnerInv

-----------------------------------------------------------------------------
(* The manager starts with one process for each server at most. *)
LEMMA FleetInit == ASSUME ManagerOK, Init PROVE FleetInv
<1>1. Cardinality(Servers) \in 0..MaxClients /\ MaxClients \in Nat
  BY FS_CardinalityType DEF ManagerOK, ConstantsOK
<1>2. clients \in [Servers -> 0..MaxClients] /\ \A s \in Servers : clients[s] \in 0..Cardinality(Servers)
  BY <1>1 DEF Init
<1>3. TypeOK
  <2>1. alive \subseteq Processes
    BY <1>1, <1>2 DEF Init, Processes
  <2>2. spawned \in 0..MaxClients
    BY <1>1 DEF Init
  <2>3. /\ report \in [Servers -> {"none", "running", "failed"}]
        /\ previous \in [Servers -> 0..MaxClients] /\ started \in [Servers -> 0..MaxClients]
    BY <1>1 DEF Init
  <2> QED BY <1>2, <2>1, <2>2, <2>3 DEF Init, TypeOK
<1>4. NumberInv
  BY <1>1, <1>2 DEF Init, NumberInv
<1>5. RestartInv /\ ReplacedInv /\ OwnerInv
  BY DEF Init, RestartInv, ReplacedInv, OwnerInv
<1> QED BY <1>3, <1>4, <1>5 DEF FleetInv

LEMMA TypeNext == ASSUME ManagerOK, TypeOK, [Next]_vars PROVE TypeOK'
<1> USE DEF TypeOK, ManagerOK, ConstantsOK
<1>1. ASSUME NEW s \in Servers, Restart(s) \/ ClosePrevious(s) PROVE TypeOK'
  BY <1>1 DEF Restart, ClosePrevious
<1>2. ASSUME NEW s \in Servers, Spawn(s) PROVE TypeOK'
  <2>1. spawned < MaxClients => spawned + 1 \in Processes /\ spawned + 1 \in 0..MaxClients
    BY DEF Processes
  <2> QED BY <1>2, <2>1 DEF Spawn
<1>3. ASSUME NEW s \in Servers, Install(s) PROVE TypeOK'
  BY <1>3 DEF Install
<1>4. ASSUME NEW s \in Servers, replaceReport(s) PROVE TypeOK'
  BY <1>4 DEF replaceReport
<1>5. ASSUME NEW p \in Processes, ServerExits(p) \/ ShutdownCloses(p) PROVE TypeOK'
  BY <1>5 DEF ServerExits, ShutdownCloses
<1>6. CASE Shutdown
  BY <1>6 DEF Shutdown, Processes
<1>7. CASE ShutdownReturns \/ UNCHANGED vars
  BY <1>7 DEF ShutdownReturns, vars
<1> QED BY <1>1, <1>2, <1>3, <1>4, <1>5, <1>6, <1>7 DEF Next

(* A spawned process gets a number that no running one and no client has.    *)
LEMMA NumberNext ==
    ASSUME ManagerOK, TypeOK, NumberInv, [Next]_vars PROVE NumberInv'
<1> USE DEF TypeOK, NumberInv, ManagerOK, ConstantsOK
<1>1. ASSUME NEW s \in Servers, Spawn(s) PROVE NumberInv'
  <2>1. CASE UNCHANGED <<spawned, alive>> /\ started' = [started EXCEPT ![s] = 0]
    BY <1>1, <2>1 DEF Spawn
  <2>2. CASE spawned' = spawned + 1 /\ alive' = alive \cup {spawned'} /\ started' = [started EXCEPT ![s] = spawned']
    <3>1. spawned \in Nat /\ clients' = clients
      BY <1>1 DEF Spawn
    <3>2. alive' \subseteq 1..spawned'
      BY <2>2, <3>1
    <3>3. \A r \in Servers : clients'[r] <= spawned' /\ started'[r] <= spawned'
      BY <2>2, <3>1
    <3> QED BY <3>2, <3>3
  <2> QED BY <1>1, <2>1, <2>2 DEF Spawn
<1>2. ASSUME NEW s \in Servers, Install(s) PROVE NumberInv'
  BY <1>2 DEF Install
<1>3. CASE UNCHANGED <<spawned, clients, started>> /\ alive' \subseteq alive
  BY <1>3
<1> QED BY <1>1, <1>2, <1>3 DEF Next, vars, Restart, ClosePrevious, replaceReport, ServerExits,
                               ShutdownCloses, Shutdown, ShutdownReturns

LEMMA RestartNext == ASSUME TypeOK, RestartInv, [Next]_vars PROVE RestartInv'
<1> USE DEF TypeOK, RestartInv
<1>1. ASSUME NEW s \in Servers, Restart(s) \/ ClosePrevious(s) \/ replaceReport(s) PROVE RestartInv'
  BY <1>1 DEF Restart, ClosePrevious, replaceReport
<1>2. ASSUME NEW s \in Servers, Spawn(s) PROVE RestartInv'
  BY <1>2 DEF Spawn
<1>3. ASSUME NEW s \in Servers, Install(s) PROVE RestartInv'
  BY <1>3 DEF Install
<1>4. CASE \/ \E p \in Processes : ServerExits(p) \/ ShutdownCloses(p)
           \/ Shutdown \/ ShutdownReturns \/ UNCHANGED vars
  BY <1>4 DEF ServerExits, ShutdownCloses, Shutdown, ShutdownReturns, vars
<1> QED BY <1>1, <1>2, <1>3, <1>4 DEF Next

LEMMA ReplacedNext ==
    ASSUME TypeOK, NumberInv, RestartInv, ReplacedInv, [Next]_vars PROVE ReplacedInv'
<1> USE DEF TypeOK, ReplacedInv
<1>1. ASSUME NEW s \in Servers, Restart(s) \/ ClosePrevious(s) \/ replaceReport(s) PROVE ReplacedInv'
  BY <1>1 DEF Restart, ClosePrevious, replaceReport, RestartInv
<1>2. ASSUME NEW s \in Servers, Spawn(s) PROVE ReplacedInv'
  BY <1>2 DEF Spawn, NumberInv
<1>3. ASSUME NEW s \in Servers, Install(s) PROVE ReplacedInv'
  BY <1>3 DEF Install
<1>4. CASE \/ \E p \in Processes : ServerExits(p) \/ ShutdownCloses(p)
           \/ Shutdown \/ ShutdownReturns \/ UNCHANGED vars
  BY <1>4 DEF ServerExits, ShutdownCloses, Shutdown, ShutdownReturns, vars
<1> QED BY <1>1, <1>2, <1>3, <1>4 DEF Next

(* A process changes hands, it is not dropped.                               *)
LEMMA OwnerNext ==
    ASSUME TypeOK, NumberInv, RestartInv, ReplacedInv, OwnerInv, [Next]_vars PROVE OwnerInv'
<1> USE DEF TypeOK, OwnerInv, InHand
<1>1. ASSUME NEW s \in Servers, Restart(s) PROVE OwnerInv'
  BY <1>1 DEF Restart, RestartInv
<1>2. ASSUME NEW s \in Servers, ClosePrevious(s) PROVE OwnerInv'
  BY <1>2 DEF ClosePrevious
<1>3. ASSUME NEW s \in Servers, Spawn(s) PROVE OwnerInv'
  BY <1>3 DEF Spawn
<1>4. ASSUME NEW s \in Servers, Install(s) PROVE OwnerInv'
  BY <1>4 DEF Install, ReplacedInv
<1>5. ASSUME NEW s \in Servers, replaceReport(s) PROVE OwnerInv'
  BY <1>5 DEF replaceReport
<1>6. ASSUME NEW p \in Processes, ServerExits(p) \/ ShutdownCloses(p) PROVE OwnerInv'
  BY <1>6 DEF ServerExits, ShutdownCloses
<1>7. CASE Shutdown
  <2>1. ASSUME NEW p \in alive, NEW s \in Servers, p = clients[s] PROVE p \in closing'
    BY <1>7, <2>1 DEF Shutdown, NumberInv
  <2>2. ~closed
    BY <1>7 DEF Shutdown, RestartInv
  <2> QED BY <1>7, <2>1, <2>2 DEF Shutdown
<1>8. CASE ShutdownReturns \/ UNCHANGED vars
  BY <1>8 DEF ShutdownReturns, vars
<1> QED BY <1>1, <1>2, <1>3, <1>4, <1>5, <1>6, <1>7, <1>8 DEF Next

-----------------------------------------------------------------------------
(* The invariant holds, for any finite fleet. *)
THEOREM FleetCorrect == ASSUME ManagerOK PROVE Spec => []FleetInv
<1>1. Init => FleetInv
  BY FleetInit
<1>2. FleetInv /\ [Next]_vars => FleetInv'
  BY TypeNext, NumberNext, RestartNext, ReplacedNext, OwnerNext DEF FleetInv
<1> QED BY <1>1, <1>2, PTL DEF Spec

(* Every process that runs is somebody's to close, and none outlives the     *)
(* shutdown and the restarts that were under way.                            *)
THEOREM ServersAreClosed == ASSUME ManagerOK PROVE Spec => []ServersAreOwned
<1>1. FleetInv => ServersAreOwned
  BY DEF FleetInv, OwnerInv, InHand, RestartInv, NoServerIsForgotten, ServersAreOwned
<1> QED BY <1>1, FleetCorrect, PTL

-----------------------------------------------------------------------------
(* JobWorkspace: for any jobs, computers and endpoints, whether or not the   *)
(* registry moves while a resubmission is under way.                         *)

WorkspaceStates == {"none", "queued", "preparing", "running", "ended"}
WorkspaceIds    == Jobs \cup {NoJob}
WorkspaceRecords ==
    [state : WorkspaceStates, ws : Workspace!Workspaces, write : BOOLEAN, parent : WorkspaceIds,
     recovered : BOOLEAN, resubmitOf : WorkspaceIds, resubmittedAs : WorkspaceIds]
WorkspaceRoots == [kind : {"none", "primary", "tree"}, at : Workspace!Workspaces, id : WorkspaceIds]

(* The whole type of the component, of which TypeOK is a part. *)
RecordInv ==
    /\ registry \in [Computers -> {0} \cup Endpoints]
    /\ default \in Workspace!Workspaces
    /\ job \in [Jobs -> WorkspaceRecords]
    /\ root \in [Jobs -> WorkspaceRoots]
    /\ trees \subseteq {Workspace!Tree(ws, j) : ws \in Workspace!Workspaces, j \in Jobs}
    /\ worktreeRoots \subseteq Jobs
    /\ verifyRoots \in [Jobs -> WorkspaceIds]
    /\ resubmit \in [Callers -> [pc : {"idle", "spawn", "link"}, old : WorkspaceIds, new : WorkspaceIds]]

(* Where a job works follows from its record and from what it verifies, and  *)
(* nobody verifies itself.                                                   *)
RootInv ==
    \A j \in Jobs :
        /\ job[j].state = "running" /\ job[j].write => root[j] = Workspace!Tree(job[j].ws, j)
        /\ job[j].state = "running" /\ ~job[j].write /\ verifyRoots[j] = NoJob
              => root[j] = Workspace!Primary(job[j].ws)
        /\ job[j].state = "running" /\ ~job[j].write /\ verifyRoots[j] # NoJob
              => root[j] = Workspace!Tree(job[j].ws, verifyRoots[j])
        /\ job[j].state = "preparing"
              => /\ job[j].write /\ job[j].ws # Workspace!Local
                 /\ root[j] \in {Workspace!Primary(job[j].ws), Workspace!Tree(job[j].ws, j)}
        /\ verifyRoots[j] # j

(* A job that is being resubmitted is in the hands of one caller. *)
ResubmitInv ==
    \A k \in Callers :
        resubmit[k].pc # "idle"
            => resubmit[k].old \in Jobs /\ \A l \in Callers \ {k} : resubmit[l].old # resubmit[k].old

WorkspaceInv == RecordInv /\ RootInv /\ ResubmitInv

-----------------------------------------------------------------------------
(* What a spawn may resolve to is a workspace. *)
LEMMA Resolved ==
    ASSUME RecordInv, NEW selector, NEW parent \in WorkspaceIds, parent # NoJob => parent \in Jobs
    PROVE  Workspace!resolveSpawnWorkspace(selector, parent) \subseteq Workspace!Workspaces
<1>1. ASSUME NEW c \in Computers, registry[c] # 0 PROVE Workspace!Remote(c) \in Workspace!Workspaces
  BY <1>1 DEF RecordInv, Workspace!Remote, Workspace!Workspaces
<1>2. parent # NoJob => job[parent].ws \in Workspace!Workspaces
  BY DEF RecordInv, WorkspaceRecords
<1> QED BY <1>1, <1>2 DEF Workspace!resolveSpawnWorkspace, RecordInv

(* The values the actions write are typed. *)
LEMMA RootTyped ==
    ASSUME NEW ws \in Workspace!Workspaces, NEW j \in Jobs
    PROVE  /\ Workspace!NoRoot \in WorkspaceRoots /\ Workspace!Primary(ws) \in WorkspaceRoots
           /\ Workspace!Tree(ws, j) \in WorkspaceRoots
BY DEF Workspace!NoRoot, Workspace!Primary, Workspace!Tree, WorkspaceRoots, WorkspaceIds,
       Workspace!Local, Workspace!Workspaces

LEMMA RecordTyped ==
    ASSUME NEW ws \in Workspace!Workspaces, NEW w \in BOOLEAN, NEW p \in WorkspaceIds
    PROVE  Workspace!NoRecord \in WorkspaceRecords /\ Workspace!Record(ws, w, p) \in WorkspaceRecords
<1>1. Workspace!Local \in Workspace!Workspaces
  BY DEF Workspace!Workspaces
<1> QED BY <1>1 DEF Workspace!NoRecord, Workspace!Record, WorkspaceRecords, WorkspaceStates, WorkspaceIds

(* What a record is once some of its fields are written. *)
LEMMA RecoveredTyped ==
    ASSUME NEW r \in WorkspaceRecords PROVE [r EXCEPT !.state = "ended", !.recovered = TRUE] \in WorkspaceRecords
<1>1. [r EXCEPT !.state = "ended"] \in WorkspaceRecords
  BY DEF WorkspaceRecords, WorkspaceStates
<1>2. ASSUME NEW q \in WorkspaceRecords PROVE [q EXCEPT !.recovered = TRUE] \in WorkspaceRecords
  BY DEF WorkspaceRecords
<1>3. [r EXCEPT !.state = "ended", !.recovered = TRUE] = [[r EXCEPT !.state = "ended"] EXCEPT !.recovered = TRUE]
  OBVIOUS
<1> QED BY <1>1, <1>2, <1>3

(* Linking two records leaves what they say of the job itself. *)
LEMMA LinkWritten ==
    ASSUME NEW r \in WorkspaceRecords, NEW x \in WorkspaceIds
    PROVE  /\ LET q == [r EXCEPT !.resubmittedAs = x]
              IN  q \in WorkspaceRecords /\ q.state = r.state /\ q.write = r.write /\ q.ws = r.ws
           /\ LET q == [r EXCEPT !.resubmitOf = x]
              IN  q \in WorkspaceRecords /\ q.state = r.state /\ q.write = r.write /\ q.ws = r.ws
<1>1. LET q == [r EXCEPT !.resubmittedAs = x]
      IN  q \in WorkspaceRecords /\ q.state = r.state /\ q.write = r.write /\ q.ws = r.ws
  BY DEF WorkspaceRecords
<1>2. LET q == [r EXCEPT !.resubmitOf = x]
      IN  q \in WorkspaceRecords /\ q.state = r.state /\ q.write = r.write /\ q.ws = r.ws
  BY DEF WorkspaceRecords
<1> QED BY <1>1, <1>2, Zenon

(* The two ways a job leaves preparation, and its end, keep the types. *)
LEMMA RunsTyped ==
    ASSUME RecordInv, NEW j \in Jobs, NEW r \in WorkspaceRoots,
           Workspace!RunsAt(j, r) \/ Workspace!Fails(j)
    PROVE  /\ job' \in [Jobs -> WorkspaceRecords] /\ root' \in [Jobs -> WorkspaceRoots]
<1>1. Workspace!NoRoot \in WorkspaceRoots
  BY DEF Workspace!NoRoot, WorkspaceRoots, WorkspaceIds, Workspace!Local, Workspace!Workspaces
<1>2. CASE Workspace!RunsAt(j, r)
  BY <1>2 DEF Workspace!RunsAt, RecordInv, WorkspaceRecords, WorkspaceStates
<1>3. CASE Workspace!Fails(j)
  BY <1>1, <1>3 DEF Workspace!Fails, RecordInv, WorkspaceRecords, WorkspaceStates
<1> QED BY <1>2, <1>3

LEMMA LinkKeeps ==
    ASSUME RecordInv, NEW k \in Callers, Workspace!ResubmitLinks(k)
    PROVE  /\ job' \in [Jobs -> WorkspaceRecords]
           /\ \A j \in Jobs : job'[j].state = job[j].state /\ job'[j].write = job[j].write /\ job'[j].ws = job[j].ws
<1> DEFINE o == resubmit[k].old
           n == resubmit[k].new
           p == [job[o] EXCEPT !.resubmittedAs = n]
           f == [job EXCEPT ![o] = p]
           q == [f[n] EXCEPT !.resubmitOf = o]
<1>1. o \in WorkspaceIds /\ n \in WorkspaceIds /\ job \in [Jobs -> WorkspaceRecords]
  BY DEF RecordInv
<1>2. job' = [f EXCEPT ![n] = q]
  BY DEF Workspace!ResubmitLinks
<1> HIDE DEF o, n
<1>3. o \in Jobs => p \in WorkspaceRecords /\ p.state = job[o].state /\ p.write = job[o].write /\ p.ws = job[o].ws
  BY <1>1, LinkWritten, Zenon
<1> HIDE DEF p
<1>4. /\ f \in [Jobs -> WorkspaceRecords]
      /\ \A j \in Jobs : f[j] = IF j = o THEN p ELSE job[j]
  BY <1>1, <1>3
<1> HIDE DEF f
<1>5. n \in Jobs => q \in WorkspaceRecords /\ q.state = f[n].state /\ q.write = f[n].write /\ q.ws = f[n].ws
  BY <1>1, <1>4, LinkWritten, Zenon
<1> HIDE DEF q
<1>6. /\ job' \in [Jobs -> WorkspaceRecords]
      /\ \A j \in Jobs : job'[j] = IF j = n THEN q ELSE f[j]
  BY <1>1, <1>2, <1>4, <1>5
<1> QED BY <1>3, <1>4, <1>5, <1>6

LEMMA RecordInit == ASSUME Workspace!Init PROVE RecordInv
<1>1. Workspace!Local \in Workspace!Workspaces
  BY DEF Workspace!Workspaces
<1>2. Workspace!NoRoot \in WorkspaceRoots
  BY <1>1 DEF Workspace!NoRoot, WorkspaceRoots, WorkspaceIds
<1>3. Workspace!NoRecord \in WorkspaceRecords
  BY <1>1 DEF Workspace!NoRecord, WorkspaceRecords, WorkspaceStates, WorkspaceIds
<1> QED BY <1>1, <1>2, <1>3 DEF Workspace!Init, RecordInv, WorkspaceIds, Workspace!Idle

LEMMA SpawnRecords ==
    ASSUME RecordInv, NEW j \in Jobs, Workspace!Spawn(j) PROVE RecordInv'
<1>1. PICK w \in BOOLEAN, selector \in {"none"} \cup Computers, target \in {NoJob} \cup Workspace!Spawned :
        \E parent \in {NoJob} \cup {p \in Workspace!Running : w => job[p].write} :
          \E ws \in Workspace!resolveSpawnWorkspace(selector, parent) :
            \E v \in Workspace!resolveVerifyRoot(ws, w, target) :
               /\ job' = [job EXCEPT ![j] = Workspace!Record(ws, w, parent)]
               /\ verifyRoots' = [verifyRoots EXCEPT ![j] = v]
  BY DEF Workspace!Spawn
<1>2. PICK parent \in {NoJob} \cup {p \in Workspace!Running : w => job[p].write} :
        \E ws \in Workspace!resolveSpawnWorkspace(selector, parent) :
            \E v \in Workspace!resolveVerifyRoot(ws, w, target) :
               /\ job' = [job EXCEPT ![j] = Workspace!Record(ws, w, parent)]
               /\ verifyRoots' = [verifyRoots EXCEPT ![j] = v]
  BY <1>1
<1>3. PICK ws \in Workspace!resolveSpawnWorkspace(selector, parent) :
        \E v \in Workspace!resolveVerifyRoot(ws, w, target) :
               /\ job' = [job EXCEPT ![j] = Workspace!Record(ws, w, parent)]
               /\ verifyRoots' = [verifyRoots EXCEPT ![j] = v]
  BY <1>2
<1>4. parent \in WorkspaceIds /\ (parent # NoJob => parent \in Jobs)
  BY DEF WorkspaceIds, Workspace!Running
<1>5. ws \in Workspace!Workspaces
  BY <1>4, Resolved
<1>6. \A v \in Workspace!resolveVerifyRoot(ws, w, target) : v \in WorkspaceIds
  BY DEF Workspace!resolveVerifyRoot, Workspace!Spawned, WorkspaceIds
<1>7. Workspace!Record(ws, w, parent) \in WorkspaceRecords
  BY <1>4, <1>5, RecordTyped
<1> QED BY <1>3, <1>6, <1>7 DEF RecordInv, Workspace!Spawn

LEMMA PrepareRecords ==
    ASSUME RecordInv, NEW j \in Jobs,
           \/ Workspace!PrepareLocal(j) \/ Workspace!PrepareRemote(j) \/ Workspace!createRemoteWorktree(j)
           \/ Workspace!ReopenAtWorktree(j) \/ Workspace!JobEnds(j)
    PROVE  RecordInv'
<1>1. Workspace!Local \in Workspace!Workspaces /\ job[j].ws \in Workspace!Workspaces /\ root[j].at \in Workspace!Workspaces
  BY DEF RecordInv, WorkspaceRecords, WorkspaceRoots, Workspace!Workspaces
<1>2. verifyRoots[j] # NoJob => verifyRoots[j] \in Jobs
  BY DEF RecordInv, WorkspaceIds
<1>3. Workspace!NoRoot \in WorkspaceRoots
  BY <1>1, RootTyped
<1>4. CASE Workspace!PrepareLocal(j)
  <2>1. Workspace!Tree(Workspace!Local, j) \in {Workspace!Tree(ws, i) : ws \in Workspace!Workspaces, i \in Jobs}
    BY <1>1
  <2>2. CASE job[j].write
    <3>1. \/ Workspace!RunsAt(j, Workspace!Tree(Workspace!Local, j)) \/ Workspace!Fails(j)
      BY <1>4, <2>2 DEF Workspace!PrepareLocal, Workspace!createWorktree
    <3>2. job' \in [Jobs -> WorkspaceRecords] /\ root' \in [Jobs -> WorkspaceRoots]
      BY <1>1, <3>1, RootTyped, RunsTyped
    <3>3. /\ trees' \in {trees, trees \cup {Workspace!Tree(Workspace!Local, j)}}
          /\ worktreeRoots' \in {worktreeRoots, worktreeRoots \cup {j}}
      BY <1>4, <2>2 DEF Workspace!PrepareLocal, Workspace!createWorktree
    <3> QED BY <1>4, <2>1, <3>2, <3>3 DEF Workspace!PrepareLocal, RecordInv
  <2>3. CASE ~job[j].write
    <3>1. PICK r \in WorkspaceRoots : Workspace!RunsAt(j, r) \/ Workspace!Fails(j)
      BY <1>1, <1>2, <1>3, <1>4, <2>3, RootTyped DEF Workspace!PrepareLocal
    <3>2. job' \in [Jobs -> WorkspaceRecords] /\ root' \in [Jobs -> WorkspaceRoots]
      BY <3>1, RunsTyped
    <3> QED BY <1>4, <2>3, <3>2 DEF Workspace!PrepareLocal, RecordInv
  <2> QED BY <2>2, <2>3
<1>5. CASE Workspace!PrepareRemote(j)
  <2>1. ASSUME NEW ws \in Workspace!openBackend(j) PROVE ws = job[j].ws
    BY DEF Workspace!openBackend
  <2>2. CASE \E r \in WorkspaceRoots : Workspace!RunsAt(j, r) \/ Workspace!Fails(j)
    BY <1>5, <2>2, RunsTyped DEF Workspace!PrepareRemote, RecordInv
  <2>3. CASE /\ job' = [job EXCEPT ![j].state = "preparing"]
             /\ root' = [root EXCEPT ![j] = Workspace!Primary(job[j].ws)]
    <3>1. Workspace!Primary(job[j].ws) \in WorkspaceRoots
      BY <1>1, RootTyped
    <3> QED BY <1>5, <2>3, <3>1 DEF Workspace!PrepareRemote, RecordInv, WorkspaceRecords, WorkspaceStates
  <2>4. ASSUME NEW ws \in Workspace!openBackend(j),
               Workspace!RunsAt(j, IF verifyRoots[j] = NoJob THEN Workspace!Primary(ws)
                                   ELSE Workspace!Tree(ws, verifyRoots[j]))
        PROVE  \E r \in WorkspaceRoots : Workspace!RunsAt(j, r)
    BY <1>1, <1>2, <2>1, <2>4, RootTyped
  <2> QED BY <1>3, <1>5, <2>1, <2>2, <2>3, <2>4 DEF Workspace!PrepareRemote
<1>6. CASE Workspace!createRemoteWorktree(j)
  <2>1. CASE Workspace!Fails(j) /\ UNCHANGED <<trees, worktreeRoots>>
    BY <1>3, <1>6, <2>1, RunsTyped DEF Workspace!createRemoteWorktree, RecordInv
  <2>2. CASE /\ trees' = trees \cup {Workspace!Tree(root[j].at, j)} /\ worktreeRoots' = worktreeRoots \cup {j}
             /\ root' = [root EXCEPT ![j] = Workspace!Tree(@.at, j)] /\ UNCHANGED job
    <3>1. Workspace!Tree(root[j].at, j) \in WorkspaceRoots
      BY <1>1, RootTyped
    <3> QED BY <1>1, <1>6, <2>2, <3>1 DEF Workspace!createRemoteWorktree, RecordInv
  <2> QED BY <1>6, <2>1, <2>2 DEF Workspace!createRemoteWorktree
<1>7. CASE Workspace!ReopenAtWorktree(j)
  <2>1. \E r \in WorkspaceRoots : Workspace!RunsAt(j, r) \/ Workspace!Fails(j)
    BY <1>1, <1>3, <1>7, RootTyped DEF Workspace!ReopenAtWorktree, Workspace!openBackend
  <2> QED BY <1>7, <2>1, RunsTyped DEF Workspace!ReopenAtWorktree, RecordInv
<1>8. CASE Workspace!JobEnds(j)
  BY <1>3, <1>8, RunsTyped DEF Workspace!JobEnds, RecordInv
<1> QED BY <1>4, <1>5, <1>6, <1>7, <1>8

LEMMA RecordNext == ASSUME RecordInv, ResubmitInv, [Workspace!Next]_workspaceVars PROVE RecordInv'
<1>1. ASSUME NEW j \in Jobs, Workspace!OthersWork(j) PROVE RecordInv'
  <2>1. Workspace!Local \in Workspace!Workspaces
    BY DEF Workspace!Workspaces
  <2> QED BY <1>1, <2>1 DEF Workspace!OthersWork, RecordInv
<1>2. ASSUME NEW k \in Callers, NEW j \in Jobs, Workspace!BeginResubmit(k, j) PROVE RecordInv'
  BY <1>2 DEF Workspace!BeginResubmit, RecordInv, WorkspaceIds
<1>3. ASSUME NEW k \in Callers, NEW n \in Jobs, Workspace!ResubmitSpawns(k, n) PROVE RecordInv'
  <2>0. resubmit[k].old \in Jobs
    BY <1>3 DEF Workspace!ResubmitSpawns, ResubmitInv
  <2>1. CASE resubmit' = [resubmit EXCEPT ![k] = Workspace!Idle] /\ UNCHANGED job
    BY <1>3, <2>1 DEF Workspace!ResubmitSpawns, RecordInv, Workspace!Idle, WorkspaceIds
  <2>2. ASSUME NEW selector, NEW ws \in Workspace!resolveSpawnWorkspace(selector, job[resubmit[k].old].parent),
               job' = [job EXCEPT ![n] = Workspace!Record(ws, job[resubmit[k].old].write, job[resubmit[k].old].parent)],
               resubmit' = [resubmit EXCEPT ![k].pc = "link", ![k].new = n]
        PROVE  RecordInv'
    <3>1. job[resubmit[k].old].parent \in WorkspaceIds /\ job[resubmit[k].old].write \in BOOLEAN
      BY <2>0 DEF RecordInv, WorkspaceRecords
    <3>2. ws \in Workspace!Workspaces
      BY <3>1, Resolved DEF WorkspaceIds
    <3>3. Workspace!Record(ws, job[resubmit[k].old].write, job[resubmit[k].old].parent) \in WorkspaceRecords
      BY <3>1, <3>2, RecordTyped
    <3> QED BY <1>3, <2>2, <3>3 DEF Workspace!ResubmitSpawns, RecordInv, WorkspaceIds
  <2> QED BY <1>3, <2>1, <2>2 DEF Workspace!ResubmitSpawns
<1>4. ASSUME NEW k \in Callers, Workspace!ResubmitLinks(k) PROVE RecordInv'
  <2>5. job' \in [Jobs -> WorkspaceRecords]
    BY <1>4, LinkKeeps
  <2> QED BY <1>4, <2>5 DEF Workspace!ResubmitLinks, RecordInv, Workspace!Idle, WorkspaceIds
<1>5. ASSUME NEW c \in Computers, NEW e \in {0} \cup Endpoints, Workspace!Repoint(c, e) PROVE RecordInv'
  BY <1>5 DEF Workspace!Repoint, RecordInv
<1>6. CASE Workspace!Restart
  <2>1. Workspace!Local \in Workspace!Workspaces
    BY DEF Workspace!Workspaces
  <2>2. \A c \in Computers : registry[c] # 0 => Workspace!Remote(c) \in Workspace!Workspaces
    BY DEF RecordInv, Workspace!Remote, Workspace!Workspaces
  <2>3. default' \in Workspace!Workspaces
    BY <1>6, <2>1, <2>2 DEF Workspace!Restart
  <2>4. job' \in [Jobs -> WorkspaceRecords]
    <3>1. ASSUME NEW j \in Jobs PROVE /\ job[j] \in WorkspaceRecords
                                      /\ [job[j] EXCEPT !.state = "ended", !.recovered = TRUE] \in WorkspaceRecords
      <4>1. job[j] \in WorkspaceRecords
        BY DEF RecordInv
      <4> QED BY <4>1, RecoveredTyped, Zenon
    <3> QED BY <1>6, <3>1 DEF Workspace!Restart
  <2>5. root' \in [Jobs -> WorkspaceRoots]
    BY <1>6, <2>1 DEF Workspace!Restart, Workspace!NoRoot, WorkspaceRoots, WorkspaceIds
  <2>6. /\ verifyRoots' \in [Jobs -> WorkspaceIds]
        /\ resubmit' \in [Callers -> [pc : {"idle", "spawn", "link"}, old : WorkspaceIds, new : WorkspaceIds]]
    BY <1>6 DEF Workspace!Restart, Workspace!Idle, WorkspaceIds
  <2>7. UNCHANGED <<registry, trees>> /\ worktreeRoots' = {}
    BY <1>6 DEF Workspace!Restart
  <2> HIDE <1>6
  <2> QED BY <2>3, <2>4, <2>5, <2>6, <2>7 DEF RecordInv
<1>7. CASE UNCHANGED workspaceVars
  BY <1>7 DEF workspaceVars, RecordInv
<1> QED BY <1>1, <1>2, <1>3, <1>4, <1>5, <1>6, <1>7, SpawnRecords, PrepareRecords DEF Workspace!Next

-----------------------------------------------------------------------------
(* A spawn names nothing that runs, and does not verify itself. *)
LEMMA SpawnRoots == ASSUME Workspace!ConstantsOK, RecordInv, RootInv, NEW j \in Jobs, Workspace!Spawn(j) PROVE RootInv'
<1>1. PICK w \in BOOLEAN, target \in {NoJob} \cup Workspace!Spawned :
        \E parent, ws : \E v \in Workspace!resolveVerifyRoot(ws, w, target) :
               /\ job' = [job EXCEPT ![j] = Workspace!Record(ws, w, parent)]
               /\ verifyRoots' = [verifyRoots EXCEPT ![j] = v]
  BY DEF Workspace!Spawn
<1>2. PICK parent, ws : \E v \in Workspace!resolveVerifyRoot(ws, w, target) :
               /\ job' = [job EXCEPT ![j] = Workspace!Record(ws, w, parent)]
               /\ verifyRoots' = [verifyRoots EXCEPT ![j] = v]
  BY <1>1
<1>3. job[j].state = "none" /\ root' = root
  BY DEF Workspace!Spawn
<1>4. target # j /\ NoJob # j
  BY <1>3 DEF Workspace!Spawned, Workspace!ConstantsOK
<1>5. \A v \in Workspace!resolveVerifyRoot(ws, w, target) : v # j
  BY <1>4 DEF Workspace!resolveVerifyRoot
<1>6. job'[j].state = "queued" /\ verifyRoots'[j] # j
  BY <1>2, <1>5 DEF Workspace!Record, Workspace!NoRecord, RecordInv
<1>7. ASSUME NEW i \in Jobs \ {j} PROVE job'[i] = job[i] /\ verifyRoots'[i] = verifyRoots[i]
  BY <1>2 DEF RecordInv
<1> QED BY <1>3, <1>6, <1>7 DEF RootInv

(* A job begins where its record says. *)
LEMMA PrepareRoots ==
    ASSUME RecordInv, RootInv, NEW j \in Jobs,
           \/ Workspace!PrepareLocal(j) \/ Workspace!PrepareRemote(j) \/ Workspace!createRemoteWorktree(j)
           \/ Workspace!ReopenAtWorktree(j) \/ Workspace!JobEnds(j)
    PROVE  RootInv'
<1>1. verifyRoots' = verifyRoots
  BY DEF Workspace!PrepareLocal, Workspace!PrepareRemote, Workspace!createRemoteWorktree,
         Workspace!ReopenAtWorktree, Workspace!JobEnds
<1>2. ASSUME Workspace!Fails(j) PROVE RootInv'
  BY <1>1, <1>2 DEF Workspace!Fails, RootInv, RecordInv, WorkspaceRecords
<1>3. ASSUME job[j].write, Workspace!RunsAt(j, Workspace!Tree(job[j].ws, j)) PROVE RootInv'
  BY <1>1, <1>3 DEF Workspace!RunsAt, RootInv, RecordInv, WorkspaceRecords
<1>4. ASSUME ~job[j].write,
             Workspace!RunsAt(j, IF verifyRoots[j] = NoJob THEN Workspace!Primary(job[j].ws)
                                 ELSE Workspace!Tree(job[j].ws, verifyRoots[j]))
      PROVE  RootInv'
  <2> DEFINE r == IF verifyRoots[j] = NoJob THEN Workspace!Primary(job[j].ws)
                  ELSE Workspace!Tree(job[j].ws, verifyRoots[j])
  <2>1. /\ verifyRoots[j] = NoJob => r = Workspace!Primary(job[j].ws)
        /\ verifyRoots[j] # NoJob => r = Workspace!Tree(job[j].ws, verifyRoots[j])
    OBVIOUS
  <2>2. Workspace!RunsAt(j, r)
    BY <1>4
  <2> HIDE DEF r
  <2> QED BY <1>1, <1>4, <2>1, <2>2 DEF Workspace!RunsAt, RootInv, RecordInv, WorkspaceRecords
<1>5. ASSUME job[j].write, job[j].ws # Workspace!Local,
             \/ /\ job' = [job EXCEPT ![j].state = "preparing"]
                /\ root' = [root EXCEPT ![j] = Workspace!Primary(job[j].ws)]
             \/ /\ job' = job
                /\ job[j].state = "preparing"
                /\ root' = [root EXCEPT ![j] = Workspace!Tree(job[j].ws, j)]
      PROVE  RootInv'
  BY <1>1, <1>5 DEF RootInv, RecordInv, WorkspaceRecords
<1>6. CASE Workspace!PrepareLocal(j)
  <2>1. job[j].ws = Workspace!Local
    BY <1>6 DEF Workspace!PrepareLocal
  <2>2. CASE job[j].write
    BY <1>2, <1>3, <1>6, <2>1, <2>2 DEF Workspace!PrepareLocal, Workspace!createWorktree
  <2>3. CASE ~job[j].write
    BY <1>2, <1>4, <1>6, <2>1, <2>3 DEF Workspace!PrepareLocal
  <2> QED BY <2>2, <2>3
<1>7. CASE Workspace!PrepareRemote(j)
  <2>1. \A ws \in Workspace!openBackend(j) : ws = job[j].ws
    BY DEF Workspace!openBackend
  <2> QED BY <1>2, <1>4, <1>5, <1>7, <2>1 DEF Workspace!PrepareRemote
<1>8. CASE Workspace!createRemoteWorktree(j)
  <2>1. /\ job[j].state = "preparing" /\ job[j].write /\ job[j].ws # Workspace!Local
        /\ root[j] \in {Workspace!Primary(job[j].ws), Workspace!Tree(job[j].ws, j)}
    BY <1>8 DEF Workspace!createRemoteWorktree, RootInv
  <2>2. root[j].at = job[j].ws
    BY <2>1 DEF Workspace!Primary, Workspace!Tree
  <2>3. CASE /\ root' = [root EXCEPT ![j] = Workspace!Tree(@.at, j)] /\ UNCHANGED job
    <3>1. root' = [root EXCEPT ![j] = Workspace!Tree(job[j].ws, j)]
      BY <2>2, <2>3
    <3> QED BY <1>5, <2>1, <2>3, <3>1
  <2> QED BY <1>2, <1>8, <2>3 DEF Workspace!createRemoteWorktree
<1>9. CASE Workspace!ReopenAtWorktree(j)
  <2>1. job[j].write
    BY <1>9 DEF Workspace!ReopenAtWorktree, RootInv
  <2> QED BY <1>2, <1>3, <1>9, <2>1 DEF Workspace!ReopenAtWorktree, Workspace!openBackend
<1>10. CASE Workspace!JobEnds(j)
  BY <1>2, <1>10 DEF Workspace!JobEnds
<1> QED BY <1>6, <1>7, <1>8, <1>9, <1>10

LEMMA RootNext == ASSUME Workspace!ConstantsOK, RecordInv, RootInv, [Workspace!Next]_workspaceVars PROVE RootInv'
<1>1. ASSUME UNCHANGED <<job, root, verifyRoots>> PROVE RootInv'
  BY <1>1 DEF RootInv
<1>2. ASSUME NEW k \in Callers, NEW n \in Jobs, Workspace!ResubmitSpawns(k, n) PROVE RootInv'
  <2>1. /\ job[n].state = "none" /\ UNCHANGED <<root, verifyRoots>>
        /\ \/ UNCHANGED job
           \/ \E ws, w, p : job' = [job EXCEPT ![n] = Workspace!Record(ws, w, p)]
    BY <1>2 DEF Workspace!ResubmitSpawns
  <2>2. ASSUME NEW ws, NEW w, NEW p, job' = [job EXCEPT ![n] = Workspace!Record(ws, w, p)] PROVE RootInv'
    <3>1. job'[n].state = "queued"
      BY <2>2 DEF RecordInv, Workspace!Record, Workspace!NoRecord
    <3>2. \A i \in Jobs \ {n} : job'[i] = job[i]
      BY <2>2 DEF RecordInv
    <3> QED BY <2>1, <3>1, <3>2 DEF RootInv
  <2> QED BY <1>1, <2>1, <2>2
<1>3. ASSUME NEW k \in Callers, Workspace!ResubmitLinks(k) PROVE RootInv'
  <2>1. \A j \in Jobs : job'[j].state = job[j].state /\ job'[j].write = job[j].write /\ job'[j].ws = job[j].ws
    BY <1>3, LinkKeeps
  <2>2. UNCHANGED <<root, verifyRoots>>
    BY <1>3 DEF Workspace!ResubmitLinks
  <2> QED BY <2>1, <2>2 DEF RootInv
<1>4. CASE Workspace!Restart
  <2>1. ASSUME NEW j \in Jobs PROVE job'[j].state \notin {"preparing", "running"} /\ verifyRoots'[j] # j
    <3>1. job[j] \in WorkspaceRecords
      BY DEF RecordInv
    <3>2. job'[j] = IF job[j].state \in {"queued", "preparing", "running"}
                    THEN [job[j] EXCEPT !.state = "ended", !.recovered = TRUE] ELSE job[j]
      BY <1>4 DEF Workspace!Restart
    <3>3. [job[j] EXCEPT !.state = "ended", !.recovered = TRUE].state = "ended"
      BY <3>1 DEF WorkspaceRecords
    <3>4. verifyRoots'[j] = NoJob
      BY <1>4 DEF Workspace!Restart
    <3> QED BY <3>2, <3>3, <3>4 DEF Workspace!ConstantsOK
  <2> QED BY <2>1 DEF RootInv
<1> QED BY <1>1, <1>2, <1>3, <1>4, SpawnRoots, PrepareRoots
        DEF Workspace!Next, Workspace!OthersWork, Workspace!BeginResubmit, Workspace!Repoint, workspaceVars

(* A second caller is turned away until the first is done. *)
LEMMA ResubmitNext ==
    ASSUME Workspace!ConstantsOK, RecordInv, ResubmitInv, [Workspace!Next]_workspaceVars PROVE ResubmitInv'
<1>1. ASSUME UNCHANGED resubmit PROVE ResubmitInv'
  BY <1>1 DEF ResubmitInv
<1>2. ASSUME NEW k \in Callers, resubmit' = [resubmit EXCEPT ![k] = Workspace!Idle] PROVE ResubmitInv'
  BY <1>2 DEF ResubmitInv, RecordInv, Workspace!Idle, Workspace!ConstantsOK
<1>3. ASSUME NEW k \in Callers, NEW j \in Jobs, Workspace!BeginResubmit(k, j) PROVE ResubmitInv'
  BY <1>3 DEF Workspace!BeginResubmit, Workspace!Resubmittable, ResubmitInv, RecordInv
<1>4. ASSUME NEW k \in Callers, NEW n \in Jobs, Workspace!ResubmitSpawns(k, n) PROVE ResubmitInv'
  <2>1. CASE resubmit' = [resubmit EXCEPT ![k].pc = "link", ![k].new = n] /\ resubmit[k].pc = "spawn"
    BY <2>1 DEF ResubmitInv, RecordInv
  <2> QED BY <1>2, <1>4, <2>1 DEF Workspace!ResubmitSpawns
<1>5. CASE Workspace!Restart
  BY <1>5 DEF Workspace!Restart, ResubmitInv, Workspace!Idle
<1> QED BY <1>1, <1>2, <1>3, <1>4, <1>5
        DEF Workspace!Next, Workspace!Spawn, Workspace!PrepareLocal, Workspace!PrepareRemote,
            Workspace!createRemoteWorktree, Workspace!ReopenAtWorktree, Workspace!JobEnds,
            Workspace!OthersWork, Workspace!ResubmitLinks, Workspace!Repoint, workspaceVars

-----------------------------------------------------------------------------
(* A step of the front is a step of the workspaces, or leaves them alone. *)
LEMMA WorkspaceSteps == ASSUME [FrontNext]_frontVars PROVE [Workspace!Next]_workspaceVars
BY DEF FrontNext, ManagerNext, WorkspaceNext, SkillNext, CommandNext, ConfigNext, KeyboardNext, SetupNext,
       ShadowNext, LoginNext, LoopNext, AgentsNext, frontVars

LEMMA WorkspaceHolds ==
    ASSUME Workspace!ConstantsOK PROVE FrontSpec => []WorkspaceInv
<1>1. FrontInit => WorkspaceInv
  <2>1. ASSUME Workspace!Init PROVE RootInv /\ ResubmitInv
    BY <2>1 DEF Workspace!Init, Workspace!NoRecord, RootInv, ResubmitInv, Workspace!Idle, Workspace!ConstantsOK
  <2> QED BY <2>1, RecordInit DEF FrontInit, WorkspaceInv
<1>2. WorkspaceInv /\ [FrontNext]_frontVars => WorkspaceInv'
  BY WorkspaceSteps, RecordNext, RootNext, ResubmitNext DEF WorkspaceInv
<1> QED BY <1>1, <1>2, PTL DEF FrontSpec

(* What the runs check of a state follows. *)
LEMMA WorkspaceSafe ==
    ASSUME Workspace!ConstantsOK, WorkspaceInv
    PROVE  Workspace!TypeOK /\ Workspace!WritersAreApart /\ Workspace!ResubmittedOnce
<1>1. Workspace!TypeOK
  BY DEF WorkspaceInv, RecordInv, WorkspaceRecords, WorkspaceRoots, WorkspaceIds, Workspace!TypeOK
<1>2. Workspace!WritersAreApart
  <2>1. ASSUME NEW j \in Workspace!Running
        PROVE  /\ root[j].at = job[j].ws
               /\ job[j].write => root[j] = Workspace!Tree(job[j].ws, j) /\ root[j].id = j
               /\ ~job[j].write => root[j].id = verifyRoots[j]
    BY DEF WorkspaceInv, RootInv, RecordInv, WorkspaceRecords, Workspace!Running, Workspace!Tree, Workspace!Primary
  <2>2. ASSUME NEW j \in Workspace!Running, NEW i \in Workspace!Running \ {j}, job[i].write, root[i] = root[j]
        PROVE  verifyRoots[j] = i
    BY <2>1, <2>2 DEF WorkspaceInv, RecordInv, WorkspaceRecords, Workspace!Running
  <2> QED BY <2>1, <2>2 DEF Workspace!WritersAreApart
<1>3. Workspace!ResubmittedOnce
  BY DEF WorkspaceInv, ResubmitInv, Workspace!ResubmittedOnce
<1> QED BY <1>1, <1>2, <1>3

(* A job gets a local worktree of its own only where there was none. *)
LEMMA TreesAreNew ==
    ASSUME Workspace!ConstantsOK, WorkspaceInv, [Workspace!Next]_workspaceVars, NEW i \in Jobs,
           root'[i] # root[i], root'[i].kind = "tree", root'[i].id = i, job[i].ws = Workspace!Local
    PROVE  root'[i] \notin trees
<1>1. ASSUME NEW j \in Jobs, NEW r, root' = [root EXCEPT ![j] = r] PROVE i = j /\ root'[i] = r
  BY <1>1 DEF WorkspaceInv, RecordInv
<1>2. ASSUME NEW j \in Jobs, Workspace!Fails(j) PROVE FALSE
  BY <1>1, <1>2 DEF Workspace!Fails, Workspace!NoRoot
<1>3. ASSUME NEW j \in Jobs, NEW r, Workspace!RunsAt(j, r) PROVE i = j /\ root'[i] = r
  BY <1>1, <1>3 DEF Workspace!RunsAt
<1>4. verifyRoots[i] # i
  BY DEF WorkspaceInv, RootInv
<1>5. ASSUME NEW j \in Jobs, Workspace!PrepareLocal(j) PROVE root'[i] \notin trees
  <2>1. CASE job[j].write
    BY <1>2, <1>3, <1>5, <2>1 DEF Workspace!PrepareLocal, Workspace!createWorktree
  <2>2. CASE ~job[j].write
    <3>1. \E r \in {Workspace!Primary(Workspace!Local), Workspace!Tree(Workspace!Local, verifyRoots[j])} :
             Workspace!RunsAt(j, r)
      BY <1>2, <1>5, <2>2 DEF Workspace!PrepareLocal
    <3> QED BY <1>3, <1>4, <3>1 DEF Workspace!Primary, Workspace!Tree
  <2> QED BY <2>1, <2>2
<1>6. ASSUME NEW j \in Jobs, Workspace!PrepareRemote(j) PROVE FALSE
  <2>1. j # i
    BY <1>6 DEF Workspace!PrepareRemote
  <2> QED BY <1>1, <1>2, <1>3, <1>6, <2>1 DEF Workspace!PrepareRemote
<1>7. ASSUME NEW j \in Jobs, Workspace!createRemoteWorktree(j) \/ Workspace!ReopenAtWorktree(j) PROVE FALSE
  <2>1. j # i
    BY <1>7 DEF Workspace!createRemoteWorktree, Workspace!ReopenAtWorktree, WorkspaceInv, RootInv
  <2> QED BY <1>1, <1>2, <1>3, <1>7, <2>1 DEF Workspace!createRemoteWorktree, Workspace!ReopenAtWorktree
<1>8. ASSUME NEW j \in Jobs, Workspace!JobEnds(j) PROVE FALSE
  BY <1>2, <1>8 DEF Workspace!JobEnds
<1>9. ASSUME Workspace!Restart PROVE FALSE
  BY <1>9 DEF Workspace!Restart, Workspace!NoRoot
<1>10. ASSUME UNCHANGED root PROVE FALSE
  BY <1>10
<1> QED BY <1>5, <1>6, <1>7, <1>8, <1>9, <1>10
        DEF Workspace!Next, Workspace!Spawn, Workspace!OthersWork, Workspace!BeginResubmit,
            Workspace!ResubmitSpawns, Workspace!ResubmitLinks, Workspace!Repoint, workspaceVars

(* Whatever spawns, resubmissions, restarts and other processes interleave:  *)
(* a job works in the workspace it was bound to, a writer in a worktree that *)
(* nobody made before it and that only its verifiers share, and a job is     *)
(* resubmitted by one caller at a time.                                      *)
THEOREM WorkspacesAreApart == ASSUME Workspace!ConstantsOK PROVE FrontSpec => WritersAreApart
<1>1. WorkspaceInv => Workspace!TypeOK /\ Workspace!WritersAreApart /\ Workspace!ResubmittedOnce
  BY WorkspaceSafe
<1>2. WorkspaceInv /\ [FrontNext]_frontVars
        => [\A j \in Jobs :
              root'[j] # root[j] /\ root'[j].kind = "tree" /\ root'[j].id = j /\ job[j].ws = Workspace!Local
                 => root'[j] \notin trees]_workspaceVars
  BY WorkspaceSteps, TreesAreNew
<1>3. FrontSpec => []WorkspaceInv
  BY WorkspaceHolds
<1> QED BY <1>1, <1>2, <1>3, PTL
        DEF FrontSpec, WritersAreApart, Workspace!NoTreeIsTakenOver, Workspace!vars, workspaceVars

-----------------------------------------------------------------------------
(* CodexAuth: one process, for any requests of it, any logins of the CLI and *)
(* any faults.                                                               *)

LoginTokens   == [login : Nat, n : Nat]
LoginFiles    == [access : LoginTokens, refresh : LoginTokens, account : Nat]
LoginServices == [valid : SUBSET Nat, newest : Nat, refresh : Nat]
LoginRequests ==
    [pc : {"idle", "sent", "refresh", "exchange", "write", "again", "failed"}, attempt : 0..1,
     sent : LoginTokens, account : Nat, read : LoginFiles, got : LoginFiles]

LoginTyped ==
    /\ logins \in 1..MaxLogins
    /\ service \in [1..MaxLogins -> LoginServices]
    /\ authFile \in LoginFiles
    /\ mu \in [{p1} -> Requests \cup {"none"}]
    /\ req \in [Login!Reqs -> LoginRequests]

(* The tokens are those of one of the logins there have been. *)
OneLogin(t) == t.account \in 1..logins /\ t.access.login = t.account /\ t.refresh.login = t.account

(* Every set of tokens that is kept is of one login, and what a request      *)
(* sends names the account of its token.                                     *)
TokensInv ==
    /\ OneLogin(authFile)
    /\ \A r \in Login!Reqs :
         /\ req[r].pc = "exchange" => OneLogin(req[r].read)
         /\ req[r].pc = "write" => OneLogin(req[r].got)
         /\ req[r].pc = "sent" => req[r].account = req[r].sent.login

(* A refresh is under the mutex from its read to its write. *)
MutexInv ==
    \A r \in Login!Reqs : req[r].pc \in {"exchange", "write"} => mu[r[1]] = r[2]

(* What a refresh is about to write is the newest of its login, a login that *)
(* has not been is as the service made it, and the refresh token of the file *)
(* is the newest, lost, or about to be replaced.                             *)
NewestInv ==
    /\ \A l \in (logins + 1)..MaxLogins : service[l].refresh = 1
    /\ \A r \in Login!Reqs : req[r].pc = "write" => req[r].got.refresh.n = service[req[r].got.account].refresh
    /\ \/ authFile.refresh.n = service[authFile.account].refresh \/ authFile.account \in lost
       \/ \E r \in Login!Reqs : Login!Holds(r) /\ req[r].got.account = authFile.account

LoginInv == LoginTyped /\ TokensInv /\ MutexInv /\ NewestInv

-----------------------------------------------------------------------------
(* The tokens of a login, and the states of a request, are typed. *)
LEMMA TokensTyped ==
    ASSUME NEW l \in Nat, NEW a \in Nat, NEW n \in Nat, NEW c \in Nat
    PROVE  /\ Login!Tokens(l, a, n) \in LoginFiles
           /\ [Login!Tokens(l, a, n) EXCEPT !.account = c]
                = [access |-> [login |-> l, n |-> a], refresh |-> [login |-> l, n |-> n], account |-> c]
           /\ [Login!Tokens(l, a, n) EXCEPT !.account = c] \in LoginFiles
BY DEF Login!Tokens, Login!Token, LoginFiles, LoginTokens

LEMMA IdleTyped == Login!Idle \in LoginRequests /\ Login!Idle.pc = "idle"
<1>1. Login!Nothing \in LoginFiles
  BY TokensTyped DEF Login!Nothing
<1>2. Login!Token(0, 0) \in LoginTokens
  BY DEF Login!Token, LoginTokens
<1> QED BY <1>1, <1>2 DEF Login!Idle, LoginRequests

(* Where a request goes when it leaves its exchange. *)
LEMMA FailedTyped ==
    ASSUME NEW q \in LoginRequests
    PROVE  LET f == [Login!Idle EXCEPT !.pc = "failed", !.got = q.got] IN f \in LoginRequests /\ f.pc = "failed"
BY IdleTyped DEF LoginRequests

LEMMA AgainTyped ==
    ASSUME NEW to \in {"refresh", "again"}
    PROVE  LET q == [Login!Idle EXCEPT !.pc = to, !.attempt = 1] IN q \in LoginRequests /\ q.pc = to
<1> DEFINE i == [Login!Idle EXCEPT !.pc = to]
           q == [i EXCEPT !.attempt = 1]
<1>1. i \in LoginRequests /\ i.pc = to
  BY IdleTyped DEF LoginRequests
<1>2. q = [Login!Idle EXCEPT !.pc = to, !.attempt = 1]
  OBVIOUS
<1> HIDE DEF i
<1>3. q \in LoginRequests /\ q.pc = to
  BY <1>1 DEF LoginRequests
<1> HIDE DEF q
<1> QED BY <1>2, <1>3, Zenon

(* The requests of the one process are told apart by their second part. *)
LEMMA OneProcess == ASSUME NEW r \in Login!Reqs, NEW s \in Login!Reqs, r[2] = s[2] PROVE r = s /\ r[1] = p1 /\ r[2] \in Requests
BY DEF Login!Reqs

LEMMA OneRefresh ==
    ASSUME MutexInv, NEW r \in Login!Reqs, NEW s \in Login!Reqs,
           req[r].pc \in {"exchange", "write"}, req[s].pc \in {"exchange", "write"}
    PROVE  r = s
<1>1. r[1] = p1 /\ s[1] = p1
  BY OneProcess
<1>2. r[2] = s[2]
  BY <1>1 DEF MutexInv
<1> QED BY <1>2, OneProcess

LEMMA LoginStart == ASSUME Login!ConstantsOK, Login!Init PROVE LoginInv
<1>1. 1 \in 1..MaxLogins
  BY DEF Login!ConstantsOK
<1>2. Login!Tokens(1, 1, 1) \in LoginFiles /\ Login!Tokens(1, 1, 1) = [access |-> [login |-> 1, n |-> 1], refresh |-> [login |-> 1, n |-> 1], account |-> 1]
  BY TokensTyped DEF Login!Tokens, Login!Token
<1>3. service \in [1..MaxLogins -> LoginServices] /\ \A l \in 1..MaxLogins : service[l].refresh = 1
  BY DEF Login!Init, LoginServices
<1>4. LoginTyped
  BY <1>1, <1>2, <1>3, IdleTyped DEF Login!Init, LoginTyped
<1>5. \A r \in Login!Reqs : req[r].pc = "idle"
  BY IdleTyped DEF Login!Init
<1> QED BY <1>1, <1>2, <1>3, <1>4, <1>5 DEF Login!Init, LoginInv, TokensInv, MutexInv, NewestInv, OneLogin

(* What the rest of a step need not know of the requests that do not move. *)
LEMMA OthersStay ==
    ASSUME LoginTyped, NEW r \in Login!Reqs, NEW q \in LoginRequests, req' = [req EXCEPT ![r] = q]
    PROVE  req' \in [Login!Reqs -> LoginRequests] /\ req'[r] = q /\ \A s \in Login!Reqs \ {r} : req'[s] = req[s]
BY DEF LoginTyped

(* A request that moves outside a refresh, with the mutex and the files left. *)
LEMMA QuietStep ==
    ASSUME LoginInv, NEW r \in Login!Reqs, NEW q \in LoginRequests, req' = [req EXCEPT ![r] = q],
           req[r].pc \notin {"exchange", "write"}, q.pc \notin {"exchange", "write"},
           q.pc = "sent" => q.account = q.sent.login,
           UNCHANGED <<authFile, service, logins, mu, lost>>
    PROVE  LoginInv'
<1>1. req' \in [Login!Reqs -> LoginRequests] /\ req'[r] = q /\ \A s \in Login!Reqs \ {r} : req'[s] = req[s]
  BY OthersStay DEF LoginInv
<1>2. LoginTyped'
  BY <1>1 DEF LoginInv, LoginTyped
<1>3. TokensInv'
  BY <1>1 DEF LoginInv, TokensInv, OneLogin
<1>4. MutexInv'
  BY <1>1 DEF LoginInv, MutexInv
<1>5. NewestInv'
  BY <1>1 DEF LoginInv, NewestInv, Login!Holds
<1> QED BY <1>2, <1>3, <1>4, <1>5 DEF LoginInv

(* The end of a refresh: nobody is in one any more. *)
LEMMA RefreshEnds ==
    ASSUME LoginInv, NEW r \in Login!Reqs, NEW q \in LoginRequests, req' = [req EXCEPT ![r] = q],
           req[r].pc \in {"exchange", "write"}, q.pc \in {"failed", "again"}, Login!Unlock(r)
    PROVE  /\ req' \in [Login!Reqs -> LoginRequests] /\ mu' \in [{p1} -> Requests \cup {"none"}] /\ MutexInv'
           /\ \A s \in Login!Reqs : /\ req'[s].pc \notin {"exchange", "write"}
                                    /\ req'[s].pc = "sent" => req'[s] = req[s]
<1>1. req' \in [Login!Reqs -> LoginRequests] /\ req'[r] = q /\ \A s \in Login!Reqs \ {r} : req'[s] = req[s]
  BY OthersStay DEF LoginInv
<1>2. \A s \in Login!Reqs \ {r} : req[s].pc \notin {"exchange", "write"}
  BY OneRefresh DEF LoginInv
<1>3. mu' \in [{p1} -> Requests \cup {"none"}]
  BY DEF Login!Unlock, LoginInv, LoginTyped
<1> QED BY <1>1, <1>2, <1>3 DEF MutexInv

LEMMA ExchangeStep == ASSUME Login!ConstantsOK, LoginInv, NEW r \in Login!Reqs, Login!exchange(r) PROVE LoginInv'
<1> DEFINE o == req[r].read
           l == o.refresh.login
           s == service[l]
           f == [Login!Idle EXCEPT !.pc = "failed", !.got = req[r].got]
<1>1. req[r].pc = "exchange" /\ req[r] \in LoginRequests
  BY DEF Login!exchange, LoginInv, LoginTyped
<1>2. l \in 1..logins /\ l \in 1..MaxLogins /\ o.account = l /\ s \in LoginServices
  BY <1>1 DEF LoginInv, LoginTyped, TokensInv, OneLogin, Login!ConstantsOK
<1>3. UNCHANGED <<authFile, logins>>
  BY DEF Login!exchange
<1>4. f \in LoginRequests /\ f.pc = "failed"
  BY <1>1, FailedTyped, Zenon
<1>5. \A t \in Login!Reqs \ {r} : req[t].pc \notin {"exchange", "write"}
  BY <1>1, OneRefresh DEF LoginInv
<1> DEFINE Given(n) == [valid |-> s.valid \cup {s.newest + 1}, newest |-> s.newest + 1, refresh |-> n]
<1>6. ASSUME NEW n \in {s.refresh, s.refresh + 1}, service' = [service EXCEPT ![l] = Given(n)]
      PROVE  /\ service' \in [1..MaxLogins -> LoginServices] /\ service'[l].refresh = n
             /\ \A k \in 1..MaxLogins \ {l} : service'[k] = service[k]
  <2>1. Given(n) \in LoginServices /\ Given(n).refresh = n
    BY <1>2 DEF LoginServices
  <2> HIDE DEF Given
  <2> QED BY <1>2, <1>6, <2>1 DEF LoginInv, LoginTyped
<1>7. ASSUME Login!Fails(r), UNCHANGED <<service, lost>> PROVE LoginInv'
  <2>1. req' = [req EXCEPT ![r] = f] /\ Login!Unlock(r)
    BY <1>7 DEF Login!Fails
  <2> HIDE DEF f
  <2>2. /\ req' \in [Login!Reqs -> LoginRequests] /\ mu' \in [{p1} -> Requests \cup {"none"}] /\ MutexInv'
        /\ \A t \in Login!Reqs : /\ req'[t].pc \notin {"exchange", "write"}
                                 /\ req'[t].pc = "sent" => req'[t] = req[t]
    BY <1>1, <1>4, <2>1, RefreshEnds
  <2>3. NewestInv'
    BY <1>1, <1>3, <1>5, <1>7, <2>2 DEF LoginInv, NewestInv, Login!Holds
  <2> QED BY <1>3, <1>7, <2>2, <2>3 DEF LoginInv, LoginTyped, TokensInv, OneLogin
<1>8. ASSUME NEW n \in {s.refresh, s.refresh + 1}, service' = [service EXCEPT ![l] = Given(n)],
             Login!Fails(r), lost' = lost \cup {l}
      PROVE  LoginInv'
  <2>1. req' = [req EXCEPT ![r] = f] /\ Login!Unlock(r)
    BY <1>8 DEF Login!Fails
  <2>2. /\ service' \in [1..MaxLogins -> LoginServices]
        /\ \A k \in 1..MaxLogins \ {l} : service'[k] = service[k]
    BY <1>6, <1>8
  <2> HIDE DEF f, Given
  <2>3. /\ req' \in [Login!Reqs -> LoginRequests] /\ mu' \in [{p1} -> Requests \cup {"none"}] /\ MutexInv'
        /\ \A t \in Login!Reqs : /\ req'[t].pc \notin {"exchange", "write"}
                                 /\ req'[t].pc = "sent" => req'[t] = req[t]
    BY <1>1, <1>4, <2>1, RefreshEnds
  <2>4. NewestInv'
    <3>1. \A k \in (logins + 1)..MaxLogins : k \in 1..MaxLogins \ {l}
      BY <1>2 DEF LoginInv, LoginTyped
    <3>2. authFile.account \in 1..MaxLogins
      BY DEF LoginInv, LoginTyped, TokensInv, OneLogin, Login!ConstantsOK
    <3> HIDE DEF l
    <3> QED BY <1>1, <1>3, <1>5, <1>8, <2>2, <2>3, <3>1, <3>2 DEF LoginInv, NewestInv, Login!Holds
  <2> QED BY <1>3, <2>2, <2>3, <2>4 DEF LoginInv, LoginTyped, TokensInv, OneLogin
<1>9. ASSUME NEW n \in {s.refresh, s.refresh + 1}, service' = [service EXCEPT ![l] = Given(n)],
             req' = [req EXCEPT ![r].pc = "write", ![r].read = Login!Nothing,
                                ![r].got = [Login!Tokens(l, s.newest + 1, n) EXCEPT !.account = o.account]],
             UNCHANGED <<mu, lost>>
      PROVE  LoginInv'
  <2> DEFINE g == [Login!Tokens(l, s.newest + 1, n) EXCEPT !.account = o.account]
             q == [req[r] EXCEPT !.pc = "write", !.read = Login!Nothing, !.got = g]
  <2>1. /\ service' \in [1..MaxLogins -> LoginServices] /\ service'[l].refresh = n
        /\ \A k \in 1..MaxLogins \ {l} : service'[k] = service[k]
    BY <1>6, <1>9
  <2>2. l \in Nat /\ s.newest + 1 \in Nat /\ n \in Nat /\ o.account \in Nat
    BY <1>2 DEF LoginServices
  <2>3. g \in LoginFiles /\ g = [access |-> [login |-> l, n |-> s.newest + 1], refresh |-> [login |-> l, n |-> n], account |-> o.account]
    BY <2>2, TokensTyped, Zenon
  <2>4. g.account = l /\ g.access.login = l /\ g.refresh.login = l /\ g.refresh.n = n
    <3>1. g.account = o.account /\ g.access = [login |-> l, n |-> s.newest + 1] /\ g.refresh = [login |-> l, n |-> n]
      BY <2>3
    <3>2. o.account = l
      BY <1>2
    <3> HIDE DEF l, s, o, g
    <3> QED BY <3>1, <3>2
  <2>5. Login!Nothing \in LoginFiles
    BY TokensTyped DEF Login!Nothing
  <2>6. req' = [req EXCEPT ![r] = q]
    BY <1>9
  <2> HIDE DEF g
  <2>7. q \in LoginRequests /\ q.pc = "write" /\ q.got = g
    BY <1>1, <2>3, <2>5 DEF LoginRequests
  <2> HIDE DEF q, Given, s
  <2>8. req' \in [Login!Reqs -> LoginRequests] /\ req'[r] = q /\ \A t \in Login!Reqs \ {r} : req'[t] = req[t]
    BY <2>6, <2>7, OthersStay DEF LoginInv
  <2>9. LoginTyped'
    BY <1>3, <1>9, <2>1, <2>8 DEF LoginInv, LoginTyped
  <2>10. TokensInv'
    BY <1>2, <1>3, <2>4, <2>7, <2>8 DEF LoginInv, TokensInv, OneLogin
  <2>11. MutexInv'
    BY <1>1, <1>9, <2>7, <2>8 DEF LoginInv, MutexInv
  <2>12. NewestInv'
    <3>1. \A k \in (logins + 1)..MaxLogins : k \in 1..MaxLogins \ {l}
      BY <1>2 DEF LoginInv, LoginTyped
    <3>2. authFile.account \in 1..MaxLogins
      BY DEF LoginInv, LoginTyped, TokensInv, OneLogin, Login!ConstantsOK
    <3>3. \A k \in (logins + 1)..MaxLogins : service'[k].refresh = 1
      BY <2>1, <3>1 DEF LoginInv, NewestInv
    <3>4. \A t \in Login!Reqs : req'[t].pc = "write" => t = r
      BY <1>5, <2>8
    <3>5. req'[r].got.account = l /\ req'[r].got.refresh.n = service'[l].refresh /\ Login!Holds(r)'
      BY <2>1, <2>4, <2>7, <2>8 DEF Login!Holds
    <3>6. authFile.account = l \/ service'[authFile.account] = service[authFile.account]
      BY <2>1, <3>2
    <3>7. ~\E t \in Login!Reqs : Login!Holds(t)
      BY <1>1, <1>5 DEF Login!Holds
    <3> HIDE DEF l
    <3> QED BY <1>3, <1>9, <3>3, <3>4, <3>5, <3>6, <3>7 DEF LoginInv, NewestInv
  <2> QED BY <2>9, <2>10, <2>11, <2>12 DEF LoginInv
<1> QED BY <1>7, <1>8, <1>9 DEF Login!exchange

LEMMA WriteStep == ASSUME Login!ConstantsOK, LoginInv, NEW r \in Login!Reqs, Login!write(r) PROVE LoginInv'
<1>1. req[r].pc = "write" /\ req[r] \in LoginRequests /\ req[r].got \in LoginFiles
  BY DEF Login!write, LoginInv, LoginTyped, LoginRequests
<1>2. UNCHANGED <<service, logins>>
  BY DEF Login!write
<1>3. CASE authFile' = Login!next(r) /\ UNCHANGED lost
           /\ req' = [req EXCEPT ![r] = [Login!Idle EXCEPT !.pc = "again", !.attempt = 1]] /\ Login!Unlock(r)
  <2> DEFINE q == [Login!Idle EXCEPT !.pc = "again", !.attempt = 1]
  <2>1. q \in LoginRequests /\ q.pc = "again" /\ req' = [req EXCEPT ![r] = q]
    BY <1>3, AgainTyped, Zenon
  <2> HIDE DEF q
  <2>2. /\ req' \in [Login!Reqs -> LoginRequests] /\ mu' \in [{p1} -> Requests \cup {"none"}] /\ MutexInv'
        /\ \A t \in Login!Reqs : /\ req'[t].pc \notin {"exchange", "write"}
                                 /\ req'[t].pc = "sent" => req'[t] = req[t]
    BY <1>1, <1>3, <2>1, RefreshEnds
  <2>3. authFile' = req[r].got
    BY <1>3 DEF Login!next
  <2>4. OneLogin(req[r].got) /\ req[r].got.refresh.n = service[req[r].got.account].refresh
    BY <1>1 DEF LoginInv, TokensInv, NewestInv
  <2> QED BY <1>1, <1>2, <1>3, <2>2, <2>3, <2>4 DEF LoginInv, LoginTyped, TokensInv, NewestInv, OneLogin
<1>4. CASE UNCHANGED authFile /\ Login!Fails(r) /\ lost' = lost \cup {req[r].got.account}
  <2> DEFINE f == [Login!Idle EXCEPT !.pc = "failed", !.got = req[r].got]
  <2>1. f \in LoginRequests /\ f.pc = "failed"
    BY <1>1, FailedTyped, Zenon
  <2>2. req' = [req EXCEPT ![r] = f] /\ Login!Unlock(r)
    BY <1>4 DEF Login!Fails
  <2> HIDE DEF f
  <2>3. /\ req' \in [Login!Reqs -> LoginRequests] /\ mu' \in [{p1} -> Requests \cup {"none"}] /\ MutexInv'
        /\ \A t \in Login!Reqs : /\ req'[t].pc \notin {"exchange", "write"}
                                 /\ req'[t].pc = "sent" => req'[t] = req[t]
    BY <1>1, <2>1, <2>2, RefreshEnds
  <2>4. \A t \in Login!Reqs : Login!Holds(t) => t = r
    BY <1>1, OneRefresh DEF LoginInv, Login!Holds
  <2>5. NewestInv'
    BY <1>2, <1>4, <2>3, <2>4 DEF LoginInv, NewestInv
  <2> QED BY <1>2, <1>4, <2>3, <2>5 DEF LoginInv, LoginTyped, TokensInv, OneLogin
<1> QED BY <1>3, <1>4 DEF Login!write

LEMMA LoginNextStep == ASSUME Login!ConstantsOK, LoginInv, [Login!Next]_loginVars PROVE LoginInv'
<1>1. CASE Login!Expire
  <2>1. PICK l \in 1..logins : service' = [service EXCEPT ![l].valid = {}]
    BY <1>1 DEF Login!Expire
  <2>2. /\ service' \in [1..MaxLogins -> LoginServices]
        /\ \A k \in 1..MaxLogins : service'[k].refresh = service[k].refresh
    BY <2>1 DEF LoginInv, LoginTyped, LoginServices
  <2>3. UNCHANGED <<authFile, logins, mu, req, lost>>
    BY <1>1 DEF Login!Expire
  <2>4. NewestInv'
    <3>1. logins \in Nat /\ authFile.account \in 1..MaxLogins
      BY DEF LoginInv, LoginTyped, TokensInv, OneLogin, Login!ConstantsOK
    <3>2. \A t \in Login!Reqs : req[t].pc = "write" => req[t].got.account \in 1..MaxLogins
      BY DEF LoginInv, LoginTyped, TokensInv, OneLogin, Login!ConstantsOK
    <3>3. \A k \in (logins + 1)..MaxLogins : service'[k].refresh = 1
      BY <2>2, <3>1 DEF LoginInv, NewestInv
    <3> QED BY <2>2, <2>3, <3>1, <3>2, <3>3 DEF LoginInv, NewestInv, Login!Holds
  <2> QED BY <2>2, <2>3, <2>4 DEF LoginInv, LoginTyped, TokensInv, MutexInv, OneLogin
<1>2. CASE Login!CliLogin
  <2>1. logins + 1 \in 1..MaxLogins /\ logins' = logins + 1 /\ logins \in Nat
    BY <1>2 DEF Login!CliLogin, LoginInv, LoginTyped, Login!ConstantsOK
  <2>2. /\ authFile' = [access |-> [login |-> logins + 1, n |-> 1], refresh |-> [login |-> logins + 1, n |-> 1], account |-> logins + 1]
        /\ authFile' \in LoginFiles
    BY <1>2, <2>1, TokensTyped DEF Login!CliLogin, Login!Tokens, Login!Token
  <2>3. UNCHANGED <<service, mu, req, lost>>
    BY <1>2 DEF Login!CliLogin
  <2>4. LoginTyped' /\ MutexInv'
    BY <2>1, <2>2, <2>3 DEF LoginInv, LoginTyped, MutexInv
  <2>5. TokensInv'
    BY <2>1, <2>2, <2>3 DEF LoginInv, TokensInv, OneLogin
  <2>6. NewestInv'
    BY <2>1, <2>2, <2>3 DEF LoginInv, NewestInv
  <2> QED BY <2>4, <2>5, <2>6 DEF LoginInv
<1>3. ASSUME NEW r \in Login!Reqs, Login!Send(r) PROVE LoginInv'
  <2> DEFINE q == [req[r] EXCEPT !.pc = "sent", !.sent = authFile.access, !.account = authFile.account]
  <2>1. req[r] \in LoginRequests /\ authFile \in LoginFiles /\ authFile.access.login = authFile.account
    BY DEF LoginInv, LoginTyped, TokensInv, OneLogin
  <2>2. q \in LoginRequests
    BY <2>1 DEF LoginRequests, LoginFiles
  <2>3. q.pc = "sent" /\ q.account = q.sent.login
    BY <2>1 DEF LoginRequests, LoginFiles
  <2>4. req' = [req EXCEPT ![r] = q] /\ req[r].pc \notin {"exchange", "write"}
    BY <1>3 DEF Login!Send
  <2>5. UNCHANGED <<authFile, service, logins, mu, lost>>
    BY <1>3 DEF Login!Send
  <2> HIDE DEF q
  <2> QED BY <2>2, <2>3, <2>4, <2>5, QuietStep
<1>4. ASSUME NEW r \in Login!Reqs, NEW q \in LoginRequests, q.pc \in {"idle", "refresh"},
             req' = [req EXCEPT ![r] = q], req[r].pc \in {"sent", "failed"},
             UNCHANGED <<authFile, service, logins, mu, lost>>
      PROVE  LoginInv'
  BY <1>4, QuietStep
<1>5. ASSUME NEW r \in Login!Reqs, Login!Answered(r) \/ Login!Unauthorized(r) \/ Login!TurnEnds(r) PROVE LoginInv'
  <2>1. UNCHANGED <<authFile, service, logins, mu, lost>> /\ req[r].pc \in {"sent", "failed"}
    BY <1>5 DEF Login!Answered, Login!Unauthorized, Login!TurnEnds
  <2>2. CASE req' = [req EXCEPT ![r] = Login!Idle]
    BY <1>4, <2>1, <2>2, IdleTyped
  <2>3. CASE req' = [req EXCEPT ![r] = [Login!Idle EXCEPT !.pc = "refresh", !.attempt = 1]]
    <3> DEFINE q == [Login!Idle EXCEPT !.pc = "refresh", !.attempt = 1]
    <3>1. q \in LoginRequests /\ q.pc = "refresh" /\ req' = [req EXCEPT ![r] = q]
      BY <2>3, AgainTyped, Zenon
    <3> HIDE DEF q
    <3> QED BY <1>4, <2>1, <3>1
  <2> QED BY <1>5, <2>2, <2>3 DEF Login!Answered, Login!Unauthorized, Login!TurnEnds
<1>6. ASSUME NEW r \in Login!Reqs, Login!RefreshReads(r) PROVE LoginInv'
  <2> DEFINE q == [req[r] EXCEPT !.pc = "exchange", !.read = authFile]
  <2>1. req[r] \in LoginRequests /\ authFile \in LoginFiles
    BY DEF LoginInv, LoginTyped
  <2>2. q \in LoginRequests /\ q.pc = "exchange" /\ q.read = authFile
    BY <2>1 DEF LoginRequests
  <2>3. req' = [req EXCEPT ![r] = q] /\ req[r].pc = "refresh" /\ UNCHANGED <<authFile, service, logins, lost>>
    BY <1>6 DEF Login!RefreshReads
  <2>4. mu[r[1]] = "none" /\ mu' = [mu EXCEPT ![r[1]] = r[2]] /\ r[1] = p1 /\ r[2] \in Requests
    BY <1>6, OneProcess DEF Login!RefreshReads, Login!Lock
  <2> HIDE DEF q
  <2>5. req' \in [Login!Reqs -> LoginRequests] /\ req'[r] = q /\ \A t \in Login!Reqs \ {r} : req'[t] = req[t]
    BY <2>2, <2>3, OthersStay DEF LoginInv
  <2>6. LoginTyped'
    BY <2>3, <2>4, <2>5 DEF LoginInv, LoginTyped
  <2>7. TokensInv'
    BY <2>2, <2>3, <2>5 DEF LoginInv, TokensInv, OneLogin
  <2>8. \A t \in Login!Reqs : req[t].pc \notin {"exchange", "write"}
    BY <2>4, OneProcess DEF LoginInv, MutexInv, Login!ConstantsOK
  <2>9. MutexInv'
    BY <2>2, <2>4, <2>5, <2>8 DEF LoginInv, LoginTyped, MutexInv
  <2>10. NewestInv'
    BY <2>2, <2>3, <2>5, <2>8 DEF LoginInv, NewestInv, Login!Holds
  <2> QED BY <2>6, <2>7, <2>9, <2>10 DEF LoginInv
<1>7. CASE UNCHANGED loginVars
  BY <1>7 DEF loginVars, LoginInv, LoginTyped, TokensInv, MutexInv, NewestInv, OneLogin, Login!Holds
<1> QED BY <1>1, <1>2, <1>3, <1>5, <1>6, <1>7, ExchangeStep, WriteStep DEF Login!Next

(* Whatever logins of the CLI and requests of the process overlap, and       *)
(* whatever answers and writes are lost, the file is one login, and its      *)
(* refresh token the newest, or known to be lost, or about to be replaced.   *)
THEOREM LoginIsOne == ASSUME Login!ConstantsOK PROVE FrontSpec => []FileIsOneLogin
<1>1. FrontInit => LoginInv
  BY LoginStart DEF FrontInit
<1>2. LoginInv /\ [FrontNext]_frontVars => LoginInv'
  <2>1. [FrontNext]_frontVars => [Login!Next]_loginVars
    BY DEF FrontNext, ManagerNext, WorkspaceNext, SkillNext, CommandNext, ConfigNext, KeyboardNext, SetupNext,
           ShadowNext, LoginNext, LoopNext, AgentsNext, frontVars
  <2> QED BY <2>1, LoginNextStep
<1>3. LoginInv => FileIsOneLogin
  <2>1. LoginInv => Login!TypeOK
    BY DEF LoginInv, LoginTyped, LoginRequests, Login!TypeOK
  <2>2. LoginInv => Login!FileIsOneLogin
    BY DEF LoginInv, TokensInv, NewestInv, OneLogin, Login!FileIsOneLogin
  <2> QED BY <2>1, <2>2 DEF FileIsOneLogin
<1> QED BY <1>1, <1>2, <1>3, PTL DEF FrontSpec

-----------------------------------------------------------------------------
(* ConduitShadow: for any agents, turns, happenings and sizes of a capsule.  *)

ShadowCapsules == [evidence : Seq(Nat), gates : Seq(Nat)]
ShadowTyped ==
    /\ turn \in [ShadowAgents -> 0..MaxTurns] /\ call \in [ShadowAgents -> {"none", "emit", "continue"}]
    /\ turnStarted \in [ShadowAgents -> BOOLEAN] /\ active \in [ShadowAgents -> BOOLEAN]
    /\ sent \in [ShadowAgents -> BOOLEAN]
    /\ seq \in [ShadowAgents -> Nat] /\ happened \in [ShadowAgents -> Nat]
    /\ capsule \in [ShadowAgents -> ShadowCapsules]
    /\ saved \in [ShadowAgents -> [turn : 0..MaxTurns, evidence : Seq(Nat), gates : Seq(Nat)]]
    /\ log \in [ShadowAgents -> [0..MaxTurns -> Seq(Nat)]]

(* The gates of a capsule are among these events. *)
GatesAre(gates, events) == \A i \in 1..Len(gates) : \E j \in 1..Len(events) : events[j] = gates[i]

(* A run begins with the turn, and a request is a request of an active run.  *)
RunInv(a) ==
    /\ \A t \in 0..MaxTurns : t > turn[a] => log[a][t] = << >>
    /\ ~turnStarted[a] => /\ ~active[a] /\ seq[a] = 0 /\ log[a][turn[a]] = << >>
                          /\ capsule[a] = Shadow!NoCapsule
    /\ call[a] # "none" => active[a]
    /\ sent[a] => call[a] = "emit"

(* While the run is active the two sides count alike, but for the event the  *)
(* runtime has and the agent does not know it has; the capsule holds the     *)
(* first events, as many as it has room for, and failed gates that the       *)
(* runtime has, or is about to have.                                         *)
CountOf(events, c, snt, n, calling, h) ==
    /\ Len(events) = (IF snt THEN n + 1 ELSE n)
    /\ snt => events[Len(events)] = h
    /\ Len(c.evidence) <= n
    /\ \A i \in 1..MaxEvidence : i <= n => i <= Len(c.evidence) /\ c.evidence[i] = events[i]
    /\ \A i \in 1..Len(c.gates) : \/ \E j \in 1..Len(events) : events[j] = c.gates[i]
                                  \/ calling = "emit" /\ c.gates[i] = h
CountInv(a) ==
    active[a] => CountOf(log[a][turn[a]], capsule[a], sent[a], seq[a], call[a], happened[a])

(* What was saved is the beginning of what the runtime has of that turn.     *)
SavedInv(a) ==
    LET events == log[a][saved[a].turn]
    IN  /\ saved[a].turn <= turn[a]
        /\ Len(saved[a].evidence) <= MaxEvidence /\ Len(saved[a].gates) <= MaxGates
        /\ Len(saved[a].evidence) <= Len(events)
        /\ \A i \in 1..Len(saved[a].evidence) : saved[a].evidence[i] = events[i]
        /\ GatesAre(saved[a].gates, events)

AgentInv(a) == RunInv(a) /\ CountInv(a) /\ SavedInv(a)
ShadowInv == ShadowTyped /\ \A a \in ShadowAgents : AgentInv(a)

-----------------------------------------------------------------------------
LEMMA FirstOf ==
    ASSUME NEW s \in Seq(Nat), NEW n \in Nat
    PROVE  /\ Shadow!First(s, n) \in Seq(Nat)
           /\ Len(Shadow!First(s, n)) = IF Len(s) < n THEN Len(s) ELSE n
           /\ \A i \in 1..Len(Shadow!First(s, n)) : Shadow!First(s, n)[i] = s[i]
<1> DEFINE m == IF Len(s) < n THEN Len(s) ELSE n
<1>1. m \in 0..Len(s) /\ Len(s) \in Nat
  OBVIOUS
<1>2. SubSeq(s, 1, m) \in Seq(Nat) /\ Len(SubSeq(s, 1, m)) = m /\ \A i \in 1..m : SubSeq(s, 1, m)[i] = s[i]
  BY <1>1
<1> QED BY <1>2 DEF Shadow!First

LEMMA NormalTyped ==
    ASSUME Shadow!ConstantsOK, NEW c \in ShadowCapsules
    PROVE  /\ Shadow!Normalize(c) \in ShadowCapsules
           /\ Shadow!Normalize(c).evidence = Shadow!First(c.evidence, MaxEvidence)
           /\ Shadow!Normalize(c).gates = Shadow!First(c.gates, MaxGates)
<1>1. MaxEvidence \in Nat /\ MaxGates \in Nat /\ c.evidence \in Seq(Nat) /\ c.gates \in Seq(Nat)
  BY DEF Shadow!ConstantsOK, ShadowCapsules
<1>2. Shadow!First(c.evidence, MaxEvidence) \in Seq(Nat) /\ Shadow!First(c.gates, MaxGates) \in Seq(Nat)
  BY <1>1, FirstOf
<1> QED BY <1>2 DEF Shadow!Normalize, ShadowCapsules

(* An agent that does not move keeps what it had. *)
Still(b) ==
    /\ turn'[b] = turn[b] /\ call'[b] = call[b] /\ turnStarted'[b] = turnStarted[b]
    /\ active'[b] = active[b] /\ sent'[b] = sent[b] /\ seq'[b] = seq[b] /\ happened'[b] = happened[b]
    /\ capsule'[b] = capsule[b] /\ saved'[b] = saved[b] /\ log'[b] = log[b]

LEMMA StillKeeps == ASSUME NEW b \in ShadowAgents, AgentInv(b), Still(b) PROVE AgentInv(b)'
<1>1. RunInv(b)'
  BY DEF AgentInv, RunInv, Still
<1>2. CountInv(b)'
  BY DEF AgentInv, CountInv, Still
<1>3. SavedInv(b)'
  BY DEF AgentInv, SavedInv, GatesAre, Still
<1> QED BY <1>1, <1>2, <1>3 DEF AgentInv

LEMMA ShadowStart == ASSUME Shadow!ConstantsOK, Shadow!Init PROVE ShadowInv
<1>1. 0 \in 0..MaxTurns /\ MaxEvidence \in Nat /\ MaxGates \in Nat
  BY DEF Shadow!ConstantsOK
<1>2. << >> \in Seq(Nat) /\ Len(<< >>) = 0
  OBVIOUS
<1>3. ShadowTyped
  BY <1>1, <1>2 DEF Shadow!Init, ShadowTyped, ShadowCapsules, Shadow!NoCapsule
<1>4. ASSUME NEW a \in ShadowAgents PROVE AgentInv(a)
  BY <1>1, <1>2 DEF Shadow!Init, AgentInv, RunInv, CountInv, SavedInv, GatesAre
<1> QED BY <1>3, <1>4 DEF ShadowInv

LEMMA BeginKeeps == ASSUME Shadow!ConstantsOK, ShadowInv, NEW a \in ShadowAgents, Shadow!BeginTurn(a) PROVE ShadowInv'
<1> USE DEF ShadowInv
<1>1. turn[a] \in 0..MaxTurns /\ turn[a] < MaxTurns /\ MaxTurns \in Nat /\ turn[a] + 1 \in 0..MaxTurns
  <2>1. MaxTurns \in Nat
    BY DEF Shadow!ConstantsOK
  <2>2. turn[a] \in 0..MaxTurns
    BY DEF ShadowTyped
  <2>3. turn[a] < MaxTurns
    BY DEF Shadow!BeginTurn
  <2> QED BY <2>1, <2>2, <2>3
<1>2. Shadow!NoCapsule \in ShadowCapsules
  BY DEF Shadow!NoCapsule, ShadowCapsules
<1>3. ShadowTyped'
  BY <1>1, <1>2 DEF Shadow!BeginTurn, ShadowTyped
<1>4. ASSUME NEW b \in ShadowAgents \ {a} PROVE AgentInv(b)'
  BY <1>4, StillKeeps DEF Shadow!BeginTurn, ShadowTyped, Still
<1>5. /\ turn'[a] = turn[a] + 1 /\ happened'[a] = 0 /\ ~turnStarted'[a] /\ ~active'[a] /\ seq'[a] = 0
      /\ capsule'[a] = Shadow!NoCapsule /\ call'[a] = "none" /\ sent'[a] = sent[a] /\ call[a] = "none"
      /\ saved' = saved /\ log' = log
  BY DEF Shadow!BeginTurn, ShadowTyped
<1>6. RunInv(a)'
  BY <1>1, <1>5 DEF AgentInv, RunInv
<1>7. CountInv(a)' /\ SavedInv(a)'
  <2>1. saved[a].turn \in 0..MaxTurns
    BY DEF ShadowTyped
  <2> QED BY <1>1, <1>5, <2>1 DEF AgentInv, CountInv, SavedInv, GatesAre
<1> QED BY <1>3, <1>4, <1>6, <1>7 DEF AgentInv

LEMMA StartKeeps == ASSUME Shadow!ConstantsOK, ShadowInv, NEW a \in ShadowAgents, Shadow!start(a) PROVE ShadowInv'
<1> USE DEF ShadowInv
<1>1. /\ ~turnStarted[a] /\ turnStarted' = [turnStarted EXCEPT ![a] = TRUE]
      /\ UNCHANGED <<turn, seq, call, sent, happened, log>>
  BY DEF Shadow!start
<1>2. ~active[a] /\ seq[a] = 0 /\ log[a][turn[a]] = << >> /\ capsule[a] = Shadow!NoCapsule /\ call[a] = "none" /\ ~sent[a]
  BY <1>1 DEF AgentInv, RunInv, ShadowTyped
<1>3. capsule[a] \in ShadowCapsules /\ turn[a] \in 0..MaxTurns /\ MaxEvidence \in Nat /\ MaxGates \in Nat
  BY DEF ShadowTyped, Shadow!ConstantsOK
<1> DEFINE n == Shadow!Normalize(capsule[a])
<1>4. n \in ShadowCapsules /\ Len(n.evidence) = 0 /\ Len(n.gates) = 0
  <2>1. capsule[a].evidence = << >> /\ capsule[a].gates = << >> /\ Len(<< >>) = 0 /\ << >> \in Seq(Nat)
    BY <1>2 DEF Shadow!NoCapsule
  <2>2. /\ n \in ShadowCapsules /\ n.evidence = Shadow!First(capsule[a].evidence, MaxEvidence)
        /\ n.gates = Shadow!First(capsule[a].gates, MaxGates)
    BY <1>3, NormalTyped
  <2>3. ASSUME NEW e \in Seq(Nat), Len(e) = 0, NEW m \in Nat PROVE Len(Shadow!First(e, m)) = 0
    <3>1. Len(Shadow!First(e, m)) = IF Len(e) < m THEN Len(e) ELSE m
      BY FirstOf, Zenon
    <3> QED BY <2>3, <3>1
  <2>4. capsule[a].evidence \in Seq(Nat) /\ capsule[a].gates \in Seq(Nat)
        /\ Len(capsule[a].evidence) = 0 /\ Len(capsule[a].gates) = 0
    BY <2>1
  <2> HIDE DEF n
  <2> QED BY <1>3, <2>2, <2>3, <2>4
<1>5. CASE UNCHANGED <<active, capsule, saved>>
  <2>1. ShadowTyped'
    BY <1>1, <1>5 DEF ShadowTyped
  <2>2. ASSUME NEW b \in ShadowAgents \ {a} PROVE AgentInv(b)'
    BY <1>1, <1>5, StillKeeps DEF ShadowTyped, Still
  <2>3. AgentInv(a)'
    <3>1. RunInv(a)'
      BY <1>1, <1>2, <1>5 DEF AgentInv, RunInv, ShadowTyped
    <3>2. CountInv(a)'
      BY <1>2, <1>5 DEF CountInv
    <3>3. SavedInv(a)'
      BY <1>1, <1>5 DEF AgentInv, SavedInv, GatesAre
    <3> QED BY <3>1, <3>2, <3>3 DEF AgentInv
  <2> QED BY <2>1, <2>2, <2>3
<1>6. CASE active' = [active EXCEPT ![a] = TRUE] /\ Shadow!persistCapsule(a, capsule[a])
  <2> DEFINE s == [turn |-> turn[a], evidence |-> n.evidence, gates |-> n.gates]
  <2>1. /\ capsule' = [capsule EXCEPT ![a] = n]
        /\ saved' = [saved EXCEPT ![a] = s] \/ UNCHANGED saved
    BY <1>6 DEF Shadow!persistCapsule, Shadow!SetSpecialistCapsule
  <2> HIDE DEF n
  <2>2. /\ s \in [turn : 0..MaxTurns, evidence : Seq(Nat), gates : Seq(Nat)]
        /\ s.turn = turn[a] /\ Len(s.evidence) = 0 /\ Len(s.gates) = 0
    BY <1>3, <1>4 DEF ShadowCapsules
  <2> HIDE DEF s
  <2>3. ShadowTyped'
    <3>1. active' \in [ShadowAgents -> BOOLEAN] /\ turnStarted' \in [ShadowAgents -> BOOLEAN]
      BY <1>1, <1>6 DEF ShadowTyped
    <3>2. capsule' \in [ShadowAgents -> ShadowCapsules]
      BY <1>4, <2>1 DEF ShadowTyped
    <3>3. saved' \in [ShadowAgents -> [turn : 0..MaxTurns, evidence : Seq(Nat), gates : Seq(Nat)]]
      BY <2>1, <2>2 DEF ShadowTyped
    <3> QED BY <1>1, <3>1, <3>2, <3>3 DEF ShadowTyped
  <2>4. ASSUME NEW b \in ShadowAgents \ {a} PROVE AgentInv(b)'
    BY <1>1, <1>6, <2>1, StillKeeps DEF ShadowTyped, Still
  <2>5. active'[a] /\ turnStarted'[a] /\ capsule'[a] = n /\ (saved'[a] = s \/ saved'[a] = saved[a])
    BY <1>1, <1>6, <2>1 DEF ShadowTyped
  <2>6. RunInv(a)'
    BY <1>1, <1>2, <2>5 DEF AgentInv, RunInv
  <2>7. CountInv(a)'
    <3>1. Len(<< >>) = 0 /\ Len(n.evidence) = 0 /\ Len(n.gates) = 0
      BY <1>4
    <3>2. CountOf(<< >>, n, FALSE, 0, "none", happened[a])
      BY <1>3, <3>1 DEF CountOf
    <3>3. /\ log'[a][turn'[a]] = << >> /\ capsule'[a] = n /\ sent'[a] = FALSE /\ seq'[a] = 0
          /\ call'[a] = "none" /\ happened'[a] = happened[a]
      BY <1>1, <1>2, <2>5 DEF ShadowTyped
    <3> QED BY <3>2, <3>3 DEF CountInv
  <2>8. SavedInv(a)'
    <3>1. CASE saved'[a] = s
      BY <1>1, <1>2, <1>3, <2>2, <3>1 DEF SavedInv, GatesAre
    <3>2. CASE saved'[a] = saved[a]
      BY <1>1, <3>2 DEF AgentInv, SavedInv, GatesAre
    <3> QED BY <2>5, <3>1, <3>2
  <2> QED BY <2>3, <2>4, <2>6, <2>7, <2>8 DEF AgentInv
<1> QED BY <1>5, <1>6 DEF Shadow!start, Shadow!startFallback

LEMMA HappensKeeps == ASSUME Shadow!ConstantsOK, ShadowInv, NEW a \in ShadowAgents, Shadow!Happens(a) PROVE ShadowInv'
<1> USE DEF ShadowInv
<1>1. /\ turnStarted[a] /\ call[a] = "none" /\ happened' = [happened EXCEPT ![a] = @ + 1]
      /\ UNCHANGED <<turn, turnStarted, active, seq, sent, saved, log>>
  BY DEF Shadow!Happens
<1>2. /\ happened'[a] \in Nat /\ happened' \in [ShadowAgents -> Nat] /\ ~sent[a]
      /\ \A b \in ShadowAgents \ {a} : happened'[b] = happened[b]
  BY <1>1 DEF ShadowTyped, AgentInv, RunInv
<1>3. SavedInv(a)'
  BY <1>1 DEF AgentInv, SavedInv, GatesAre
<1>4. CASE ~active[a] /\ UNCHANGED <<call, capsule>>
  <2>1. ShadowTyped'
    BY <1>1, <1>2, <1>4 DEF ShadowTyped
  <2>2. ASSUME NEW b \in ShadowAgents \ {a} PROVE AgentInv(b)'
    BY <1>1, <1>2, <1>4, StillKeeps DEF Still
  <2>3. RunInv(a)' /\ CountInv(a)'
    BY <1>1, <1>4 DEF AgentInv, RunInv, CountInv
  <2> QED BY <1>3, <2>1, <2>2, <2>3 DEF AgentInv
<1>5. ASSUME active[a], call' = [call EXCEPT ![a] = "emit"],
             \/ capsule' = [capsule EXCEPT ![a].gates = Append(@, happened'[a])]
             \/ UNCHANGED capsule
      PROVE  ShadowInv'
  <2> DEFINE c == [capsule[a] EXCEPT !.gates = Append(@, happened'[a])]
             h == happened'[a]
             d == capsule'[a]
  <2>1. capsule[a] \in ShadowCapsules /\ capsule[a].evidence \in Seq(Nat) /\ capsule[a].gates \in Seq(Nat)
    BY DEF ShadowTyped, ShadowCapsules
  <2>2. c \in ShadowCapsules /\ c.evidence = capsule[a].evidence /\ c.gates = Append(capsule[a].gates, h)
    <3>1. Append(capsule[a].gates, h) \in Seq(Nat)
      BY <1>2, <2>1
    <3>2. c = [capsule[a] EXCEPT !.gates = Append(capsule[a].gates, h)]
      OBVIOUS
    <3> HIDE DEF c, h
    <3> QED BY <2>1, <3>1, <3>2 DEF ShadowCapsules
  <2>3. /\ capsule' \in [ShadowAgents -> ShadowCapsules] /\ d \in {c, capsule[a]}
        /\ \A b \in ShadowAgents \ {a} : capsule'[b] = capsule[b]
    <3> HIDE DEF c
    <3>1. capsule' = [capsule EXCEPT ![a] = c] \/ capsule' = capsule
      BY <1>5 DEF c
    <3> QED BY <2>1, <2>2, <3>1 DEF ShadowTyped
  <2>4. call' \in [ShadowAgents -> {"none", "emit", "continue"}] /\ call'[a] = "emit"
        /\ \A b \in ShadowAgents \ {a} : call'[b] = call[b]
    BY <1>5 DEF ShadowTyped
  <2>5. ShadowTyped'
    BY <1>1, <1>2, <2>3, <2>4 DEF ShadowTyped
  <2>6. ASSUME NEW b \in ShadowAgents \ {a} PROVE AgentInv(b)'
    BY <1>1, <1>2, <2>3, <2>4, StillKeeps DEF Still
  <2>7. RunInv(a)'
    BY <1>1, <1>2, <1>5, <2>4 DEF AgentInv, RunInv
  <2>8. CountInv(a)'
    <3> DEFINE events == log[a][turn[a]]
    <3>1. CountOf(events, capsule[a], FALSE, seq[a], "none", happened[a])
      <4>1. CountOf(events, capsule[a], sent[a], seq[a], call[a], happened[a])
        BY <1>5 DEF AgentInv, CountInv
      <4>2. sent[a] = FALSE /\ call[a] = "none"
        BY <1>1, <1>2 DEF ShadowTyped
      <4> QED BY <4>1, <4>2
    <3>2. d.evidence = capsule[a].evidence
      BY <2>2, <2>3
    <3>3. ASSUME NEW i \in 1..Len(d.gates)
          PROVE  (\E j \in 1..Len(events) : events[j] = d.gates[i]) \/ d.gates[i] = h
      <4>1. CASE d = capsule[a]
        BY <3>1, <4>1 DEF CountOf
      <4>2. CASE d = c
        <5>1. d.gates = Append(capsule[a].gates, h)
          BY <2>2, <4>2
        <5>2. (i \in 1..Len(capsule[a].gates) /\ d.gates[i] = capsule[a].gates[i]) \/ d.gates[i] = h
          BY <1>2, <2>1, <5>1
        <5> QED BY <3>1, <5>2 DEF CountOf
      <4> QED BY <2>3, <4>1, <4>2
    <3>4. CountOf(events, d, FALSE, seq[a], "emit", h)
      BY <3>1, <3>2, <3>3 DEF CountOf
    <3>5. log'[a][turn'[a]] = events /\ sent'[a] = FALSE /\ seq'[a] = seq[a]
      BY <1>1, <1>2 DEF ShadowTyped
    <3> HIDE DEF events
    <3> QED BY <2>4, <3>4, <3>5 DEF CountInv
  <2> QED BY <1>3, <2>5, <2>6, <2>7, <2>8 DEF AgentInv
<1> QED BY <1>4, <1>5 DEF Shadow!Happens

LEMMA TakesKeeps == ASSUME Shadow!ConstantsOK, ShadowInv, NEW a \in ShadowAgents, Shadow!RuntimeTakes(a) PROVE ShadowInv'
<1> USE DEF ShadowInv
<1> DEFINE events == log[a][turn[a]]
           more   == Append(events, happened[a])
<1>1. /\ call[a] = "emit" /\ ~sent[a] /\ sent' = [sent EXCEPT ![a] = TRUE]
      /\ UNCHANGED <<turn, turnStarted, active, seq, capsule, call, happened, saved>>
  BY DEF Shadow!RuntimeTakes
<1>2. active[a] /\ CountOf(events, capsule[a], FALSE, seq[a], "emit", happened[a])
  BY <1>1 DEF AgentInv, RunInv, CountInv, ShadowTyped
<1>3. log' = [log EXCEPT ![a][turn[a]] = more]
  BY <1>2 DEF Shadow!RuntimeTakes, CountOf
<1>4. turn[a] \in 0..MaxTurns /\ events \in Seq(Nat) /\ happened[a] \in Nat /\ log[a] \in [0..MaxTurns -> Seq(Nat)]
  BY DEF ShadowTyped
<1>5. more \in Seq(Nat) /\ Len(more) = Len(events) + 1 /\ more[Len(more)] = happened[a]
      /\ \A i \in 1..Len(events) : more[i] = events[i]
  BY <1>4
<1> HIDE DEF events, more
<1>6. /\ log' \in [ShadowAgents -> [0..MaxTurns -> Seq(Nat)]]
      /\ log'[a][turn[a]] = more /\ (\A t \in 0..MaxTurns \ {turn[a]} : log'[a][t] = log[a][t])
      /\ \A b \in ShadowAgents \ {a} : log'[b] = log[b]
  BY <1>3, <1>4, <1>5 DEF ShadowTyped
<1>7. ShadowTyped'
  BY <1>1, <1>6 DEF ShadowTyped
<1>8. ASSUME NEW b \in ShadowAgents \ {a} PROVE AgentInv(b)'
  BY <1>1, <1>6, StillKeeps DEF ShadowTyped, Still
<1>9. sent'[a]
  BY <1>1 DEF ShadowTyped
<1>10. RunInv(a)'
  <2>1. \A t \in 0..MaxTurns : t > turn[a] => log'[a][t] = << >>
    <3>1. \A t \in 0..MaxTurns : t > turn[a] => t \in 0..MaxTurns \ {turn[a]} /\ log[a][t] = << >>
      BY <1>4 DEF AgentInv, RunInv
    <3> QED BY <1>6, <3>1
  <2>2. turnStarted[a]
    BY <1>2 DEF AgentInv, RunInv
  <2> QED BY <1>1, <1>2, <2>1, <2>2 DEF RunInv
<1>11. CountInv(a)'
  <2>1. CountOf(more, capsule[a], TRUE, seq[a], "emit", happened[a])
    <3>1. seq[a] \in Nat /\ Len(events) = seq[a] /\ Len(events) \in Nat
      BY <1>2, <1>4 DEF CountOf, ShadowTyped
    <3>2. ASSUME NEW i \in 1..MaxEvidence, i <= seq[a] PROVE i <= Len(capsule[a].evidence) /\ capsule[a].evidence[i] = more[i]
      <4>1. i \in 1..Len(events)
        BY <3>1, <3>2 DEF Shadow!ConstantsOK
      <4> QED BY <1>2, <1>5, <3>2, <4>1 DEF CountOf
    <3>3. ASSUME NEW i \in 1..Len(capsule[a].gates), NEW j \in 1..Len(events), events[j] = capsule[a].gates[i]
          PROVE  j \in 1..Len(more) /\ more[j] = capsule[a].gates[i]
      BY <1>5, <3>1, <3>3
    <3> QED BY <1>2, <1>5, <3>1, <3>2, <3>3 DEF CountOf
  <2>2. log'[a][turn'[a]] = more /\ call'[a] = "emit" /\ sent'[a] = TRUE /\ capsule'[a] = capsule[a]
        /\ seq'[a] = seq[a] /\ happened'[a] = happened[a]
    BY <1>1, <1>6, <1>9 DEF ShadowTyped
  <2> QED BY <2>1, <2>2 DEF CountInv
<1>12. SavedInv(a)'
  <2> DEFINE before == log[a][saved[a].turn]
             after  == log'[a][saved[a].turn]
  <2>1. before \in Seq(Nat) /\ saved[a].turn \in 0..MaxTurns
    BY <1>4 DEF ShadowTyped
  <2>2. Len(before) <= Len(after) /\ \A i \in 1..Len(before) : after[i] = before[i]
    <3>1. CASE saved[a].turn = turn[a]
      <4>1. before = events /\ after = more
        BY <1>6, <3>1 DEF events
      <4>2. Len(events) <= Len(more)
        BY <1>4, <1>5
      <4> QED BY <1>5, <4>1, <4>2
    <3>2. CASE saved[a].turn # turn[a]
      <4>1. after = before
        BY <1>6, <2>1, <3>2
      <4>2. Len(before) <= Len(before)
        BY <2>1
      <4> QED BY <4>1, <4>2
    <3> QED BY <3>1, <3>2
  <2>3. Len(before) \in Nat /\ Len(after) \in Nat /\ saved[a].evidence \in Seq(Nat)
    BY <1>6, <2>1 DEF ShadowTyped
  <2> HIDE DEF before, after
  <2>4. /\ Len(saved[a].evidence) <= Len(before) /\ \A i \in 1..Len(saved[a].evidence) : saved[a].evidence[i] = before[i]
        /\ GatesAre(saved[a].gates, before)
    BY DEF AgentInv, SavedInv, before
  <2>5. /\ Len(saved[a].evidence) <= Len(after) /\ \A i \in 1..Len(saved[a].evidence) : saved[a].evidence[i] = after[i]
    BY <2>2, <2>3, <2>4
  <2>6. GatesAre(saved[a].gates, after)
    <3>1. ASSUME NEW i \in 1..Len(saved[a].gates) PROVE \E j \in 1..Len(after) : after[j] = saved[a].gates[i]
      <4>1. PICK j \in 1..Len(before) : before[j] = saved[a].gates[i]
        BY <2>4 DEF GatesAre
      <4>2. j \in 1..Len(after) /\ after[j] = before[j]
        BY <2>2, <2>3
      <4> QED BY <4>1, <4>2
    <3> QED BY <3>1 DEF GatesAre
  <2>7. /\ saved[a].turn <= turn[a]
        /\ Len(saved[a].evidence) <= MaxEvidence /\ Len(saved[a].gates) <= MaxGates
    BY DEF AgentInv, SavedInv
  <2>8. saved' = saved /\ turn' = turn
    BY <1>1
  <2> QED BY <2>5, <2>6, <2>7, <2>8 DEF SavedInv, after
<1> QED BY <1>7, <1>8, <1>10, <1>11, <1>12 DEF AgentInv

LEMMA FailsKeeps == ASSUME Shadow!ConstantsOK, ShadowInv, NEW a \in ShadowAgents, Shadow!EmitFails(a) PROVE ShadowInv'
<1> USE DEF ShadowInv
<1>1. /\ call' = [call EXCEPT ![a] = "none"] /\ sent' = [sent EXCEPT ![a] = FALSE]
      /\ active' = [active EXCEPT ![a] = FALSE] /\ call[a] = "emit"
      /\ UNCHANGED <<capsule, saved, turn, turnStarted, seq, happened, log>>
  BY DEF Shadow!EmitFails, Shadow!giveUp
<1>2. ShadowTyped'
  BY <1>1 DEF ShadowTyped
<1>3. ASSUME NEW b \in ShadowAgents \ {a} PROVE AgentInv(b)'
  BY <1>1, StillKeeps DEF ShadowTyped, Still
<1>4. call'[a] = "none" /\ ~sent'[a] /\ ~active'[a]
  BY <1>1 DEF ShadowTyped
<1>5. RunInv(a)' /\ CountInv(a)'
  BY <1>1, <1>4 DEF AgentInv, RunInv, CountInv
<1>6. SavedInv(a)'
  BY <1>1 DEF AgentInv, SavedInv, GatesAre
<1> QED BY <1>2, <1>3, <1>5, <1>6 DEF AgentInv

LEMMA EmittedKeeps == ASSUME Shadow!ConstantsOK, ShadowInv, NEW a \in ShadowAgents, Shadow!Emitted(a) PROVE ShadowInv'
<1> USE DEF ShadowInv
<1> DEFINE events == log[a][turn[a]]
           c == [capsule[a] EXCEPT !.evidence = Append(@, happened[a])]
<1>1. /\ call[a] = "emit" /\ sent[a] /\ sent' = [sent EXCEPT ![a] = FALSE]
      /\ seq' = [seq EXCEPT ![a] = @ + 1] /\ call' = [call EXCEPT ![a] = "continue"]
      /\ capsule' = [capsule EXCEPT ![a] = c]
      /\ UNCHANGED <<turn, turnStarted, active, happened, saved, log>>
  BY DEF Shadow!Emitted
<1>2. active[a] /\ CountOf(events, capsule[a], TRUE, seq[a], "emit", happened[a])
  BY <1>1 DEF AgentInv, RunInv, CountInv, ShadowTyped
<1>3. /\ capsule[a] \in ShadowCapsules /\ capsule[a].evidence \in Seq(Nat) /\ happened[a] \in Nat
      /\ seq[a] \in Nat /\ events \in Seq(Nat) /\ MaxEvidence \in Nat
  BY DEF ShadowTyped, ShadowCapsules, Shadow!ConstantsOK
<1>4. c \in ShadowCapsules /\ c.evidence = Append(capsule[a].evidence, happened[a]) /\ c.gates = capsule[a].gates
  <2>1. Append(capsule[a].evidence, happened[a]) \in Seq(Nat)
    BY <1>3
  <2>2. c = [capsule[a] EXCEPT !.evidence = Append(capsule[a].evidence, happened[a])]
    OBVIOUS
  <2> HIDE DEF c
  <2> QED BY <1>3, <2>1, <2>2 DEF ShadowCapsules
<1> HIDE DEF events, c
<1>5. /\ seq' \in [ShadowAgents -> Nat] /\ seq'[a] = seq[a] + 1 /\ capsule'[a] = c
      /\ capsule' \in [ShadowAgents -> ShadowCapsules] /\ sent'[a] = FALSE /\ call'[a] = "continue"
  BY <1>1, <1>3, <1>4 DEF ShadowTyped
<1>6. ShadowTyped'
  BY <1>1, <1>5 DEF ShadowTyped
<1>7. ASSUME NEW b \in ShadowAgents \ {a} PROVE AgentInv(b)'
  BY <1>1, StillKeeps DEF ShadowTyped, Still
<1>8. RunInv(a)'
  BY <1>1, <1>2, <1>5 DEF AgentInv, RunInv
<1>9. CountInv(a)'
  <2>1. CountOf(events, c, FALSE, seq[a] + 1, "continue", happened[a])
    <3>1. /\ Len(events) = seq[a] + 1 /\ events[seq[a] + 1] = happened[a]
          /\ Len(capsule[a].evidence) <= seq[a] /\ Len(c.evidence) = Len(capsule[a].evidence) + 1
      BY <1>2, <1>3, <1>4 DEF CountOf
    <3>2. ASSUME NEW i \in 1..MaxEvidence, i <= seq[a] + 1 PROVE i <= Len(c.evidence) /\ c.evidence[i] = events[i]
      <4>1. CASE i <= seq[a]
        <5>1. i <= Len(capsule[a].evidence) /\ capsule[a].evidence[i] = events[i]
          BY <1>2, <4>1 DEF CountOf
        <5> QED BY <1>3, <1>4, <3>1, <5>1
      <4>2. CASE i = seq[a] + 1
        <5>1. seq[a] = 0 \/ (seq[a] \in 1..MaxEvidence /\ seq[a] <= Len(capsule[a].evidence))
          BY <1>2, <1>3, <4>2 DEF CountOf
        <5>2. Len(capsule[a].evidence) = seq[a]
          BY <1>3, <3>1, <5>1
        <5> QED BY <1>3, <1>4, <3>1, <4>2, <5>2
      <4> QED BY <1>3, <3>2, <4>1, <4>2
    <3>3. ASSUME NEW i \in 1..Len(c.gates) PROVE \E j \in 1..Len(events) : events[j] = c.gates[i]
      <4>1. CASE capsule[a].gates[i] = happened[a]
        <5>1. seq[a] + 1 \in 1..Len(events)
          BY <1>3, <3>1
        <5> QED BY <1>4, <3>1, <4>1, <5>1
      <4>2. CASE \E j \in 1..Len(events) : events[j] = capsule[a].gates[i]
        BY <1>4, <4>2
      <4> QED BY <1>2, <1>4, <4>1, <4>2 DEF CountOf
    <3> QED BY <1>3, <3>1, <3>2, <3>3 DEF CountOf
  <2>2. log'[a][turn'[a]] = events /\ happened'[a] = happened[a]
    BY <1>1 DEF events
  <2> QED BY <1>5, <2>1, <2>2 DEF CountInv
<1>10. SavedInv(a)'
  BY <1>1 DEF AgentInv, SavedInv, GatesAre
<1> QED BY <1>6, <1>7, <1>8, <1>9, <1>10 DEF AgentInv

LEMMA ContinuedKeeps == ASSUME Shadow!ConstantsOK, ShadowInv, NEW a \in ShadowAgents, Shadow!Continued(a) PROVE ShadowInv'
<1> USE DEF ShadowInv
<1> DEFINE events == log[a][turn[a]]
           n == Shadow!Normalize(capsule[a])
           s == [turn |-> turn[a], evidence |-> n.evidence, gates |-> n.gates]
<1>1. /\ call[a] = "continue" /\ call' = [call EXCEPT ![a] = "none"] /\ capsule' = [capsule EXCEPT ![a] = n]
      /\ saved' = [saved EXCEPT ![a] = s] \/ UNCHANGED saved
      /\ active' = [active EXCEPT ![a] = FALSE] \/ UNCHANGED active
      /\ UNCHANGED <<turn, turnStarted, seq, sent, happened, log>>
  BY DEF Shadow!Continued, Shadow!persistCapsule, Shadow!SetSpecialistCapsule
<1>2. active[a] /\ ~sent[a] /\ CountOf(events, capsule[a], FALSE, seq[a], "continue", happened[a])
  <2>1. active[a] /\ sent[a] = FALSE
    BY <1>1 DEF AgentInv, RunInv, ShadowTyped
  <2>2. CountOf(events, capsule[a], sent[a], seq[a], call[a], happened[a])
    BY <2>1 DEF AgentInv, CountInv
  <2> QED BY <1>1, <2>1, <2>2
<1>3. /\ capsule[a] \in ShadowCapsules /\ capsule[a].evidence \in Seq(Nat) /\ capsule[a].gates \in Seq(Nat)
      /\ seq[a] \in Nat /\ events \in Seq(Nat) /\ MaxEvidence \in Nat /\ MaxGates \in Nat /\ turn[a] \in 0..MaxTurns
  BY DEF ShadowTyped, ShadowCapsules, Shadow!ConstantsOK
<1>4. /\ n \in ShadowCapsules /\ n.evidence = Shadow!First(capsule[a].evidence, MaxEvidence)
      /\ n.gates = Shadow!First(capsule[a].gates, MaxGates)
  BY <1>3, NormalTyped
<1> HIDE DEF n, events
<1>5. /\ n.evidence \in Seq(Nat) /\ n.gates \in Seq(Nat)
      /\ Len(n.evidence) = (IF Len(capsule[a].evidence) < MaxEvidence THEN Len(capsule[a].evidence) ELSE MaxEvidence)
      /\ Len(n.gates) = (IF Len(capsule[a].gates) < MaxGates THEN Len(capsule[a].gates) ELSE MaxGates)
      /\ \A i \in 1..Len(n.evidence) : n.evidence[i] = capsule[a].evidence[i]
      /\ \A i \in 1..Len(n.gates) : n.gates[i] = capsule[a].gates[i]
  <2> DEFINE e == Shadow!First(capsule[a].evidence, MaxEvidence)
             g == Shadow!First(capsule[a].gates, MaxGates)
  <2>1. /\ e \in Seq(Nat) /\ Len(e) = (IF Len(capsule[a].evidence) < MaxEvidence THEN Len(capsule[a].evidence) ELSE MaxEvidence)
        /\ \A i \in 1..Len(e) : e[i] = capsule[a].evidence[i]
    BY <1>3, FirstOf, Zenon
  <2>2. /\ g \in Seq(Nat) /\ Len(g) = (IF Len(capsule[a].gates) < MaxGates THEN Len(capsule[a].gates) ELSE MaxGates)
        /\ \A i \in 1..Len(g) : g[i] = capsule[a].gates[i]
    BY <1>3, FirstOf, Zenon
  <2>3. e = n.evidence /\ g = n.gates
    BY <1>4
  <2> HIDE DEF e, g
  <2> QED BY <2>1, <2>2, <2>3, Zenon
<1>6. /\ Len(n.evidence) <= seq[a] /\ Len(n.evidence) <= MaxEvidence /\ Len(n.gates) <= MaxGates /\ Len(events) = seq[a]
      /\ \A i \in 1..MaxEvidence : i <= seq[a] => i <= Len(n.evidence) /\ n.evidence[i] = events[i]
  <2>1. Len(capsule[a].evidence) \in Nat /\ Len(capsule[a].gates) \in Nat /\ Len(capsule[a].evidence) <= seq[a] /\ Len(events) = seq[a]
    BY <1>2, <1>3 DEF CountOf
  <2>2. Len(n.evidence) <= seq[a] /\ Len(n.evidence) <= MaxEvidence /\ Len(n.gates) <= MaxGates
    BY <1>3, <1>5, <2>1
  <2>3. ASSUME NEW i \in 1..MaxEvidence, i <= seq[a] PROVE i <= Len(n.evidence) /\ n.evidence[i] = events[i]
    <3>1. i <= Len(capsule[a].evidence) /\ capsule[a].evidence[i] = events[i]
      BY <1>2, <2>3 DEF CountOf
    <3>2. i <= Len(n.evidence)
      BY <1>3, <1>5, <2>1, <3>1
    <3> QED BY <1>5, <3>1, <3>2
  <2> QED BY <2>1, <2>2, <2>3
<1>7. GatesAre(n.gates, events)
  <2>1. ASSUME NEW i \in 1..Len(n.gates) PROVE \E j \in 1..Len(events) : events[j] = n.gates[i]
    <3>1. i \in 1..Len(capsule[a].gates) /\ n.gates[i] = capsule[a].gates[i]
      BY <1>3, <1>5
    <3> QED BY <1>2, <3>1 DEF CountOf
  <2> QED BY <2>1 DEF GatesAre
<1>8. /\ s \in [turn : 0..MaxTurns, evidence : Seq(Nat), gates : Seq(Nat)]
      /\ s.turn = turn[a] /\ s.evidence = n.evidence /\ s.gates = n.gates
  BY <1>3, <1>5
<1> HIDE DEF s
<1>9. /\ capsule' \in [ShadowAgents -> ShadowCapsules] /\ capsule'[a] = n /\ call'[a] = "none" /\ ~sent'[a]
      /\ saved' \in [ShadowAgents -> [turn : 0..MaxTurns, evidence : Seq(Nat), gates : Seq(Nat)]]
      /\ saved'[a] = s \/ saved'[a] = saved[a]
  <2>1. capsule' \in [ShadowAgents -> ShadowCapsules] /\ capsule'[a] = n
    BY <1>1, <1>4 DEF ShadowTyped
  <2>2. call'[a] = "none" /\ ~sent'[a]
    BY <1>1, <1>2 DEF ShadowTyped
  <2>3. /\ saved' \in [ShadowAgents -> [turn : 0..MaxTurns, evidence : Seq(Nat), gates : Seq(Nat)]]
        /\ saved'[a] = s \/ saved'[a] = saved[a]
    <3>1. saved \in [ShadowAgents -> [turn : 0..MaxTurns, evidence : Seq(Nat), gates : Seq(Nat)]]
      BY DEF ShadowTyped
    <3>2. saved' = [saved EXCEPT ![a] = s] \/ saved' = saved
      BY <1>1
    <3> QED BY <1>8, <3>1, <3>2
  <2> QED BY <2>1, <2>2, <2>3
<1>10. ShadowTyped'
  BY <1>1, <1>9 DEF ShadowTyped
<1>11. ASSUME NEW b \in ShadowAgents \ {a} PROVE AgentInv(b)'
  BY <1>1, StillKeeps DEF ShadowTyped, Still
<1>12. RunInv(a)'
  <2>1. turnStarted[a]
    BY <1>2 DEF AgentInv, RunInv
  <2> QED BY <1>1, <1>9, <2>1 DEF AgentInv, RunInv
<1>13. CountInv(a)'
  <2>1. CountOf(events, n, FALSE, seq[a], "none", happened[a])
    BY <1>6, <1>7 DEF CountOf, GatesAre
  <2>2. log'[a][turn'[a]] = events /\ happened'[a] = happened[a] /\ seq'[a] = seq[a] /\ sent'[a] = FALSE
    BY <1>1, <1>2 DEF events, ShadowTyped
  <2> QED BY <1>9, <2>1, <2>2 DEF CountInv
<1>14. SavedInv(a)'
  <2>1. CASE saved'[a] = saved[a]
    BY <1>1, <2>1 DEF AgentInv, SavedInv, GatesAre
  <2>2. CASE saved'[a] = s
    <3>1. log'[a][saved'[a].turn] = events /\ turn'[a] = turn[a]
      BY <1>1, <1>8, <2>2 DEF events
    <3>2. \A i \in 1..Len(n.evidence) : n.evidence[i] = events[i]
      <4>1. Len(n.evidence) \in Nat
        BY <1>5
      <4> QED BY <1>3, <1>6, <4>1
    <3>3. turn[a] <= turn[a]
      BY <1>3
    <3> QED BY <1>6, <1>7, <1>8, <2>2, <3>1, <3>2, <3>3 DEF SavedInv
  <2> QED BY <1>9, <2>1, <2>2
<1> QED BY <1>10, <1>11, <1>12, <1>13, <1>14 DEF AgentInv

(* Whatever requests and answers are lost, what a session keeps of a turn is *)
(* the beginning of what the runtime has of it.                              *)
THEOREM EvidenceIsKept == ASSUME Shadow!ConstantsOK PROVE FrontSpec => []EvidenceIsTheRuntimes
<1>1. FrontInit => ShadowInv
  BY ShadowStart DEF FrontInit
<1>2. ShadowInv /\ [FrontNext]_frontVars => ShadowInv'
  <2>1. [FrontNext]_frontVars => [Shadow!Next]_shadowVars
    BY DEF FrontNext, ManagerNext, WorkspaceNext, SkillNext, CommandNext, ConfigNext, KeyboardNext, SetupNext,
           ShadowNext, LoginNext, LoopNext, AgentsNext, frontVars
  <2>2. ASSUME ShadowInv, UNCHANGED shadowVars PROVE ShadowInv'
    <3>1. ShadowTyped'
      BY <2>2 DEF shadowVars, ShadowInv, ShadowTyped
    <3>2. ASSUME NEW b \in ShadowAgents PROVE AgentInv(b)'
      BY <2>2, StillKeeps DEF shadowVars, ShadowInv, Still
    <3> QED BY <3>1, <3>2 DEF ShadowInv
  <2> QED BY <2>1, <2>2, BeginKeeps, StartKeeps, HappensKeeps, TakesKeeps, FailsKeeps, EmittedKeeps, ContinuedKeeps
          DEF Shadow!Next
<1>3. ShadowInv => EvidenceIsTheRuntimes
  <2>1. ASSUME ShadowInv PROVE Shadow!TypeOK
    BY <2>1 DEF ShadowInv, ShadowTyped, AgentInv, SavedInv, Shadow!TypeOK
  <2>2. ASSUME ShadowInv PROVE Shadow!EvidenceIsTheRuntimes
    <3>1. ASSUME NEW a \in ShadowAgents
          PROVE  LET events == log[a][saved[a].turn] IN
                   /\ saved[a].evidence = Shadow!First(events, Len(saved[a].evidence))
                   /\ \A i \in DOMAIN saved[a].gates : \E j \in DOMAIN events : events[j] = saved[a].gates[i]
      <4> DEFINE events == log[a][saved[a].turn]
                 e == saved[a].evidence
      <4>1. events \in Seq(Nat) /\ e \in Seq(Nat) /\ saved[a].gates \in Seq(Nat)
        BY <2>2 DEF ShadowInv, ShadowTyped
      <4>2. /\ Len(e) <= Len(events) /\ \A i \in 1..Len(e) : e[i] = events[i]
            /\ GatesAre(saved[a].gates, events)
        BY <2>2 DEF ShadowInv, AgentInv, SavedInv
      <4> HIDE DEF events, e
      <4>3. /\ Shadow!First(events, Len(e)) \in Seq(Nat) /\ Len(Shadow!First(events, Len(e))) = Len(e)
            /\ \A i \in 1..Len(e) : Shadow!First(events, Len(e))[i] = e[i]
        BY <4>1, <4>2, FirstOf
      <4>4. e = Shadow!First(events, Len(e))
        BY <4>1, <4>3, SeqEqual
      <4>5. \A i \in DOMAIN saved[a].gates : \E j \in DOMAIN events : events[j] = saved[a].gates[i]
        <5>1. DOMAIN events = 1..Len(events) /\ DOMAIN saved[a].gates = 1..Len(saved[a].gates)
          BY <4>1
        <5> QED BY <4>2, <5>1 DEF GatesAre
      <4> QED BY <4>4, <4>5 DEF events, e
    <3> QED BY <3>1 DEF Shadow!EvidenceIsTheRuntimes
  <2> QED BY <2>1, <2>2 DEF EvidenceIsTheRuntimes
<1> QED BY <1>1, <1>2, <1>3, PTL DEF FrontSpec

-----------------------------------------------------------------------------
(* ProviderSetup: for any providers and keys, and any number of prompts,     *)
(* submissions and listings.                                                 *)

KeyOrNone == Keys \cup {none}
SetupValidations == [seq : Nat, slug : Slugs, key : Keys]
SetupFetches     == [by : {"refresh", "spawn"}, slug : Slugs, p : KeyOrNone, version : Nat]

SetupTyped ==
    /\ configKey \in [Slugs -> KeyOrNone] /\ providerEnv \in [Slugs -> KeyOrNone]
    /\ defaultProvider \in Slugs \cup {none} /\ activeProvider \in Slugs \cup {none}
    /\ keyPrompt \in Slugs \cup {none}
    /\ providers \in [Slugs -> KeyOrNone] /\ cachedModels \in [Slugs -> KeyOrNone]
    /\ modelVersions \in [Slugs -> Nat]
    /\ validation \in [seq : Nat, active : BOOLEAN, slug : Slugs \cup {none}, key : KeyOrNone]
    /\ validating \subseteq SetupValidations
    /\ fetches \subseteq SetupFetches

(* The active provider has a key, and before there is one nothing is listed. *)
ActiveInv ==
    /\ activeProvider # none => providers[activeProvider] # none
    /\ activeProvider = none => fetches = {}

(* A validation that still counts, of the provider whose prompt is open, is  *)
(* of the key submitted last.                                                *)
AskedInv ==
    validation.active /\ keyPrompt # none /\ validation.slug = keyPrompt
        => asked = <<validation.slug, validation.key>>

(* A catalog that would be stored is one of the instance there is.           *)
NewestCatalog ==
    \A f \in fetches : f.by = "refresh" =>
        /\ f.version <= modelVersions[f.slug]
        /\ f.version = modelVersions[f.slug] => f.p = providers[f.slug]

SetupInv == SetupTyped /\ ActiveInv /\ AskedInv /\ NewestCatalog

-----------------------------------------------------------------------------
LEMMA SetupStart == ASSUME Setup!ConstantsOK, Setup!Init PROVE SetupInv
<1>1. SetupTyped
  BY DEF Setup!Init, SetupTyped, KeyOrNone, Setup!NoValidation
<1>2. ActiveInv /\ AskedInv /\ NewestCatalog
  BY DEF Setup!Init, ActiveInv, AskedInv, NewestCatalog, Setup!NoValidation
<1> QED BY <1>1, <1>2 DEF SetupInv

LEMMA SetupTypedNext ==
    ASSUME Setup!ConstantsOK, SetupTyped, [Setup!Next]_setupVars PROVE SetupTyped'
<1> USE DEF SetupTyped, Setup!saved, Setup!registry, Setup!keyFlow
<1>1. CASE Setup!RunSetup
  BY <1>1 DEF Setup!RunSetup, KeyOrNone
<1>2. CASE Setup!buildPacketRuntime
  BY <1>2 DEF Setup!buildPacketRuntime, Setup!GetProviderKey
<1>3. CASE Setup!CancelPrompt
  BY <1>3 DEF Setup!CancelPrompt
<1>4. CASE Setup!BeginRefresh
  <2>1. activeProvider \in Slugs
    BY <1>4 DEF Setup!BeginRefresh, Setup!Started
  <2>2. modelVersions[activeProvider] + 1 \in Nat /\ providers[activeProvider] \in KeyOrNone
    BY <2>1
  <2>3. fetches' \subseteq SetupFetches
    BY <1>4, <2>1, <2>2 DEF Setup!BeginRefresh, SetupFetches
  <2>4. modelVersions' \in [Slugs -> Nat]
    BY <1>4, <2>2 DEF Setup!BeginRefresh
  <2> QED BY <1>4, <2>3, <2>4 DEF Setup!BeginRefresh
<1>5. ASSUME NEW s \in Slugs, Setup!AskKey(s) PROVE SetupTyped'
  <2>1. validation.seq + 1 \in Nat
    OBVIOUS
  <2> QED BY <1>5, <2>1 DEF Setup!AskKey, Setup!openProviderKeyPrompt, Setup!NoValidation, KeyOrNone
<1>6. ASSUME NEW s \in Slugs, Setup!ApplySwitch(s) PROVE SetupTyped'
  BY <1>6 DEF Setup!ApplySwitch, Setup!SetCachedModels
<1>7. ASSUME NEW s \in Slugs, Setup!BeginSpawn(s) PROVE SetupTyped'
  BY <1>7 DEF Setup!BeginSpawn, SetupFetches
<1>8. ASSUME NEW k \in Keys, Setup!handlePromptSubmit(k) PROVE SetupTyped'
  <2>1. keyPrompt \in Slugs /\ validation.seq + 1 \in Nat
    BY <1>8 DEF Setup!handlePromptSubmit
  <2>2. /\ validation' = [seq |-> validation.seq + 1, active |-> TRUE, slug |-> keyPrompt, key |-> k]
        /\ validating' = validating \cup {[seq |-> validation.seq + 1, slug |-> keyPrompt, key |-> k]}
        /\ UNCHANGED <<configKey, providerEnv, defaultProvider, activeProvider, keyPrompt, providers,
                       cachedModels, modelVersions, fetches>>
    BY <1>8 DEF Setup!handlePromptSubmit
  <2> QED BY <2>1, <2>2 DEF SetupValidations, KeyOrNone
<1>9. ASSUME NEW v \in validating, Setup!handleProviderKeyValidated(v) PROVE SetupTyped'
  <2>1. v.slug \in Slugs /\ v.key \in Keys
    BY DEF SetupValidations
  <2>2. /\ validating' = validating \ {v} /\ keyPrompt' \in {keyPrompt, none}
        /\ validation' \in {validation, [validation EXCEPT !.active = FALSE]}
        /\ UNCHANGED <<providerEnv, defaultProvider, activeProvider, fetches>>
    BY <1>9 DEF Setup!handleProviderKeyValidated
  <2>3. CASE UNCHANGED <<configKey, providers, cachedModels, modelVersions>>
    BY <2>2, <2>3
  <2>4. CASE /\ configKey' = [configKey EXCEPT ![v.slug] = v.key]
             /\ providers' = [providers EXCEPT ![v.slug] = v.key]
             /\ cachedModels' = [cachedModels EXCEPT ![v.slug] = none]
             /\ modelVersions' = [modelVersions EXCEPT ![v.slug] = @ + 1]
    <3>1. v.key \in KeyOrNone /\ none \in KeyOrNone /\ modelVersions[v.slug] + 1 \in Nat
      BY <2>1 DEF KeyOrNone
    <3>2. /\ configKey' \in [Slugs -> KeyOrNone] /\ providers' \in [Slugs -> KeyOrNone]
          /\ cachedModels' \in [Slugs -> KeyOrNone] /\ modelVersions' \in [Slugs -> Nat]
      BY <2>4, <3>1
    <3> QED BY <2>2, <3>2
  <2> QED BY <1>9, <2>3, <2>4 DEF Setup!handleProviderKeyValidated, Setup!Register
<1>10. ASSUME NEW f \in fetches, Setup!EndRefresh(f) \/ Setup!EndSpawn(f) PROVE SetupTyped'
  <2>1. f.slug \in Slugs /\ f.p \in KeyOrNone
    BY DEF SetupFetches
  <2>2. /\ fetches' = fetches \ {f}
        /\ cachedModels' \in {cachedModels, [cachedModels EXCEPT ![f.slug] = f.p]}
        /\ modelVersions' \in {modelVersions, [modelVersions EXCEPT ![f.slug] = @ + 1]}
        /\ UNCHANGED <<configKey, providerEnv, defaultProvider, activeProvider, keyPrompt, providers,
                       validation, validating>>
    BY <1>10 DEF Setup!EndRefresh, Setup!EndSpawn, Setup!SetCachedModels
  <2> QED BY <2>1, <2>2
<1>11. CASE UNCHANGED setupVars
  BY <1>11 DEF setupVars
<1> QED BY <1>1, <1>2, <1>3, <1>4, <1>5, <1>6, <1>7, <1>8, <1>9, <1>10, <1>11 DEF Setup!Next

LEMMA ActiveNext ==
    ASSUME Setup!ConstantsOK, SetupTyped, ActiveInv, [Setup!Next]_setupVars PROVE ActiveInv'
<1> USE DEF SetupTyped, ActiveInv, Setup!saved, Setup!registry, Setup!keyFlow
<1>1. CASE Setup!buildPacketRuntime
  BY <1>1 DEF Setup!buildPacketRuntime, Setup!shouldRunSetup
<1>2. CASE Setup!BeginRefresh
  BY <1>2 DEF Setup!BeginRefresh, Setup!Started
<1>3. ASSUME NEW s \in Slugs, Setup!ApplySwitch(s) \/ Setup!BeginSpawn(s) PROVE ActiveInv'
  BY <1>3 DEF Setup!ApplySwitch, Setup!BeginSpawn, Setup!Started, Setup!ConstantsOK
<1>4. ASSUME NEW v \in validating, Setup!handleProviderKeyValidated(v) PROVE ActiveInv'
  <2>1. v.slug \in Slugs /\ v.key \in Keys /\ none \notin Keys
    BY DEF SetupValidations, Setup!ConstantsOK
  <2>2. UNCHANGED <<activeProvider, fetches>>
    BY <1>4 DEF Setup!handleProviderKeyValidated
  <2>3. providers' = providers \/ providers' = [providers EXCEPT ![v.slug] = v.key]
    BY <1>4 DEF Setup!handleProviderKeyValidated, Setup!Register
  <2> QED BY <2>1, <2>2, <2>3
<1>5. ASSUME NEW f \in fetches, Setup!EndRefresh(f) \/ Setup!EndSpawn(f) PROVE ActiveInv'
  BY <1>5 DEF Setup!EndRefresh, Setup!EndSpawn
<1>6. CASE UNCHANGED <<activeProvider, providers, fetches>>
  BY <1>6
<1> QED BY <1>1, <1>2, <1>3, <1>4, <1>5, <1>6
        DEF Setup!Next, setupVars, Setup!RunSetup, Setup!CancelPrompt, Setup!AskKey, Setup!handlePromptSubmit

LEMMA AskedNext ==
    ASSUME Setup!ConstantsOK, SetupTyped, AskedInv, [Setup!Next]_setupVars PROVE AskedInv'
<1> USE DEF SetupTyped, AskedInv, Setup!saved, Setup!registry, Setup!keyFlow
<1>1. CASE Setup!CancelPrompt
  BY <1>1 DEF Setup!CancelPrompt
<1>2. ASSUME NEW s \in Slugs, Setup!AskKey(s) PROVE AskedInv'
  BY <1>2 DEF Setup!AskKey, Setup!openProviderKeyPrompt, Setup!NoValidation
<1>3. ASSUME NEW k \in Keys, Setup!handlePromptSubmit(k) PROVE AskedInv'
  BY <1>3 DEF Setup!handlePromptSubmit
<1>4. ASSUME NEW v \in validating, Setup!handleProviderKeyValidated(v) PROVE AskedInv'
  <2>1. \/ UNCHANGED <<validation, keyPrompt, asked>>
        \/ validation' = [validation EXCEPT !.active = FALSE]
    BY <1>4 DEF Setup!handleProviderKeyValidated
  <2> QED BY <2>1
<1>5. CASE UNCHANGED <<validation, keyPrompt, asked>>
  BY <1>5
<1> QED BY <1>1, <1>2, <1>3, <1>4, <1>5
        DEF Setup!Next, setupVars, Setup!RunSetup, Setup!buildPacketRuntime, Setup!BeginRefresh,
            Setup!ApplySwitch, Setup!BeginSpawn, Setup!EndRefresh, Setup!EndSpawn

(* Whatever changes an instance or its catalog is newer than the refreshes   *)
(* that are under way.                                                       *)
LEMMA CatalogNext ==
    ASSUME Setup!ConstantsOK, SetupTyped, ActiveInv, NewestCatalog, [Setup!Next]_setupVars PROVE NewestCatalog'
<1> USE DEF SetupTyped, NewestCatalog, Setup!saved, Setup!registry, Setup!keyFlow
<1>0. \A f \in fetches : f.slug \in Slugs /\ f.version \in Nat /\ modelVersions[f.slug] \in Nat
  BY DEF SetupFetches
<1>1. CASE Setup!buildPacketRuntime
  BY <1>1 DEF Setup!buildPacketRuntime, ActiveInv
<1>2. CASE Setup!BeginRefresh
  <2> DEFINE g == [by |-> "refresh", slug |-> activeProvider, p |-> providers[activeProvider],
                   version |-> modelVersions[activeProvider] + 1]
  <2>1. activeProvider \in Slugs /\ modelVersions' = [modelVersions EXCEPT ![activeProvider] = @ + 1]
        /\ fetches' = fetches \cup {g} /\ UNCHANGED providers
    BY <1>2 DEF Setup!BeginRefresh, Setup!Started
  <2>2. g.version = modelVersions'[g.slug] /\ g.p = providers'[g.slug] /\ g.version <= modelVersions'[g.slug]
    BY <2>1
  <2>3. ASSUME NEW f \in fetches, f.by = "refresh"
        PROVE  f.version <= modelVersions'[f.slug]
               /\ (f.version = modelVersions'[f.slug] => f.p = providers'[f.slug])
    BY <1>0, <2>1, <2>3
  <2> HIDE DEF g
  <2> QED BY <2>1, <2>2, <2>3
<1>3. ASSUME NEW s \in Slugs, Setup!ApplySwitch(s) PROVE NewestCatalog'
  <2>1. /\ UNCHANGED <<providers, fetches>>
        /\ modelVersions' = modelVersions \/ modelVersions' = [modelVersions EXCEPT ![s] = @ + 1]
    BY <1>3 DEF Setup!ApplySwitch, Setup!SetCachedModels
  <2> QED BY <1>0, <2>1
<1>4. ASSUME NEW s \in Slugs, Setup!BeginSpawn(s) PROVE NewestCatalog'
  BY <1>4 DEF Setup!BeginSpawn
<1>5. ASSUME NEW v \in validating, Setup!handleProviderKeyValidated(v) PROVE NewestCatalog'
  <2>1. v.slug \in Slugs /\ UNCHANGED fetches
    BY <1>5 DEF Setup!handleProviderKeyValidated, SetupValidations
  <2>2. CASE UNCHANGED <<providers, modelVersions>>
    BY <2>1, <2>2
  <2>3. CASE providers' = [providers EXCEPT ![v.slug] = v.key] /\ modelVersions' = [modelVersions EXCEPT ![v.slug] = @ + 1]
    BY <1>0, <2>1, <2>3
  <2> QED BY <1>5, <2>2, <2>3 DEF Setup!handleProviderKeyValidated, Setup!Register
<1>6. ASSUME NEW f \in fetches, Setup!EndRefresh(f) \/ Setup!EndSpawn(f) PROVE NewestCatalog'
  <2>1. /\ fetches' = fetches \ {f} /\ UNCHANGED providers
        /\ modelVersions' = modelVersions \/ modelVersions' = [modelVersions EXCEPT ![f.slug] = @ + 1]
    BY <1>6 DEF Setup!EndRefresh, Setup!EndSpawn, Setup!SetCachedModels
  <2> QED BY <1>0, <2>1
<1>7. CASE UNCHANGED <<fetches, providers, modelVersions>>
  BY <1>7
<1> QED BY <1>1, <1>2, <1>3, <1>4, <1>5, <1>6, <1>7
        DEF Setup!Next, setupVars, Setup!RunSetup, Setup!CancelPrompt, Setup!AskKey, Setup!handlePromptSubmit

-----------------------------------------------------------------------------
LEMMA KeyIsAsked ==
    ASSUME Setup!ConstantsOK, SetupInv, [Setup!Next]_setupVars, NEW s \in Slugs, Setup!Started,
           configKey'[s] # configKey[s] \/ providers'[s] # providers[s]
    PROVE  asked = <<s, configKey'[s]>> /\ providers'[s] = configKey'[s]
<1> USE DEF Setup!saved, Setup!registry, Setup!keyFlow
<1>1. PICK v \in validating : Setup!handleProviderKeyValidated(v)
  BY DEF Setup!Next, setupVars, Setup!Started, Setup!RunSetup, Setup!buildPacketRuntime, Setup!CancelPrompt,
         Setup!BeginRefresh, Setup!AskKey, Setup!ApplySwitch, Setup!BeginSpawn, Setup!handlePromptSubmit,
         Setup!EndRefresh, Setup!EndSpawn
<1>2. v.slug \in Slugs /\ none \notin Slugs
  BY DEF SetupInv, SetupTyped, SetupValidations, Setup!ConstantsOK
<1>3. /\ Setup!Current(v) /\ configKey' = [configKey EXCEPT ![v.slug] = v.key]
      /\ providers' = [providers EXCEPT ![v.slug] = v.key]
  BY <1>1 DEF Setup!handleProviderKeyValidated, Setup!Register
<1>4. asked = <<v.slug, v.key>>
  BY <1>2, <1>3 DEF Setup!Current, SetupInv, AskedInv
<1>5. s = v.slug
  BY <1>3 DEF SetupInv, SetupTyped
<1> QED BY <1>3, <1>4, <1>5 DEF SetupInv, SetupTyped

LEMMA CatalogIsCurrent ==
    ASSUME Setup!ConstantsOK, SetupInv, [Setup!Next]_setupVars, NEW f \in fetches, f.by = "refresh", f \notin fetches'
    PROVE  cachedModels'[f.slug] \in {cachedModels[f.slug], providers[f.slug]}
<1> USE DEF Setup!saved, Setup!registry, Setup!keyFlow
<1>1. Setup!EndRefresh(f)
  BY DEF Setup!Next, setupVars, Setup!RunSetup, Setup!buildPacketRuntime, Setup!CancelPrompt,
         Setup!BeginRefresh, Setup!AskKey, Setup!ApplySwitch, Setup!BeginSpawn, Setup!handlePromptSubmit,
         Setup!handleProviderKeyValidated, Setup!EndRefresh, Setup!EndSpawn
<1>2. f.slug \in Slugs
  BY DEF SetupInv, SetupTyped, SetupFetches
<1>3. \/ cachedModels' = cachedModels
      \/ Setup!Newest(f) /\ cachedModels' = [cachedModels EXCEPT ![f.slug] = f.p]
  BY <1>1 DEF Setup!EndRefresh
<1>4. Setup!Newest(f) => f.p = providers[f.slug]
  BY DEF Setup!Newest, SetupInv, NewestCatalog
<1> QED BY <1>2, <1>3, <1>4 DEF SetupInv, SetupTyped

(* Whatever validations of earlier keys and prompts still return, and        *)
(* whatever listings are under way: the key saved is the one asked for, and  *)
(* a refresh stores the catalog of the instance there is.                    *)
THEOREM KeyIsTheAsked == ASSUME Setup!ConstantsOK PROVE FrontSpec => OnlyTheAskedKey
<1>0. UNCHANGED setupVars => UNCHANGED Setup!vars
  BY DEF setupVars, Setup!vars, Setup!saved, Setup!registry, Setup!keyFlow
<1>1. FrontInit => SetupInv
  BY SetupStart DEF FrontInit
<1>2. [FrontNext]_frontVars => [Setup!Next]_setupVars
  BY DEF FrontNext, ManagerNext, WorkspaceNext, SkillNext, CommandNext, ConfigNext, KeyboardNext, SetupNext,
         ShadowNext, LoginNext, LoopNext, AgentsNext, frontVars
<1>3. SetupInv /\ [FrontNext]_frontVars => SetupInv'
  BY <1>2, SetupTypedNext, ActiveNext, AskedNext, CatalogNext DEF SetupInv
<1>4. SetupInv => Setup!TypeOK
  BY DEF SetupInv, SetupTyped, ActiveInv, KeyOrNone, Setup!TypeOK
<1>5. SetupInv /\ [FrontNext]_frontVars =>
        [\A s \in Slugs : Setup!Started /\ (configKey'[s] # configKey[s] \/ providers'[s] # providers[s]) =>
            asked = <<s, configKey'[s]>> /\ providers'[s] = configKey'[s]]_(Setup!vars)
  BY <1>2, KeyIsAsked, <1>0
<1>6. SetupInv /\ [FrontNext]_frontVars =>
        [\A f \in fetches : f.by = "refresh" /\ f \notin fetches' =>
            cachedModels'[f.slug] \in {cachedModels[f.slug], providers[f.slug]}]_(Setup!vars)
  BY <1>2, CatalogIsCurrent, <1>0
<1> QED BY <1>1, <1>3, <1>4, <1>5, <1>6, PTL
        DEF FrontSpec, OnlyTheAskedKey, Setup!OnlyTheAskedKey, Setup!RefreshIsCurrent

-----------------------------------------------------------------------------
(* ConfigFile: for any settings, any fields of this build and any values.    *)

Stored == Values \cup {Config!Absent, Config!Default, Config!FromFlag}
ConfigTexts == [is : {"missing", "text", "broken"}, val : [Settings -> Stored]]
Found == [Settings -> {Config!Absent, Config!FromEnv}]

(* What the environment says is in none of the fields, the texts and the     *)
(* edits; and no edit is of a setting this build has no field for.           *)
OfThisBuild(e) == DOMAIN e \subseteq Known /\ \A s \in DOMAIN e : e[s] \in Stored
ConfigInv ==
    /\ configFile \in ConfigTexts
    /\ configEnv \in Found /\ override \in Found
    /\ mem \in [Known -> Stored]
    /\ saving.is \in {"no", "yes"} /\ saving.base \in ConfigTexts /\ OfThisBuild(saving.edits)

-----------------------------------------------------------------------------
LEMMA FixedTexts ==
    ASSUME Config!ConstantsOK
    PROVE  /\ Config!Empty \in [Settings -> Stored]
           /\ Config!Missing \in ConfigTexts /\ Config!Broken \in ConfigTexts
           /\ Config!Idle.is = "no" /\ Config!Idle.base \in ConfigTexts /\ OfThisBuild(Config!Idle.edits)
<1>1. Config!Empty \in [Settings -> Stored]
  BY DEF Config!Empty, Stored
<1>2. Config!Missing \in ConfigTexts /\ Config!Broken \in ConfigTexts
  BY <1>1 DEF Config!Missing, Config!Broken, ConfigTexts
<1>3. Config!Idle.is = "no" /\ Config!Idle.base = Config!Missing /\ Config!Idle.edits = <<>>
  BY DEF Config!Idle
<1>4. DOMAIN <<>> = {}
  OBVIOUS
<1> QED BY <1>1, <1>2, <1>3, <1>4 DEF OfThisBuild

LEMMA NewText ==
    ASSUME NEW v \in [Settings -> Stored]
    PROVE  Config!Text(v) \in ConfigTexts /\ Config!Text(v).is = "text" /\ Config!Text(v).val = v
BY DEF Config!Text, ConfigTexts

LEMMA DecodeTyped ==
    ASSUME Config!ConstantsOK, NEW t \in ConfigTexts
    PROVE  Config!Decode(t) \in [Known -> Stored]
<1>1. Known \subseteq Settings
  BY DEF Config!ConstantsOK
<1>2. \A s \in Known : t.val[s] \in Stored /\ Config!Default \in Stored
  BY <1>1 DEF ConfigTexts, Stored
<1> QED BY <1>2 DEF Config!Decode

LEMMA FlaggedTyped ==
    ASSUME Config!ConstantsOK, NEW t \in ConfigTexts, NEW found
    PROVE  Config!Flagged(Config!LoadFrom(t, found).fields) \in [Known -> Stored]
<1>1. Config!LoadFrom(t, found).fields = Config!Decode(t)
  BY DEF Config!LoadFrom
<1>2. Config!Decode(t) \in [Known -> Stored]
  BY DecodeTyped
<1>3. Config!FromFlag \in Stored
  BY DEF Stored
<1> QED BY <1>1, <1>2, <1>3 DEF Config!Flagged

LEMMA SettingsTyped ==
    ASSUME Config!ConstantsOK, NEW f \in [Known -> Stored]
    PROVE  /\ Config!configSettings(f) \in [Settings -> Stored]
           /\ \A s \in Settings \ Known : Config!configSettings(f)[s] = Config!Absent
<1>1. Config!Absent \in Stored
  BY DEF Stored
<1>2. \A s \in Settings : (IF s \notin Known \/ (s \in Optional /\ f[s] = Config!Default)
                           THEN Config!Absent ELSE f[s]) \in Stored
  BY <1>1
<1> QED BY <1>2 DEF Config!configSettings

LEMMA EditsTyped ==
    ASSUME Config!ConstantsOK, NEW f \in [Known -> Stored], NEW g \in [Known -> Stored]
    PROVE  OfThisBuild(Config!diffSettings(Config!configSettings(f), Config!configSettings(g)))
<1> DEFINE a == Config!configSettings(f)
           b == Config!configSettings(g)
<1>1. /\ a \in [Settings -> Stored] /\ b \in [Settings -> Stored]
      /\ \A s \in Settings \ Known : a[s] = Config!Absent /\ b[s] = Config!Absent
  BY SettingsTyped
<1> HIDE DEF a, b
<1>2. OfThisBuild(Config!diffSettings(a, b))
  BY <1>1 DEF Config!diffSettings, OfThisBuild
<1> QED BY <1>2 DEF a, b

(* What is written passes the check, or is encoded whole for a first file.   *)
LEMMA WrittenTyped ==
    ASSUME Config!ConstantsOK, ConfigInv,
           NEW w \in Config!writeSettings(saving.base, saving.edits), w.done
    PROVE  /\ w.text \in ConfigTexts
           /\ saving.base.is # "missing" =>
                saving.base.is = "text" /\ Config!verifyTOMLPatch(saving.base, w.text, saving.edits)
<1>1. CASE saving.base.is = "missing"
  <2>1. w = [done |-> TRUE, text |-> Config!Text(Config!configSettings(mem))]
    BY <1>1 DEF Config!writeSettings
  <2>2. Config!configSettings(mem) \in [Settings -> Stored]
    BY SettingsTyped DEF ConfigInv
  <2> QED BY <1>1, <2>1, <2>2, NewText
<1>2. CASE saving.base.is # "missing"
  <2>1. PICK t \in Config!Patched(saving.base, saving.edits) :
          w = IF Config!verifyTOMLPatch(saving.base, t, saving.edits) THEN [done |-> TRUE, text |-> t]
              ELSE [done |-> FALSE, text |-> saving.base]
    BY <1>2 DEF Config!writeSettings
  <2>2. saving.base.is # "broken"
    BY <1>2 DEF Config!writeSettings
  <2>3. w.text = t /\ Config!verifyTOMLPatch(saving.base, t, saving.edits)
    BY <2>1
  <2>4. saving.base.is = "text"
    BY <1>2, <2>2 DEF ConfigInv, ConfigTexts
  <2> DEFINE p == [s \in Settings |-> IF s \in DOMAIN saving.edits THEN saving.edits[s] ELSE saving.base.val[s]]
  <2>5. p \in [Settings -> Stored]
    BY DEF ConfigInv, ConfigTexts, OfThisBuild
  <2>6. Config!patchTOML(saving.base, saving.edits) = Config!Text(p)
    BY DEF Config!patchTOML
  <2> HIDE DEF p
  <2>7. Config!Absent \in Stored
    BY DEF Stored
  <2>8. CASE t = Config!Text(p)
    BY <1>2, <2>3, <2>4, <2>5, <2>8, NewText
  <2>9. CASE t = Config!Broken
    BY <1>2, <2>3, <2>4, <2>9, FixedTexts
  <2>10. ASSUME NEW s \in Settings, t = Config!Text([Config!Text(p).val EXCEPT ![s] = Config!Absent])
         PROVE  t \in ConfigTexts
    <3>1. [p EXCEPT ![s] = Config!Absent] \in [Settings -> Stored]
      BY <2>5, <2>7
    <3> QED BY <2>5, <2>10, <3>1, NewText
  <2> QED BY <1>2, <2>1, <2>3, <2>4, <2>6, <2>8, <2>9, <2>10 DEF Config!Patched
<1> QED BY <1>1, <1>2

LEMMA ConfigStart == ASSUME Config!ConstantsOK, Config!Init PROVE ConfigInv
<1>1. configFile \in ConfigTexts
  BY FixedTexts, NewText DEF Config!Init, Stored
<1>2. configEnv \in Found
  BY DEF Config!Init, Config!Environments, Found
<1>3. mem \in [Known -> Stored]
  BY <1>1, FlaggedTyped DEF Config!Init
<1> QED BY <1>1, <1>2, <1>3, FixedTexts DEF ConfigInv, Config!Init

LEMMA ConfigStep == ASSUME Config!ConstantsOK, ConfigInv, [Config!Next]_configVars PROVE ConfigInv'
<1>1. CASE Config!Load
  <2>1. mem' \in [Known -> Stored]
    BY <1>1, FlaggedTyped DEF Config!Load, ConfigInv
  <2>2. override' = configEnv
    BY <1>1 DEF Config!Load, Config!LoadFrom
  <2> QED BY <1>1, <2>1, <2>2, FixedTexts DEF Config!Load, ConfigInv
<1>2. CASE Config!EditedElsewhere
  <2>1. ASSUME NEW s \in Settings, NEW v \in Values \cup {Config!Absent}, configFile' = [configFile EXCEPT !.val[s] = v]
        PROVE  configFile' \in ConfigTexts
    <3>1. v \in Stored
      BY DEF Stored
    <3> QED BY <2>1, <3>1 DEF ConfigInv, ConfigTexts
  <2> DEFINE q == [Config!Empty EXCEPT ![CHOOSE s \in Settings : TRUE] = CHOOSE v \in Values : TRUE]
  <2>2. q \in [Settings -> Stored]
    <3>1. (CHOOSE s \in Settings : TRUE) \in Settings /\ (CHOOSE v \in Values : TRUE) \in Stored
      BY DEF Config!ConstantsOK, Stored
    <3> QED BY <3>1, FixedTexts
  <2>3. \/ \E s \in Settings, v \in Values \cup {Config!Absent} : configFile' = [configFile EXCEPT !.val[s] = v]
        \/ configFile' = Config!Missing \/ configFile' = Config!Broken
        \/ configFile' = Config!Text(q)
    BY <1>2, Zenon DEF Config!EditedElsewhere
  <2>4. UNCHANGED <<configEnv, mem, override, saving>>
    BY <1>2 DEF Config!EditedElsewhere
  <2> HIDE DEF q
  <2>5. configFile' \in ConfigTexts
    BY <2>1, <2>2, <2>3, NewText, FixedTexts
  <2> QED BY <2>4, <2>5 DEF ConfigInv
<1>3. ASSUME NEW s \in Known \ InArray, NEW v \in Values \cup {Config!Default}, Config!Save(s, v) \/ Config!Update(s, v)
      PROVE  ConfigInv'
  <2>1. v \in Stored
    BY DEF Stored
  <2>2. mem' = [mem EXCEPT ![s] = v] /\ UNCHANGED <<configFile, configEnv, override>>
    BY <1>3 DEF Config!Save, Config!Update
  <2>3. mem' \in [Known -> Stored]
    BY <2>1, <2>2 DEF ConfigInv
  <2>4. Config!Decode(configFile) \in [Known -> Stored]
    BY DecodeTyped DEF ConfigInv
  <2>5. PICK f \in [Known -> Stored] :
           \/ saving' = saving
           \/ saving' = [is |-> "yes", base |-> configFile,
                         edits |-> Config!diffSettings(Config!configSettings(f), Config!configSettings(mem'))]
    BY <1>3, <2>2, <2>4 DEF Config!Save, Config!Update, ConfigInv
  <2>6. OfThisBuild(Config!diffSettings(Config!configSettings(f), Config!configSettings(mem')))
    BY <2>3, EditsTyped
  <2> QED BY <2>2, <2>3, <2>5, <2>6 DEF ConfigInv
<1>4. CASE Config!Replace
  <2>1. PICK w \in Config!writeSettings(saving.base, saving.edits) : configFile' = IF w.done THEN w.text ELSE configFile
    BY <1>4 DEF Config!Replace
  <2>2. configFile' \in ConfigTexts
    BY <2>1, WrittenTyped DEF ConfigInv
  <2> QED BY <1>4, <2>2, FixedTexts DEF Config!Replace, ConfigInv
<1>5. CASE Config!SaveFails
  BY <1>5, FixedTexts DEF Config!SaveFails, ConfigInv
<1>6. CASE UNCHANGED configVars
  BY <1>6 DEF configVars, ConfigInv
<1> QED BY <1>1, <1>2, <1>3, <1>4, <1>5, <1>6 DEF Config!Next, Config!SetByUser

LEMMA SaveKeepsOthers ==
    ASSUME Config!ConstantsOK, ConfigInv, [Config!Next]_configVars,
           saving.is = "yes", saving.base.is # "missing", configFile' # configFile, saving'.is = "no"
    PROVE  /\ configFile'.is = "text" /\ saving.base.is = "text"
           /\ \A s \in Settings \ DOMAIN saving.edits : configFile'.val[s] = saving.base.val[s]
           /\ \A s \in Settings \ Known : configFile'.val[s] = saving.base.val[s]
<1>1. Config!Replace
  BY DEF Config!Next, configVars, Config!Load, Config!EditedElsewhere, Config!SetByUser, Config!Save, Config!Update,
         Config!SaveFails
<1>2. PICK w \in Config!writeSettings(saving.base, saving.edits) : configFile' = IF w.done THEN w.text ELSE configFile
  BY <1>1 DEF Config!Replace
<1>3. configFile' = w.text /\ saving.base.is = "text" /\ Config!verifyTOMLPatch(saving.base, w.text, saving.edits)
  BY <1>2, WrittenTyped
<1>4. DOMAIN saving.edits \subseteq Known
  BY DEF ConfigInv, OfThisBuild
<1> QED BY <1>3, <1>4 DEF Config!verifyTOMLPatch

(* Whatever people and other packetcodes do to the file, and wherever the    *)
(* patcher misplaces an edit: a save keeps what it was not asked to change,  *)
(* and what the environment says never gets into the file.                   *)
THEOREM OthersStayTheirs == ASSUME Config!ConstantsOK PROVE FrontSpec => OthersSettingsStay
<1>0. UNCHANGED configVars => UNCHANGED Config!vars
  BY DEF configVars, Config!vars
<1>1. FrontInit => ConfigInv
  BY ConfigStart DEF FrontInit
<1>2. [FrontNext]_frontVars => [Config!Next]_configVars
  BY DEF FrontNext, ManagerNext, WorkspaceNext, SkillNext, CommandNext, ConfigNext, KeyboardNext, SetupNext,
         ShadowNext, LoginNext, LoopNext, AgentsNext, frontVars
<1>3. ConfigInv /\ [FrontNext]_frontVars => ConfigInv'
  BY <1>2, ConfigStep
<1>4. ConfigInv => Config!TypeOK /\ Config!OnlyWhatWasSet
  <2>1. Config!FromEnv \notin Stored
    BY DEF Stored, Config!ConstantsOK, Config!FromEnv, Config!Absent, Config!Default, Config!FromFlag
  <2>2. Stored \subseteq Values \cup {Config!Absent, Config!Default, Config!FromEnv, Config!FromFlag}
    BY DEF Stored
  <2> QED BY <2>1, <2>2 DEF ConfigInv, ConfigTexts, Found, Config!TypeOK, Config!OnlyWhatWasSet
<1>5. ConfigInv /\ [FrontNext]_frontVars =>
        [saving.is = "yes" /\ saving.base.is # "missing" /\ configFile' # configFile /\ saving'.is = "no" =>
           /\ configFile'.is = "text" /\ saving.base.is = "text"
           /\ \A s \in Settings \ DOMAIN saving.edits : configFile'.val[s] = saving.base.val[s]
           /\ \A s \in Settings \ Known : configFile'.val[s] = saving.base.val[s]]_(Config!vars)
  BY <1>0, <1>2, SaveKeepsOthers
<1> QED BY <1>1, <1>3, <1>4, <1>5, PTL DEF FrontSpec, OthersSettingsStay, Config!OthersSettingsStay

-----------------------------------------------------------------------------
(* Skills: for any names, any sessions and whatever the files may hold.      *)

SkillContents == Contents \cup {Skill!Nothing}
SkillTrees    == [content : SkillContents, whole : BOOLEAN]
SkillScopes   == {Skill!Builtin, Skill!ProjectForeign, Skill!ProjectNative, Skill!UserForeign, Skill!UserNative}
SkillEntries  == Names \X {c.body : c \in Contents}
SkillRecords  == [place : SkillScopes \cup {"none"}, content : SkillContents, pending : BOOLEAN]
SkillSessions == [up : BOOLEAN, store : SUBSET SkillEntries, registry : [Names -> SkillRecords],
                  tool : [Names -> SkillRecords]]
Installers    == [pc : {"copy", "copied", "aside", "placed"}, name : Names, staging : SkillTrees, backup : BOOLEAN]

SkillFilesTyped ==
    /\ file \in [Names -> [SkillScopes -> SkillTrees]]
    /\ old \in [Names -> SkillTrees]
    /\ installer.pc # "idle" => installer \in Installers
    /\ installer.pc \in {"idle", "copy", "copied", "aside", "placed"}

(* A skill that a session holds back has a body to agree to; one of a        *)
(* repository that it does not hold back has been agreed to.                 *)
Honest(s, n, a) ==
    /\ s.pending => s.content \in Contents
    /\ s.place = Skill!ProjectForeign /\ ~s.pending => <<n, s.content.body>> \in a

(* What is put in place is a whole copy of a skill, and nothing is there     *)
(* before it.                                                                *)
InstallInv ==
    /\ installer.pc # "idle" => installer.staging.content \in {c \in Contents : c.described}
    /\ installer.pc \in {"copied", "aside", "placed"} => installer.staging.whole
    /\ installer.pc = "aside" => file[installer.name][Skill!UserNative] = Skill!Missing

-----------------------------------------------------------------------------
LEMMA FixedTrees ==
    /\ Skill!Missing \in SkillTrees /\ Skill!Missing.whole = TRUE /\ Skill!Missing.content = Skill!Nothing
    /\ Skill!Nothing.described = FALSE
    /\ \A c \in Contents : Skill!Tree(c) \in SkillTrees /\ Skill!Tree(c).content = c
    /\ \A t \in SkillTrees : Skill!Loads(t) => t.content \in Contents
    /\ SkillScopes = Skill!ToSet(Skill!scopes)
<1>1. Skill!Missing \in SkillTrees /\ Skill!Missing.whole = TRUE /\ Skill!Missing.content = Skill!Nothing
  BY DEF Skill!Missing, SkillTrees, SkillContents
<1>2. Skill!Nothing.described = FALSE
  BY DEF Skill!Nothing
<1>3. \A c \in Contents : Skill!Tree(c) \in SkillTrees /\ Skill!Tree(c).content = c
  BY DEF Skill!Tree, SkillTrees, SkillContents
<1>4. \A t \in SkillTrees : Skill!Loads(t) => t.content \in Contents
  BY <1>2 DEF Skill!Loads, SkillTrees, SkillContents
<1>5. SkillScopes = Skill!ToSet(Skill!scopes)
  <2>1. /\ DOMAIN Skill!scopes = 1..5
        /\ Skill!scopes[1] = Skill!Builtin /\ Skill!scopes[2] = Skill!ProjectForeign
        /\ Skill!scopes[3] = Skill!ProjectNative /\ Skill!scopes[4] = Skill!UserForeign
        /\ Skill!scopes[5] = Skill!UserNative
    BY DEF Skill!scopes
  <2>2. 1..5 = {1, 2, 3, 4, 5}
    OBVIOUS
  <2> QED BY <2>1, <2>2 DEF Skill!ToSet, SkillScopes
<1> QED BY <1>1, <1>2, <1>3, <1>4, <1>5

LEMMA NoSkillTyped == Skill!NoSkill \in SkillRecords /\ \A n, a : Honest(Skill!NoSkill, n, a)
<1>1. Skill!NoSkill = [place |-> "none", content |-> Skill!Nothing, pending |-> FALSE]
  BY DEF Skill!NoSkill
<1> QED BY <1>1 DEF Honest, SkillRecords, SkillContents, Skill!ProjectForeign

(* What a session loads, with a store of what was agreed to. *)
LEMMA LoadHonest ==
    ASSUME SkillFilesTyped, NEW store, NEW a, store \subseteq a
    PROVE  Skill!Load(store) \in [Names -> SkillRecords] /\ \A n \in Names : Honest(Skill!Load(store)[n], n, a)
<1> SUFFICES ASSUME NEW n \in Names
             PROVE  Skill!Load(store)[n] \in SkillRecords /\ Honest(Skill!Load(store)[n], n, a)
  BY DEF Skill!Load
<1> DEFINE found == {i \in DOMAIN Skill!scopes : Skill!Loads(file[n][Skill!scopes[i]])}
           place == Skill!scopes[Skill!Max(found)]
<1>1. Skill!Load(store)[n] = IF found = {} THEN Skill!NoSkill ELSE Skill!loadScopeDir(place, n, store)
  BY DEF Skill!Load
<1>2. CASE found = {}
  BY <1>1, <1>2, NoSkillTyped
<1>3. CASE found # {}
  <2>1. found \subseteq 1..5
    BY DEF Skill!scopes
  <2>2. \E x \in found : \A y \in found : x >= y
    <3> HIDE DEF found
    <3>1. CASE 5 \in found
      BY <2>1, <3>1
    <3>2. CASE 5 \notin found /\ 4 \in found
      BY <2>1, <3>2
    <3>3. CASE 5 \notin found /\ 4 \notin found /\ 3 \in found
      BY <2>1, <3>3
    <3>4. CASE 5 \notin found /\ 4 \notin found /\ 3 \notin found /\ 2 \in found
      BY <2>1, <3>4
    <3>5. CASE 5 \notin found /\ 4 \notin found /\ 3 \notin found /\ 2 \notin found
      <4>1. \A x \in found : x = 1
        BY <2>1, <3>5
      <4> QED BY <1>3, <4>1
    <3> QED BY <3>1, <3>2, <3>3, <3>4, <3>5
  <2>3. Skill!Max(found) \in found
    <3> HIDE DEF found
    <3> QED BY <2>2 DEF Skill!Max
  <2>4. place \in SkillScopes /\ Skill!Loads(file[n][place])
    BY <2>3, FixedTrees DEF Skill!ToSet
  <2> DEFINE c == file[n][place].content
             s == Skill!loadScopeDir(place, n, store)
  <2>5. file[n][place] \in SkillTrees /\ c \in Contents
    BY <2>4, FixedTrees DEF SkillFilesTyped
  <2>6. s = [place |-> place, content |-> c,
             pending |-> place = Skill!ProjectForeign /\ ~ <<n, c.body>> \in store]
    BY DEF Skill!loadScopeDir, Skill!Approved
  <2> HIDE DEF place, c, s, found
  <2>7. s \in SkillRecords /\ Honest(s, n, a)
    BY <2>4, <2>5, <2>6 DEF SkillRecords, SkillContents, Honest
  <2> QED BY <1>1, <1>3, <2>7 DEF s
<1> QED BY <1>2, <1>3

(* No grant reaches further than what its author wrote. *)
LEMMA GrantsAreNarrow ==
    ASSUME NEW asks, NEW g \in Skill!parseAllowedTools(asks)
    PROVE  /\ Skill!Covers(g) \subseteq UNION {Skill!Means(a) : a \in asks}
           /\ g.tool = "execute_command" /\ g.scope = "any"
                => \E a \in asks : a.tool = "execute_command" /\ a.scope = "none"
<1>1. CASE g \in {[tool |-> a.tool, scope |-> "any"] : a \in {a \in asks : a.scope = "none"}}
  <2>1. PICK a \in asks : a.scope = "none" /\ g = [tool |-> a.tool, scope |-> "any"]
    BY <1>1
  <2>2. g.tool = a.tool /\ g.scope = "any"
    BY <2>1
  <2>3. Skill!Covers(g) \subseteq Skill!Means(a)
    BY <2>1, <2>2 DEF Skill!Covers, Skill!Means, Skill!Shell
  <2> QED BY <2>1, <2>2, <2>3
<1>2. CASE g \in {[tool |-> "execute_command", scope |-> a.scope] :
                    a \in {a \in asks : a.tool \in Skill!Shell /\ a.scope \notin {"none", "any"}}}
  <2>1. PICK a \in asks : /\ a.tool \in Skill!Shell /\ a.scope \notin {"none", "any"}
                          /\ g = [tool |-> "execute_command", scope |-> a.scope]
    BY <1>2
  <2>2. g.tool = "execute_command" /\ g.scope = a.scope
    BY <2>1
  <2>3. Skill!Covers(g) \subseteq Skill!Means(a)
    BY <2>1, <2>2 DEF Skill!Covers, Skill!Means
  <2> QED BY <2>1, <2>2, <2>3
<1> QED BY <1>1, <1>2 DEF Skill!parseAllowedTools

-----------------------------------------------------------------------------
SessionsHonest(ss, a) ==
    \A p \in Sessions :
        /\ ss[p].store \subseteq a
        /\ \A n \in Names : Honest(ss[p].registry[n], n, a) /\ Honest(ss[p].tool[n], n, a)

LEMMA HonestStays ==
    ASSUME NEW s, NEW n, NEW a, NEW b, a \subseteq b, Honest(s, n, a) PROVE Honest(s, n, b)
BY DEF Honest

LEMMA OneSession ==
    ASSUME NEW a, agreed \subseteq a, session \in [Sessions -> SkillSessions], SessionsHonest(session, agreed),
           NEW p \in Sessions, NEW r \in SkillSessions, r.store \subseteq a,
           \A n \in Names : Honest(r.registry[n], n, a) /\ Honest(r.tool[n], n, a),
           session' = [session EXCEPT ![p] = r]
    PROVE  session' \in [Sessions -> SkillSessions] /\ SessionsHonest(session', a)
<1>1. session' \in [Sessions -> SkillSessions] /\ session'[p] = r
      /\ \A q \in Sessions \ {p} : session'[q] = session[q]
  OBVIOUS
<1>2. ASSUME NEW q \in Sessions
      PROVE  /\ session'[q].store \subseteq a
             /\ \A n \in Names : Honest(session'[q].registry[n], n, a) /\ Honest(session'[q].tool[n], n, a)
  <2>1. CASE q = p
    BY <1>1, <2>1
  <2>2. CASE q # p
    <3>1. session'[q] = session[q]
      BY <1>1, <2>2
    <3>2. session[q].store \subseteq a
      BY DEF SessionsHonest
    <3>3. \A n \in Names : Honest(session[q].registry[n], n, a) /\ Honest(session[q].tool[n], n, a)
      BY HonestStays DEF SessionsHonest
    <3> QED BY <3>1, <3>2, <3>3
  <2> QED BY <2>1, <2>2
<1> QED BY <1>1, <1>2 DEF SessionsHonest

(* What the sessions know: entries, registries and what was agreed to. *)
SkillKnown ==
    /\ approvals \in [newer : BOOLEAN, entries : SUBSET SkillEntries]
    /\ session \in [Sessions -> SkillSessions]
    /\ approvals.entries \subseteq agreed
    /\ SessionsHonest(session, agreed)

LEMMA SaveHonest ==
    ASSUME SkillFilesTyped, SkillKnown, NEW a, agreed \subseteq a,
           NEW p \in Sessions, NEW store \in SUBSET SkillEntries, store \subseteq a, Skill!SaveAndReload(p, store)
    PROVE  /\ approvals' \in [newer : BOOLEAN, entries : SUBSET SkillEntries] /\ approvals'.entries \subseteq a
           /\ session' \in [Sessions -> SkillSessions] /\ SessionsHonest(session', a)
<1> DEFINE now == Skill!Load(store)
           r == [session[p] EXCEPT !.store = store]
           s == [session[p] EXCEPT !.store = store, !.registry = now]
<1>0. session \in [Sessions -> SkillSessions] /\ approvals \in [newer : BOOLEAN, entries : SUBSET SkillEntries]
      /\ approvals.entries \subseteq agreed /\ SessionsHonest(session, agreed)
  BY DEF SkillKnown
<1>1. now \in [Names -> SkillRecords] /\ \A n \in Names : Honest(now[n], n, a)
  BY LoadHonest
<1>2. \A n \in Names : Honest(session[p].registry[n], n, a) /\ Honest(session[p].tool[n], n, a)
  BY <1>0, HonestStays DEF SessionsHonest
<1>3. CASE approvals' = [newer |-> FALSE, entries |-> store] /\ session' = [session EXCEPT ![p].store = store, ![p].registry = now]
  <2> HIDE DEF now
  <2>1. s \in SkillSessions /\ s.store = store /\ s.registry = now /\ s.tool = session[p].tool
    BY <1>0, <1>1 DEF SkillSessions
  <2>2. session' = [session EXCEPT ![p] = s]
    BY <1>0, <1>3
  <2> HIDE DEF s
  <2>3. session' \in [Sessions -> SkillSessions] /\ SessionsHonest(session', a)
    BY <1>0, <1>1, <1>2, <2>1, <2>2, OneSession
  <2> QED BY <1>3, <2>3
<1>4. CASE session' = [session EXCEPT ![p].store = store] /\ UNCHANGED approvals
  <2>1. r \in SkillSessions /\ r.store = store /\ r.registry = session[p].registry /\ r.tool = session[p].tool
    BY <1>0 DEF SkillSessions
  <2>2. session' = [session EXCEPT ![p] = r]
    BY <1>0, <1>4
  <2> HIDE DEF r
  <2>3. session' \in [Sessions -> SkillSessions] /\ SessionsHonest(session', a)
    BY <1>0, <1>2, <2>1, <2>2, OneSession
  <2> QED BY <1>0, <1>4, <2>3
<1> QED BY <1>3, <1>4 DEF Skill!SaveAndReload

LEMMA KnownNext ==
    ASSUME SkillFilesTyped, SkillKnown, [Skill!Next]_skillVars PROVE SkillKnown'
<1> USE DEF SkillKnown
<1>1. ASSUME NEW p \in Sessions, Skill!Start(p) PROVE SkillKnown'
  <2> DEFINE load == Skill!Load(Skill!LoadApprovals)
             r == [up |-> TRUE, store |-> Skill!LoadApprovals, registry |-> load, tool |-> load]
  <2>1. Skill!LoadApprovals \in SUBSET SkillEntries /\ Skill!LoadApprovals \subseteq agreed
    BY DEF Skill!LoadApprovals
  <2>2. load \in [Names -> SkillRecords] /\ \A n \in Names : Honest(load[n], n, agreed)
    BY <2>1, LoadHonest
  <2>3. session' = [session EXCEPT ![p] = r] /\ UNCHANGED <<approvals, agreed>>
    BY <1>1 DEF Skill!Start
  <2> HIDE DEF load
  <2>4. r \in SkillSessions /\ r.store = Skill!LoadApprovals /\ r.registry = load /\ r.tool = load
    BY <2>1, <2>2 DEF SkillSessions
  <2> HIDE DEF r
  <2> QED BY <2>1, <2>2, <2>3, <2>4, OneSession
<1>2. ASSUME NEW p \in Sessions, Skill!Exit(p) PROVE SkillKnown'
  <2>1. /\ Skill!Off \in SkillSessions /\ Skill!Off.store = {}
        /\ \A n \in Names : Skill!Off.registry[n] = Skill!NoSkill /\ Skill!Off.tool[n] = Skill!NoSkill
    BY NoSkillTyped DEF Skill!Off, SkillSessions
  <2>2. session' = [session EXCEPT ![p] = Skill!Off] /\ UNCHANGED <<approvals, agreed>>
    BY <1>2 DEF Skill!Exit
  <2>3. \A n \in Names : Honest(Skill!Off.registry[n], n, agreed) /\ Honest(Skill!Off.tool[n], n, agreed)
    BY <2>1, NoSkillTyped
  <2> QED BY <2>1, <2>2, <2>3, OneSession
<1>3. ASSUME NEW p \in Sessions, NEW n \in Names, Skill!Approve(p, n) PROVE SkillKnown'
  <2> DEFINE s == session[p].registry[n]
             entry == <<n, s.content.body>>
             store == {e \in session[p].store : e[1] # n} \cup {entry}
  <2>1. s.pending /\ Skill!SaveAndReload(p, store) /\ agreed' = agreed \cup {entry}
    BY <1>3 DEF Skill!Approve
  <2>2. entry \in SkillEntries
    BY <2>1 DEF SessionsHonest, Honest, SkillEntries
  <2>3. store \in SUBSET SkillEntries /\ store \subseteq agreed'
    BY <2>1, <2>2 DEF SessionsHonest, SkillSessions
  <2> HIDE DEF store, entry, s
  <2> QED BY <2>1, <2>3, SaveHonest
<1>4. ASSUME NEW p \in Sessions, NEW n \in Names, Skill!Revoke(p, n) PROVE SkillKnown'
  <2> DEFINE store == {e \in session[p].store : e[1] # n}
  <2>1. Skill!SaveAndReload(p, store) /\ UNCHANGED agreed
    BY <1>4 DEF Skill!Revoke
  <2>2. store \in SUBSET SkillEntries /\ store \subseteq agreed
    BY DEF SessionsHonest, SkillSessions
  <2> HIDE DEF store
  <2> QED BY <2>1, <2>2, SaveHonest
<1>5. CASE UNCHANGED <<approvals, session, agreed>>
  BY <1>5
<1> QED BY <1>1, <1>2, <1>3, <1>4, <1>5
        DEF Skill!Next, skillVars, Skill!Execute, Skill!Expand, Skill!RepositoryChanges, Skill!BeginInstall,
            Skill!replaceDir, Skill!InstallerDies, Skill!Uninstall, Skill!Settled

-----------------------------------------------------------------------------
SkillFilesInv == SkillFilesTyped /\ InstallInv

(* Only the tree of one name in the user's scope changes. *)
LEMMA OneTree ==
    ASSUME SkillFilesTyped, NEW n \in Names, NEW t \in SkillTrees,
           file' = [file EXCEPT ![n][Skill!UserNative] = t]
    PROVE  /\ file' \in [Names -> [SkillScopes -> SkillTrees]]
           /\ file'[n][Skill!UserNative] = t
           /\ \A m \in Names \ {n} : file'[m] = file[m]
<1>1. Skill!UserNative \in SkillScopes
  BY DEF SkillScopes
<1>2. file[n] \in [SkillScopes -> SkillTrees]
  BY DEF SkillFilesTyped
<1> DEFINE g == [file[n] EXCEPT ![Skill!UserNative] = t]
<1>3. g \in [SkillScopes -> SkillTrees] /\ g[Skill!UserNative] = t
  BY <1>1, <1>2
<1>4. file' = [file EXCEPT ![n] = g]
  OBVIOUS
<1> HIDE DEF g
<1> QED BY <1>3, <1>4 DEF SkillFilesTyped

LEMMA FilesNext ==
    ASSUME Skill!ConstantsOK, SkillFilesInv, [Skill!Next]_skillVars PROVE SkillFilesInv'
<1> USE DEF SkillFilesInv, InstallInv
<1>1. ASSUME NEW n \in Names, NEW t \in SkillTrees, Skill!RepositoryChanges(n, t) PROVE SkillFilesInv'
  <2>1. Skill!ProjectForeign \in SkillScopes /\ Skill!ProjectForeign # Skill!UserNative
    BY DEF SkillScopes, Skill!ProjectForeign, Skill!UserNative
  <2>2. file' = [file EXCEPT ![n][Skill!ProjectForeign] = t] /\ UNCHANGED <<old, installer>>
    BY <1>1 DEF Skill!RepositoryChanges
  <2> DEFINE g == [file[n] EXCEPT ![Skill!ProjectForeign] = t]
  <2>3. file[n] \in [SkillScopes -> SkillTrees]
    BY DEF SkillFilesTyped
  <2>4. g \in [SkillScopes -> SkillTrees] /\ g[Skill!UserNative] = file[n][Skill!UserNative]
    BY <2>1, <2>3 DEF SkillScopes
  <2>5. file' = [file EXCEPT ![n] = g]
    BY <2>2
  <2> HIDE DEF g
  <2>6. /\ file' \in [Names -> [SkillScopes -> SkillTrees]]
        /\ \A m \in Names : file'[m][Skill!UserNative] = file[m][Skill!UserNative]
    BY <2>4, <2>5 DEF SkillFilesTyped
  <2> QED BY <2>2, <2>6 DEF SkillFilesTyped, Installers
<1>2. ASSUME NEW n \in Names, NEW c \in Published, Skill!BeginInstall(n, c) PROVE SkillFilesInv'
  <2> DEFINE s == [content |-> c, whole |-> FALSE]
             i == [pc |-> "copy", name |-> n, staging |-> s, backup |-> FALSE]
  <2>1. c \in Contents /\ c.described /\ installer' = i /\ UNCHANGED <<file, old>>
    BY <1>2 DEF Skill!BeginInstall, Skill!ConstantsOK
  <2>2. i \in Installers /\ i.pc = "copy" /\ i.staging.content = c
    BY <2>1 DEF Installers, SkillTrees, SkillContents
  <2> HIDE DEF i
  <2> QED BY <2>1, <2>2 DEF SkillFilesTyped
<1>3. CASE Skill!replaceDir
  <2>0. installer.pc # "idle" /\ installer \in Installers /\ installer.name \in Names /\ installer.staging \in SkillTrees
    BY <1>3 DEF Skill!replaceDir, SkillFilesTyped, Installers
  <2>1. CASE installer.pc = "copy" /\ Skill!copyTree(installer.name)
    <3>1. installer' = [installer EXCEPT !.pc = "copied", !.staging.whole = TRUE] /\ UNCHANGED <<file, old>>
      BY <2>1 DEF Skill!copyTree
    <3>2. installer' \in Installers /\ installer'.pc = "copied" /\ installer'.staging.whole
          /\ installer'.staging.content = installer.staging.content
      BY <2>0, <3>1 DEF Installers, SkillTrees
    <3> QED BY <2>0, <3>1, <3>2 DEF SkillFilesTyped
  <2>2. CASE installer.pc = "copied" /\ Skill!setAside(installer.name)
    <3>1. /\ installer' = [installer EXCEPT !.pc = "aside", !.backup = file[installer.name][Skill!UserNative] # Skill!Missing]
          /\ file' = [file EXCEPT ![installer.name][Skill!UserNative] = Skill!Missing]
      BY <2>2 DEF Skill!setAside
    <3>2. installer' \in Installers /\ installer'.pc = "aside" /\ installer'.name = installer.name
          /\ installer'.staging = installer.staging
      BY <2>0, <3>1 DEF Installers
    <3>3. file' \in [Names -> [SkillScopes -> SkillTrees]] /\ file'[installer.name][Skill!UserNative] = Skill!Missing
      BY <2>0, <3>1, OneTree, FixedTrees
    <3>4. old' \in [Names -> SkillTrees]
      <4>1. file[installer.name][Skill!UserNative] \in SkillTrees
        BY <2>0 DEF SkillFilesTyped, SkillScopes
      <4> QED BY <2>0, <2>2, <4>1 DEF Skill!setAside, SkillFilesTyped
    <3> QED BY <2>0, <2>2, <3>2, <3>3, <3>4 DEF SkillFilesTyped
  <2>3. CASE installer.pc = "aside" /\ Skill!putInPlace(installer.name)
    <3>1. /\ installer' = [installer EXCEPT !.pc = "placed"] /\ UNCHANGED old
          /\ file' = [file EXCEPT ![installer.name][Skill!UserNative] = installer.staging]
      BY <2>3 DEF Skill!putInPlace
    <3>2. installer' \in Installers /\ installer'.pc = "placed" /\ installer'.staging = installer.staging
      BY <2>0, <3>1 DEF Installers
    <3>3. file' \in [Names -> [SkillScopes -> SkillTrees]]
      BY <2>0, <3>1, OneTree
    <3> QED BY <2>0, <2>3, <3>1, <3>2, <3>3 DEF SkillFilesTyped
  <2>4. CASE installer.pc = "aside" /\ Skill!putBack(installer.name)
    <3>1. installer' = [pc |-> "idle"] /\ installer'.pc = "idle"
      BY <2>4 DEF Skill!putBack
    <3>2. CASE UNCHANGED <<file, old>>
      BY <3>1, <3>2 DEF SkillFilesTyped
    <3>3. CASE /\ file' = [file EXCEPT ![installer.name][Skill!UserNative] = old[installer.name]]
               /\ old' = [old EXCEPT ![installer.name] = Skill!Missing]
      <4>1. old[installer.name] \in SkillTrees
        BY <2>0 DEF SkillFilesTyped
      <4>2. file' \in [Names -> [SkillScopes -> SkillTrees]]
        BY <2>0, <3>3, <4>1, OneTree
      <4>3. old' \in [Names -> SkillTrees]
        BY <3>3, FixedTrees DEF SkillFilesTyped
      <4> QED BY <3>1, <4>2, <4>3 DEF SkillFilesTyped
    <3> QED BY <2>4, <3>2, <3>3 DEF Skill!putBack
  <2>5. CASE installer.pc = "placed" /\ Skill!forgetOld(installer.name)
    <3>1. installer' = [pc |-> "idle"] /\ installer'.pc = "idle" /\ UNCHANGED file
          /\ old' = [old EXCEPT ![installer.name] = IF installer.backup THEN Skill!Missing ELSE @]
      BY <2>5 DEF Skill!forgetOld
    <3>2. old' \in [Names -> SkillTrees]
      BY <2>0, <3>1, FixedTrees DEF SkillFilesTyped
    <3> QED BY <3>1, <3>2 DEF SkillFilesTyped
  <2> QED BY <1>3, <2>1, <2>2, <2>3, <2>4, <2>5 DEF Skill!replaceDir
<1>4. CASE Skill!InstallerDies
  <2>1. installer' = [pc |-> "idle"] /\ installer'.pc = "idle" /\ UNCHANGED <<file, old>>
    BY <1>4 DEF Skill!InstallerDies
  <2> QED BY <2>1 DEF SkillFilesTyped
<1>5. ASSUME NEW n \in Names, Skill!Uninstall(n) PROVE SkillFilesInv'
  <2>1. PICK left \in {Skill!Missing, [file[n][Skill!UserNative] EXCEPT !.whole = FALSE]} :
          file' = [file EXCEPT ![n][Skill!UserNative] = left]
    BY <1>5 DEF Skill!Uninstall
  <2>2. file[n][Skill!UserNative] # Skill!Missing /\ UNCHANGED <<old, installer>>
    BY <1>5 DEF Skill!Uninstall
  <2>3. file[n][Skill!UserNative] \in SkillTrees
    BY DEF SkillFilesTyped, SkillScopes
  <2>4. left \in SkillTrees
    BY <2>3, FixedTrees DEF SkillTrees
  <2>5. file' \in [Names -> [SkillScopes -> SkillTrees]] /\ \A m \in Names \ {n} : file'[m] = file[m]
    BY <2>1, <2>4, OneTree
  <2>6. installer.pc = "aside" => installer.name # n /\ installer.name \in Names
    BY <2>2 DEF SkillFilesTyped, Installers
  <2> QED BY <2>2, <2>5, <2>6 DEF SkillFilesTyped
<1>6. CASE UNCHANGED <<file, old, installer>>
  BY <1>6 DEF SkillFilesTyped
<1>7. Skill!Missing \in SkillTrees /\ \A c \in Contents : Skill!Tree(c) \in SkillTrees
  BY FixedTrees
<1> QED BY <1>1, <1>2, <1>3, <1>4, <1>5, <1>6, <1>7
        DEF Skill!Next, skillVars, Skill!disk, Skill!Start, Skill!Exit, Skill!Approve, Skill!Revoke, Skill!Execute, Skill!Expand

(* What is read under the name of a user's skill is whole, and not lost. *)
LEMMA WholeStays ==
    ASSUME Skill!ConstantsOK, SkillFilesInv, [Skill!Next]_skillVars, NEW n \in Names
    PROVE  /\ file'[n][Skill!UserNative].content # file[n][Skill!UserNative].content
                => file'[n][Skill!UserNative].whole \/ file'[n][Skill!UserNative] = old[n]
           /\ file[n][Skill!UserNative] # Skill!Missing /\ file[n][Skill!UserNative].whole
              /\ file'[n][Skill!UserNative] = Skill!Missing /\ installer' # installer => old'[n] = file[n][Skill!UserNative]
<1> DEFINE was == file[n][Skill!UserNative]
           now == file'[n][Skill!UserNative]
           Goal == /\ now.content # was.content => now.whole \/ now = old[n]
                   /\ was # Skill!Missing /\ was.whole /\ now = Skill!Missing /\ installer' # installer => old'[n] = was
<1> SUFFICES Goal
  OBVIOUS
<1>1. CASE now = was
  BY <1>1
<1>2. CASE Skill!replaceDir
  <2>0. installer \in Installers /\ installer.name \in Names /\ installer.staging \in SkillTrees
    BY <1>2 DEF Skill!replaceDir, SkillFilesInv, SkillFilesTyped, Installers
  <2>1. CASE installer.pc = "copied" /\ Skill!setAside(installer.name)
    <3>1. /\ file' = [file EXCEPT ![installer.name][Skill!UserNative] = Skill!Missing]
          /\ old' = [old EXCEPT ![installer.name] = IF file[installer.name][Skill!UserNative] = Skill!Missing THEN @
                                                    ELSE file[installer.name][Skill!UserNative]]
      BY <2>1 DEF Skill!setAside
    <3>2. CASE n = installer.name
      <4>1. now = Skill!Missing
        BY <2>0, <3>1, <3>2, OneTree, FixedTrees DEF SkillFilesInv
      <4>2. was # Skill!Missing => old'[n] = was
        BY <3>1, <3>2 DEF SkillFilesInv, SkillFilesTyped
      <4> HIDE DEF was, now
      <4> QED BY <4>1, <4>2, FixedTrees
    <3>3. CASE n # installer.name
      BY <1>1, <2>0, <3>1, <3>3, OneTree, FixedTrees DEF SkillFilesInv
    <3> QED BY <3>2, <3>3
  <2>2. CASE installer.pc = "aside" /\ (Skill!putInPlace(installer.name) \/ Skill!putBack(installer.name))
    <3>1. \/ file' = file
          \/ file' = [file EXCEPT ![installer.name][Skill!UserNative] = installer.staging] /\ installer.staging.whole
          \/ file' = [file EXCEPT ![installer.name][Skill!UserNative] = old[installer.name]]
      BY <2>2 DEF Skill!putInPlace, Skill!putBack, SkillFilesInv, InstallInv
    <3>2. old[installer.name] \in SkillTrees
      BY <2>0 DEF SkillFilesInv, SkillFilesTyped
    <3>3. CASE n = installer.name
      <4>1. was = Skill!Missing
        BY <2>2, <3>3 DEF SkillFilesInv, InstallInv
      <4>2. now = was \/ now = old[n] \/ (now = installer.staging /\ installer.staging.whole)
        BY <2>0, <3>1, <3>2, <3>3, OneTree DEF SkillFilesInv
      <4> HIDE DEF was, now
      <4> QED BY <4>1, <4>2
    <3>4. CASE n # installer.name
      BY <1>1, <2>0, <3>1, <3>2, <3>4, OneTree DEF SkillFilesInv
    <3> QED BY <3>3, <3>4
  <2>3. CASE UNCHANGED file
    BY <1>1, <2>3
  <2> QED BY <1>2, <2>1, <2>2, <2>3 DEF Skill!replaceDir, Skill!copyTree, Skill!forgetOld
<1>3. ASSUME NEW m \in Names, Skill!Uninstall(m) PROVE Goal
  <2>1. PICK left \in {Skill!Missing, [file[m][Skill!UserNative] EXCEPT !.whole = FALSE]} :
          file' = [file EXCEPT ![m][Skill!UserNative] = left]
    BY <1>3 DEF Skill!Uninstall
  <2>2. UNCHANGED installer
    BY <1>3 DEF Skill!Uninstall
  <2>3. file[m][Skill!UserNative] \in SkillTrees
    BY DEF SkillFilesInv, SkillFilesTyped, SkillScopes
  <2>4. left \in SkillTrees /\ (left = Skill!Missing \/ left.content = file[m][Skill!UserNative].content)
    BY <2>3, FixedTrees DEF SkillTrees
  <2>5. CASE n = m
    <3>1. now = left
      BY <2>1, <2>4, <2>5, OneTree DEF SkillFilesInv
    <3>2. now = Skill!Missing \/ now.content = was.content
      BY <2>4, <2>5, <3>1
    <3> HIDE DEF was, now
    <3> QED BY <2>2, <3>2, FixedTrees
  <2>6. CASE n # m
    BY <1>1, <2>1, <2>4, <2>6, OneTree DEF SkillFilesInv
  <2> QED BY <2>5, <2>6
<1>4. ASSUME NEW m \in Names, NEW t, Skill!RepositoryChanges(m, t) PROVE Goal
  <2>1. Skill!ProjectForeign # Skill!UserNative /\ Skill!UserNative \in SkillScopes
    BY DEF SkillScopes, Skill!ProjectForeign, Skill!UserNative
  <2>2. file' = [file EXCEPT ![m][Skill!ProjectForeign] = t]
    BY <1>4 DEF Skill!RepositoryChanges
  <2>3. file \in [Names -> [SkillScopes -> SkillTrees]]
    BY DEF SkillFilesInv, SkillFilesTyped
  <2>4. now = was
    BY <2>1, <2>2, <2>3
  <2> QED BY <1>1, <2>4
<1>5. CASE UNCHANGED file
  BY <1>1, <1>5
<1>6. Goal
  BY <1>2, <1>3, <1>4, <1>5
     DEF Skill!Next, skillVars, Skill!disk, Skill!Start, Skill!Exit, Skill!Approve, Skill!Revoke, Skill!Execute, Skill!Expand,
         Skill!BeginInstall, Skill!InstallerDies
<1> QED BY <1>6

-----------------------------------------------------------------------------
(* What is handed to a model was agreed to and widens nothing. *)
LEMMA Handed ==
    ASSUME NEW p, NEW n, NEW s, NEW by, s.place = Skill!ProjectForeign => <<n, s.content.body>> \in agreed,
           last' = [session |-> p, name |-> n, skill |-> s, by |-> by, grants |-> Skill!AllowedTools(s)],
           UNCHANGED agreed
    PROVE  Skill!OnlyWhatWasAgreed'
<1>1. last'.name = n /\ last'.skill = s /\ last'.grants = Skill!AllowedTools(s)
  OBVIOUS
<1>2. Skill!AllowedTools(s) = IF s.place \in Skill!Project THEN {} ELSE Skill!parseAllowedTools(s.content.asks)
  BY DEF Skill!AllowedTools
<1>3. \A g \in Skill!AllowedTools(s) :
        /\ Skill!Covers(g) \subseteq UNION {Skill!Means(a) : a \in s.content.asks}
        /\ g.tool = "execute_command" /\ g.scope = "any"
             => \E a \in s.content.asks : a.tool = "execute_command" /\ a.scope = "none"
  <2>1. CASE s.place \in Skill!Project
    BY <1>2, <2>1
  <2>2. CASE s.place \notin Skill!Project
    BY <1>2, <2>2, GrantsAreNarrow
  <2> QED BY <2>1, <2>2
<1>4. /\ last'.skill.place = Skill!ProjectForeign => <<last'.name, last'.skill.content.body>> \in agreed
      /\ last'.skill.place \in Skill!Project => last'.grants = {}
  BY <1>1, <1>2
<1>5. \A g \in last'.grants :
        /\ Skill!Covers(g) \subseteq UNION {Skill!Means(a) : a \in last'.skill.content.asks}
        /\ g.tool = "execute_command" /\ g.scope = "any"
             => \E a \in last'.skill.content.asks : a.tool = "execute_command" /\ a.scope = "none"
  BY <1>1, <1>3
<1> QED BY <1>4, <1>5 DEF Skill!OnlyWhatWasAgreed

LEMMA LastNext ==
    ASSUME SkillKnown, Skill!OnlyWhatWasAgreed, [Skill!Next]_skillVars PROVE Skill!OnlyWhatWasAgreed'
<1>1. ASSUME NEW p \in Sessions, NEW n \in Names, Skill!Execute(p, n) \/ Skill!Expand(p, n)
      PROVE  Skill!OnlyWhatWasAgreed'
  <2>1. PICK s \in {session[p].tool[n], session[p].registry[n]}, by \in {"model", "user"} :
          /\ Skill!Enabled(s) /\ UNCHANGED agreed
          /\ last' = [session |-> p, name |-> n, skill |-> s, by |-> by, grants |-> Skill!AllowedTools(s)]
    BY <1>1 DEF Skill!Execute, Skill!Expand, Skill!Verb
  <2>2. s.place = Skill!ProjectForeign => <<n, s.content.body>> \in agreed
    BY <2>1 DEF Skill!Enabled, SkillKnown, SessionsHonest, Honest
  <2> QED BY <2>1, <2>2, Handed
<1>2. CASE last' = Skill!NoRead
  BY <1>2 DEF Skill!OnlyWhatWasAgreed
<1>3. CASE UNCHANGED <<last, agreed>>
  BY <1>3 DEF Skill!OnlyWhatWasAgreed
<1> QED BY <1>1, <1>2, <1>3
        DEF Skill!Next, skillVars, Skill!Start, Skill!Exit, Skill!Approve, Skill!Revoke, Skill!RepositoryChanges,
            Skill!BeginInstall, Skill!replaceDir, Skill!InstallerDies, Skill!Uninstall, Skill!Settled

LEMMA SkillStart == ASSUME Skill!ConstantsOK, Skill!Init PROVE SkillFilesInv /\ SkillKnown /\ Skill!OnlyWhatWasAgreed
<1>1. Embedded \in Contents
  BY DEF Skill!ConstantsOK
<1>2. file \in [Names -> [SkillScopes -> SkillTrees]]
  BY <1>1, FixedTrees DEF Skill!Init
<1>3. old \in [Names -> SkillTrees]
  BY FixedTrees DEF Skill!Init
<1>4. SkillFilesInv
  BY <1>2, <1>3 DEF Skill!Init, SkillFilesInv, SkillFilesTyped, InstallInv
<1>5. /\ Skill!Off \in SkillSessions /\ Skill!Off.store = {}
      /\ \A n \in Names : Skill!Off.registry[n] = Skill!NoSkill /\ Skill!Off.tool[n] = Skill!NoSkill
  BY NoSkillTyped DEF Skill!Off, SkillSessions
<1>6. SkillKnown
  BY <1>5, NoSkillTyped DEF Skill!Init, SkillKnown, SessionsHonest
<1>7. Skill!OnlyWhatWasAgreed
  BY DEF Skill!Init, Skill!OnlyWhatWasAgreed
<1> QED BY <1>4, <1>6, <1>7

SkillInv == SkillFilesInv /\ SkillKnown /\ Skill!OnlyWhatWasAgreed

(* Whatever a repository, the other sessions, the installer and saves that   *)
(* fail do: a model is handed what the user agreed to, no grant is wider     *)
(* than it was written, and what is installed is whole.                      *)
THEOREM SkillsAreAgreedTo == ASSUME Skill!ConstantsOK PROVE FrontSpec => OnlyWhatWasAgreed
<1>0. UNCHANGED skillVars => UNCHANGED Skill!vars
  BY DEF skillVars, Skill!vars, Skill!disk
<1>1. FrontInit => SkillInv
  BY SkillStart DEF FrontInit, SkillInv
<1>2. [FrontNext]_frontVars => [Skill!Next]_skillVars
  BY DEF FrontNext, ManagerNext, WorkspaceNext, SkillNext, CommandNext, ConfigNext, KeyboardNext, SetupNext,
         ShadowNext, LoginNext, LoopNext, AgentsNext, frontVars
<1>3. SkillInv /\ [FrontNext]_frontVars => SkillInv'
  BY <1>2, FilesNext, KnownNext, LastNext DEF SkillInv, SkillFilesInv
<1>4. SkillInv => Skill!TypeOK /\ Skill!OnlyWhatWasAgreed
  BY DEF SkillInv, SkillFilesInv, SkillFilesTyped, SkillTrees, SkillKnown, SkillSessions, SkillEntries, Skill!TypeOK
<1>5. SkillInv /\ [FrontNext]_frontVars =>
        [\A n \in Names :
           LET was == file[n][Skill!UserNative]  now == file'[n][Skill!UserNative]
           IN  /\ now.content # was.content => now.whole \/ now = old[n]
               /\ was # Skill!Missing /\ was.whole /\ now = Skill!Missing /\ installer' # installer => old'[n] = was]_(Skill!vars)
  BY <1>0, <1>2, WholeStays DEF SkillInv
<1> QED BY <1>1, <1>3, <1>4, <1>5, PTL DEF FrontSpec, OnlyWhatWasAgreed, Skill!InstalledWhole


-----------------------------------------------------------------------------
(* LoopDetector: rounds of any calls, a window and a threshold of any size.  *)

(* Induction, as the choice of a least counterexample.                       *)
LEMMA Smallest ==
    ASSUME NEW S, IsFiniteSet(S), NEW T \in SUBSET (SUBSET S), T # {}
    PROVE  \E X \in T : \A Y \in T : ~(Y \subseteq X /\ Y # X)
<1>1. IsWellFoundedOn(StrictSubsetOrdering(S), SUBSET S)
  <2>1. FiniteSubsetsOf(S) = SUBSET S
    BY FS_FiniteSubsetsOfFinite
  <2> QED BY <2>1, FS_StrictSubsetOrderingWellFounded
<1>2. PICK X \in T : \A Y \in T : ~(<<Y, X>> \in StrictSubsetOrdering(S))
  BY <1>1, WFMin
<1>3. ASSUME NEW Y \in T, Y \subseteq X, Y # X PROVE FALSE
  BY <1>2, <1>3 DEF StrictSubsetOrdering
<1> QED BY <1>3

LEMMA Least ==
    ASSUME NEW N \in Nat, NEW T \in SUBSET (0..N), T # {}
    PROVE  \E n \in T : \A m \in T : n <= m
<1> DEFINE S == 1..N
           C == {1..n : n \in T}
<1>1. IsFiniteSet(S)
  BY FS_Interval
<1>2. C \in SUBSET (SUBSET S) /\ C # {}
  <2>1. \A n \in T : 1..n \in SUBSET S
    OBVIOUS
  <2> QED BY <2>1
<1>3. PICK X \in C : \A Y \in C : ~(Y \subseteq X /\ Y # X)
  <2> HIDE DEF C, S
  <2> QED BY <1>1, <1>2, Smallest
<1>4. PICK n \in T : X = 1..n
  OBVIOUS
<1>5. ASSUME NEW m \in T, m < n PROVE FALSE
  <2>1. 1..m \in C /\ 1..m \subseteq 1..n /\ 1..m # 1..n
    BY <1>5
  <2> QED BY <1>3, <1>4, <2>1
<1> QED BY <1>5

(* How often x is in s.                                                      *)
Count(s, x) == Cardinality({i \in DOMAIN s : s[i] = x})
Sorted(s) == \A i, j \in DOMAIN s : i <= j => s[i] <= s[j]

LEMMA CountTyped ==
    ASSUME NEW s \in Seq(Nat), NEW x
    PROVE  /\ IsFiniteSet(DOMAIN s) /\ IsFiniteSet({i \in DOMAIN s : s[i] = x})
           /\ Count(s, x) \in Nat
           /\ Count(s, x) = 0 <=> \A i \in DOMAIN s : s[i] # x
<1>1. DOMAIN s = 1 .. Len(s) /\ Len(s) \in Nat
  OBVIOUS
<1>2. IsFiniteSet(DOMAIN s)
  BY <1>1, FS_Interval
<1>3. IsFiniteSet({i \in DOMAIN s : s[i] = x})
  <2>1. {i \in DOMAIN s : s[i] = x} \in SUBSET DOMAIN s
    OBVIOUS
  <2> QED BY <1>2, <2>1, FS_Subset
<1> QED BY <1>2, <1>3, FS_CardinalityType, FS_EmptySet DEF Count

(* Two bags of calls are the same when every call is in both as often.       *)
LEMMA BagsAgree ==
    ASSUME NEW s \in Seq(Nat), NEW t \in Seq(Nat)
    PROVE  Loop!ToBag(s) = Loop!ToBag(t) <=> \A x \in Nat : Count(s, x) = Count(t, x)
<1> DEFINE R(u) == {u[i] : i \in DOMAIN u}
<1>1. \A u \in Seq(Nat) : Loop!ToBag(u) = [x \in R(u) |-> Count(u, x)]
  <2> TAKE u \in Seq(Nat)
  <2>1. \A S : Loop!Cardinality(S) = Cardinality(S)
    BY Zenon DEF Loop!Cardinality, Cardinality
  <2>2. Loop!ToBag(u) = [x \in R(u) |-> Loop!Cardinality({i \in DOMAIN u : u[i] = x})]
    BY Zenon DEF Loop!ToBag, Loop!Range
  <2> HIDE DEF R
  <2> QED BY <2>1, <2>2, Zenon DEF Count
<1>2. \A u \in Seq(Nat) : R(u) \subseteq Nat /\ \A x \in Nat : x \in R(u) <=> Count(u, x) # 0
  <2> TAKE u \in Seq(Nat)
  <2>1. R(u) \subseteq Nat
    OBVIOUS
  <2>2. ASSUME NEW x \in Nat PROVE x \in R(u) <=> Count(u, x) # 0
    <3>1. x \in R(u) <=> \E i \in DOMAIN u : u[i] = x
      BY Zenon
    <3>2. Count(u, x) = 0 <=> \A i \in DOMAIN u : u[i] # x
      BY CountTyped
    <3> QED BY <3>1, <3>2
  <2> QED BY <2>1, <2>2
<1> HIDE DEF R
<1>3. ASSUME Loop!ToBag(s) = Loop!ToBag(t), NEW x \in Nat PROVE Count(s, x) = Count(t, x)
  <2>1. [y \in R(s) |-> Count(s, y)] = [y \in R(t) |-> Count(t, y)]
    BY <1>1, <1>3
  <2>2. R(s) = R(t)
    BY <2>1
  <2>3. CASE x \in R(s)
    <3>1. [y \in R(s) |-> Count(s, y)][x] = Count(s, x)
      BY <2>3
    <3>2. [y \in R(t) |-> Count(t, y)][x] = Count(t, x)
      BY <2>2, <2>3
    <3> QED BY <2>1, <3>1, <3>2
  <2>4. CASE x \notin R(s)
    BY <1>2, <2>2, <2>4
  <2> QED BY <2>3, <2>4
<1>4. ASSUME \A x \in Nat : Count(s, x) = Count(t, x) PROVE Loop!ToBag(s) = Loop!ToBag(t)
  <2>1. R(s) = R(t)
    BY <1>2, <1>4
  <2>2. \A x \in R(s) : Count(s, x) = Count(t, x)
    BY <1>2, <1>4
  <2>3. [y \in R(s) |-> Count(s, y)] = [y \in R(t) |-> Count(t, y)]
    BY <2>1, <2>2
  <2> QED BY <1>1, <2>3
<1> QED BY <1>3, <1>4

(* Where two sorted sequences first part, they hold different numbers of what *)
(* the smaller one has there.                                                 *)
LEMMA SortedPart ==
    ASSUME NEW s \in Seq(Nat), NEW t \in Seq(Nat), Sorted(t), NEW i \in 1 .. Len(s),
           \A j \in 1 .. i - 1 : j <= Len(t) /\ s[j] = t[j],
           i <= Len(t) => s[i] < t[i]
    PROVE  Count(t, s[i]) # Count(s, s[i])
<1> DEFINE v == s[i]
           A == {j \in DOMAIN t : t[j] = v}
           B == {j \in DOMAIN s : s[j] = v}
<1>1. DOMAIN s = 1 .. Len(s) /\ Len(s) \in Nat /\ DOMAIN t = 1 .. Len(t) /\ Len(t) \in Nat
      /\ v \in Nat /\ \A j \in 1 .. Len(t) : t[j] \in Nat
  OBVIOUS
<1>2. ASSUME NEW j \in A PROVE j \in B /\ j # i
  <2>1. j \in 1 .. Len(t) /\ t[j] = v
    BY <1>1
  <2>2. CASE j < i
    <3>1. j \in 1 .. i - 1 /\ j \in 1 .. Len(s)
      BY <1>1, <2>1, <2>2
    <3>2. s[j] = t[j]
      BY <3>1
    <3> QED BY <1>1, <2>1, <2>2, <3>1, <3>2
  <2>3. CASE ~(j < i)
    <3>1. i \in DOMAIN t /\ j \in DOMAIN t /\ i <= j
      BY <1>1, <2>1, <2>3
    <3>2. t[i] <= t[j] /\ s[i] < t[i]
      BY <1>1, <3>1 DEF Sorted
    <3>3. t[i] \in Nat /\ t[j] \in Nat
      BY <1>1, <3>1
    <3> QED BY <1>1, <2>1, <3>2, <3>3
  <2> QED BY <2>2, <2>3
<1>3. i \in B /\ i \notin A /\ A \in SUBSET B
  BY <1>1, <1>2
<1>4. IsFiniteSet(B)
  BY CountTyped
<1>5. Cardinality(A) # Cardinality(B)
  <2> HIDE DEF A, B
  <2> QED BY <1>3, <1>4, FS_Subset
<1> QED BY <1>5 DEF Count

LEMMA SortedAlike ==
    ASSUME NEW s \in Seq(Nat), NEW t \in Seq(Nat), Sorted(s), Sorted(t),
           \A x \in Nat : Count(s, x) = Count(t, x)
    PROVE  s = t
<1> DEFINE n == Len(s) + Len(t)
           T == {i \in 0..n : i > 0 /\ ~(i <= Len(s) /\ i <= Len(t) /\ s[i] = t[i])
                                    /\ (i <= Len(s) \/ i <= Len(t))}
<1>1. Len(s) \in Nat /\ Len(t) \in Nat /\ n \in Nat
  OBVIOUS
<1>2. ASSUME T # {} PROVE FALSE
  <2>1. PICK i \in T : \A m \in T : i <= m
    <3>1. T \in SUBSET (0..n)
      OBVIOUS
    <3> HIDE DEF T
    <3> QED BY <1>1, <1>2, <3>1, Least
  <2>2. i \in 1..n /\ (i <= Len(s) \/ i <= Len(t)) /\ ~(i <= Len(s) /\ i <= Len(t) /\ s[i] = t[i])
    BY <1>1
  <2>3. \A j \in 1 .. i - 1 : j <= Len(s) /\ j <= Len(t) /\ s[j] = t[j]
    <3> TAKE j \in 1 .. i - 1
    <3>1. j \in 0..n /\ j > 0 /\ ~(i <= j) /\ j < i
      BY <1>1, <2>2
    <3>2. j \notin T
      BY <2>1, <3>1
    <3>3. j <= Len(s) \/ j <= Len(t)
      BY <1>1, <2>2, <3>1
    <3> QED BY <3>1, <3>2, <3>3
  <2> HIDE DEF T
  <2>4. CASE i <= Len(s) /\ (i <= Len(t) => s[i] < t[i])
    <3>1. i \in 1 .. Len(s)
      BY <1>1, <2>2, <2>4
    <3>2. Count(t, s[i]) # Count(s, s[i])
      BY <2>3, <2>4, <3>1, SortedPart
    <3>3. s[i] \in Nat
      BY <3>1
    <3> QED BY <3>2, <3>3
  <2>5. CASE i <= Len(t) /\ (i <= Len(s) => t[i] < s[i])
    <3>1. i \in 1 .. Len(t)
      BY <1>1, <2>2, <2>5
    <3>2. \A j \in 1 .. i - 1 : j <= Len(s) /\ t[j] = s[j]
      BY <2>3
    <3>3. Count(s, t[i]) # Count(t, t[i])
      BY <2>5, <3>1, <3>2, SortedPart
    <3>4. t[i] \in Nat
      BY <3>1
    <3> QED BY <3>3, <3>4
  <2>6. i <= Len(s) /\ i <= Len(t) => s[i] < t[i] \/ t[i] < s[i]
    <3> SUFFICES ASSUME i <= Len(s), i <= Len(t) PROVE s[i] < t[i] \/ t[i] < s[i]
      OBVIOUS
    <3>1. i \in 1 .. Len(s) /\ i \in 1 .. Len(t)
      BY <1>1, <2>2
    <3>2. s[i] \in Nat /\ t[i] \in Nat /\ s[i] # t[i]
      BY <2>2, <3>1
    <3> QED BY <3>2
  <2> QED BY <2>2, <2>4, <2>5, <2>6
<1>3. \A i \in 1..n : i <= Len(s) \/ i <= Len(t) => i <= Len(s) /\ i <= Len(t) /\ s[i] = t[i]
  <2> TAKE i \in 1..n
  <2>1. i \in 0..n /\ i > 0 /\ i \notin T
    BY <1>1, <1>2
  <2> QED BY <2>1
<1>4. Len(s) = Len(t)
  <2>1. ASSUME Len(s) < Len(t) PROVE FALSE
    <3>1. Len(t) \in 1..n /\ ~(Len(t) <= Len(s)) /\ Len(t) <= Len(t)
      BY <1>1, <2>1
    <3> QED BY <1>3, <3>1
  <2>2. ASSUME Len(t) < Len(s) PROVE FALSE
    <3>1. Len(s) \in 1..n /\ ~(Len(s) <= Len(t)) /\ Len(s) <= Len(s)
      BY <1>1, <2>2
    <3> QED BY <1>3, <3>1
  <2> QED BY <1>1, <2>1, <2>2
<1>5. \A i \in 1 .. Len(s) : s[i] = t[i]
  <2> TAKE i \in 1 .. Len(s)
  <2>1. i \in 1..n /\ i <= Len(s)
    BY <1>1
  <2> QED BY <1>3, <2>1
<1> QED BY <1>4, <1>5

(* Every sequence can be sorted: its elements, each in the place that the      *)
(* number of those before it gives.                                            *)
LEMMA CanBeSorted ==
    ASSUME NEW s \in Seq(Nat)
    PROVE  \E p \in Bijection(DOMAIN s, DOMAIN s) :
              \A i, j \in DOMAIN s : i <= j => s[p[i]] <= s[p[j]]
<1> DEFINE D == DOMAIN s
           Before(j) == {k \in D : s[k] < s[j] \/ (s[k] = s[j] /\ k <= j)}
           rank == [j \in D |-> Cardinality(Before(j))]
           p == Inverse(rank, D, D)
<1>1. D = 1 .. Len(s) /\ Len(s) \in Nat /\ \A i \in D : i \in Nat /\ s[i] \in Nat
  OBVIOUS
<1>2. IsFiniteSet(D) /\ Cardinality(D) = Len(s)
  <2>1. IsFiniteSet(1 .. Len(s)) /\ Cardinality(1 .. Len(s)) = IF 1 > Len(s) THEN 0 ELSE Len(s) - 1 + 1
    BY FS_Interval
  <2> HIDE DEF D
  <2> QED BY <1>1, <2>1
<1> HIDE DEF D
<1>3. \A j \in D : Before(j) \in SUBSET D /\ j \in Before(j) /\ IsFiniteSet(Before(j))
  <2> TAKE j \in D
  <2>1. Before(j) \in SUBSET D /\ j \in Before(j)
    BY <1>1
  <2> HIDE DEF Before
  <2> QED BY <1>2, <2>1, FS_Subset
<1>4. rank \in [D -> D]
  <2> SUFFICES ASSUME NEW j \in D PROVE Cardinality(Before(j)) \in D
    OBVIOUS
  <2> HIDE DEF Before
  <2>1. Cardinality(Before(j)) \in Nat /\ Cardinality(Before(j)) <= Len(s) /\ Cardinality(Before(j)) # 0
    BY <1>2, <1>3, FS_Subset, FS_CardinalityType, FS_EmptySet
  <2> QED BY <1>1, <2>1
<1>5. ASSUME NEW j \in D, NEW k \in D, s[j] < s[k] \/ (s[j] = s[k] /\ j < k)
      PROVE  rank[j] < rank[k]
  <2>1. Before(j) \in SUBSET Before(k) /\ k \notin Before(j)
    <3>1. ASSUME NEW l \in D, s[l] < s[j] \/ (s[l] = s[j] /\ l <= j)
          PROVE  s[l] < s[k] \/ (s[l] = s[k] /\ l <= k)
      <4>1. l \in Nat /\ j \in Nat /\ k \in Nat /\ s[l] \in Nat /\ s[j] \in Nat /\ s[k] \in Nat
        BY <1>1
      <4> QED BY <1>5, <3>1, <4>1
    <3>2. ~(s[k] < s[j] \/ (s[k] = s[j] /\ k <= j))
      <4>1. j \in Nat /\ k \in Nat /\ s[j] \in Nat /\ s[k] \in Nat
        BY <1>1
      <4> QED BY <1>5, <4>1
    <3> QED BY <3>1, <3>2
  <2>2. k \in Before(k) /\ IsFiniteSet(Before(k)) /\ IsFiniteSet(Before(j))
    BY <1>3
  <2>3. rank[j] = Cardinality(Before(j)) /\ rank[k] = Cardinality(Before(k))
    OBVIOUS
  <2> HIDE DEF Before, rank
  <2>4. Cardinality(Before(j)) \in Nat /\ Cardinality(Before(k)) \in Nat
    BY <2>2, FS_CardinalityType
  <2>5. Cardinality(Before(j)) <= Cardinality(Before(k)) /\ Cardinality(Before(j)) # Cardinality(Before(k))
    BY <2>1, <2>2, FS_Subset
  <2> QED BY <2>3, <2>4, <2>5
<1> HIDE DEF rank, Before
<1>6. \A j, k \in D : rank[j] = rank[k] => j = k
  <2> TAKE j \in D, k \in D
  <2>1. j \in Nat /\ k \in Nat /\ s[j] \in Nat /\ s[k] \in Nat /\ rank[j] \in Nat /\ rank[k] \in Nat
    <3>1. rank[j] \in D /\ rank[k] \in D
      BY <1>4
    <3> QED BY <1>1, <3>1
  <2>2. ASSUME j # k PROVE rank[j] # rank[k]
    <3>1. \/ s[j] < s[k] \/ (s[j] = s[k] /\ j < k)
          \/ s[k] < s[j] \/ (s[k] = s[j] /\ k < j)
      BY <2>1, <2>2
    <3>2. rank[j] < rank[k] \/ rank[k] < rank[j]
      BY <1>5, <3>1
    <3> QED BY <2>1, <3>2
  <2> QED BY <2>2
<1>7. rank \in Injection(D, D)
  BY <1>4, <1>6 DEF Injection, IsInjective
<1>8. rank \in Surjection(D, D)
  BY <1>2, <1>7, FS_Injection
<1>9. \A i \in D : p[i] \in D /\ rank[p[i]] = i
  <2> TAKE i \in D
  <2>1. \E j \in D : rank[j] = i
    BY <1>8 DEF Surjection
  <2>2. p[i] = CHOOSE j \in D : i \in Range(rank) => rank[j] = i
    BY Zenon DEF Inverse
  <2>3. i \in Range(rank)
    BY <1>4, <2>1 DEF Range
  <2> QED BY <2>1, <2>2, <2>3
<1>10. p \in [D -> D]
  <2>1. p = [i \in D |-> p[i]]
    BY DEF Inverse
  <2> QED BY <1>9, <2>1
<1> HIDE DEF p
<1>11. p \in Bijection(D, D)
  <2>1. \A i, j \in D : p[i] = p[j] => i = j
    BY <1>9
  <2>2. \A j \in D : \E i \in D : p[i] = j
    <3> TAKE j \in D
    <3>1. rank[j] \in D
      BY <1>4
    <3>2. p[rank[j]] = j
      BY <1>6, <1>9, <3>1
    <3> QED BY <3>1, <3>2
  <2> QED BY <1>10, <2>1, <2>2 DEF Bijection, Injection, IsInjective, Surjection
<1>12. \A i, j \in D : i <= j => s[p[i]] <= s[p[j]]
  <2> TAKE i \in D, j \in D
  <2>1. p[i] \in D /\ p[j] \in D /\ rank[p[i]] = i /\ rank[p[j]] = j
    BY <1>9
  <2>2. i \in Nat /\ j \in Nat /\ s[p[i]] \in Nat /\ s[p[j]] \in Nat
    BY <1>1, <2>1
  <2>3. s[p[j]] < s[p[i]] => j < i
    BY <1>5, <2>1
  <2> QED BY <2>2, <2>3
<1> QED BY <1>11, <1>12 DEF D

LEMMA SortedPermutation ==
    ASSUME NEW s \in Seq(Nat)
    PROVE  LET t == Loop!fingerprintTurn(s)
           IN  t \in Seq(Nat) /\ Sorted(t) /\ \A x \in Nat : Count(t, x) = Count(s, x)
<1> DEFINE D == DOMAIN s
           order == CHOOSE p \in Loop!Bijection(D, D) : \A i, j \in D : i <= j => s[p[i]] <= s[p[j]]
           t == [i \in D |-> s[order[i]]]
<1>1. D = 1 .. Len(s) /\ Len(s) \in Nat /\ \A i \in D : s[i] \in Nat
  OBVIOUS
<1>2. Loop!fingerprintTurn(s) = t
  BY Zenon DEF Loop!fingerprintTurn
<1> HIDE DEF D
<1>3. Loop!Bijection(D, D) = Bijection(D, D)
  BY Zenon DEF Loop!Bijection, Loop!Injection, Loop!IsInjective, Loop!Surjection, Bijection, Injection,
              IsInjective, Surjection
<1>4. order \in Bijection(D, D) /\ \A i, j \in D : i <= j => s[order[i]] <= s[order[j]]
  <2>1. \E p \in Bijection(D, D) : \A i, j \in D : i <= j => s[p[i]] <= s[p[j]]
    BY CanBeSorted DEF D
  <2> QED BY <1>3, <2>1, Zenon
<1> HIDE DEF order
<1>5. /\ order \in [D -> D] /\ \A i, j \in D : order[i] = order[j] => i = j
      /\ \A j \in D : \E i \in D : order[i] = j
  BY <1>4 DEF Bijection, Injection, IsInjective, Surjection
<1>6. t \in [D -> Nat] /\ DOMAIN t = D /\ \A i \in D : t[i] = s[order[i]]
  BY <1>1, <1>5
<1> HIDE DEF t
<1>7. t \in Seq(Nat)
  BY <1>1, <1>6
<1>8. Sorted(t)
  BY <1>4, <1>6 DEF Sorted
<1>9. ASSUME NEW x \in Nat PROVE Count(t, x) = Count(s, x)
  <2> DEFINE A == {i \in DOMAIN t : t[i] = x}
             B == {i \in DOMAIN s : s[i] = x}
             f == [i \in A |-> order[i]]
  <2>1. \A i \in A : i \in D /\ order[i] \in B
    BY <1>5, <1>6 DEF D
  <2>2. \A k \in B : \E i \in A : order[i] = k
    <3> TAKE k \in B
    <3>1. k \in D /\ s[k] = x
      BY DEF D
    <3>2. PICK i \in D : order[i] = k
      BY <1>5, <3>1
    <3>3. t[i] = x
      BY <1>6, <3>1, <3>2
    <3> QED BY <1>6, <3>2, <3>3
  <2>3. IsFiniteSet(A)
    BY <1>7, CountTyped
  <2> HIDE DEF A, B
  <2>4. f \in Bijection(A, B)
    BY <1>5, <2>1, <2>2 DEF Bijection, Injection, IsInjective, Surjection
  <2>5. Cardinality(B) = Cardinality(A)
    BY <2>3, <2>4, FS_Bijection DEF ExistsBijection
  <2> QED BY <2>5 DEF Count, A, B
<1> QED BY <1>2, <1>7, <1>8, <1>9

(* Two rounds have one signature exactly when they did the same work.          *)
LEMMA SignaturesTell ==
    ASSUME NEW s \in Seq(Nat), NEW t \in Seq(Nat)
    PROVE  Loop!fingerprintTurn(s) = Loop!fingerprintTurn(t) <=> Loop!ToBag(s) = Loop!ToBag(t)
<1> DEFINE S == Loop!fingerprintTurn(s)
           U == Loop!fingerprintTurn(t)
<1>1. /\ S \in Seq(Nat) /\ Sorted(S) /\ \A x \in Nat : Count(S, x) = Count(s, x)
      /\ U \in Seq(Nat) /\ Sorted(U) /\ \A x \in Nat : Count(U, x) = Count(t, x)
  BY SortedPermutation
<1> HIDE DEF S, U
<1>2. S = U => \A x \in Nat : Count(s, x) = Count(t, x)
  BY <1>1
<1>3. (\A x \in Nat : Count(s, x) = Count(t, x)) => S = U
  BY <1>1, SortedAlike
<1> QED BY <1>2, <1>3, BagsAgree DEF S, U

-----------------------------------------------------------------------------
(* The window holds the signatures of the last rounds, and every round is judged *)
(* by those that stood in the window with it.                                    *)
Repeats(r, l) ==
    Cardinality({k \in 1..l : k > l - Loop!windowTurns /\ Loop!ToBag(r[k]) = Loop!ToBag(r[l])})
InWindow(n) == IF n > Loop!windowTurns THEN Loop!windowTurns ELSE n
WindowOf(r) == [i \in 1 .. InWindow(Len(r)) |-> Loop!fingerprintTurn(r[Len(r) - InWindow(Len(r)) + i])]

LoopInv ==
    /\ rounds \in Seq(Seq(Calls)) /\ Len(rounds) <= MaxIterations
    /\ ended \in {"no", "answer", "loop", "cap", "budget"}
    /\ ended = "no" => Len(rounds) < MaxIterations
    /\ recent = WindowOf(rounds)
    /\ \A l \in 1 .. Len(rounds) :
           Repeats(rounds, l) > Loop!threshold <=> l = Len(rounds) /\ ended = "loop"

LEMMA LoopNumbers ==
    ASSUME Loop!ConstantsOK
    PROVE  /\ Loop!windowTurns \in Nat /\ Loop!windowTurns > 0 /\ Loop!threshold \in Nat
           /\ \A n \in Nat : InWindow(n) \in 0..n /\ InWindow(n) <= Loop!windowTurns
           /\ Calls \subseteq Nat /\ MaxIterations \in Nat /\ MaxIterations > 0
<1>1. ConfigWindow \in Nat /\ ConfigThreshold \in Nat /\ Calls \subseteq Nat /\ MaxIterations \in Nat \ {0}
  BY DEF Loop!ConstantsOK
<1>2. Loop!windowTurns \in Nat /\ Loop!windowTurns > 0 /\ Loop!threshold \in Nat
  BY <1>1 DEF Loop!windowTurns, Loop!threshold
<1> QED BY <1>1, <1>2 DEF InWindow

(* Appending a round moves the window on by one.                                 *)
LEMMA WindowMoves ==
    ASSUME Loop!ConstantsOK, NEW r \in Seq(Seq(Calls)), NEW obs \in Seq(Calls)
    PROVE  Loop!LastOf(Append(WindowOf(r), Loop!fingerprintTurn(obs))) = WindowOf(Append(r, obs))
<1> DEFINE W == Loop!windowTurns
           L == Len(r)
           m == InWindow(L)
           n == InWindow(L + 1)
           fp(x) == Loop!fingerprintTurn(x)
           q == Append(r, obs)
           w == WindowOf(r)
           a == Append(w, fp(obs))
           v == WindowOf(q)
<1>1. /\ W \in Nat /\ W > 0 /\ L \in Nat /\ m \in 0..L /\ m <= W /\ n \in 0..(L + 1) /\ n <= W
      /\ m = (IF L > W THEN W ELSE L) /\ n = (IF L + 1 > W THEN W ELSE L + 1)
  BY LoopNumbers DEF InWindow
<1>2. Len(q) = L + 1 /\ (\A k \in 1..L : q[k] = r[k]) /\ q[L + 1] = obs
  OBVIOUS
<1>3. w = [i \in 1..m |-> fp(r[L - m + i])] /\ v = [i \in 1..n |-> fp(q[(L + 1) - n + i])]
  BY <1>2 DEF WindowOf
<1> HIDE DEF q, v, w, fp
<1>4. Len(w) = m /\ (\E S : w \in Seq(S)) /\ \A i \in 1..m : w[i] = fp(r[L - m + i])
  <2> DEFINE S == {w[i] : i \in 1..m}
  <2>1. w \in [1..m -> S]
    BY <1>3
  <2>2. \A i \in 1..m : w[i] = fp(r[L - m + i])
    BY <1>3
  <2> HIDE DEF m, S
  <2>3. w \in Seq(S) /\ Len(w) = m
    <3>1. m \in Nat
      BY <1>1
    <3> QED BY <2>1, <3>1
  <2> QED BY <2>2, <2>3
<1> HIDE DEF m, n, L, W
<1>5. Len(a) = m + 1 /\ (\A i \in 1..m : a[i] = fp(r[L - m + i])) /\ a[m + 1] = fp(obs)
  BY <1>1, <1>4
<1>6. \E S : a \in Seq(S)
  <2>1. PICK S : w \in Seq(S)
    BY <1>4
  <2>2. Append(w, fp(obs)) \in Seq(S \cup {fp(obs)})
    <3>1. Seq(S) \subseteq Seq(S \cup {fp(obs)})
      OBVIOUS
    <3> QED BY <2>1, <3>1
  <2> QED BY <2>2 DEF a
<1> HIDE DEF a
<1>7. \A i \in 1 .. m + 1 : a[i] = fp(q[L - m + i])
  <2> TAKE i \in 1 .. m + 1
  <2>1. CASE i \in 1..m
    <3>1. L - m + i \in 1..L
      BY <1>1, <2>1
    <3> QED BY <1>2, <1>5, <2>1, <3>1
  <2>2. CASE i = m + 1
    <3>1. L - m + i = L + 1
      BY <1>1, <2>2
    <3> QED BY <1>2, <1>5, <2>2, <3>1
  <2> QED BY <1>1, <2>1, <2>2
<1>8. Loop!LastOf(a) = IF Len(a) > W THEN SubSeq(a, Len(a) - W + 1, Len(a)) ELSE a
  BY Zenon DEF Loop!LastOf, W
<1>9. CASE m + 1 > W
  <2>1. m = W /\ n = W /\ Len(a) = W + 1
    BY <1>1, <1>5, <1>9
  <2>2. Loop!LastOf(a) = SubSeq(a, 2, W + 1)
    <3>1. Len(a) - W + 1 = 2
      BY <1>1, <2>1
    <3> QED BY <1>8, <1>1, <1>5, <1>9, <2>1, <3>1
  <2>3. SubSeq(a, 2, W + 1) = [i \in 1..W |-> a[i + 1]]
    <3>1. SubSeq(a, 2, W + 1) = [i \in 1 .. (W + 1) - 2 + 1 |-> a[2 + i - 1]]
      BY <1>1, <1>6, <2>1
    <3>2. (W + 1) - 2 + 1 = W /\ \A i \in 1..W : 2 + i - 1 = i + 1
      BY <1>1
    <3> QED BY <3>1, <3>2
  <2>4. \A i \in 1..W : a[i + 1] = fp(q[(L + 1) - n + i])
    <3> TAKE i \in 1..W
    <3>1. i + 1 \in 1 .. m + 1 /\ L - m + (i + 1) = (L + 1) - n + i
      BY <1>1, <2>1
    <3> QED BY <1>7, <3>1
  <2>5. v = [i \in 1..W |-> a[i + 1]]
    BY <1>3, <2>1, <2>4
  <2> QED BY <2>2, <2>3, <2>5 DEF a, v, w, fp, q
<1>10. CASE ~(m + 1 > W)
  <2>1. n = m + 1 /\ Loop!LastOf(a) = a /\ L - m = (L + 1) - n
    BY <1>1, <1>5, <1>8, <1>10
  <2>2. a = [i \in 1..n |-> a[i]]
    <3>1. PICK S : a \in Seq(S)
      BY <1>6
    <3>2. DOMAIN a = 1 .. Len(a) /\ a = [i \in DOMAIN a |-> a[i]]
      BY <3>1
    <3> QED BY <1>5, <2>1, <3>2
  <2>3. v = [i \in 1..n |-> a[i]]
    BY <1>3, <1>7, <2>1
  <2> QED BY <2>1, <2>2, <2>3 DEF a, v, w, fp, q
<1> QED BY <1>1, <1>9, <1>10

(* What the detector counts is what the run repeated.                           *)
LEMMA CountIsRepeats ==
    ASSUME Loop!ConstantsOK, NEW r \in Seq(Seq(Calls)), r # << >>
    PROVE  Loop!repeats(WindowOf(r)) = Repeats(r, Len(r))
<1> DEFINE W == Loop!windowTurns
           L == Len(r)
           m == InWindow(L)
           w == WindowOf(r)
           A == {i \in DOMAIN w : w[i] = Loop!Last(w)}
           B == {k \in 1..L : k > L - W /\ Loop!ToBag(r[k]) = Loop!ToBag(r[L])}
           f == [i \in A |-> L - m + i]
<1>1. /\ W \in Nat /\ W > 0 /\ L \in Nat /\ L > 0 /\ m \in 1..L /\ m <= W
      /\ m = (IF L > W THEN W ELSE L)
  <2>1. L \in Nat /\ L > 0
    OBVIOUS
  <2> HIDE DEF L
  <2> QED BY <2>1, LoopNumbers DEF InWindow
<1>2. w = [i \in 1..m |-> Loop!fingerprintTurn(r[L - m + i])]
  BY DEF WindowOf
<1>3. \A k \in 1..L : r[k] \in Seq(Nat)
  <2> TAKE k \in 1..L
  <2>1. r[k] \in Seq(Calls)
    OBVIOUS
  <2>2. Seq(Calls) \subseteq Seq(Nat)
    BY LoopNumbers
  <2> QED BY <2>1, <2>2
<1> HIDE DEF m, w, W, L
<1>4. DOMAIN w = 1..m /\ \A i \in 1..m : w[i] = Loop!fingerprintTurn(r[L - m + i])
  BY <1>2
<1>5. Len(w) = m
  <2> DEFINE S == {w[i] : i \in 1..m}
  <2>1. w \in [1..m -> S]
    BY <1>2
  <2> HIDE DEF S
  <2> QED BY <1>1, <2>1
<1>6. Loop!Last(w) = Loop!fingerprintTurn(r[L])
  <2>1. Loop!Last(w) = w[m]
    BY <1>5 DEF Loop!Last
  <2>2. m \in 1..m /\ L - m + m = L
    BY <1>1
  <2> QED BY <1>4, <2>1, <2>2
<1>7. \A i \in 1..m : L - m + i \in 1..L /\ L - m + i > L - W
  BY <1>1
<1>8. \A i \in 1..m : w[i] = Loop!Last(w) <=> Loop!ToBag(r[L - m + i]) = Loop!ToBag(r[L])
  <2> TAKE i \in 1..m
  <2>1. r[L - m + i] \in Seq(Nat) /\ r[L] \in Seq(Nat)
    <3>1. L \in 1..L
      BY <1>1
    <3> QED BY <1>3, <1>7, <3>1
  <2> QED BY <1>4, <1>6, <2>1, SignaturesTell
<1>9. \A i \in A : i \in 1..m /\ L - m + i \in B
  BY <1>4, <1>7, <1>8
<1>10. \A k \in B : k - (L - m) \in A /\ L - m + (k - (L - m)) = k
  <2> TAKE k \in B
  <2>1. k \in 1..L /\ k > L - W /\ Loop!ToBag(r[k]) = Loop!ToBag(r[L])
    OBVIOUS
  <2>2. k - (L - m) \in 1..m /\ L - m + (k - (L - m)) = k
    BY <1>1, <2>1
  <2> QED BY <1>4, <1>8, <2>1, <2>2
<1>11. IsFiniteSet(A)
  <2>1. A \in SUBSET (1..m) /\ IsFiniteSet(1..m)
    BY <1>1, <1>4, FS_Interval
  <2> HIDE DEF A
  <2> QED BY <2>1, FS_Subset
<1> HIDE DEF A, B
<1>12. f \in Bijection(A, B)
  <2>1. f \in [A -> B]
    BY <1>9
  <2>2. \A i, j \in A : f[i] = f[j] => i = j
    BY <1>1, <1>9
  <2>3. \A k \in B : \E i \in A : f[i] = k
    BY <1>10
  <2> QED BY <2>1, <2>2, <2>3 DEF Bijection, Injection, IsInjective, Surjection
<1>13. Cardinality(A) = Cardinality(B)
  BY <1>11, <1>12, FS_Bijection DEF ExistsBijection
<1>14. Loop!repeats(w) = Cardinality(A)
  <2>1. Loop!repeats(w) = Loop!Cardinality(A)
    BY Zenon DEF Loop!repeats, A
  <2>2. \A S : Loop!Cardinality(S) = Cardinality(S)
    BY Zenon DEF Loop!Cardinality, Cardinality
  <2> QED BY <2>1, <2>2
<1>15. Repeats(r, L) = Cardinality(B)
  BY DEF Repeats, B, W
<1> QED BY <1>13, <1>14, <1>15 DEF w, L

LEMMA LoopStart == ASSUME Loop!ConstantsOK, Loop!Init PROVE LoopInv
<1>1. rounds = << >> /\ recent = << >> /\ ended = "no"
  BY DEF Loop!Init
<1>2. Len(<< >>) = 0 /\ << >> \in Seq(Seq(Calls))
  OBVIOUS
<1>3. InWindow(0) = 0
  BY LoopNumbers DEF InWindow
<1>4. WindowOf(<< >>) = << >>
  BY <1>2, <1>3 DEF WindowOf
<1> QED BY <1>1, <1>2, <1>4, LoopNumbers DEF LoopInv

LEMMA LoopStep == ASSUME Loop!ConstantsOK, LoopInv, [Loop!Next]_loopVars PROVE LoopInv'
<1>0. rounds \in Seq(Seq(Calls)) /\ Len(rounds) \in Nat
  BY DEF LoopInv
<1>1. CASE UNCHANGED loopVars
  BY <1>1 DEF LoopInv, loopVars
<1>2. CASE Loop!Answers
  <2>1. ended = "no" /\ ended' = "answer" /\ rounds' = rounds /\ recent' = recent
    BY <1>2 DEF Loop!Answers
  <2> QED BY <2>1 DEF LoopInv
<1>3. ASSUME NEW n \in 1..MaxParallel, NEW obs \in [1..n -> Calls], Loop!Round(obs)
      PROVE  LoopInv'
  <2> DEFINE window == Loop!LastOf(Append(recent, Loop!fingerprintTurn(obs)))
             L == Len(rounds)
             q == Append(rounds, obs)
  <2>1. /\ ended = "no" /\ rounds' = q /\ recent' = window
        /\ \/ ended' = IF Loop!repeats(window) > Loop!threshold THEN "loop"
                       ELSE IF Len(rounds') = MaxIterations THEN "cap" ELSE "no"
           \/ Loop!repeats(window) <= Loop!threshold /\ ended' = "budget"
    BY <1>3, Zenon DEF Loop!Round
  <2>2. obs \in Seq(Calls)
    <3>1. n \in Nat
      BY <1>3
    <3> QED BY <3>1
  <2>3. q \in Seq(Seq(Calls)) /\ q # << >> /\ Len(q) = L + 1 /\ \A k \in 1..L : q[k] = rounds[k]
    BY <1>0, <2>2
  <2>4. window = WindowOf(q)
    BY <1>0, <2>2, WindowMoves DEF LoopInv
  <2> HIDE DEF window, q
  <2>5. Loop!repeats(window) = Repeats(q, L + 1)
    BY <2>3, <2>4, CountIsRepeats
  <2>6. L < MaxIterations /\ L \in Nat /\ MaxIterations \in Nat /\ Loop!threshold \in Nat
    BY <1>0, <2>1, LoopNumbers DEF LoopInv
  <2>7. Repeats(q, L + 1) \in Nat
    <3> DEFINE B == {k \in 1 .. L + 1 : k > (L + 1) - Loop!windowTurns /\ Loop!ToBag(q[k]) = Loop!ToBag(q[L + 1])}
    <3>1. IsFiniteSet(1 .. L + 1) /\ B \in SUBSET (1 .. L + 1)
      BY <2>6, FS_Interval
    <3> HIDE DEF B
    <3>2. Cardinality(B) \in Nat
      BY <3>1, FS_Subset, FS_CardinalityType
    <3> QED BY <3>2 DEF Repeats, B
  <2>8. /\ ended' \in {"no", "loop", "cap", "budget"}
        /\ (ended' = "loop" <=> Repeats(q, L + 1) > Loop!threshold)
        /\ (ended' = "no" => L + 1 # MaxIterations)
    BY <2>1, <2>3, <2>5, <2>6, <2>7
  <2>9. ASSUME NEW l \in 1 .. L
        PROVE  Repeats(q, l) = Repeats(rounds, l)
    <3>1. l \in Nat /\ \A k \in 1..l : q[k] = rounds[k]
      BY <2>3, <2>6
    <3>2. l \in 1..l
      BY <3>1
    <3>3. {k \in 1..l : k > l - Loop!windowTurns /\ Loop!ToBag(q[k]) = Loop!ToBag(q[l])}
             = {k \in 1..l : k > l - Loop!windowTurns /\ Loop!ToBag(rounds[k]) = Loop!ToBag(rounds[l])}
      BY <3>1, <3>2
    <3> QED BY <3>3 DEF Repeats
  <2>10. ASSUME NEW l \in 1 .. L + 1
         PROVE  Repeats(q, l) > Loop!threshold <=> l = L + 1 /\ ended' = "loop"
    <3>1. CASE l = L + 1
      BY <2>8, <3>1
    <3>2. CASE l # L + 1
      <4>1. l \in 1..L
        BY <2>6, <3>2
      <4>2. ~(Repeats(rounds, l) > Loop!threshold)
        BY <2>1, <4>1 DEF LoopInv
      <4> QED BY <2>9, <3>2, <4>1, <4>2
    <3> QED BY <3>1, <3>2
  <2>11. L + 1 <= MaxIterations /\ (ended' = "no" => L + 1 < MaxIterations)
    BY <2>6, <2>8
  <2>12. recent' = WindowOf(q) /\ rounds' = q
    BY <2>1, <2>4
  <2> QED BY <2>3, <2>8, <2>10, <2>11, <2>12 DEF LoopInv
<1> QED BY <1>1, <1>2, <1>3 DEF Loop!Next

(* For every window and threshold, and whatever order calls come in: a run is     *)
(* stopped in the very round in which some work has been done, with the same      *)
(* answer, more than threshold times, and never for a loop before.                *)
THEOREM StuckRunsStop == ASSUME Loop!ConstantsOK PROVE FrontSpec => []StoppedWhenStuck
<1>1. FrontInit => LoopInv
  BY LoopStart DEF FrontInit
<1>2. LoopInv /\ [FrontNext]_frontVars => LoopInv'
  <2>1. [FrontNext]_frontVars => [Loop!Next]_loopVars
    BY DEF FrontNext, ManagerNext, WorkspaceNext, SkillNext, CommandNext, ConfigNext, KeyboardNext, SetupNext,
           ShadowNext, LoginNext, LoopNext, AgentsNext, frontVars
  <2> QED BY <2>1, LoopStep
<1>3. LoopInv => StoppedWhenStuck
  <2> SUFFICES ASSUME LoopInv PROVE Loop!TypeOK /\ Loop!StoppedWhenStuck
    BY DEF StoppedWhenStuck
  <2>1. rounds \in Seq(Seq(Calls)) /\ Len(rounds) \in Nat /\ DOMAIN rounds = 1 .. Len(rounds)
    BY DEF LoopInv
  <2>2. Loop!TypeOK
    <3> DEFINE m == InWindow(Len(rounds))
               S == {recent[i] : i \in 1..m}
    <3>1. m \in Nat /\ m <= Loop!windowTurns
      BY <2>1, LoopNumbers
    <3>2. recent = [i \in 1..m |-> Loop!fingerprintTurn(rounds[Len(rounds) - m + i])]
      BY DEF LoopInv, WindowOf
    <3> HIDE DEF m
    <3>3. recent \in [1..m -> S]
      BY <3>2
    <3> HIDE DEF S
    <3>4. Len(recent) = m
      BY <3>1, <3>3
    <3> QED BY <3>1, <3>4 DEF Loop!TypeOK, LoopInv
  <2>3. \A l \in 1 .. Len(rounds) : Loop!Repeated(l) = Repeats(rounds, l)
    <3> TAKE l \in 1 .. Len(rounds)
    <3>1. \A S : Loop!Cardinality(S) = Cardinality(S)
      BY Zenon DEF Loop!Cardinality, Cardinality
    <3> QED BY <3>1, Zenon DEF Loop!Repeated, Repeats, Loop!SameWork
  <2> QED BY <2>1, <2>2, <2>3 DEF Loop!StoppedWhenStuck, LoopInv
<1> QED BY <1>1, <1>2, <1>3, PTL DEF FrontSpec

=============================================================================
