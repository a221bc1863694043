----------------------------- MODULE JobWorkspace -----------------------------
(***************************************************************************)
(* Where a background job works (internal/jobs/workspace.go, worktree.go,  *)
(* remote_worktree.go, verify_root.go, resubmit.go; the resolver and the   *)
(* opener of cmd/packetcode/main.go; internal/computers/registry.go).      *)
(*                                                                         *)
(* A workspace is the local checkout or a Packet Computer behind an        *)
(* endpoint (address, host key and registered root).  The registry maps a  *)
(* computer to its endpoint; it is a file that every packetcode of the     *)
(* user rewrites.  A root is the primary checkout of a workspace or the    *)
(* worktree of one job there.                                              *)
(***************************************************************************)
EXTENDS Integers, FiniteSets

CONSTANTS
    Jobs,        \* ids
    Computers,
    Endpoints,
    Callers,     \* of Resubmit
    NoJob,
    MayRepoint   \* the registry may change while a resubmission is under way

ConstantsOK == NoJob \notin Jobs /\ MayRepoint \in BOOLEAN

VARIABLES
    registry,     \* the endpoint of each computer, 0 when it is not registered
    default,      \* Config.DefaultWorkspace of this process
    job,          \* each job's record
    root,         \* where its tools work
    trees,        \* worktrees there are, by workspace and job id
    worktreeRoots, verifyRoots,   \* Manager's: jobs with a tree, and what verifiers verify
    resubmit      \* each caller of Resubmit: [pc, old, new]

vars == <<registry, default, job, root, trees, worktreeRoots, verifyRoots, resubmit>>

-----------------------------------------------------------------------------
Local       == [computer |-> "local", endpoint |-> 0]
Remote(c)   == [computer |-> c, endpoint |-> registry[c]]
Workspaces  == {Local} \cup [computer : Computers, endpoint : Endpoints]

NoRoot      == [kind |-> "none", at |-> Local, id |-> NoJob]
Primary(ws) == [kind |-> "primary", at |-> ws, id |-> NoJob]
Tree(ws, j) == [kind |-> "tree", at |-> ws, id |-> j]

NoRecord == [state |-> "none", ws |-> Local, write |-> FALSE, parent |-> NoJob, recovered |-> FALSE,
             resubmitOf |-> NoJob, resubmittedAs |-> NoJob]
Record(ws, w, p) == [NoRecord EXCEPT !.state = "queued", !.ws = ws, !.write = w, !.parent = p]
Spawned == {j \in Jobs : job[j].state # "none"}
Running == {j \in Jobs : job[j].state = "running"}
Idle    == [pc |-> "idle", old |-> NoJob, new |-> NoJob]

-----------------------------------------------------------------------------
Init ==
    /\ registry \in [Computers -> {0} \cup Endpoints]
    /\ default = Local
    /\ job = [j \in Jobs |-> NoRecord] /\ root = [j \in Jobs |-> NoRoot]
    /\ trees = {} /\ worktreeRoots = {} /\ verifyRoots = [j \in Jobs |-> NoJob]
    /\ resubmit = [k \in Callers |-> Idle]

\* resolveSpawnWorkspace: the workspaces a spawn may resolve to.  A nested job
\* stays in its parent's, whatever it asks for.
resolveSpawnWorkspace(selector, parent) ==
    LET named == {Remote(c) : c \in {c \in Computers : c = selector /\ registry[c] # 0}}
    IN  IF parent # NoJob THEN IF selector = "none" THEN {job[parent].ws} ELSE named \cap {job[parent].ws}
        ELSE IF selector = "none" THEN {default} ELSE named

\* resolveVerifyRoot: what the new job verifies, if the spawn is allowed.
resolveVerifyRoot(ws, write, target) ==
    IF target = NoJob THEN {NoJob}
    ELSE IF write THEN {}
    ELSE IF target \notin worktreeRoots THEN {NoJob}
    ELSE {t \in {target} : job[t].ws.computer = ws.computer /\ (ws = Local => Tree(Local, t) \in trees)}

Spawn(j) ==
    /\ job[j].state = "none"
    /\ \E write \in BOOLEAN, selector \in {"none"} \cup Computers, target \in {NoJob} \cup Spawned :
       \E parent \in {NoJob} \cup {p \in Running : write => job[p].write} :
         \E ws \in resolveSpawnWorkspace(selector, parent) :
            \E v \in resolveVerifyRoot(ws, write, target) :
               /\ job' = [job EXCEPT ![j] = Record(ws, write, parent)]
               /\ verifyRoots' = [verifyRoots EXCEPT ![j] = v]
    /\ UNCHANGED <<registry, default, root, trees, worktreeRoots, resubmit>>

-----------------------------------------------------------------------------
\* The worker: the job leaves the queue, and ends without a root if none can be
\* had.
RunsAt(j, r) == job' = [job EXCEPT ![j].state = "running"] /\ root' = [root EXCEPT ![j] = r]
Fails(j)     == job' = [job EXCEPT ![j].state = "ended"] /\ root' = [root EXCEPT ![j] = NoRoot]

\* Mutant: a worktree path that exists is used as it is.
createOrReuseWorktree(j) ==
    /\ trees' = trees \cup {Tree(Local, j)} /\ worktreeRoots' = worktreeRoots \cup {j}
    /\ RunsAt(j, Tree(Local, j))

\* createWorktree: the directory must not exist; git, or the sentinel after it,
\* may fail and leave the tree behind.
createWorktree(j) ==
    \/ /\ Tree(Local, j) \notin trees
       /\ trees' = trees \cup {Tree(Local, j)} /\ worktreeRoots' = worktreeRoots \cup {j}
       /\ RunsAt(j, Tree(Local, j))
    \/ /\ trees' \in {trees, trees \cup {Tree(Local, j)}}
       /\ Fails(j) /\ UNCHANGED worktreeRoots

\* runJob, local: a verifier's tree is looked at again before it is used.
PrepareLocal(j) ==
    /\ job[j].state = "queued" /\ job[j].ws = Local
    /\ IF job[j].write THEN createWorktree(j)
       ELSE /\ IF verifyRoots[j] = NoJob THEN RunsAt(j, Primary(Local))
               ELSE IF Tree(Local, verifyRoots[j]) \in trees THEN RunsAt(j, Tree(Local, verifyRoots[j]))
               ELSE Fails(j)
            /\ UNCHANGED <<trees, worktreeRoots>>
    /\ UNCHANGED <<registry, default, verifyRoots, resubmit>>

\* Mutant: the computer is opened wherever it is registered now.
openAnyEndpoint(j) ==
    IF registry[job[j].ws.computer] = 0 THEN {} ELSE {Remote(job[j].ws.computer)}

\* openBackend: only while the registry says what the job was bound to.
openBackend(j) ==
    IF registry[job[j].ws.computer] = job[j].ws.endpoint THEN {job[j].ws} ELSE {}

\* prepareRemoteBackend.  A writer's first connection makes the worktree, whose
\* name is the job's alone on that computer, and is closed.
PrepareRemote(j) ==
    /\ job[j].state = "queued" /\ job[j].ws # Local
    /\ \/ Fails(j)
       \/ \E ws \in openBackend(j) :
            IF job[j].write THEN /\ job' = [job EXCEPT ![j].state = "preparing"]
                                 /\ root' = [root EXCEPT ![j] = Primary(ws)]
            ELSE RunsAt(j, IF verifyRoots[j] = NoJob THEN Primary(ws) ELSE Tree(ws, verifyRoots[j]))
    /\ UNCHANGED <<registry, default, trees, worktreeRoots, verifyRoots, resubmit>>

createRemoteWorktree(j) ==
    /\ job[j].state = "preparing" /\ root[j].kind = "primary"
    /\ \/ /\ trees' = trees \cup {Tree(root[j].at, j)} /\ worktreeRoots' = worktreeRoots \cup {j}
          /\ root' = [root EXCEPT ![j] = Tree(@.at, j)] /\ UNCHANGED job
       \/ Fails(j) /\ UNCHANGED <<trees, worktreeRoots>>
    /\ UNCHANGED <<registry, default, verifyRoots, resubmit>>

\* ... and a second connection is opened at the worktree.
ReopenAtWorktree(j) ==
    /\ job[j].state = "preparing" /\ root[j].kind = "tree"
    /\ \/ Fails(j)
       \/ \E ws \in openBackend(j) : RunsAt(j, Tree(ws, j))
    /\ UNCHANGED <<registry, default, trees, worktreeRoots, verifyRoots, resubmit>>

JobEnds(j) ==
    /\ job[j].state \in {"queued", "preparing", "running"}
    /\ Fails(j)
    /\ UNCHANGED <<registry, default, trees, worktreeRoots, verifyRoots, resubmit>>

-----------------------------------------------------------------------------
\* Mutant: a second request for the same job is not turned away.
ResubmittableTwice(j) == job[j].state = "ended" /\ job[j].recovered /\ job[j].resubmittedAs = NoJob

Resubmittable(j) ==
    /\ job[j].state = "ended" /\ job[j].recovered /\ job[j].resubmittedAs = NoJob
    /\ \A k \in Callers : resubmit[k].old # j

\* Resubmit up to Spawn: the workspace of the record must still be what it was.
BeginResubmit(k, j) ==
    /\ resubmit[k] = Idle /\ Resubmittable(j)
    /\ job[j].ws \in IF job[j].ws = Local THEN {default} ELSE {Remote(job[j].ws.computer)}
    /\ resubmit' = [resubmit EXCEPT ![k] = [pc |-> "spawn", old |-> j, new |-> NoJob]]
    /\ UNCHANGED <<registry, default, job, root, trees, worktreeRoots, verifyRoots>>

\* Spawn resolves the workspace once more.
ResubmitSpawns(k, n) ==
    LET old      == resubmit[k].old
        selector == IF job[old].ws = Local THEN "none" ELSE job[old].ws.computer
        found    == resolveSpawnWorkspace(selector, job[old].parent)
    IN  /\ resubmit[k].pc = "spawn" /\ job[n].state = "none"
        /\ IF found = {} THEN resubmit' = [resubmit EXCEPT ![k] = Idle] /\ UNCHANGED job
           ELSE \E ws \in found :
                  /\ job' = [job EXCEPT ![n] = Record(ws, job[old].write, job[old].parent)]
                  /\ resubmit' = [resubmit EXCEPT ![k].pc = "link", ![k].new = n]
        /\ UNCHANGED <<registry, default, root, trees, worktreeRoots, verifyRoots>>

ResubmitLinks(k) ==
    /\ resubmit[k].pc = "link"
    /\ job' = [job EXCEPT ![resubmit[k].old].resubmittedAs = resubmit[k].new,
                          ![resubmit[k].new].resubmitOf = resubmit[k].old]
    /\ resubmit' = [resubmit EXCEPT ![k] = Idle]
    /\ UNCHANGED <<registry, default, root, trees, worktreeRoots, verifyRoots>>

-----------------------------------------------------------------------------
\* /computers, in this process or another: a computer is removed, or registered
\* again under its old id.
Repoint(c, e) ==
    /\ (registry[c] = 0) = (e # 0)
    /\ MayRepoint \/ \A k \in Callers : resubmit[k] = Idle
    /\ registry' = [registry EXCEPT ![c] = e]
    /\ UNCHANGED <<default, job, root, trees, worktreeRoots, verifyRoots, resubmit>>

\* A job of another process makes a worktree under an id free here; a user
\* removes the worktree of a job that is not at work.
OthersWork(j) ==
    /\ \/ job[j].state = "none" /\ trees' = trees \cup {Tree(Local, j)}
       \/ /\ \A i \in Running : root[i].id # j
          /\ \E ws \in Workspaces : Tree(ws, j) \in trees /\ trees' = trees \ {Tree(ws, j)}
    /\ UNCHANGED <<registry, default, job, root, worktreeRoots, verifyRoots, resubmit>>

\* The process ends and is started again, here or for a computer.
Restart ==
    /\ default' \in {Local} \cup {Remote(c) : c \in {c \in Computers : registry[c] # 0}}
    /\ job' = [j \in Jobs |-> IF job[j].state \in {"queued", "preparing", "running"}
                              THEN [job[j] EXCEPT !.state = "ended", !.recovered = TRUE] ELSE job[j]]
    /\ root' = [j \in Jobs |-> NoRoot]
    /\ worktreeRoots' = {} /\ verifyRoots' = [j \in Jobs |-> NoJob]
    /\ resubmit' = [k \in Callers |-> Idle]
    /\ UNCHANGED <<registry, trees>>

Next ==
    \/ Restart
    \/ \E j \in Jobs :
         \/ Spawn(j) \/ PrepareLocal(j) \/ PrepareRemote(j) \/ createRemoteWorktree(j)
         \/ ReopenAtWorktree(j) \/ JobEnds(j) \/ OthersWork(j)
    \/ \E k \in Callers :
         \/ ResubmitLinks(k)
         \/ \E j \in Jobs : BeginResubmit(k, j) \/ ResubmitSpawns(k, j)
    \/ \E c \in Computers, e \in {0} \cup Endpoints : Repoint(c, e)

Spec == Init /\ [][Next]_vars

-----------------------------------------------------------------------------
TypeOK ==
    /\ \A j \in Jobs : job[j].ws \in Workspaces /\ root[j].at \in Workspaces
    /\ trees \subseteq {Tree(ws, j) : ws \in Workspaces, j \in Jobs}
    /\ worktreeRoots \subseteq Jobs /\ verifyRoots \in [Jobs -> Jobs \cup {NoJob}]

\* worktree.go and remote_worktree.go, "There is deliberately no fallback": a
\* job works in the workspace it was bound to; a writer has a worktree nobody
\* made before it, and shares it with its verifiers only.
WritersAreApart ==
    \A j \in Running :
        /\ root[j].at = job[j].ws
        /\ job[j].write => root[j] = Tree(job[j].ws, j)
        /\ \A i \in Running \ {j} : job[i].write /\ root[i] = root[j] => verifyRoots[j] = i
NoTreeIsTakenOver ==
    [][\A j \in Jobs : root'[j] # root[j] /\ root'[j].kind = "tree" /\ root'[j].id = j /\ job[j].ws = Local
          => root'[j] \notin trees]_vars

\* resubmit.go, "Only jobs marked Recovered are eligible, and only once": two
\* successors of one job never come from one run of the application.
ResubmittedOnce ==
    \A k, l \in Callers : k # l /\ resubmit[k].pc = "link" => resubmit[l].old # resubmit[k].old

\* resubmit.go, "The resolver must compare the current endpoint/root identity
\* before a new run is allowed": the successor works where the old job did.
\* (Does not hold: README, Observations.)
SuccessorStays ==
    \A j \in Jobs : job[j].resubmitOf # NoJob => job[j].ws = job[job[j].resubmitOf].ws

=============================================================================
