------------------------ MODULE MCConversation_proofs ------------------------
(***************************************************************************)
(* What delegation keeps for any number of jobs, slots and calls, and      *)
(* trees of any depth: a job that its parent waits for stops with the call *)
(* of the parent, a result that is marked consumed has reached an agent or *)
(* was dropped by a cancelled call, and a job is only ever given results   *)
(* of its own descendants.  And what the permission policy keeps for       *)
(* policies and commands of any length: a denial is a floor, and a         *)
(* pre-approval ends with its turn.                                        *)
(***************************************************************************)
EXTENDS MCConversation, FiniteSetTheorems, SequenceTheorems, WellFoundedInduction, TLAPS

-----------------------------------------------------------------------------
(* The inductive invariant, in parts. *)

JobRec ==
    [state: {"unborn", "queued", "running", "ended", "cancelled"}, parent: Agents,
     depth: 0..MaxDepth, write: BOOLEAN, stop: BOOLEAN, waited: BOOLEAN]
CallRec ==
    [kind: {"none", "spawning", "spawn", "collect"}, asked: SUBSET Jobs, on: SUBSET Jobs,
     got: SUBSET Jobs]

TypeInv ==
    /\ job \in [Jobs -> JobRec] /\ call \in [Agents -> CallRec]
    /\ held \subseteq Known /\ strays \subseteq Known /\ consumed \subseteq Known
    /\ collects \in 0..MaxCollects

(* Jobs are numbered as they are spawned, children after their parents.      *)
TreeInv ==
    /\ \E n \in 0..MaxTotal : Known = 1..n
    /\ \A j \in Jobs : job[j].parent # Main => job[j].parent \in Known /\ job[j].parent < j

(* A call is that of an agent that exists, about jobs that exist; spawn_agent *)
(* waits for the one job it spawned.                                         *)
CallInv ==
    \A a \in Agents :
        /\ call[a].asked \subseteq Known /\ call[a].on \subseteq call[a].asked
        /\ call[a].got \subseteq call[a].asked
        /\ call[a].kind # "none" => a = Main \/ a \in Known
        /\ call[a].kind \in {"none", "spawning"} => call[a].asked = {}
        /\ call[a].kind = "spawn" => \E j \in Known : call[a].asked = {j} /\ job[j].parent = a

(* NoOrphan, and the call of the parent is still its spawn_agent.            *)
OrphanInv ==
    \A j \in Jobs : job[j].waited /\ Live(j) /\ ~job[j].stop =>
        call[job[j].parent].kind = "spawn" /\ j \in call[job[j].parent].on

(* An agent asks about its own descendants only.                             *)
OwnInv == \A a \in Jobs : \A j \in call[a].asked : a \in above[j]

TreeOK == TypeInv /\ TreeInv /\ CallInv /\ OrphanInv /\ ConsumedIsHeard /\ OwnInv

-----------------------------------------------------------------------------
(* Ancestors.  above is defined by recursion on a tree whose parents have    *)
(* smaller numbers, so that it is what its defining equation says.           *)

LEMMA Least ==
    ASSUME NEW N \in Nat, NEW T \in SUBSET (0..N), T # {}
    PROVE  \E n \in T : \A m \in T : n <= m
<1> DEFINE S == 1..N
           C == {1..n : n \in T}
<1>1. IsWellFoundedOn(StrictSubsetOrdering(S), SUBSET S)
  <2>1. IsFiniteSet(S)
    BY FS_Interval
  <2> HIDE DEF S
  <2>2. FiniteSubsetsOf(S) = SUBSET S
    BY <2>1, FS_FiniteSubsetsOfFinite
  <2> QED BY <2>2, FS_StrictSubsetOrderingWellFounded
<1>2. \A n \in T : 1..n \in SUBSET S
  OBVIOUS
<1>3. PICK X \in C : \A Y \in C : ~(<<Y, X>> \in StrictSubsetOrdering(S))
  <2>1. C \subseteq SUBSET S /\ C # {}
    BY <1>2
  <2> HIDE DEF C, S
  <2> QED BY <1>1, <2>1, WFMin
<1>4. PICK n \in T : X = 1..n
  OBVIOUS
<1>5. ASSUME NEW m \in T, m < n PROVE FALSE
  <2>1. 1..m \in C /\ 1..m \subseteq 1..n /\ 1..m # 1..n /\ 1..m \in SUBSET S /\ 1..n \in SUBSET S
    BY <1>5
  <2> QED BY <1>3, <1>4, <2>1 DEF StrictSubsetOrdering
<1> QED BY <1>5

(* The equation that defines above has a solution: a forest has ancestors.   *)
LEMMA ForestHasAncestors ==
    ASSUME NEW N \in Nat, NEW par \in [1..N -> Nat], \A j \in 1..N : par[j] < j
    PROVE  \E f : f = [j \in 1..N |-> IF par[j] = 0 THEN {} ELSE {par[j]} \cup f[par[j]]]
<1> DEFINE Solves(f, n) == /\ f \in [1..n -> SUBSET Nat]
                           /\ \A j \in 1..n : f[j] = IF par[j] = 0 THEN {} ELSE {par[j]} \cup f[par[j]]
           T == {n \in 0..N : ~\E f : Solves(f, n)}
<1>1. ASSUME T # {} PROVE FALSE
  <2>1. PICK n \in T : \A m \in T : n <= m
    BY <1>1, Least
  <2>2. n \in 0..N /\ ~\E f : Solves(f, n)
    OBVIOUS
  <2>3. n # 0
    <3>1. Solves([j \in 1..0 |-> {}], 0)
      OBVIOUS
    <3> QED BY <2>2, <3>1
  <2>4. n - 1 \in 0..N /\ n - 1 \notin T
    <3>1. n - 1 \in 0..N /\ ~(n <= n - 1)
      BY <2>2, <2>3
    <3> QED BY <2>1, <3>1
  <2>5. PICK f : Solves(f, n - 1)
    BY <2>4
  <2> DEFINE g == [j \in 1..n |-> IF j < n THEN f[j]
                                  ELSE IF par[n] = 0 THEN {} ELSE {par[n]} \cup f[par[n]]]
  <2>6. ASSUME NEW j \in 1..n
        PROVE  g[j] = (IF par[j] = 0 THEN {} ELSE {par[j]} \cup g[par[j]]) /\ g[j] \in SUBSET Nat
    <3>1. par[j] \in Nat /\ par[j] < j /\ j <= n /\ n \in Nat
      BY <2>2
    <3>2. par[j] # 0 => par[j] \in 1..n /\ par[j] \in 1..(n-1) /\ g[par[j]] = f[par[j]]
      BY <3>1
    <3>3. CASE j < n
      <4>1. j \in 1..(n-1) /\ g[j] = f[j]
        BY <3>1, <3>3
      <4> HIDE DEF g
      <4> QED BY <2>5, <3>2, <4>1
    <3>4. CASE j = n
      <4>1. g[j] = IF par[j] = 0 THEN {} ELSE {par[j]} \cup f[par[j]]
        BY <3>4
      <4> HIDE DEF g
      <4> QED BY <2>5, <3>1, <3>2, <4>1
    <3> QED BY <3>1, <3>3, <3>4
  <2>7. Solves(g, n)
    <3>1. g \in [1..n -> SUBSET Nat]
      BY <2>6
    <3> QED BY <2>6, <3>1
  <2> QED BY <2>2, <2>7
<1>2. PICK f : Solves(f, N)
  <2> HIDE DEF Solves
  <2>1. N \in 0..N /\ ~(T # {})
    BY <1>1
  <2> QED BY <2>1
<1>3. f = [j \in 1..N |-> f[j]]
  BY <1>2
<1>4. f = [j \in 1..N |-> IF par[j] = 0 THEN {} ELSE {par[j]} \cup f[par[j]]]
  BY <1>2, <1>3
<1> QED BY <1>4

LEMMA JobsFinite == ASSUME ConstantsOK PROVE MaxTotal \in Nat /\ MaxDepth \in Nat /\ MaxCollects \in Nat
BY DEF ConstantsOK

LEMMA AncestorsExist ==
    ASSUME ConstantsOK, NEW J, \A j \in Jobs : J[j].parent \in Nat /\ J[j].parent < j
    PROVE  \E f : f = [j \in Jobs |-> IF J[j].parent = Main THEN {} ELSE {J[j].parent} \cup f[J[j].parent]]
<1> DEFINE par == [j \in Jobs |-> J[j].parent]
<1>1. par \in [1..MaxTotal -> Nat] /\ \A j \in 1..MaxTotal : par[j] < j
  BY DEF Jobs
<1> HIDE DEF par
<1>2. PICK f : f = [j \in 1..MaxTotal |-> IF par[j] = 0 THEN {} ELSE {par[j]} \cup f[par[j]]]
  BY <1>1, JobsFinite, ForestHasAncestors
<1> QED BY <1>2 DEF par, Jobs, Main

LEMMA ParentsAreOlder ==
    ASSUME ConstantsOK, TypeInv, TreeInv
    PROVE  \A j \in Jobs : job[j].parent \in Nat /\ job[j].parent < j
BY JobsFinite DEF TypeInv, TreeInv, JobRec, Agents, Jobs, Main

LEMMA AboveIs ==
    ASSUME ConstantsOK, TypeInv, TreeInv
    PROVE  \A j \in Jobs : above[j] = IF job[j].parent = Main THEN {}
                                      ELSE {job[j].parent} \cup above[job[j].parent]
<1>1. PICK f : f = [j \in Jobs |-> IF job[j].parent = Main THEN {} ELSE {job[j].parent} \cup f[job[j].parent]]
  BY ParentsAreOlder, AncestorsExist
<1>2. above = [j \in Jobs |-> IF job[j].parent = Main THEN {}
                              ELSE {job[j].parent} \cup above[job[j].parent]]
  BY <1>1 DEF above
<1> QED BY <1>2

LEMMA AboveWillBe ==
    ASSUME ConstantsOK, TypeInv', TreeInv'
    PROVE  \A j \in Jobs : above'[j] = IF job'[j].parent = Main THEN {}
                                       ELSE {job'[j].parent} \cup above'[job'[j].parent]
<1>1. \A j \in Jobs : job'[j].parent \in Nat /\ job'[j].parent < j
  BY JobsFinite DEF TypeInv, TreeInv, JobRec, Agents, Jobs, Main
<1>2. PICK f : f = [j \in Jobs |-> IF job'[j].parent = Main THEN {} ELSE {job'[j].parent} \cup f[job'[j].parent]]
  BY <1>1, AncestorsExist
<1>3. above' = [j \in Jobs |-> IF job'[j].parent = Main THEN {}
                               ELSE {job'[j].parent} \cup above'[job'[j].parent]]
  BY <1>2 DEF above
<1> QED BY <1>3

(* A job whose parents stay keeps its ancestors. *)
LEMMA AboveStays ==
    ASSUME ConstantsOK, TypeInv, TreeInv, TypeInv', TreeInv',
           \A j \in Known : job'[j].parent = job[j].parent
    PROVE  \A j \in Known : above'[j] = above[j]
<1> DEFINE T == {j \in Known : above'[j] # above[j]}
<1>1. \A j \in Jobs : above[j] = IF job[j].parent = Main THEN {}
                                 ELSE {job[j].parent} \cup above[job[j].parent]
  BY AboveIs
<1>2. \A j \in Jobs : above'[j] = IF job'[j].parent = Main THEN {}
                                  ELSE {job'[j].parent} \cup above'[job'[j].parent]
  BY AboveWillBe
<1>3. ASSUME T # {} PROVE FALSE
  <2>1. T \in SUBSET (0..MaxTotal) /\ T \subseteq Jobs
    BY JobsFinite DEF Known, Jobs
  <2>2. PICK n \in T : \A m \in T : n <= m
    <3> HIDE DEF T
    <3> QED BY <1>3, <2>1, JobsFinite, Least
  <2>3. n \in Known /\ n \in Jobs /\ n \in Nat /\ above'[n] # above[n] /\ job'[n].parent = job[n].parent
    BY <2>1 DEF Jobs
  <2>4. CASE job[n].parent = Main
    BY <1>1, <1>2, <2>3, <2>4
  <2>5. CASE job[n].parent # Main
    <3>1. job[n].parent \in Known /\ job[n].parent < n
      BY <2>3, <2>5 DEF TreeInv
    <3>2. job[n].parent \notin T
      BY <2>2, <2>3, <3>1 DEF Known, Jobs
    <3>3. above'[job[n].parent] = above[job[n].parent]
      BY <3>1, <3>2
    <3>4. above[n] = {job[n].parent} \cup above[job[n].parent]
      BY <1>1, <2>3, <2>5
    <3>5. above'[n] = {job[n].parent} \cup above'[job[n].parent]
      BY <1>2, <2>3, <2>5
    <3> QED BY <2>3, <3>3, <3>4, <3>5
  <2> QED BY <2>4, <2>5
<1> QED BY <1>3

-----------------------------------------------------------------------------
(* What the actions do to the jobs. *)

(* No job is spawned, adopted or revived.                                    *)
JobsKept ==
    /\ job' \in [Jobs -> JobRec] /\ Known' = Known
    /\ \A j \in Jobs : /\ job'[j].parent = job[j].parent
                       /\ job'[j].waited => job[j].waited
                       /\ Live(j)' /\ ~job'[j].stop => Live(j) /\ ~job[j].stop

LEMMA KnownIs == Known = {j \in Jobs : job[j].state # "unborn"}
BY DEF Known

LEMMA Keeps ==
    ASSUME TypeInv
    PROVE  /\ UNCHANGED job => JobsKept
           /\ \A j \in Jobs : Cancel(j) => JobsKept
           /\ \A j \in Known, s \in {"ended", "cancelled"} : markTerminal(j, s) => JobsKept
           /\ \A j \in Jobs : job' = [job EXCEPT ![j].waited = FALSE] => JobsKept
           /\ \A j \in Jobs : job[j].state = "queued" /\ job' = [job EXCEPT ![j].state = "running"] => JobsKept
<1>1. job \in [Jobs -> JobRec]
  BY DEF TypeInv
<1>2. UNCHANGED job => JobsKept
  BY <1>1 DEF JobsKept, Known, Live
<1>3. ASSUME NEW j \in Jobs, job[j].state # "unborn", NEW st \in {"queued", "running", "ended", "cancelled"},
             NEW sp \in BOOLEAN, NEW w \in BOOLEAN,
             job' = [job EXCEPT ![j] = [job[j] EXCEPT !.state = st, !.stop = sp, !.waited = w]],
             w => job[j].waited, st \in {"queued", "running"} /\ ~sp => Live(j) /\ ~job[j].stop
      PROVE  JobsKept
  <2>1. [job[j] EXCEPT !.state = st, !.stop = sp, !.waited = w] \in JobRec
    BY <1>1, <1>3 DEF JobRec
  <2>2. job' \in [Jobs -> JobRec]
    BY <1>1, <1>3, <2>1
  <2>3. job'[j] = [job[j] EXCEPT !.state = st, !.stop = sp, !.waited = w] /\ \A i \in Jobs : i # j => job'[i] = job[i]
    BY <1>1, <1>3
  <2>4. job'[j].state = st /\ job'[j].stop = sp /\ job'[j].waited = w /\ job'[j].parent = job[j].parent
    BY <1>1, <2>3 DEF JobRec
  <2> QED BY <1>3, <2>2, <2>3, <2>4 DEF JobsKept, Known, Live
<1>4. \A j \in Jobs : job[j] \in JobRec /\ job[j].stop \in BOOLEAN /\ job[j].waited \in BOOLEAN
                      /\ job[j] = [job[j] EXCEPT !.state = job[j].state, !.stop = job[j].stop, !.waited = job[j].waited]
  BY <1>1 DEF JobRec
<1>5. ASSUME NEW j \in Jobs, Cancel(j) PROVE JobsKept
  <2>1. CASE Live(j)
    <3>1. job' = [job EXCEPT ![j] = [job[j] EXCEPT !.state = job[j].state, !.stop = TRUE, !.waited = job[j].waited]]
      BY <1>1, <1>5, <2>1 DEF Cancel, JobRec
    <3> QED BY <1>3, <1>4, <2>1, <3>1 DEF Live
  <2>2. CASE ~Live(j)
    BY <1>2, <1>5, <2>2 DEF Cancel
  <2> QED BY <2>1, <2>2
<1>6. ASSUME NEW j \in Known, NEW s \in {"ended", "cancelled"}, markTerminal(j, s) PROVE JobsKept
  <2>1. j \in Jobs /\ job[j].state # "unborn"
    BY DEF Known
  <2>2. job' = [job EXCEPT ![j] = [job[j] EXCEPT !.state = s, !.stop = FALSE, !.waited = job[j].waited]]
    BY <1>1, <1>6, <2>1 DEF markTerminal, JobRec
  <2> QED BY <1>3, <1>4, <2>1, <2>2
<1>7. ASSUME NEW j \in Jobs, job' = [job EXCEPT ![j].waited = FALSE] PROVE JobsKept
  <2>1. job'[j] = [job[j] EXCEPT !.waited = FALSE] /\ \A i \in Jobs : i # j => job'[i] = job[i]
    BY <1>1, <1>7
  <2> DEFINE r == [job[j] EXCEPT !.waited = FALSE]
  <2>2. r \in JobRec /\ r.state = job[j].state /\ r.stop = job[j].stop
        /\ r.parent = job[j].parent /\ r.waited = FALSE
    BY <1>4 DEF JobRec
  <2>3. job' \in [Jobs -> JobRec]
    BY <1>1, <1>7, <2>1, <2>2
  <2> QED BY <1>1, <2>1, <2>2, <2>3 DEF JobsKept, Known, Live
<1>8. ASSUME NEW j \in Jobs, job[j].state = "queued", job' = [job EXCEPT ![j].state = "running"] PROVE JobsKept
  <2>1. job' = [job EXCEPT ![j] = [job[j] EXCEPT !.state = "running", !.stop = job[j].stop, !.waited = job[j].waited]]
    BY <1>1, <1>8 DEF JobRec
  <2> QED BY <1>3, <1>4, <1>8, <2>1 DEF Live
<1> QED BY <1>2, <1>5, <1>6, <1>7, <1>8

-----------------------------------------------------------------------------
(* Steps that spawn nothing. *)

(* What a step must say of the call it changes, and of the children of its   *)
(* caller.                                                                   *)
GoodCall(a, c) ==
    /\ c \in CallRec /\ c.asked \subseteq Known /\ c.on \subseteq c.asked /\ c.got \subseteq c.asked
    /\ c.kind # "none" => a = Main \/ a \in Known
    /\ c.kind \in {"none", "spawning"} => c.asked = {}
    /\ c.kind = "spawn" => call[a].kind = "spawn" /\ c.asked = call[a].asked
    /\ a # Main => \A j \in c.asked : a \in above[j]

LEMMA CallMoves ==
    ASSUME ConstantsOK, TreeOK, JobsKept, held' \subseteq Known, strays' \subseteq Known,
           consumed' \subseteq Known, collects' \in 0..MaxCollects,
           NEW a \in Agents, NEW c, call' = [call EXCEPT ![a] = c], GoodCall(a, c),
           \A j \in Jobs : job[j].parent = a /\ job'[j].waited /\ Live(j)' /\ ~job'[j].stop =>
               c.kind = "spawn" /\ j \in c.on
    PROVE  TypeInv' /\ TreeInv' /\ CallInv' /\ OrphanInv' /\ OwnInv'
<1>1. call \in [Agents -> CallRec] /\ job \in [Jobs -> JobRec] /\ c \in CallRec
  BY DEF TreeOK, TypeInv, GoodCall
<1>2. call'[a] = c /\ \A b \in Agents : b # a => call'[b] = call[b]
  BY <1>1
<1>3. TypeInv'
  BY <1>1, Keeps DEF JobsKept, TypeInv
<1>4. TreeInv'
  BY DEF TreeOK, TreeInv, JobsKept
<1>5. CallInv'
  <2> SUFFICES ASSUME NEW b \in Agents
      PROVE  /\ call'[b].asked \subseteq Known /\ call'[b].on \subseteq call'[b].asked
             /\ call'[b].got \subseteq call'[b].asked
             /\ call'[b].kind # "none" => b = Main \/ b \in Known
             /\ call'[b].kind \in {"none", "spawning"} => call'[b].asked = {}
             /\ call'[b].kind = "spawn" => \E j \in Known : call'[b].asked = {j} /\ job[j].parent = b
    BY DEF CallInv, JobsKept, Known
  <2>1. CASE b = a
    BY <1>2, <2>1 DEF GoodCall, TreeOK, CallInv
  <2>2. CASE b # a
    BY <1>2, <2>2 DEF TreeOK, CallInv
  <2> QED BY <2>1, <2>2
<1>6. OrphanInv'
  <2> SUFFICES ASSUME NEW j \in Jobs, job'[j].waited, Live(j)', ~job'[j].stop
      PROVE  call'[job[j].parent].kind = "spawn" /\ j \in call'[job[j].parent].on
    BY DEF OrphanInv, JobsKept
  <2>1. job[j].waited /\ Live(j) /\ ~job[j].stop /\ job[j].parent \in Agents
    BY <1>1 DEF JobsKept, JobRec
  <2>2. call[job[j].parent].kind = "spawn" /\ j \in call[job[j].parent].on
    BY <2>1 DEF TreeOK, OrphanInv
  <2>3. CASE job[j].parent = a
    BY <1>2, <2>3
  <2>4. CASE job[j].parent # a
    BY <1>2, <2>1, <2>2, <2>4
  <2> QED BY <2>3, <2>4
<1>7. OwnInv'
  <2>1. \A j \in Known : above'[j] = above[j]
    BY <1>3, <1>4, AboveStays DEF TreeOK, JobsKept, Known
  <2> SUFFICES ASSUME NEW b \in Jobs, NEW j \in call'[b].asked PROVE b \in above'[j]
    BY DEF OwnInv
  <2>2. CASE b = a
    BY <1>2, <2>1, <2>2 DEF GoodCall, Jobs, Main
  <2>3. CASE b # a
    BY <1>2, <2>1, <2>3 DEF TreeOK, CallInv, OwnInv, Agents
  <2> QED BY <2>2, <2>3
<1> QED BY <1>3, <1>4, <1>5, <1>6, <1>7

(* Steps that leave the calls alone. *)
LEMMA CallsStay ==
    ASSUME ConstantsOK, TreeOK, JobsKept, held' \subseteq Known, strays' \subseteq Known,
           consumed' \subseteq Known, collects' \in 0..MaxCollects, UNCHANGED call
    PROVE  TypeInv' /\ TreeInv' /\ CallInv' /\ OrphanInv' /\ OwnInv'
<1>1. Main \in Agents /\ call \in [Agents -> CallRec]
  BY DEF Agents, TreeOK, TypeInv
<1>2. call' = [call EXCEPT ![Main] = call[Main]]
  BY <1>1
<1>3. GoodCall(Main, call[Main])
  BY <1>1 DEF GoodCall, TreeOK, CallInv
<1>4. \A j \in Jobs : job[j].parent = Main /\ job'[j].waited /\ Live(j)' /\ ~job'[j].stop =>
          call[Main].kind = "spawn" /\ j \in call[Main].on
  BY DEF TreeOK, OrphanInv, JobsKept
<1> QED BY <1>1, <1>2, <1>3, <1>4, CallMoves

LEMMA StepAside ==
    ASSUME ConstantsOK, TreeOK,
           \/ \E j \in Jobs : \/ AcquireSlot(j) \/ CancelledWhileQueued(j) \/ JobEnds(j)
                              \/ ReleaseSlot(j) \/ UserCancels(j) \/ StrayWakes(j)
           \/ TurnCancelled \/ NextTurn \/ UNCHANGED vars
    PROVE  TreeOK'
<1>1. held \subseteq Known /\ strays \subseteq Known /\ consumed \subseteq Known /\ collects \in 0..MaxCollects
      /\ TypeInv
  BY DEF TreeOK, TypeInv
<1>2. JobsKept /\ UNCHANGED <<call, collects, heard>> /\ held' \subseteq Known /\ strays' \subseteq Known
      /\ consumed' \subseteq Known /\ consumed' \subseteq consumed \cup dropped' /\ dropped \subseteq dropped'
  <2>1. ASSUME NEW j \in Jobs, AcquireSlot(j) PROVE <1>2
    <3>1. j \in Known /\ JobsKept
      BY <1>1, <2>1, Keeps DEF AcquireSlot, Known
    <3> QED BY <1>1, <2>1, <3>1 DEF AcquireSlot
  <2>2. ASSUME NEW j \in Jobs, CancelledWhileQueued(j) PROVE <1>2
    <3>1. j \in Known
      BY <2>2 DEF CancelledWhileQueued, Known
    <3> QED BY <1>1, <2>2, <3>1, Keeps DEF CancelledWhileQueued
  <2>3. ASSUME NEW j \in Jobs, JobEnds(j) PROVE <1>2
    <3>1. j \in Known
      BY <2>3 DEF JobEnds, Known
    <3> QED BY <1>1, <2>3, <3>1, Keeps DEF JobEnds
  <2>4. ASSUME NEW j \in Jobs, ReleaseSlot(j) PROVE <1>2
    BY <1>1, <2>4, Keeps DEF ReleaseSlot
  <2>5. ASSUME NEW j \in Jobs, UserCancels(j) PROVE <1>2
    BY <1>1, <2>5, Keeps DEF UserCancels
  <2>6. ASSUME NEW j \in Jobs, StrayWakes(j) PROVE <1>2
    BY <1>1, <2>6, Keeps DEF StrayWakes
  <2>7. CASE TurnCancelled \/ NextTurn \/ UNCHANGED vars
    BY <1>1, <2>7, Keeps DEF TurnCancelled, NextTurn, vars
  <2> QED BY <2>1, <2>2, <2>3, <2>4, <2>5, <2>6, <2>7
<1>3. TypeInv' /\ TreeInv' /\ CallInv' /\ OrphanInv' /\ OwnInv'
  BY <1>1, <1>2, CallsStay
<1>4. ConsumedIsHeard'
  BY <1>2 DEF TreeOK, ConsumedIsHeard
<1> QED BY <1>3, <1>4 DEF TreeOK

-----------------------------------------------------------------------------
(* Steps of a call. *)

LEMMA HeardMoves ==
    ASSUME TreeOK, NEW a \in Agents, NEW c, call' = [call EXCEPT ![a] = c],
           heard \subseteq heard', dropped \subseteq dropped',
           consumed' \subseteq consumed \cup c.got,
           call[a].got \subseteq c.got \cup heard' \cup dropped'
    PROVE  ConsumedIsHeard'
<1>1. call \in [Agents -> CallRec]
  BY DEF TreeOK, TypeInv
<1>2. call'[a] = c /\ \A b \in Agents : b # a => call'[b] = call[b]
  BY <1>1
<1>3. consumed \subseteq dropped \cup heard \cup UNION {call[b].got : b \in Agents}
  BY DEF TreeOK, ConsumedIsHeard
<1> SUFFICES ASSUME NEW j \in consumed', j \notin dropped', j \notin heard'
    PROVE  \E b \in Agents : j \in call'[b].got
  BY DEF ConsumedIsHeard
<1>4. CASE j \in c.got
  BY <1>2, <1>4
<1>5. CASE j \notin c.got
  <2>1. PICK b \in Agents : j \in call[b].got
    BY <1>3, <1>5
  <2> QED BY <1>2, <1>5, <2>1
<1> QED BY <1>4, <1>5

LEMMA CallFacts ==
    ASSUME TreeOK, NEW a \in Agents
    PROVE  /\ call[a] \in CallRec /\ call \in [Agents -> CallRec]
           /\ call[a].asked \subseteq Known /\ call[a].on \subseteq call[a].asked
           /\ call[a].got \subseteq call[a].asked
           /\ call[a].kind # "none" => a = Main \/ a \in Known
           /\ call[a].kind \in {"none", "spawning"} => call[a].asked = {}
           /\ a # Main => \A j \in call[a].asked : a \in above[j]
           /\ \A j \in Jobs : job[j].parent = a /\ job[j].waited /\ Live(j) /\ ~job[j].stop =>
                  call[a].kind = "spawn" /\ j \in call[a].on
           /\ TypeInv /\ held \subseteq Known /\ strays \subseteq Known /\ consumed \subseteq Known
           /\ collects \in 0..MaxCollects
BY DEF TreeOK, TypeInv, CallInv, OrphanInv, OwnInv, Agents

LEMMA CallSpawnStep ==
    ASSUME ConstantsOK, TreeOK, NEW a \in Agents, CallSpawn(a) PROVE TreeOK'
<1> DEFINE c == [call[a] EXCEPT !.kind = "spawning"]
<1>1. call[a].kind = "none" /\ (a # Main => a \in Known) /\ call' = [call EXCEPT ![a] = c]
  BY CallFacts DEF CallSpawn, Acts, Known, Agents
<1>2. GoodCall(a, c) /\ c.got = call[a].got
  BY <1>1, CallFacts DEF GoodCall, CallRec
<1>3. JobsKept /\ UNCHANGED <<job, held, strays, consumed, collects, heard, dropped>>
  BY Keeps DEF CallSpawn, TreeOK
<1>4. \A j \in Jobs : job[j].parent = a /\ job'[j].waited /\ Live(j)' /\ ~job'[j].stop => c.kind = "spawn" /\ j \in c.on
  BY <1>1, <1>3, CallFacts DEF Live
<1> HIDE DEF c
<1>5. ConsumedIsHeard'
  BY <1>1, <1>2, <1>3, HeardMoves
<1> QED BY <1>1, <1>2, <1>3, <1>4, <1>5, CallMoves, CallFacts DEF TreeOK

LEMMA CollectStep ==
    ASSUME ConstantsOK, TreeOK, NEW a \in Agents, Collect(a) PROVE TreeOK'
<1>1. PICK scope \in {"children", "descendants"}, ids \in SUBSET Known :
          call' = [call EXCEPT ![a] = [kind |-> "collect",
              asked |-> {j \in IF ids = {} THEN scoped(a, scope) ELSE ids : canCollect(a, scope, j)},
              on    |-> {j \in IF ids = {} THEN scoped(a, scope) ELSE ids : canCollect(a, scope, j)},
              got |-> {}]]
  BY DEF Collect
<1> DEFINE asked == {j \in IF ids = {} THEN scoped(a, scope) ELSE ids : canCollect(a, scope, j)}
           c     == [kind |-> "collect", asked |-> asked, on |-> asked, got |-> {}]
<1>2. asked \subseteq Known /\ \A j \in asked : canCollect(a, scope, j)
  BY DEF scoped
<1>3. a # Main => \A j \in asked : a \in above[j]
  <2> SUFFICES ASSUME a # Main, NEW j \in asked PROVE a \in above[j]
    OBVIOUS
  <2>1. j \in Jobs /\ (a \in above[j] \/ job[j].parent = a)
    BY <1>2 DEF canCollect, Known
  <2> QED BY <2>1, AboveIs DEF TreeOK
<1> HIDE DEF asked
<1>4. call[a].kind = "none" /\ (a # Main => a \in Known)
      /\ call' = [call EXCEPT ![a] = c]
  BY <1>1, CallFacts DEF Collect, Acts, Known, Agents, asked
<1>5. GoodCall(a, c)
  BY <1>2, <1>3, <1>4 DEF GoodCall, CallRec, Known
<1>6. JobsKept /\ UNCHANGED <<job, held, strays, consumed, heard, dropped>> /\ collects' \in 0..MaxCollects
  BY Keeps, JobsFinite DEF Collect, TreeOK, TypeInv
<1>7. \A j \in Jobs : job[j].parent = a /\ job'[j].waited /\ Live(j)' /\ ~job'[j].stop => c.kind = "spawn" /\ j \in c.on
  BY <1>4, <1>6, CallFacts DEF Live
<1>8. call[a].got = {}
  BY <1>4, CallFacts
<1>9. ConsumedIsHeard'
  BY <1>4, <1>6, <1>8, HeardMoves
<1> HIDE DEF c
<1> QED BY <1>4, <1>5, <1>6, <1>7, <1>9, CallMoves, CallFacts DEF TreeOK

LEMMA WaiterStep ==
    ASSUME ConstantsOK, TreeOK, NEW a \in Agents, NEW j \in Jobs, WaiterWakes(a, j) \/ WaiterTimesOut(a, j)
    PROVE  TreeOK'
<1>1. CASE WaiterWakes(a, j)
  <2> DEFINE c == [call[a] EXCEPT !.on = @ \ {j}, !.got = @ \cup {j}]
  <2>1. call' = [call EXCEPT ![a] = c] /\ j \in call[a].on /\ Terminal(j)
    BY <1>1, CallFacts DEF WaiterWakes
  <2>2. /\ c.kind = call[a].kind /\ c.asked = call[a].asked /\ c.on = call[a].on \ {j}
        /\ c.got = call[a].got \cup {j} /\ c \in CallRec
    BY <2>1, CallFacts DEF CallRec
  <2>3. j \in Known /\ JobsKept /\ UNCHANGED <<job, held, strays, collects, heard, dropped>> /\ consumed' = consumed \cup {j}
    BY <1>1, <2>1, CallFacts, Keeps DEF WaiterWakes
  <2> HIDE DEF c
  <2>4. GoodCall(a, c)
    BY <2>1, <2>2, CallFacts DEF GoodCall
  <2>5. \A i \in Jobs : job[i].parent = a /\ job'[i].waited /\ Live(i)' /\ ~job'[i].stop => c.kind = "spawn" /\ i \in c.on
    BY <2>1, <2>2, <2>3, CallFacts DEF Live, Terminal
  <2>6. ConsumedIsHeard'
    BY <2>1, <2>2, <2>3, HeardMoves
  <2> QED BY <2>1, <2>3, <2>4, <2>5, <2>6, CallMoves, CallFacts DEF TreeOK
<1>2. CASE WaiterTimesOut(a, j)
  <2> DEFINE c == [call[a] EXCEPT !.on = @ \ {j}]
  <2>1. call' = [call EXCEPT ![a] = c] /\ j \in call[a].on
    BY <1>2, CallFacts DEF WaiterTimesOut
  <2>2. /\ c.kind = call[a].kind /\ c.asked = call[a].asked /\ c.on = call[a].on \ {j}
        /\ c.got = call[a].got /\ c \in CallRec
    BY <2>1, CallFacts DEF CallRec
  <2>3. JobsKept /\ UNCHANGED <<held, strays, collects, consumed, heard, dropped>>
    BY <1>2, CallFacts, Keeps DEF WaiterTimesOut
  <2> HIDE DEF c
  <2>4. GoodCall(a, c)
    BY <2>1, <2>2, CallFacts DEF GoodCall
  <2>5. \A i \in Jobs : job[i].parent = a /\ job'[i].waited /\ Live(i)' /\ ~job'[i].stop => c.kind = "spawn" /\ i \in c.on
    <3> SUFFICES ASSUME NEW i \in Jobs, job[i].parent = a, job'[i].waited, Live(i)', ~job'[i].stop
        PROVE c.kind = "spawn" /\ i \in c.on
      OBVIOUS
    <3>1. job[i].waited /\ Live(i) /\ ~job[i].stop
      BY <2>3 DEF JobsKept
    <3>2. call[a].kind = "spawn" /\ i \in call[a].on
      BY <3>1, CallFacts
    <3>3. job' = [job EXCEPT ![j].waited = FALSE] /\ job \in [Jobs -> JobRec]
      BY <1>2, <3>2 DEF WaiterTimesOut, TreeOK, TypeInv
    <3>4. i # j
      BY <3>3 DEF JobRec
    <3> QED BY <2>2, <3>2, <3>4
  <2>6. ConsumedIsHeard'
    BY <2>1, <2>2, <2>3, HeardMoves
  <2> QED BY <2>1, <2>3, <2>4, <2>5, <2>6, CallMoves, CallFacts DEF TreeOK
<1> QED BY <1>1, <1>2

LEMMA NoCallIsGood == \A a \in Agents : GoodCall(a, NoCall)
BY DEF GoodCall, NoCall, CallRec

LEMMA ReturnStep ==
    ASSUME ConstantsOK, TreeOK, NEW a \in Agents, CallReturns(a) \/ CallCancelled(a)
    PROVE  TreeOK'
<1>1. call' = [call EXCEPT ![a] = NoCall] /\ NoCall.got = {}
  BY DEF CallReturns, CallCancelled, NoCall
<1>2. CASE CallReturns(a)
  <2>1. JobsKept /\ UNCHANGED <<job, held, strays, collects, consumed, dropped>>
        /\ heard' = heard \cup call[a].got /\ call[a].on = {}
    BY <1>2, CallFacts, Keeps DEF CallReturns, Gives
  <2>2. \A i \in Jobs : job[i].parent = a /\ job'[i].waited /\ Live(i)' /\ ~job'[i].stop => NoCall.kind = "spawn" /\ i \in NoCall.on
    BY <2>1, CallFacts DEF Live
  <2>3. ConsumedIsHeard'
    BY <1>1, <2>1, HeardMoves
  <2>4. TypeInv' /\ TreeInv' /\ CallInv' /\ OrphanInv' /\ OwnInv'
    BY <1>1, <2>1, <2>2, NoCallIsGood, CallMoves, CallFacts
  <2> QED BY <2>3, <2>4 DEF TreeOK
<1>3. CASE CallCancelled(a)
  <2>1. UNCHANGED <<held, consumed, collects, heard>> /\ strays' \subseteq Known
        /\ dropped' = dropped \cup (call[a].got \ heard)
    BY <1>3, CallFacts DEF CallCancelled
  <2>2. JobsKept /\ \A i \in Jobs : ~(job[i].parent = a /\ job'[i].waited /\ Live(i)' /\ ~job'[i].stop)
    <3>1. CASE call[a].kind = "spawn"
      <4>1. PICK j \in Known : call[a].asked = {j}
        BY <3>1 DEF TreeOK, CallInv
      <4>2. Cancel(j) /\ j \in Jobs
        BY <1>3, <3>1, <4>1 DEF CallCancelled, Cascade, Known
      <4>3. JobsKept
        BY <4>2, CallFacts, Keeps
      <4>4. ASSUME NEW i \in Jobs, job[i].parent = a, job'[i].waited, Live(i)', ~job'[i].stop PROVE FALSE
        <5>1. job[i].waited /\ Live(i) /\ ~job[i].stop
          BY <4>3, <4>4 DEF JobsKept
        <5>2. i = j
          BY <4>1, <4>4, <5>1, CallFacts
        <5>3. job' = [job EXCEPT ![j].stop = TRUE] /\ job \in [Jobs -> JobRec]
          BY <4>2, <5>1, <5>2 DEF Cancel, TreeOK, TypeInv
        <5> QED BY <4>4, <5>2, <5>3 DEF JobRec
      <4> QED BY <4>3, <4>4
    <3>2. CASE call[a].kind # "spawn"
      <4>1. UNCHANGED job
        BY <1>3, <3>2 DEF CallCancelled, Cascade
      <4> QED BY <3>2, <4>1, CallFacts, Keeps DEF Live
    <3> QED BY <3>1, <3>2
  <2>3. ConsumedIsHeard'
    BY <1>1, <2>1, HeardMoves
  <2>4. \A i \in Jobs : job[i].parent = a /\ job'[i].waited /\ Live(i)' /\ ~job'[i].stop => NoCall.kind = "spawn" /\ i \in NoCall.on
    BY <2>2
  <2>5. TypeInv' /\ TreeInv' /\ CallInv' /\ OrphanInv' /\ OwnInv'
    BY <1>1, <2>1, <2>2, <2>4, NoCallIsGood, CallMoves, CallFacts
  <2> QED BY <2>3, <2>5 DEF TreeOK
<1> QED BY <1>2, <1>3

-----------------------------------------------------------------------------
(* A new job. *)

LEMMA SpawnStep ==
    ASSUME ConstantsOK, TreeOK, NEW a \in Agents, NEW j, NEW wait \in BOOLEAN, NEW write \in BOOLEAN, NEW c,
           j = Cardinality(Known) + 1, Spawn(a, j, wait, write), call[a].kind = "spawning",
           c = IF wait THEN [kind |-> "spawn", asked |-> {j}, on |-> {j}, got |-> {}] ELSE NoCall,
           call' = [call EXCEPT ![a] = c],
           UNCHANGED <<held, turn, strays, consumed, collects, heard, dropped>>
    PROVE  TreeOK'
<1> DEFINE R == [state |-> "queued", parent |-> a, depth |-> Depth(a), write |-> write, stop |-> FALSE, waited |-> wait]
<1>1. PICK n \in 0..MaxTotal : Known = 1..n
  BY DEF TreeOK, TreeInv
<1>2. j = n + 1 /\ j \in Jobs /\ j \notin Known /\ n \in Nat /\ MaxTotal \in Nat
  <2>1. Cardinality(1..n) = n
    BY <1>1, FS_Interval, JobsFinite
  <2> QED BY <1>1, <2>1, JobsFinite DEF Spawn, Jobs
<1>3. job \in [Jobs -> JobRec] /\ call \in [Agents -> CallRec] /\ a \in Nat /\ (a # Main => a \in Known /\ a \in Jobs)
  BY JobsFinite, CallFacts DEF TreeOK, TypeInv, Agents, Main, Jobs
<1>4. R \in JobRec
  <2>1. Depth(a) \in 0..MaxDepth
    BY <1>3, JobsFinite DEF Spawn, Depth, JobRec
  <2> QED BY <2>1 DEF JobRec
<1>5. job' = [job EXCEPT ![j] = R]
  BY DEF Spawn
<1> HIDE DEF R
<1>6. job' \in [Jobs -> JobRec] /\ job'[j] = R /\ \A i \in Jobs : i # j => job'[i] = job[i]
  BY <1>2, <1>3, <1>4, <1>5
<1>7. R.parent = a /\ R.state = "queued" /\ R.waited = wait
  BY DEF R
<1>8. Known' = 1..(n + 1) /\ Known' = Known \cup {j}
  <2>1. Known' = Known \cup {j}
    BY <1>2, <1>6, <1>7 DEF Known
  <2> QED BY <1>1, <1>2, <2>1
<1>9. c \in CallRec /\ c.got = {} /\ c.asked = (IF wait THEN {j} ELSE {}) /\ c.on = c.asked
      /\ c.kind = (IF wait THEN "spawn" ELSE "none")
  BY <1>2 DEF NoCall, CallRec
<1>10. call'[a] = c /\ call' \in [Agents -> CallRec] /\ \A b \in Agents : b # a => call'[b] = call[b]
  BY <1>3, <1>9
<1>11. TypeInv'
  BY <1>6, <1>8, <1>10 DEF TypeInv, TreeOK
<1>12. TreeInv'
  <2>1. n + 1 \in 0..MaxTotal
    BY <1>2 DEF Jobs
  <2>2. ASSUME NEW i \in Jobs, job'[i].parent # Main PROVE job'[i].parent \in Known' /\ job'[i].parent < i
    <3>1. CASE i = j
      BY <1>1, <1>2, <1>3, <1>6, <1>7, <1>8, <2>2, <3>1
    <3>2. CASE i # j
      BY <1>6, <1>8, <2>2, <3>2 DEF TreeOK, TreeInv
    <3> QED BY <3>1, <3>2
  <2> QED BY <1>8, <2>1, <2>2 DEF TreeInv
<1>13. \A i \in Known : i \in Jobs /\ i # j /\ job'[i] = job[i]
  BY <1>2, <1>6 DEF Known
<1>14. CallInv'
  <2> SUFFICES ASSUME NEW b \in Agents
      PROVE  /\ call'[b].asked \subseteq Known' /\ call'[b].on \subseteq call'[b].asked
             /\ call'[b].got \subseteq call'[b].asked
             /\ call'[b].kind # "none" => b = Main \/ b \in Known'
             /\ call'[b].kind \in {"none", "spawning"} => call'[b].asked = {}
             /\ call'[b].kind = "spawn" => \E i \in Known' : call'[b].asked = {i} /\ job'[i].parent = b
    BY DEF CallInv
  <2>1. CASE b = a
    BY <1>3, <1>6, <1>7, <1>8, <1>9, <1>10, <2>1
  <2>2. CASE b # a
    BY <1>8, <1>10, <1>13, <2>2 DEF TreeOK, CallInv
  <2> QED BY <2>1, <2>2
<1>15. OrphanInv'
  <2> SUFFICES ASSUME NEW i \in Jobs, job'[i].waited, Live(i)', ~job'[i].stop
      PROVE  call'[job'[i].parent].kind = "spawn" /\ i \in call'[job'[i].parent].on
    BY DEF OrphanInv
  <2>1. CASE i = j
    BY <1>6, <1>7, <1>9, <1>10, <2>1
  <2>2. CASE i # j
    <3>1. job'[i] = job[i] /\ Live(i) /\ job[i].parent \in Agents
      BY <1>3, <1>6, <2>2 DEF Live, JobRec
    <3>2. call[job[i].parent].kind = "spawn" /\ i \in call[job[i].parent].on
      BY <3>1 DEF TreeOK, OrphanInv
    <3>3. job[i].parent # a
      BY <3>2
    <3> QED BY <1>10, <3>1, <3>2, <3>3
  <2> QED BY <2>1, <2>2
<1>16. ConsumedIsHeard'
  <2>1. call[a].got = {}
    BY CallFacts
  <2> QED BY <1>9, <2>1, HeardMoves
<1>17. OwnInv'
  <2>1. \A i \in Known : above'[i] = above[i]
    BY <1>11, <1>12, <1>13, AboveStays DEF TreeOK
  <2>2. \A i \in Jobs : above'[i] = IF job'[i].parent = Main THEN {}
                                    ELSE {job'[i].parent} \cup above'[job'[i].parent]
    BY <1>11, <1>12, AboveWillBe
  <2> SUFFICES ASSUME NEW b \in Jobs, NEW i \in call'[b].asked PROVE b \in above'[i]
    BY DEF OwnInv
  <2>3. CASE b = a
    <3>1. i = j /\ job'[i].parent = a /\ a # Main
      BY <1>6, <1>7, <1>9, <1>10, <2>3 DEF Jobs, Main
    <3> QED BY <1>2, <2>2, <2>3, <3>1
  <2>4. CASE b # a
    <3>1. i \in call[b].asked /\ i \in Known /\ b \in above[i]
      BY <1>10, <2>4 DEF TreeOK, OwnInv, CallInv, Agents
    <3> QED BY <2>1, <3>1
  <2> QED BY <2>3, <2>4
<1> QED BY <1>11, <1>12, <1>14, <1>15, <1>16, <1>17 DEF TreeOK

LEMMA ExecuteStep ==
    ASSUME ConstantsOK, TreeOK, NEW a \in Agents, Execute(a) PROVE TreeOK'
<1>1. call[a].kind = "spawning" /\ UNCHANGED <<held, turn, strays, consumed, collects, heard, dropped>>
  BY DEF Execute
<1>2. CASE call' = [call EXCEPT ![a] = NoCall] /\ UNCHANGED job
  <2>1. JobsKept /\ call[a].got = {}
    BY <1>1, <1>2, CallFacts, Keeps
  <2>2. \A j \in Jobs : job[j].parent = a /\ job'[j].waited /\ Live(j)' /\ ~job'[j].stop => NoCall.kind = "spawn" /\ j \in NoCall.on
    BY <1>1, <1>2, CallFacts DEF Live
  <2>3. TypeInv' /\ TreeInv' /\ CallInv' /\ OrphanInv' /\ OwnInv'
    BY <1>1, <1>2, <2>1, <2>2, NoCallIsGood, CallMoves, CallFacts
  <2>4. ConsumedIsHeard'
    BY <1>1, <1>2, <2>1, HeardMoves
  <2> QED BY <2>3, <2>4 DEF TreeOK
<1>3. ASSUME NEW wait \in BOOLEAN, NEW write \in {w \in Writes : w => AllowWriteAllowed(a)},
             Spawn(a, Cardinality(Known) + 1, wait, write),
             call' = [call EXCEPT ![a] = IF wait THEN [kind |-> "spawn", asked |-> {Cardinality(Known) + 1},
                                                       on |-> {Cardinality(Known) + 1}, got |-> {}] ELSE NoCall]
      PROVE  TreeOK'
  <2>1. write \in BOOLEAN
    BY DEF ConstantsOK
  <2> QED BY <1>1, <1>3, <2>1, SpawnStep
<1> QED BY <1>2, <1>3 DEF Execute

-----------------------------------------------------------------------------
(* The theorems. *)

LEMMA TreeInit == ASSUME ConstantsOK, Init PROVE TreeOK
<1>1. Unborn \in JobRec /\ NoCall \in CallRec
  BY JobsFinite DEF Unborn, JobRec, NoCall, CallRec, Agents, Main
<1>2. Known = {} /\ \A j \in Jobs : job[j] = Unborn
  BY DEF Init, Known, Unborn
<1>3. TypeInv
  BY <1>1, <1>2, JobsFinite DEF Init, TypeInv
<1>4. TreeInv
  <2>1. 0 \in 0..MaxTotal /\ 1..0 = {}
    BY JobsFinite
  <2> QED BY <1>2, <2>1 DEF TreeInv, Unborn
<1>5. CallInv /\ OrphanInv /\ OwnInv /\ ConsumedIsHeard
  BY <1>2 DEF Init, CallInv, OrphanInv, OwnInv, ConsumedIsHeard, NoCall, Unborn, Live, Agents
<1> QED BY <1>3, <1>4, <1>5 DEF TreeOK

LEMMA TreeStep == ASSUME ConstantsOK, TreeOK, [Next]_vars PROVE TreeOK'
BY StepAside, CallSpawnStep, ExecuteStep, CollectStep, ReturnStep, WaiterStep DEF Next

(* The tree of jobs, the calls under way and the waits agree at every step   *)
(* (spawn_agent's Execute and waitAndReport, collect_agent_results).         *)
THEOREM TreeCorrect == ASSUME ConstantsOK PROVE Spec => []TreeOK
<1>1. Init => TreeOK
  BY TreeInit
<1>2. TreeOK /\ [Next]_vars => TreeOK'
  BY TreeStep
<1> QED BY <1>1, <1>2, PTL DEF Spec

(* However deep agents delegate: a child stops with the call that waits for  *)
(* it, a consumed result reached an agent or was dropped by a cancelled      *)
(* call, and an agent is given results of its own descendants only           *)
(* (waitAndReport, WaitForJobContext, canCollect).                           *)
THEOREM ChildrenKept == ASSUME ConstantsOK PROVE Spec => []ChildrenAreAccountedFor
<1>1. TreeOK => NoOrphan
  BY DEF TreeOK, OrphanInv, NoOrphan
<1>2. TreeOK => HeardIsOwn
  BY DEF TreeOK, CallInv, OwnInv, HeardIsOwn, Agents
<1>3. TreeOK => TypeOK
  BY DEF TreeOK, TypeInv, CallInv, TypeOK, JobRec, CallRec
<1>4. TreeOK => ChildrenAreAccountedFor
  BY <1>1, <1>2, <1>3 DEF TreeOK, ChildrenAreAccountedFor
<1> QED BY <1>4, TreeCorrect, PTL

-----------------------------------------------------------------------------
(* PermissionPolicy: for every policy and every command, however long.       *)

LEMMA SmallestOf ==
    ASSUME NEW n \in Nat, NEW T \in SUBSET (0..n), T # {}
    PROVE  /\ Policy!Min(T) \in T /\ \A x \in T : Policy!Min(T) <= x
           /\ Policy!Max(T) \in T /\ \A x \in T : Policy!Max(T) >= x
<1>1. Policy!Min(T) \in T /\ \A x \in T : Policy!Min(T) <= x
  <2>1. \E m \in T : \A x \in T : m <= x
    BY Least
  <2> QED BY <2>1, Zenon DEF Policy!Min
<1>2. Policy!Max(T) \in T /\ \A x \in T : Policy!Max(T) >= x
  <2> DEFINE R == {n - x : x \in T}
  <2>1. R \in SUBSET (0..n) /\ R # {}
    <3>1. \A x \in T : n - x \in 0..n
      OBVIOUS
    <3>2. PICK x \in T : TRUE
      OBVIOUS
    <3>3. n - x \in R
      OBVIOUS
    <3> QED BY <3>1, <3>3
  <2>2. PICK m \in R : \A x \in R : m <= x
    <3> HIDE DEF R
    <3> QED BY <2>1, Least
  <2>3. PICK t \in T : m = n - t
    BY <2>2
  <2>4. \A x \in T : t >= x
    <3> TAKE x \in T
    <3>1. n - x \in R
      OBVIOUS
    <3>2. n - t <= n - x /\ x \in 0..n /\ t \in 0..n
      BY <2>2, <2>3, <3>1
    <3> QED BY <3>2
  <2> QED BY <2>4, Zenon DEF Policy!Max
<1> QED BY <1>1, <1>2

(* A recursive function over an interval exists and obeys its equation. *)
Iteration(f, n, S, b, step) ==
    /\ f \in [1..n -> S]
    /\ \A k \in 1..n : f[k] = IF k = 1 THEN b ELSE step[<<k, f[k - 1]>>]

LEMMA Iterates ==
    ASSUME NEW n \in Nat, NEW S, NEW b \in S, NEW step \in [(1..n) \X S -> S]
    PROVE  \E f : Iteration(f, n, S, b, step)
<1> DEFINE Solves(f, m) == /\ f \in [1..m -> S]
                           /\ \A k \in 1..m : f[k] = IF k = 1 THEN b ELSE step[<<k, f[k - 1]>>]
           T == {m \in 0..n : ~\E f : Solves(f, m)}
<1>1. ASSUME T # {} PROVE FALSE
  <2>1. PICK m \in T : \A x \in T : m <= x
    BY <1>1, Least
  <2>2. m \in 0..n /\ ~\E f : Solves(f, m)
    OBVIOUS
  <2>3. m # 0
    <3>1. Solves([k \in 1..0 |-> b], 0)
      OBVIOUS
    <3> QED BY <2>2, <3>1
  <2>4. m - 1 \in 0..n /\ m - 1 \notin T
    <3>1. m - 1 \in 0..n /\ ~(m <= m - 1)
      BY <2>2, <2>3
    <3> QED BY <2>1, <3>1
  <2>5. PICK f : Solves(f, m - 1)
    BY <2>4
  <2> DEFINE g == [k \in 1..m |-> IF k < m THEN f[k] ELSE IF k = 1 THEN b ELSE step[<<k, f[k - 1]>>]]
  <2>6. ASSUME NEW k \in 1..m
        PROVE  g[k] = (IF k = 1 THEN b ELSE step[<<k, g[k - 1]>>]) /\ g[k] \in S
    <3>1. k \in 1..n /\ m \in 1..n
      BY <2>2, <2>3
    <3>2. k # 1 => k - 1 \in 1..(m - 1) /\ k - 1 \in 1..m /\ k - 1 < m
      BY <3>1
    <3>3. k # 1 => g[k - 1] = f[k - 1] /\ f[k - 1] \in S
      BY <2>5, <3>2
    <3>4. CASE k < m
      <4>1. k \in 1..(m - 1) /\ g[k] = f[k]
        BY <3>1, <3>4
      <4> HIDE DEF g
      <4> QED BY <2>5, <3>3, <4>1
    <3>5. CASE k = m
      <4>1. g[k] = IF k = 1 THEN b ELSE step[<<k, f[k - 1]>>]
        BY <3>5
      <4> HIDE DEF g
      <4>2. k # 1 => <<k, f[k - 1]>> \in (1..n) \X S
        BY <3>1, <3>3
      <4> QED BY <3>3, <4>1, <4>2
    <3> QED BY <3>1, <3>4, <3>5
  <2>7. Solves(g, m)
    <3>1. g \in [1..m -> S]
      BY <2>6
    <3> HIDE DEF g
    <3> QED BY <2>6, <3>1
  <2> QED BY <2>2, <2>7
<1>2. n \in 0..n /\ ~(T # {})
  BY <1>1
<1>3. PICK f : Solves(f, n)
  BY <1>2
<1>4. Iteration(f, n, S, b, step)
  BY <1>3 DEF Iteration
<1> QED BY <1>4

(* Where the comparison of a prefix stands after one of its words. *)
States(words) ==
    {s \in [at: Nat, skippedOption: BOOLEAN, outcome: {"match", "undecided", "none"}] :
        s.at > 0 /\ (s.outcome = "match" => s.at <= Len(words) + 1)}

Skips(words, want, j) == Policy!IsOption(words[j]) /\ Policy!unquoteField(words[j]) # want

Reads(words, want, j) == Policy!unquoteField(words[j]) = want \/ Policy!fieldUnresolvable(words[j])

OutcomeAt(words, want, skipped, i) ==
    IF i > Len(words) THEN "none"
    ELSE IF Policy!fieldUnresolvable(words[i]) THEN "undecided"
    ELSE IF Policy!unquoteField(words[i]) = want THEN "match"
    ELSE IF skipped /\ \E j \in i .. Len(words) : Reads(words, want, j) THEN "undecided"
    ELSE "none"

LEMMA OutcomeAtIs ==
    ASSUME NEW words, NEW want, NEW skipped \in BOOLEAN, NEW i \in Nat, Len(words) \in Nat
    PROVE  /\ OutcomeAt(words, want, skipped, i) \in {"match", "undecided", "none"}
           /\ i > Len(words) => OutcomeAt(words, want, skipped, i) = "none"
           /\ OutcomeAt(words, want, skipped, i) = "match" => Reads(words, want, i)
           /\ i <= Len(words) /\ Reads(words, want, i) => OutcomeAt(words, want, skipped, i) # "none"
           /\ skipped /\ i <= Len(words) /\ (\E j \in i .. Len(words) : Reads(words, want, j))
                => OutcomeAt(words, want, skipped, i) # "none"
<1>1. CASE i > Len(words)
  BY <1>1 DEF OutcomeAt
<1>2. CASE i <= Len(words) /\ Policy!fieldUnresolvable(words[i])
  <2>1. OutcomeAt(words, want, skipped, i) = "undecided"
    BY <1>2 DEF OutcomeAt
  <2> QED BY <1>2, <2>1
<1>3. CASE i <= Len(words) /\ ~Policy!fieldUnresolvable(words[i]) /\ Policy!unquoteField(words[i]) = want
  <2>1. OutcomeAt(words, want, skipped, i) = "match"
    BY <1>3 DEF OutcomeAt
  <2> QED BY <1>3, <2>1 DEF Reads
<1>4. CASE i <= Len(words) /\ ~Policy!fieldUnresolvable(words[i]) /\ Policy!unquoteField(words[i]) # want
  <2>1. OutcomeAt(words, want, skipped, i) =
            IF skipped /\ \E j \in i .. Len(words) : Reads(words, want, j) THEN "undecided" ELSE "none"
    BY <1>4 DEF OutcomeAt
  <2> QED BY <1>4, <2>1 DEF Reads
<1> QED BY <1>1, <1>2, <1>3, <1>4

(* NextWord passes over options only, and looks at word i, the first that is  *)
(* none or that is the one wanted.                                           *)
LooksAt(words, want, last, i) ==
    /\ i \in last.at .. Len(words) + 1
    /\ \A j \in last.at .. i - 1 : j <= Len(words) /\ Skips(words, want, j)
    /\ i = Len(words) + 1 \/ ~Skips(words, want, i)
    /\ Policy!NextWord(words, want, last) =
          [at |-> i + 1, skippedOption |-> last.skippedOption \/ i > last.at,
           outcome |-> OutcomeAt(words, want, last.skippedOption \/ i > last.at, i)]

LEMMA NextWordLooks ==
    ASSUME NEW words \in Seq(Policy!Words), NEW want, NEW last \in States(words), last.outcome = "match"
    PROVE  \E i : LooksAt(words, want, last, i)
<1> DEFINE L == Len(words)
           C == {j \in last.at .. L + 1 :
                    j = L + 1 \/ ~Policy!IsOption(words[j]) \/ Policy!unquoteField(words[j]) = want}
           i == Policy!Min(C)
<1>1. L \in Nat /\ last.at \in 1..(L + 1)
  BY DEF States
<1>2. C \in SUBSET (0..(L + 1)) /\ C # {}
  <2>1. L + 1 \in C
    BY <1>1
  <2>2. C \subseteq 0..(L + 1)
    BY <1>1
  <2> QED BY <2>1, <2>2
<1>3. i \in C /\ \A x \in C : i <= x
  <2>1. L + 1 \in Nat
    BY <1>1
  <2> HIDE DEF C, L
  <2> QED BY <1>2, <2>1, SmallestOf
<1>4. i \in last.at .. L + 1
  BY <1>3
<1>5. \A j \in last.at .. i - 1 : j <= L /\ Skips(words, want, j)
  <2> TAKE j \in last.at .. i - 1
  <2>1. j \in last.at .. L /\ ~(i <= j)
    <3> HIDE DEF i, C, L
    <3> QED BY <1>1, <1>4
  <2>2. j \notin C
    <3> HIDE DEF C, i
    <3> QED BY <1>3, <2>1
  <2>3. j \in last.at .. L + 1 /\ j <= L
    <3> HIDE DEF i, C, L
    <3> QED BY <1>1, <2>1
  <2> QED BY <2>2, <2>3 DEF Skips
<1>6. i = L + 1 \/ ~Skips(words, want, i)
  <2>1. i = L + 1 \/ ~Policy!IsOption(words[i]) \/ Policy!unquoteField(words[i]) = want
    BY <1>3
  <2> QED BY <2>1 DEF Skips
<1>7. Policy!NextWord(words, want, last) =
          [at |-> i + 1, skippedOption |-> last.skippedOption \/ i > last.at,
           outcome |-> OutcomeAt(words, want, last.skippedOption \/ i > last.at, i)]
  BY Zenon DEF Policy!NextWord, Policy!Compared, OutcomeAt, Reads
<1> HIDE DEF i, C, L
<1>8. LooksAt(words, want, last, i)
  BY <1>4, <1>5, <1>6, <1>7 DEF LooksAt, L
<1> QED BY <1>8

LEMMA NextWordTyped ==
    ASSUME NEW words \in Seq(Policy!Words), NEW want, NEW last \in States(words), last.outcome = "match"
    PROVE  Policy!NextWord(words, want, last) \in States(words)
<1>1. PICK i : LooksAt(words, want, last, i)
  BY NextWordLooks
<1>2. Len(words) \in Nat /\ last.at \in Nat /\ last.at > 0 /\ last.skippedOption \in BOOLEAN
  BY DEF States
<1>3. i \in Nat /\ i > 0 /\ (i > Len(words) \/ i + 1 <= Len(words) + 1)
  BY <1>1, <1>2 DEF LooksAt
<1> DEFINE skipped == last.skippedOption \/ i > last.at
           o == OutcomeAt(words, want, skipped, i)
<1>4. o \in {"match", "undecided", "none"} /\ (o = "match" => i <= Len(words))
  <2>1. skipped \in BOOLEAN
    BY <1>2
  <2> HIDE DEF skipped
  <2>2. o \in {"match", "undecided", "none"} /\ (i > Len(words) => o = "none")
    BY <1>2, <1>3, <2>1, OutcomeAtIs, Zenon
  <2> HIDE DEF o
  <2> QED BY <1>2, <1>3, <2>2
<1>5. Policy!NextWord(words, want, last) = [at |-> i + 1, skippedOption |-> skipped, outcome |-> o]
  BY <1>1 DEF LooksAt
<1>6. skipped \in BOOLEAN
  BY <1>2
<1> HIDE DEF skipped, o
<1> QED BY <1>2, <1>3, <1>4, <1>5, <1>6 DEF States

(* How a command runs a prefix: where the words of the prefix stand.         *)
Places(words, prefix, at) ==
    /\ at \in [DOMAIN prefix -> DOMAIN words]
    /\ \A k \in DOMAIN prefix : prefix[k] \in Policy!Readings(words[at[k]])
    /\ \A k, l \in DOMAIN prefix : k < l => at[k] < at[l]
    /\ \A p \in 1 .. at[Len(prefix)] \ {at[k] : k \in DOMAIN prefix} :
          \/ Policy!IsOption(words[p])
          \/ p > 1 /\ p - 1 \notin {at[k] : k \in DOMAIN prefix} /\ Policy!IsOption(words[p - 1])

(* The comparison never stands beyond the words the command runs, and it has  *)
(* skipped an option if it stands before them.                               *)
InStep(prefix, at, k, s) ==
    /\ s.outcome # "none"
    /\ s.outcome = "match" => /\ s.at <= at[k] + 1
                              /\ ~s.skippedOption => s.at = k + 1 /\ (k < Len(prefix) => at[k] = k)

(* A denied prefix whose options, if any, come first or last.                *)
Plain(prefix) == \A k \in 2 .. Len(prefix) - 1 : ~Policy!IsOption(prefix[k])

LEMMA ReadingIs ==
    ASSUME NEW w \in Policy!Words, NEW want \in Policy!Readings(w)
    PROVE  /\ Policy!unquoteField(w) = want \/ Policy!fieldUnresolvable(w)
           /\ Policy!IsOption(w) => Policy!unquoteField(w) = want
           /\ Policy!IsOption(w) => Policy!IsOption(want)
BY DEF Policy!Words, Policy!Readings, Policy!unquoteField, Policy!fieldUnresolvable, Policy!IsOption

LEMMA FirstInStep ==
    ASSUME NEW words \in Seq(Policy!Words), NEW prefix \in Seq(Policy!Words), words # << >>, prefix # << >>,
           ~Policy!IsOption(words[1]), NEW at, Places(words, prefix, at)
    PROVE  /\ Policy!FirstWord(words, prefix[1]) \in States(words)
           /\ InStep(prefix, at, 1, Policy!FirstWord(words, prefix[1]))
<1>1. Len(words) \in Nat /\ Len(words) >= 1 /\ Len(prefix) \in Nat /\ Len(prefix) >= 1
  OBVIOUS
<1>2. 1 \in DOMAIN prefix /\ at[1] \in 1..Len(words) /\ at[Len(prefix)] \in 1..Len(words)
      /\ Len(prefix) \in DOMAIN prefix
  BY <1>1 DEF Places
<1>3. at[1] = 1
  <2> SUFFICES ASSUME at[1] # 1 PROVE FALSE
    OBVIOUS
  <2>1. \A k \in DOMAIN prefix : at[k] # 1
    BY <1>1, <1>2 DEF Places
  <2>2. 1 \in 1 .. at[Len(prefix)] \ {at[k] : k \in DOMAIN prefix}
    BY <1>2, <2>1
  <2> QED BY <2>2 DEF Places
<1>4. words[1] \in Policy!Words /\ prefix[1] \in Policy!Readings(words[1])
  BY <1>1, <1>2, <1>3 DEF Places
<1>5. Policy!unquoteField(words[1]) = prefix[1] \/ Policy!fieldUnresolvable(words[1])
  BY <1>4, ReadingIs
<1>6. PICK o \in {"match", "undecided"} :
         Policy!FirstWord(words, prefix[1]) = [at |-> 2, skippedOption |-> FALSE, outcome |-> o]
  BY <1>5 DEF Policy!FirstWord, Policy!Compared
<1> QED BY <1>1, <1>3, <1>6 DEF States, InStep

LEMMA NextInStep ==
    ASSUME NEW words \in Seq(Policy!Words), NEW prefix \in Seq(Policy!Words), words # << >>,
           ~Policy!IsOption(words[1]), Plain(prefix), NEW at, Places(words, prefix, at),
           NEW k \in 1 .. Len(prefix) - 1, NEW s \in States(words), s.outcome = "match", InStep(prefix, at, k, s)
    PROVE  InStep(prefix, at, k + 1, Policy!NextWord(words, prefix[k + 1], s))
<1> DEFINE L == Len(words)
           n == Len(prefix)
           want == prefix[k + 1]
           m == at[k + 1]
<1>1. /\ L \in Nat /\ n \in Nat /\ k \in Nat /\ k \in 1..n /\ k + 1 \in 1..n /\ k + 1 \in DOMAIN prefix
      /\ n \in DOMAIN prefix /\ k \in DOMAIN prefix /\ DOMAIN prefix = 1..n /\ DOMAIN words = 1..L
      /\ s.at \in Nat /\ s.at > 0 /\ s.skippedOption \in BOOLEAN
  BY DEF States
<1>0. k + 1 = n \/ k + 1 \in 2 .. n - 1
  <2>1. n \in Nat /\ k \in 1 .. n - 1
    BY <1>1
  <2> HIDE DEF n
  <2> QED BY <2>1
<1>2. /\ \A l \in 1..n : at[l] \in 1..L
      /\ \A l, j \in 1..n : l < j => at[l] < at[j]
      /\ words[m] \in Policy!Words /\ want \in Policy!Readings(words[m])
  <2>1. at \in [1..n -> 1..L] /\ (\A l, j \in 1..n : l < j => at[l] < at[j])
        /\ \A l \in 1..n : prefix[l] \in Policy!Readings(words[at[l]])
    BY <1>1 DEF Places
  <2>2. \A p \in 1..L : words[p] \in Policy!Words
    OBVIOUS
  <2> QED BY <1>1, <2>1, <2>2
<1>3. m \in 1..L /\ at[k] < m /\ at[k] \in Nat /\ s.at <= m
  <2>1. s.at <= at[k] + 1
    BY DEF InStep
  <2> QED BY <1>1, <1>2, <2>1
<1>4. Reads(words, want, m) /\ ~Skips(words, want, m)
  BY <1>2, ReadingIs DEF Reads, Skips
<1>5. PICK i : LooksAt(words, want, s, i)
  BY NextWordLooks
<1>6. i \in 1..L /\ i <= m /\ s.at <= i
  <2>1. i \in s.at .. L + 1 /\ \A j \in s.at .. i - 1 : Skips(words, want, j)
    BY <1>5 DEF LooksAt
  <2>2. ~(i > m)
    <3> SUFFICES ASSUME i > m PROVE FALSE
      OBVIOUS
    <3>1. m \in s.at .. i - 1
      BY <1>1, <1>3, <2>1
    <3> QED BY <1>4, <2>1, <3>1
  <2> QED BY <1>1, <1>3, <2>1, <2>2
<1> DEFINE skipped == s.skippedOption \/ i > s.at
           o == OutcomeAt(words, want, skipped, i)
<1>7. Policy!NextWord(words, want, s) = [at |-> i + 1, skippedOption |-> skipped, outcome |-> o]
  BY <1>5 DEF LooksAt
<1>8. \E j \in i .. L : Reads(words, want, j)
  BY <1>3, <1>4, <1>6
<1>9. skipped \in BOOLEAN
  BY <1>1, <1>6
<1>10. CASE skipped
  <2>1. o # "none"
    <3> HIDE DEF skipped
    <3>1. i \in Nat /\ i <= L
      BY <1>6
    <3> QED BY <1>1, <1>8, <1>9, <1>10, <3>1, OutcomeAtIs, Zenon
  <2> HIDE DEF o, skipped, want, m
  <2>2. i + 1 <= m + 1
    BY <1>3, <1>6
  <2> QED BY <1>7, <1>10, <2>1, <2>2 DEF InStep, want, m
<1>11. CASE ~skipped
  <2>1. i = k + 1 /\ at[k] = k
    BY <1>1, <1>6, <1>11 DEF InStep
  <2>2. CASE m = k + 1
    <3>1. o # "none"
      <4>1. i \in Nat /\ i <= L /\ Reads(words, want, i)
        BY <1>4, <1>6, <2>1, <2>2
      <4> HIDE DEF skipped
      <4> QED BY <1>1, <1>9, <4>1, OutcomeAtIs, Zenon
    <3> HIDE DEF o, skipped, want
    <3> QED BY <1>1, <1>7, <2>1, <2>2, <3>1 DEF InStep, want
  <2>3. CASE m # k + 1
    <3>1. k + 1 < m
      BY <1>3, <2>1, <2>3
    <3>2. \A l \in 1..n : at[l] # k + 1
      <4> TAKE l \in 1..n
      <4>1. CASE l <= k
        <5>1. l = k \/ at[l] < at[k]
          BY <1>1, <1>2, <4>1
        <5> QED BY <1>1, <1>2, <2>1, <5>1
      <4>2. CASE l > k
        <5>1. l = k + 1 \/ m < at[l]
          BY <1>1, <1>2, <4>2
        <5> QED BY <1>1, <1>2, <1>3, <3>1, <5>1
      <4> QED BY <1>1, <4>1, <4>2
    <3>3. k + 1 <= at[n] /\ at[n] \in 1..L
      <4>1. n = k + 1 \/ k + 1 < n
        <5> HIDE DEF n, m
        <5> QED BY <1>0, <1>1
      <4>2. n \in 1..n /\ at[n] \in 1..L
        BY <1>1, <1>2
      <4>3. n = k + 1 \/ m < at[n]
        BY <1>1, <1>2, <4>1, <4>2
      <4>4. n = k + 1 => at[n] = m
        OBVIOUS
      <4> HIDE DEF m, n, L
      <4> QED BY <1>1, <1>3, <3>1, <4>2, <4>3, <4>4
    <3>4. k + 1 \in 1 .. at[Len(prefix)] \ {at[l] : l \in DOMAIN prefix}
      BY <1>1, <3>2, <3>3
    <3>5. (k + 1) - 1 = k /\ k \in {at[l] : l \in DOMAIN prefix}
      BY <1>1, <2>1
    <3>6. Policy!IsOption(words[i])
      BY <2>1, <3>4, <3>5 DEF Places
    <3>7. Policy!unquoteField(words[i]) = want
      <4>1. i # L + 1
        BY <1>1, <1>6
      <4> QED BY <1>5, <3>6, <4>1 DEF LooksAt, Skips
    <3>8. Policy!IsOption(want)
      BY <3>6, <3>7 DEF Policy!IsOption, Policy!unquoteField
    <3>9. k + 1 = n
      BY <1>0, <3>8 DEF Plain
    <3>10. o # "none"
      <4>1. i \in Nat /\ i <= L /\ Reads(words, want, i)
        BY <1>6, <3>7 DEF Reads
      <4> HIDE DEF skipped
      <4> QED BY <1>1, <1>9, <4>1, OutcomeAtIs, Zenon
    <3> HIDE DEF o, skipped, want
    <3>11. ~(k + 1 < Len(prefix)) /\ i + 1 = (k + 1) + 1 /\ i + 1 <= at[k + 1] + 1
      BY <1>1, <1>3, <1>6, <2>1, <3>9
    <3> QED BY <1>7, <3>10, <3>11 DEF InStep, want
  <2> QED BY <2>2, <2>3
<1> QED BY <1>10, <1>11

(* A command that may run a denied prefix is seen to, or is undecided.       *)
LEMMA DeniedPrefixIsSeen ==
    ASSUME NEW words \in Seq(Policy!Words), NEW prefix \in Seq(Policy!Words), words # << >>, prefix # << >>,
           ~Policy!IsOption(words[1]), Plain(prefix), Policy!Names(words, prefix)
    PROVE  Policy!prefixOutcomeForFields(words, prefix) \in {"match", "undecided"}
<1> DEFINE n == Len(prefix)
           S == States(words)
           b == Policy!FirstWord(words, prefix[1])
           After(k, s) == IF s.outcome # "match" THEN s ELSE Policy!NextWord(words, prefix[k], s)
           step == [x \in (1..n) \X S |-> After(x[1], x[2])]
<1>1. PICK at : Places(words, prefix, at)
  <2>1. PICK at \in [DOMAIN prefix -> DOMAIN words] :
           /\ \A k \in DOMAIN prefix : prefix[k] \in Policy!Readings(words[at[k]])
           /\ \A k, l \in DOMAIN prefix : k < l => at[k] < at[l]
           /\ \A p \in 1 .. at[Len(prefix)] \ Policy!Range(at) :
                 \/ Policy!IsOption(words[p])
                 \/ p > 1 /\ p - 1 \notin Policy!Range(at) /\ Policy!IsOption(words[p - 1])
    BY Zenon DEF Policy!Names
  <2>2. Policy!Range(at) = {at[k] : k \in DOMAIN prefix}
    BY DEF Policy!Range
  <2>3. Places(words, prefix, at)
    BY <2>1, <2>2, Zenon DEF Places
  <2> QED BY <2>3
<1> DEFINE In(k, s) == s \in S /\ InStep(prefix, at, k, s)
<1>2. n \in Nat /\ n >= 1
  OBVIOUS
<1>3. b \in S /\ InStep(prefix, at, 1, b)
  BY <1>1, FirstInStep
<1>4. \A k \in 1..n, s \in S : After(k, s) \in S
  BY NextWordTyped
<1>5. step \in [(1..n) \X S -> S] /\ \A k \in 1..n, s \in S : step[<<k, s>>] = After(k, s)
  <2> HIDE DEF After, S
  <2> QED BY <1>4
<1>6. \E c : c = [k \in 1..n |-> IF k = 1 THEN b ELSE After(k, c[k - 1])]
  <2> HIDE DEF After, S, b, n, step
  <2>1. PICK f : Iteration(f, n, S, b, step)
    <3>1. n \in Nat /\ b \in S /\ step \in [(1..n) \X S -> S]
      BY <1>2, <1>3, <1>5
    <3> QED BY <3>1, Iterates
  <2>2. \A k \in 1..n : f[k] = IF k = 1 THEN b ELSE After(k, f[k - 1])
    <3> TAKE k \in 1..n
    <3>1. k # 1 => k - 1 \in 1..n
      BY <1>2
    <3>2. k # 1 => f[k - 1] \in S
      BY <2>1, <3>1 DEF Iteration
    <3> QED BY <1>5, <2>1, <3>2 DEF Iteration
  <2>3. f = [k \in 1..n |-> f[k]]
    BY <2>1 DEF Iteration
  <2>4. f = [k \in 1..n |-> IF k = 1 THEN b ELSE After(k, f[k - 1])]
    BY <2>2, <2>3
  <2> QED BY <2>4
<1>7. PICK c : /\ c = [k \in 1..n |-> IF k = 1 THEN b ELSE After(k, c[k - 1])]
               /\ Policy!prefixOutcomeForFields(words, prefix) = c[n].outcome
  <2> DEFINE d == CHOOSE c : c = [k \in 1..n |-> IF k = 1 THEN b ELSE After(k, c[k - 1])]
  <2>1. Policy!prefixOutcomeForFields(words, prefix) = d[n].outcome
    BY Zenon DEF Policy!prefixOutcomeForFields
  <2>2. d = [k \in 1..n |-> IF k = 1 THEN b ELSE After(k, d[k - 1])]
    <3> HIDE DEF After, b, n
    <3> QED BY <1>6, Zenon
  <2> HIDE DEF d
  <2> QED BY <2>1, <2>2
<1>8. c[1] = b
  BY <1>2, <1>7
<1>9. ASSUME NEW k \in 1 .. n - 1, In(k, c[k]) PROVE In(k + 1, c[k + 1])
  <2>1. k + 1 \in 1..n /\ k + 1 # 1 /\ (k + 1) - 1 = k
    BY <1>2
  <2>2. c[k + 1] = After(k + 1, c[k])
    <3> HIDE DEF After, b, n
    <3> QED BY <1>7, <2>1
  <2>3. c[k + 1] \in S
    BY <1>4, <1>9, <2>1, <2>2
  <2>4. CASE c[k].outcome = "match"
    <3>1. c[k + 1] = Policy!NextWord(words, prefix[k + 1], c[k])
      BY <2>2, <2>4
    <3>2. InStep(prefix, at, k + 1, c[k + 1])
      BY <1>1, <1>9, <2>4, <3>1, NextInStep
    <3> QED BY <2>3, <3>2
  <2>5. CASE c[k].outcome # "match"
    <3>1. c[k + 1] = c[k]
      BY <2>2, <2>5
    <3> QED BY <1>9, <2>3, <2>5, <3>1 DEF InStep
  <2> QED BY <2>4, <2>5
<1>10. \A k \in 1..n : In(k, c[k])
  <2> DEFINE T == {k \in 0..n : k > 0 /\ ~In(k, c[k])}
  <2> SUFFICES ASSUME T # {} PROVE FALSE
    BY <1>2
  <2>1. PICK k \in T : \A l \in T : k <= l
    <3>1. T \in SUBSET (0..n)
      OBVIOUS
    <3> HIDE DEF T
    <3> QED BY <1>2, <3>1, Least
  <2> HIDE DEF In
  <2>2. k \in 1..n /\ ~In(k, c[k])
    BY <1>2
  <2>3. k # 1
    BY <1>3, <1>8, <2>2 DEF In
  <2>4. k - 1 \in 1 .. n - 1 /\ (k - 1) + 1 = k /\ k - 1 \in 0..n /\ ~(k <= k - 1) /\ k - 1 > 0
    <3> HIDE DEF n, T
    <3> QED BY <1>2, <2>2, <2>3
  <2>5. In(k - 1, c[k - 1])
    BY <2>1, <2>4
  <2> QED BY <1>9, <2>2, <2>4, <2>5
<1>11. c[n].outcome \in {"match", "undecided"}
  <2>1. n \in 1..n
    BY <1>2
  <2>2. In(n, c[n])
    BY <1>10, <2>1
  <2> QED BY <2>2 DEF InStep, States
<1> QED BY <1>7, <1>11

LEMMA CommandWordsTyped ==
    ASSUME NEW seg, seg.words \in Seq(Policy!Words)
    PROVE  Policy!CommandWords(seg) \in Seq(Policy!Words)
<1> DEFINE ws == IF seg.redirectTarget /\ seg.words # << >> THEN Tail(seg.words) ELSE seg.words
           C  == {j \in 1 .. Len(ws) + 1 : j = Len(ws) + 1 \/ ~Policy!IsAssignment(ws[j])}
<1>1. ws \in Seq(Policy!Words)
  OBVIOUS
<1>2. Policy!CommandWords(seg) = SubSeq(ws, Policy!Min(C), Len(ws))
  BY Zenon DEF Policy!CommandWords
<1> HIDE DEF ws
<1>3. Len(ws) \in Nat
  BY <1>1
<1>4. C \in SUBSET (0 .. Len(ws) + 1) /\ C # {}
  <2>1. Len(ws) + 1 \in C
    BY <1>3
  <2>2. C \subseteq 0 .. Len(ws) + 1
    BY <1>3
  <2> QED BY <2>1, <2>2
<1>5. Policy!Min(C) \in C
  <2>1. Len(ws) + 1 \in Nat
    BY <1>3
  <2> HIDE DEF C
  <2> QED BY <1>4, <2>1, SmallestOf
<1>6. Policy!Min(C) \in 1 .. Len(ws) + 1
  BY <1>5
<1> HIDE DEF C
<1> QED BY <1>1, <1>2, <1>3, <1>6, SubSeqProperties

Segments == [words: Seq(Policy!Words), redirectTarget: BOOLEAN]

LEMMA DeniedCommandIsSeen ==
    ASSUME NEW cmd \in Seq(Segments), NEW prefix \in Seq(Policy!Words), prefix # << >>, Plain(prefix),
           Policy!MayRun(cmd, prefix)
    PROVE  Policy!commandPrefixDenyOutcome(cmd, prefix) \in {"match", "undecided"}
<1>1. PICK i \in DOMAIN cmd : LET ws == Policy!CommandWords(cmd[i])
                             IN  ws # << >> /\ ~Policy!IsOption(ws[1]) /\ Policy!Names(ws, prefix)
  BY Zenon DEF Policy!MayRun
<1> DEFINE ws == Policy!CommandWords(cmd[i])
           Ran == {Policy!CommandWords(cmd[j]) : j \in DOMAIN cmd} \ {<< >>}
           Outcome == {Policy!prefixOutcomeForFields(v, prefix) : v \in Ran}
<1>2. ws \in Seq(Policy!Words) /\ ws \in Ran
  <2>1. cmd[i] \in Segments
    OBVIOUS
  <2>2. cmd[i].words \in Seq(Policy!Words)
    BY <2>1 DEF Segments
  <2> QED BY <1>1, <2>2, CommandWordsTyped
<1>3. Policy!prefixOutcomeForFields(ws, prefix) \in {"match", "undecided"}
  <2> HIDE DEF ws
  <2>1. ws # << >> /\ ~Policy!IsOption(ws[1]) /\ Policy!Names(ws, prefix)
    BY <1>1 DEF ws
  <2> QED BY <1>2, <2>1, DeniedPrefixIsSeen
<1>4. "match" \in Outcome \/ "undecided" \in Outcome
  BY <1>2, <1>3
<1>5. Policy!commandPrefixDenyOutcome(cmd, prefix) =
         IF "match" \in Outcome THEN "match"
         ELSE IF \/ "undecided" \in Outcome
                 \/ \E j \in DOMAIN cmd : \E k \in DOMAIN cmd[j].words : Policy!Globs(cmd[j].words[k])
                 \/ \E v \in Ran : Policy!CommandIndirection(Policy!unquoteField(v[1]))
         THEN "undecided"
         ELSE "none"
  BY Zenon DEF Policy!commandPrefixDenyOutcome
<1> HIDE DEF Outcome, Ran, ws
<1> QED BY <1>4, <1>5

(* A rule of the session, of whatever decision: about a tool or a pattern of  *)
(* tools, about a prefix of commands, or about one command.                  *)
IsRule(r) ==
    \E d \in Policy!Decisions :
        \/ \E t : r = Policy!ToolRule(t, d)
        \/ \E p \in Seq(Policy!Words) : Plain(p) /\ r = Policy!PrefixRule(p, d)
        \/ \E c : r = Policy!CommandRule(c, d)

LEMMA RuleIs ==
    ASSUME NEW r, IsRule(r)
    PROVE  /\ r.floor <=> r.decision = "deny"
           /\ r.prefix # << >> => /\ r.tool = "execute_command" /\ r.command = << >>
                                 /\ r.prefix \in Seq(Policy!Words) /\ Plain(r.prefix)
<1>1. PICK d \in Policy!Decisions :
        \/ \E t : r = Policy!ToolRule(t, d)
        \/ \E p \in Seq(Policy!Words) : Plain(p) /\ r = Policy!PrefixRule(p, d)
        \/ \E c : r = Policy!CommandRule(c, d)
  BY DEF IsRule
<1>2. ASSUME NEW t, NEW p, NEW c
      PROVE  LET q == Policy!Rule(t, d, p, c)
             IN  /\ q.floor <=> q.decision = "deny"
                 /\ q.tool = t /\ q.prefix = p /\ q.command = c
  BY DEF Policy!Rule
<1>3. CASE \E t : r = Policy!ToolRule(t, d)
  BY <1>2, <1>3 DEF Policy!ToolRule, Policy!NoPrefix
<1>4. CASE \E p \in Seq(Policy!Words) : Plain(p) /\ r = Policy!PrefixRule(p, d)
  BY <1>2, <1>4 DEF Policy!PrefixRule, Policy!NoCommand, Policy!Shell
<1>5. CASE \E c : r = Policy!CommandRule(c, d)
  BY <1>2, <1>5 DEF Policy!CommandRule, Policy!NoPrefix
<1> QED BY <1>1, <1>3, <1>4, <1>5

(* A command that may run what a rule denies is not run without a question,  *)
(* under whatever profile, and whatever other rules there are.               *)
THEOREM DenialIsAFloor ==
    ASSUME NEW p, NEW R, \A r \in R : IsRule(r), p.rules \in Seq(R),
           NEW asked, asked.command \in Seq(Segments)
    PROVE  Policy!DenyIsAFloor(p, asked)
<1> DEFINE rs == p.rules
           floors == {i \in DOMAIN rs : rs[i].floor /\ Policy!denyRuleOutcome(rs[i], asked) = "match"}
<1>1. rs \in Seq(R) /\ Len(rs) \in Nat /\ DOMAIN rs = 1 .. Len(rs)
  OBVIOUS
<1>2. SUFFICES ASSUME NEW i \in DOMAIN rs, rs[i].decision = "deny",
                      IF rs[i].prefix = Policy!NoPrefix THEN Policy!ruleMatchesRequest(rs[i], asked)
                      ELSE /\ asked.tool = Policy!Shell
                           /\ Policy!MayRun(asked.command, rs[i].prefix)
               PROVE  Policy!Decide(p, asked) # "allow"
  BY DEF Policy!DenyIsAFloor, Policy!Range
<1>3. IsRule(rs[i]) /\ rs[i].floor
  <2>1. rs[i] \in R
    BY <1>1
  <2> QED BY <1>2, <2>1, RuleIs
<1>4. Policy!denyRuleOutcome(rs[i], asked) \in {"match", "undecided"}
  <2>1. CASE rs[i].prefix = << >>
    BY <1>2, <2>1 DEF Policy!ruleMatchesRequest, Policy!denyRuleOutcome, Policy!NoPrefix
  <2>2. CASE rs[i].prefix # << >>
    <3>1. /\ rs[i].tool = "execute_command" /\ rs[i].command = << >> /\ rs[i].prefix \in Seq(Policy!Words)
          /\ Plain(rs[i].prefix) /\ asked.tool = "execute_command"
          /\ Policy!MayRun(asked.command, rs[i].prefix)
      BY <1>2, <1>3, <2>2, RuleIs DEF Policy!NoPrefix, Policy!Shell
    <3>2. Policy!commandPrefixDenyOutcome(asked.command, rs[i].prefix) \in {"match", "undecided"}
      BY <2>2, <3>1, DeniedCommandIsSeen
    <3>3. Policy!denyRuleOutcome(rs[i], asked) = Policy!commandPrefixDenyOutcome(asked.command, rs[i].prefix)
      BY <2>2, <3>1 DEF Policy!denyRuleOutcome, Policy!toolPatternMatches, Policy!NoCommand, Policy!NoPrefix
    <3> QED BY <3>2, <3>3
  <2> QED BY <2>1, <2>2
<1> DEFINE chosen == Policy!matchingRule(p, asked)
           decision == IF chosen # {} THEN rs[Policy!Max(chosen)].decision
                       ELSE Policy!profileDecision(p.profile, asked.tool)
<1>5. Policy!Decide(p, asked) =
         IF p.profile = "safe" /\ asked.tool \notin Policy!ReadOnly THEN "deny"
         ELSE IF decision = "allow" /\ Policy!denyFloorIndeterminate(p, asked) THEN "ask"
         ELSE decision
  BY Zenon DEF Policy!Decide
<1>6. CASE Policy!denyRuleOutcome(rs[i], asked) = "match"
  <2>1. i \in floors
    BY <1>3, <1>6
  <2>2. chosen = floors
    BY <2>1 DEF Policy!matchingRule
  <2>3. Policy!Max(floors) \in floors
    <3>1. floors \in SUBSET (0 .. Len(rs))
      BY <1>1
    <3> HIDE DEF floors
    <3> QED BY <1>1, <2>1, <3>1, SmallestOf
  <2>4. rs[Policy!Max(floors)].floor /\ Policy!Max(floors) \in DOMAIN rs
    BY <2>3
  <2>5. rs[Policy!Max(floors)].decision = "deny"
    <3> HIDE DEF floors
    <3> QED BY <1>1, <2>4, RuleIs
  <2>6. decision = "deny"
    <3> HIDE DEF floors
    <3> QED BY <2>1, <2>2, <2>5
  <2> HIDE DEF decision
  <2> QED BY <1>5, <2>6
<1>7. CASE Policy!denyRuleOutcome(rs[i], asked) = "undecided"
  <2>1. Policy!denyFloorIndeterminate(p, asked)
    BY <1>3, <1>7 DEF Policy!denyFloorIndeterminate
  <2> HIDE DEF decision
  <2> QED BY <1>5, <2>1
<1> QED BY <1>4, <1>6, <1>7

(* The policies and requests of the run are such. *)
FloorInv ==
    /\ \E R : (\A r \in R : IsRule(r)) /\ rules.rules \in Seq(R)
    /\ req.command \in Seq(Segments)

LEMMA ShortSequences == ASSUME NEW S, NEW v \in S, NEW w \in S PROVE <<v>> \in Seq(S) /\ <<v, w>> \in Seq(S)
OBVIOUS

LEMMA FloorInit == ASSUME ConversationInit PROVE FloorInv
<1>1. \A r \in Rules : IsRule(r)
  <2>1. /\ <<"git", "push">> \in Seq(Policy!Words) /\ <<"git">> \in Seq(Policy!Words)
        /\ Plain(<<"git", "push">>) /\ Plain(<<"git">>)
    BY DEF Policy!Words, Plain
  <2>2. "allow" \in Policy!Decisions /\ "ask" \in Policy!Decisions /\ "deny" \in Policy!Decisions
    BY DEF Policy!Decisions
  <2> QED BY <2>1, <2>2 DEF Rules, IsRule
<1>2. CASE part = "policy"
  <2>1. rules \in PolicyInputs /\ req \in Requests
    BY <1>2 DEF ConversationInit
  <2>2. rules.rules \in Seq(Rules)
    <3>1. rules.rules \in {<< >>} \cup {<<r>> : r \in Rules} \cup {<<r, s>> : r, s \in Rules}
      <4> HIDE DEF Rules
      <4> QED BY <2>1 DEF PolicyInputs
    <3> HIDE DEF Rules
    <3>2. CASE rules.rules = << >>
      BY <3>2
    <3>3. ASSUME NEW r \in Rules, NEW s \in Rules, rules.rules = <<r>> \/ rules.rules = <<r, s>>
          PROVE  rules.rules \in Seq(Rules)
      <4>1. <<r>> \in Seq(Rules) /\ <<r, s>> \in Seq(Rules)
        BY ShortSequences
      <4>2. CASE rules.rules = <<r>>
        BY <4>1, <4>2, Zenon
      <4>3. CASE rules.rules = <<r, s>>
        BY <4>1, <4>3, Zenon
      <4> QED BY <3>3, <4>2, <4>3
    <3> QED BY <3>1, <3>2, <3>3
  <2>3. req.command \in Seq(Segments)
    <3>1. /\ \A ws \in Words(1) \cup Words(2) : ws \in Seq(Policy!Words)
          /\ <<"dir">> \in Seq(Policy!Words)
          /\ \A ws \in Words(2) : <<"git">> \o ws \in Seq(Policy!Words)
      <4>1. ASSUME NEW n \in Nat, NEW ws \in Words(n) PROVE ws \in Seq(Policy!Words)
        <5> HIDE DEF Policy!Words
        <5> QED BY DEF Words
      <4>2. <<"git">> \in Seq(Policy!Words) /\ <<"dir">> \in Seq(Policy!Words)
        BY DEF Policy!Words
      <4> HIDE DEF Policy!Words
      <4> QED BY <4>1, <4>2
    <3>2. ASSUME NEW ws \in Seq(Policy!Words), NEW file \in BOOLEAN PROVE Policy!Segment(ws, file) \in Segments
      BY DEF Policy!Segment, Segments
    <3>3. \A c \in Commands : c \in Seq(Segments)
      <4> HIDE DEF Policy!Words, Segments, Words, OneSegment, TwoSegments, LastSegments, GitSegment
      <4> TAKE c \in Commands
      <4>1. ASSUME NEW v \in Segments, NEW w \in Segments
            PROVE  <<v>> \in Seq(Segments) /\ <<v, w>> \in Seq(Segments)
        BY ShortSequences
      <4>2. \A ws \in Words(2) : Git(ws) \in Segments
        BY <3>1, <3>2 DEF Git
      <4>3. CASE c \in OneSegment
        <5>1. PICK ws \in Words(1) \cup Words(2) : c = <<Policy!Segment(ws, FALSE)>>
          BY <4>3 DEF OneSegment
        <5>2. Policy!Segment(ws, FALSE) \in Segments
          BY <3>1, <3>2
        <5> QED BY <4>1, <5>1, <5>2, Zenon
      <4>4. CASE c \in TwoSegments
        <5>1. PICK last \in LastSegments : c = <<Policy!Segment(<<"dir">>, FALSE), last>>
          BY <4>4 DEF TwoSegments
        <5>2. last \in Segments
          BY <3>1, <3>2 DEF LastSegments
        <5>3. Policy!Segment(<<"dir">>, FALSE) \in Segments
          BY <3>1, <3>2
        <5> QED BY <4>1, <5>1, <5>2, <5>3, Zenon
      <4>5. CASE c \in GitSegment
        <5>1. PICK ws \in Words(2) : c = <<Git(ws)>>
          BY <4>5 DEF GitSegment
        <5>2. Git(ws) \in Segments
          BY <4>2
        <5> QED BY <4>1, <5>1, <5>2, Zenon
      <4> QED BY <4>3, <4>4, <4>5 DEF Commands
    <3>4. << >> \in Seq(Segments)
      OBVIOUS
    <3> HIDE DEF Commands, Segments
    <3>5. req.command = << >> \/ req.command \in Commands
      BY <2>1 DEF Requests
    <3> QED BY <3>3, <3>4, <3>5
  <2> HIDE DEF Segments, Rules
  <2> QED BY <1>1, <2>2, <2>3 DEF FloorInv
<1>3. CASE part # "policy"
  <2>1. rules.rules = << >> /\ req.command = << >>
    BY <1>3 DEF ConversationInit, NoInput
  <2> QED BY <1>1, <2>1 DEF FloorInv
<1> QED BY <1>2, <1>3

THEOREM DenialStaysAFloor == ConversationSpec => []DenyIsAFloor
<1>1. ConversationInit => FloorInv
  BY FloorInit
<1>2. FloorInv /\ [ConversationNext]_conversationVars => FloorInv'
  <2>1. [ConversationNext]_conversationVars => UNCHANGED <<rules, req>>
    BY DEF ConversationNext, AgentNext, TurnsNext, ModesNext, TreeNext, Decide, conversationVars, policyVars
  <2> QED BY <2>1 DEF FloorInv
<1>3. FloorInv => DenyIsAFloor
  BY DenialIsAFloor DEF FloorInv, DenyIsAFloor
<1> QED BY <1>1, <1>2, <1>3, PTL DEF ConversationSpec

-----------------------------------------------------------------------------
(* PermissionMode: the policy of the session is the user's and the           *)
(* configuration's, and what a skill brings lies over it for one turn.       *)

Granted == {Modes!RuleOf(x) : x \in GrantRules}
Has(p, r) == r \in {p.rules[i] : i \in 1 .. Len(p.rules)}

\* A policy without any rule of a skill.
IsOwn(p) ==
    /\ p \in Modes!Policies /\ Has(p, Modes!Config)
    /\ \A r \in Granted : ~Has(p, r)

\* A policy that adds only rules of skills to another.
LiesOver(p, own) ==
    /\ p \in Modes!Policies /\ Has(p, Modes!Config)
    /\ \A r : Has(p, r) => Has(own, r) \/ r \in Granted

GrantInv ==
    /\ IF grant.on THEN IsOwn(grant.previous) /\ LiesOver(policy, grant.previous)
                   ELSE IsOwn(policy) /\ grant.previous = Modes!Nil
    /\ grant.rules \in Seq(Granted)
    /\ IsOwn(jobsPolicy)
ModeInv ==
    /\ Modes!TypeOK /\ GrantInv
    /\ grant.on => streaming
    /\ preTrust # Modes!Nil => IsOwn(preTrust)

\* What the step keeps of the rules of the user.
UserKept == \A r : r \notin Granted /\ Has(policy, r) => Has(policy', r)

LEMMA ModeRules ==
    ASSUME Modes!ConstantsOK
    PROVE  /\ Modes!Config \in Modes!AllRules /\ Granted \subseteq Modes!AllRules
           /\ Modes!Config \notin Granted
           /\ \A x \in UserRules : Modes!RuleOf(x) \in Modes!AllRules /\ Modes!RuleOf(x) \notin Granted
           /\ \A x \in GrantRules : Modes!RuleOf(x) \in Granted
           /\ Modes!Nil \notin Modes!Policies
<1>1. Modes!Nil \notin Modes!Policies
  BY DEF Modes!Nil, Modes!Policies, Modes!Profiles
<1>2. ASSUME NEW x \in GrantRules
      PROVE  /\ Modes!Config # Modes!RuleOf(x)
             /\ \A y \in UserRules : Modes!RuleOf(x) # Modes!RuleOf(y)
  <2>1. x \in Modes!Tools \X {"allow"} /\ x \notin UserRules
    BY DEF Modes!ConstantsOK
  <2>2. x = <<x[1], x[2]>> /\ x[2] = "allow"
    BY <2>1
  <2>3. Modes!Config.decision = "deny" /\ Modes!RuleOf(x).decision = x[2] /\ Modes!RuleOf(x).tool = x[1]
    BY DEF Modes!Config, Modes!RuleOf, Modes!ToolRule, Modes!Rule
  <2>4. ASSUME NEW y \in UserRules PROVE Modes!RuleOf(x) # Modes!RuleOf(y)
    <3>1. y \in Modes!Tools \X Modes!Decisions
      BY DEF Modes!ConstantsOK
    <3>2. y = <<y[1], y[2]>>
      BY <3>1
    <3>3. Modes!RuleOf(y).decision = y[2] /\ Modes!RuleOf(y).tool = y[1]
      BY DEF Modes!RuleOf, Modes!ToolRule, Modes!Rule
    <3> QED BY <2>1, <2>2, <2>3, <3>2, <3>3
  <2> QED BY <2>2, <2>3, <2>4
<1> HIDE DEF Modes!Config
<1> QED BY <1>1, <1>2 DEF Granted, Modes!AllRules

LEMMA HasOf ==
    ASSUME NEW p \in Modes!Policies
    PROVE  /\ \A prof \in Modes!Profiles :
                 /\ Modes!WithProfile(p, prof) \in Modes!Policies
                 /\ \A r : Has(Modes!WithProfile(p, prof), r) <=> Has(p, r)
           /\ \A new \in Modes!AllRules :
                 /\ Modes!WithRule(p, new) \in Modes!Policies
                 /\ \A r : Has(Modes!WithRule(p, new), r) <=> Has(p, r) \/ r = new
           /\ \A more \in Seq(Modes!AllRules) :
                 /\ Modes!WithRules(p, more) \in Modes!Policies
                 /\ \A r : Has(Modes!WithRules(p, more), r) <=>
                              Has(p, r) \/ \E i \in 1 .. Len(more) : more[i] = r
<1> USE DEF Modes!Policies
<1> HIDE DEF Modes!AllRules, Modes!Profiles
<1>1. p.rules \in Seq(Modes!AllRules) /\ p.profile \in Modes!Profiles
      /\ p = [profile |-> p.profile, rules |-> p.rules]
  OBVIOUS
<1>2. ASSUME NEW prof \in Modes!Profiles
      PROVE  /\ Modes!WithProfile(p, prof) \in Modes!Policies
             /\ \A r : Has(Modes!WithProfile(p, prof), r) <=> Has(p, r)
  <2>1. Modes!WithProfile(p, prof) = [profile |-> prof, rules |-> p.rules]
    BY <1>1 DEF Modes!WithProfile
  <2> QED BY <1>1, <2>1 DEF Has
<1>3. ASSUME NEW new \in Modes!AllRules
      PROVE  /\ Modes!WithRule(p, new) \in Modes!Policies
             /\ \A r : Has(Modes!WithRule(p, new), r) <=> Has(p, r) \/ r = new
  <2>1. Modes!WithRule(p, new) = [profile |-> p.profile, rules |-> Append(p.rules, new)]
    BY <1>1 DEF Modes!WithRule
  <2>2. Append(p.rules, new) \in Seq(Modes!AllRules) /\ Len(Append(p.rules, new)) = Len(p.rules) + 1
        /\ Len(p.rules) \in Nat
    BY <1>1
  <2>3. \A i \in 1 .. Len(p.rules) + 1 : Append(p.rules, new)[i] = IF i <= Len(p.rules) THEN p.rules[i] ELSE new
    BY <1>1
  <2>4. ASSUME NEW r PROVE Has(Modes!WithRule(p, new), r) <=> Has(p, r) \/ r = new
    <3>1. Has(Modes!WithRule(p, new), r)
             <=> \E i \in 1 .. Len(p.rules) + 1 : r = Append(p.rules, new)[i]
      BY <2>1, <2>2 DEF Has
    <3>2. \A i \in 1 .. Len(p.rules) : i \in 1 .. Len(p.rules) + 1 /\ i <= Len(p.rules)
      BY <2>2
    <3>3. \A i \in 1 .. Len(p.rules) + 1 : i <= Len(p.rules) => i \in 1 .. Len(p.rules)
      BY <2>2
    <3>4. Len(p.rules) + 1 \in 1 .. Len(p.rules) + 1 /\ ~(Len(p.rules) + 1 <= Len(p.rules))
      BY <2>2
    <3>5. ASSUME NEW i \in 1 .. Len(p.rules) + 1, r = Append(p.rules, new)[i]
          PROVE  Has(p, r) \/ r = new
      BY <2>3, <3>3, <3>5 DEF Has
    <3>6. ASSUME NEW i \in 1 .. Len(p.rules), r = p.rules[i]
          PROVE  Has(Modes!WithRule(p, new), r)
      <4>1. Append(p.rules, new)[i] = r
        BY <2>3, <3>2, <3>6
      <4> QED BY <3>1, <3>2, <4>1
    <3>7. ASSUME r = new PROVE Has(Modes!WithRule(p, new), r)
      <4>1. Append(p.rules, new)[Len(p.rules) + 1] = new
        BY <2>3, <3>4
      <4> QED BY <3>1, <3>4, <3>7, <4>1
    <3>8. Has(p, r) <=> \E i \in 1 .. Len(p.rules) : r = p.rules[i]
      BY DEF Has
    <3> QED BY <3>1, <3>5, <3>6, <3>7, <3>8, Zenon
  <2>5. Modes!WithRule(p, new) \in Modes!Policies
    <3> DEFINE all == Append(p.rules, new)
    <3> HIDE DEF all
    <3>1. all \in Seq(Modes!AllRules) /\ Modes!WithRule(p, new) = [profile |-> p.profile, rules |-> all]
      BY <2>1, <2>2 DEF all
    <3> QED BY <1>1, <3>1
  <2> QED BY <2>4, <2>5
<1>4. ASSUME NEW more \in Seq(Modes!AllRules)
      PROVE  /\ Modes!WithRules(p, more) \in Modes!Policies
             /\ \A r : Has(Modes!WithRules(p, more), r) <=>
                          Has(p, r) \/ \E i \in 1 .. Len(more) : more[i] = r
  <2>1. Modes!WithRules(p, more) = [profile |-> p.profile, rules |-> p.rules \o more]
    <3> DEFINE all == p.rules \o more
    <3>1. Modes!WithRules(p, more) = [p EXCEPT !.rules = all]
      BY Zenon DEF Modes!WithRules
    <3> HIDE DEF all
    <3>2. [p EXCEPT !.rules = all] = [profile |-> p.profile, rules |-> all]
      BY <1>1
    <3> QED BY <3>1, <3>2 DEF all
  <2>2. p.rules \o more \in Seq(Modes!AllRules) /\ Len(p.rules \o more) = Len(p.rules) + Len(more)
        /\ Len(p.rules) \in Nat /\ Len(more) \in Nat
    BY <1>1
  <2>3. /\ \A i \in 1 .. Len(p.rules) : (p.rules \o more)[i] = p.rules[i]
        /\ \A i \in 1 .. Len(more) : (p.rules \o more)[Len(p.rules) + i] = more[i]
    BY <1>1
  <2>4. ASSUME NEW r
        PROVE  Has(Modes!WithRules(p, more), r) <=> Has(p, r) \/ \E i \in 1 .. Len(more) : more[i] = r
    <3>1. ASSUME NEW i \in 1 .. Len(p.rules) + Len(more), i > Len(p.rules)
          PROVE  i - Len(p.rules) \in 1 .. Len(more) /\ Len(p.rules) + (i - Len(p.rules)) = i
      BY <2>2, <3>1
    <3>2. \A i \in 1 .. Len(more) : Len(p.rules) + i \in 1 .. Len(p.rules) + Len(more)
      BY <2>2
    <3>3. \A i \in 1 .. Len(p.rules) : i \in 1 .. Len(p.rules) + Len(more)
      BY <2>2
    <3>4. ASSUME Has(Modes!WithRules(p, more), r) PROVE Has(p, r) \/ \E i \in 1 .. Len(more) : more[i] = r
      <4>1. PICK i \in 1 .. Len(p.rules) + Len(more) : (p.rules \o more)[i] = r
        BY <2>1, <2>2, <3>4 DEF Has
      <4>2. CASE i <= Len(p.rules)
        BY <2>2, <2>3, <4>1, <4>2 DEF Has
      <4>3. CASE i > Len(p.rules)
        BY <2>3, <3>1, <4>1, <4>3
      <4> QED BY <2>2, <4>2, <4>3
    <3>5. ASSUME Has(p, r) PROVE Has(Modes!WithRules(p, more), r)
      BY <2>1, <2>2, <2>3, <3>3, <3>5 DEF Has
    <3>6. ASSUME NEW i \in 1 .. Len(more), more[i] = r PROVE Has(Modes!WithRules(p, more), r)
      BY <2>1, <2>2, <2>3, <3>2, <3>6 DEF Has
    <3> QED BY <3>4, <3>5, <3>6
  <2>5. Modes!WithRules(p, more) \in Modes!Policies
    <3> DEFINE all == p.rules \o more
    <3> HIDE DEF all
    <3>1. all \in Seq(Modes!AllRules) /\ Modes!WithRules(p, more) = [profile |-> p.profile, rules |-> all]
      BY <2>1, <2>2 DEF all
    <3> QED BY <1>1, <3>1
  <2> QED BY <2>4, <2>5
<1> QED BY <1>2, <1>3, <1>4


LEMMA OwnOf ==
    ASSUME Modes!ConstantsOK, NEW p, IsOwn(p)
    PROVE  /\ \A prof \in Modes!Profiles : IsOwn(Modes!WithProfile(p, prof))
           /\ \A prof \in Modes!Profiles : \A r : Has(p, r) => Has(Modes!WithProfile(p, prof), r)
           /\ \A x \in UserRules : IsOwn(Modes!WithRule(p, Modes!RuleOf(x)))
           /\ \A x \in UserRules : \A r : Has(p, r) => Has(Modes!WithRule(p, Modes!RuleOf(x)), r)
           /\ \A more \in Seq(Granted) : LiesOver(Modes!WithRules(p, more), p)
           /\ \A more \in Seq(Granted) : \A r : Has(p, r) => Has(Modes!WithRules(p, more), r)
<1> USE DEF IsOwn
<1> HIDE DEF Has, Granted
<1>1. p \in Modes!Policies
  OBVIOUS
<1>2. \A prof \in Modes!Profiles : /\ Modes!WithProfile(p, prof) \in Modes!Policies
                                   /\ \A r : Has(Modes!WithProfile(p, prof), r) <=> Has(p, r)
  BY <1>1, HasOf
<1>3. ASSUME NEW x \in UserRules
      PROVE  /\ IsOwn(Modes!WithRule(p, Modes!RuleOf(x)))
             /\ \A r : Has(p, r) => Has(Modes!WithRule(p, Modes!RuleOf(x)), r)
  <2> DEFINE new == Modes!RuleOf(x)
  <2>1. new \in Modes!AllRules /\ new \notin Granted
    BY ModeRules
  <2> HIDE DEF new
  <2>2. /\ Modes!WithRule(p, new) \in Modes!Policies
        /\ \A r : Has(Modes!WithRule(p, new), r) <=> Has(p, r) \/ r = new
    BY <1>1, <2>1, HasOf
  <2>3. IsOwn(Modes!WithRule(p, new)) /\ \A r : Has(p, r) => Has(Modes!WithRule(p, new), r)
    BY <2>1, <2>2
  <2> QED BY <2>3 DEF new
<1>4. ASSUME NEW more \in Seq(Granted)
      PROVE  /\ LiesOver(Modes!WithRules(p, more), p)
             /\ \A r : Has(p, r) => Has(Modes!WithRules(p, more), r)
  <2>1. more \in Seq(Modes!AllRules) /\ \A i \in 1 .. Len(more) : more[i] \in Granted
    <3>1. Granted \subseteq Modes!AllRules
      BY ModeRules
    <3> QED BY <3>1
  <2>2. /\ Modes!WithRules(p, more) \in Modes!Policies
        /\ \A r : Has(Modes!WithRules(p, more), r) <=> Has(p, r) \/ \E i \in 1 .. Len(more) : more[i] = r
    BY <1>1, <2>1, HasOf
  <2>3. \A r : (\E i \in 1 .. Len(more) : more[i] = r) => r \in Granted
    BY <2>1
  <2> QED BY <2>2, <2>3, Zenon DEF LiesOver
<1> QED BY <1>2, <1>3, <1>4

(* The rules that a skill brought, as far as they stay.                      *)
LEMMA RevokedIs ==
    ASSUME NEW R, NEW own \in Seq(R), NEW tool
    PROVE  Modes!revokeSkillGrants(own, tool) \in Seq(R)
<1> DEFINE n == Len(own)
           S == Seq(R)
           After(k, s) == IF own[k].tool = tool THEN s ELSE Append(s, own[k])
           d == CHOOSE c : c = [i \in 0..n |-> IF i = 0 THEN << >> ELSE After(i, c[i - 1])]
<1>1. n \in Nat
  OBVIOUS
<1>2. \A k \in 1..n, s \in S : After(k, s) \in S
  OBVIOUS
<1>3. << >> \in S
  OBVIOUS
<1>4. \E c : c = [i \in 0..n |-> IF i = 0 THEN << >> ELSE After(i, c[i - 1])]
  <2> DEFINE step == [x \in (1 .. n + 1) \X S |-> IF x[1] = 1 THEN << >> ELSE After(x[1] - 1, x[2])]
  <2> HIDE DEF After, S, n
  <2>1. step \in [(1 .. n + 1) \X S -> S]
    <3>1. \A k \in 1 .. n + 1, s \in S : k # 1 => After(k - 1, s) \in S
      <4> TAKE k \in 1 .. n + 1, s \in S
      <4>1. k # 1 => k - 1 \in 1..n
        BY <1>1
      <4> QED BY <1>2, <4>1
    <3> QED BY <1>3, <3>1
  <2>2. \A k \in 1 .. n + 1, s \in S : k # 1 => step[<<k, s>>] = After(k - 1, s)
    OBVIOUS
  <2> HIDE DEF step
  <2>3. n + 1 \in Nat
    BY <1>1
  <2>4. PICK f : Iteration(f, n + 1, S, << >>, step)
    BY <1>3, <2>1, <2>3, Iterates
  <2> DEFINE c == [i \in 0..n |-> f[i + 1]]
  <2>5. ASSUME NEW i \in 0..n PROVE c[i] = IF i = 0 THEN << >> ELSE After(i, c[i - 1])
    <3>1. i + 1 \in 1 .. n + 1 /\ (i + 1 = 1 <=> i = 0)
          /\ (i # 0 => i \in 1 .. n + 1 /\ i - 1 \in 0..n /\ (i - 1) + 1 = i /\ (i + 1) - 1 = i)
      BY <1>1
    <3>2. f[i + 1] = IF i = 0 THEN << >> ELSE step[<<i + 1, f[i]>>]
      BY <2>4, <3>1 DEF Iteration
    <3>3. i # 0 => f[i] \in S
      BY <2>4, <3>1 DEF Iteration
    <3>4. i # 0 => c[i - 1] = f[i]
      BY <3>1
    <3>5. i # 0 => step[<<i + 1, f[i]>>] = After(i, f[i])
      BY <2>2, <3>1, <3>3
    <3> QED BY <3>2, <3>4, <3>5
  <2>6. c = [i \in 0..n |-> c[i]]
    OBVIOUS
  <2> HIDE DEF c
  <2>7. c = [i \in 0..n |-> IF i = 0 THEN << >> ELSE After(i, c[i - 1])]
    BY <2>5, <2>6
  <2> QED BY <2>7
<1>5. d = [i \in 0..n |-> IF i = 0 THEN << >> ELSE After(i, d[i - 1])]
  <2> HIDE DEF After, n
  <2> QED BY <1>4, Zenon
<1>6. Modes!revokeSkillGrants(own, tool) = d[n]
  BY Zenon DEF Modes!revokeSkillGrants
<1> HIDE DEF d
<1>7. \A i \in 0..n : d[i] \in S
  <2> DEFINE T == {i \in 0..n : d[i] \notin S}
  <2> HIDE DEF S, n, After
  <2> SUFFICES ASSUME T # {} PROVE FALSE
    OBVIOUS
  <2>1. PICK i \in T : \A l \in T : i <= l
    <3>1. T \in SUBSET (0..n)
      OBVIOUS
    <3> HIDE DEF T
    <3> QED BY <1>1, <3>1, Least
  <2>2. i \in 0..n /\ d[i] \notin S
    OBVIOUS
  <2>3. d[i] = IF i = 0 THEN << >> ELSE After(i, d[i - 1])
    BY <1>5, <2>2
  <2>4. i # 0
    BY <1>3, <2>2, <2>3
  <2>5. i \in 1..n /\ i - 1 \in 0..n /\ ~(i <= i - 1)
    <3> HIDE DEF T
    <3> QED BY <1>1, <2>2, <2>4
  <2>6. d[i - 1] \in S
    BY <2>1, <2>5
  <2> QED BY <1>2, <2>2, <2>3, <2>4, <2>5, <2>6
<1>8. n \in 0..n
  BY <1>1
<1> QED BY <1>6, <1>7, <1>8


(* A grant, laid or not. *)
IsGrant(g) ==
    /\ g = [on |-> g.on, previous |-> g.previous, rules |-> g.rules]
    /\ g.on \in BOOLEAN /\ g.rules \in Seq(Granted)
    /\ IF g.on THEN IsOwn(g.previous) ELSE g.previous = Modes!Nil

(* A change of the session's policy is laid under the grant of the turn.     *)
LEMMA SessionIsSet ==
    ASSUME Modes!ConstantsOK, NEW p, IsOwn(p), NEW g, IsGrant(g),
           Modes!setSessionPermissionPolicy(p, g)
    PROVE  /\ GrantInv' /\ IsGrant(grant') /\ grant'.on = g.on
           /\ policy' \in Modes!Policies /\ jobsPolicy' \in Modes!Policies
           /\ \A r : Has(p, r) => Has(policy', r)
<1> HIDE DEF Has, Granted
<1>0. p \in Modes!Policies
  BY DEF IsOwn
<1>1. CASE g.on
  <2> DEFINE all == Modes!WithRules(p, g.rules)
             h == [g EXCEPT !.previous = p]
  <2>1. Modes!setPermissionPolicy(all, h)
    BY <1>1 DEF Modes!setSessionPermissionPolicy
  <2>2. LiesOver(all, p) /\ \A r : Has(p, r) => Has(all, r)
    BY OwnOf DEF IsGrant
  <2>3. h = [on |-> TRUE, previous |-> p, rules |-> g.rules]
    <3>1. ASSUME NEW a, NEW b, NEW c, g = [on |-> a, previous |-> b, rules |-> c]
          PROVE  h = [on |-> a, previous |-> p, rules |-> c]
      BY <3>1
    <3>2. g = [on |-> g.on, previous |-> g.previous, rules |-> g.rules] /\ g.on = TRUE
      BY <1>1 DEF IsGrant
    <3> HIDE DEF h
    <3> QED BY <3>1, <3>2
  <2> HIDE DEF all, h
  <2>4. policy' = all /\ grant' = h /\ jobsPolicy' = Modes!WithProfile(p, all.profile)
    BY <2>1, <2>3 DEF Modes!setPermissionPolicy, Modes!SessionPolicy
  <2>5. all \in Modes!Policies /\ all.profile \in Modes!Profiles
    BY <2>2 DEF LiesOver, Modes!Policies
  <2>6. IsOwn(jobsPolicy') /\ jobsPolicy' \in Modes!Policies
    BY <2>4, <2>5, OwnOf DEF IsOwn
  <2>7. grant'.on /\ grant'.previous = p /\ grant'.rules = g.rules
    BY <2>3, <2>4
  <2>8. IsGrant(grant')
    BY <2>3, <2>4, <2>7 DEF IsGrant
  <2>9. GrantInv'
    BY <2>2, <2>4, <2>6, <2>7 DEF GrantInv, IsGrant
  <2> QED BY <1>1, <2>2, <2>4, <2>5, <2>6, <2>7, <2>8, <2>9
<1>2. CASE ~g.on
  <2>1. Modes!setPermissionPolicy(p, g)
    BY <1>2 DEF Modes!setSessionPermissionPolicy
  <2>2. policy' = p /\ grant' = g /\ jobsPolicy' = p
    BY <1>2, <2>1 DEF Modes!setPermissionPolicy, Modes!SessionPolicy
  <2>3. GrantInv'
    BY <1>2, <2>2 DEF GrantInv, IsGrant
  <2> QED BY <1>0, <1>2, <2>2, <2>3
<1> QED BY <1>1, <1>2

(* The policy without the grant is the user's, and has all of the user's rules. *)
LEMMA SessionIsOwn ==
    ASSUME Modes!ConstantsOK, ModeInv
    PROVE  /\ IsOwn(Modes!sessionPermissionPolicy) /\ IsGrant(grant)
           /\ Modes!sessionPermissionPolicy.profile \in Modes!Profiles
           /\ \A r : r \notin Granted /\ Has(policy, r) => Has(Modes!sessionPermissionPolicy, r)
<1> HIDE DEF Has, Granted
<1>1. GrantInv /\ policy \in Modes!Policies /\ grant.on \in BOOLEAN
      /\ grant = [on |-> grant.on, previous |-> grant.previous, rules |-> grant.rules]
  BY DEF ModeInv, Modes!TypeOK
<1>2. IsGrant(grant)
  BY <1>1 DEF GrantInv, IsGrant
<1>3. CASE grant.on
  <2>1. Modes!sessionPermissionPolicy = Modes!WithProfile(grant.previous, policy.profile)
    BY <1>3 DEF Modes!sessionPermissionPolicy, Modes!SessionPolicy
  <2>2. policy.profile \in Modes!Profiles
    BY <1>1 DEF Modes!Policies
  <2>3. IsOwn(grant.previous) /\ LiesOver(policy, grant.previous)
    BY <1>1, <1>3 DEF GrantInv
  <2>4. IsOwn(Modes!sessionPermissionPolicy)
        /\ \A r : Has(grant.previous, r) => Has(Modes!sessionPermissionPolicy, r)
    BY <2>1, <2>2, <2>3, OwnOf
  <2>5. \A r : r \notin Granted /\ Has(policy, r) => Has(grant.previous, r)
    BY <2>3 DEF LiesOver
  <2>6. Modes!sessionPermissionPolicy.profile \in Modes!Profiles
    BY <2>4 DEF IsOwn, Modes!Policies
  <2> QED BY <1>2, <2>4, <2>5, <2>6
<1>4. CASE ~grant.on
  <2>1. Modes!sessionPermissionPolicy = policy
    BY <1>4 DEF Modes!sessionPermissionPolicy, Modes!SessionPolicy
  <2>2. IsOwn(policy) /\ policy.profile \in Modes!Profiles
    BY <1>1, <1>4 DEF GrantInv, Modes!Policies
  <2> QED BY <1>2, <2>1, <2>2
<1> QED BY <1>1, <1>3, <1>4

LEMMA BaseIsOwn == ASSUME Modes!ConstantsOK PROVE IsOwn(Modes!base) /\ Modes!base.profile = "ask"
<1>1. Modes!base.rules = <<Modes!Config>> /\ Modes!base.profile = "ask"
      /\ Modes!base = [profile |-> Modes!base.profile, rules |-> Modes!base.rules]
  BY DEF Modes!base
<1>2. Modes!Config \in Modes!AllRules /\ Modes!Config \notin Granted
  BY ModeRules
<1> HIDE DEF Modes!Config, Modes!AllRules, Granted, Modes!base
<1>3. <<Modes!Config>> \in Seq(Modes!AllRules) /\ Len(<<Modes!Config>>) = 1 /\ <<Modes!Config>>[1] = Modes!Config
  BY <1>2
<1>4. \A r : Has(Modes!base, r) <=> r = Modes!Config
  BY <1>1, <1>3 DEF Has
<1>5. "ask" \in Modes!Profiles
  BY DEF Modes!Profiles
<1>6. Modes!base \in Modes!Policies
  <2> DEFINE all == <<Modes!Config>>
  <2> HIDE DEF all
  <2>1. Modes!base = [profile |-> "ask", rules |-> all] /\ all \in Seq(Modes!AllRules)
    BY <1>1, <1>3 DEF all
  <2> QED BY <1>5, <2>1 DEF Modes!Policies
<1> QED BY <1>1, <1>2, <1>4, <1>6 DEF IsOwn

(* What /trust off returns to. *)
LEMMA TrustOffIsOwn == ASSUME Modes!ConstantsOK, ModeInv PROVE IsOwn(Modes!trustOffPolicy)
<1> DEFINE restore == IF preTrust # Modes!Nil THEN preTrust ELSE Modes!base
<1>1. IsOwn(restore)
  BY BaseIsOwn DEF ModeInv
<1>2. Modes!trustOffPolicy = IF restore.profile = "full" THEN Modes!WithProfile(restore, "ask") ELSE restore
  BY DEF Modes!trustOffPolicy
<1>3. "ask" \in Modes!Profiles
  BY DEF Modes!Profiles
<1> HIDE DEF restore
<1> QED BY <1>1, <1>2, <1>3, OwnOf


LEMMA ModeInit == ASSUME Modes!ConstantsOK, Modes!Init PROVE ModeInv
<1> USE DEF Modes!Init
<1>1. IsOwn(Modes!base)
  BY BaseIsOwn
<1>2. Modes!base \in Modes!Policies
  BY <1>1 DEF IsOwn
<1>3. grant = [on |-> FALSE, previous |-> Modes!Nil, rules |-> << >>]
  BY DEF Modes!NoGrant
<1>4. << >> \in Seq(Granted) /\ << >> \in Seq(Modes!AllRules) /\ "ask" \in Modes!Profiles
  BY DEF Modes!Profiles
<1> HIDE DEF Modes!base, Granted, Modes!AllRules, Modes!Nil, Modes!Profiles
<1>5. Modes!TypeOK
  <2>1. grant \in [on: BOOLEAN, previous: Modes!Policies \cup {Modes!Nil}, rules: Seq(Modes!AllRules)]
    <3> HIDE DEF Modes!Init
    <3> QED BY <1>3, <1>4
  <2>2. policy = Modes!base /\ jobsPolicy = Modes!base /\ planMode = FALSE /\ planPrev = "ask"
        /\ preTrust = Modes!Nil /\ streaming = FALSE
    OBVIOUS
  <2> HIDE DEF Modes!Init
  <2> QED BY <1>2, <1>4, <2>1, <2>2 DEF Modes!TypeOK
<1>6. GrantInv
  BY <1>1, <1>3, <1>4 DEF GrantInv
<1> QED BY <1>3, <1>5, <1>6 DEF ModeInv

(* A step that sets the session's policy and knows what it keeps of it.      *)
LEMMA SessionStep ==
    ASSUME Modes!ConstantsOK, ModeInv, NEW p, IsOwn(p), NEW g, IsGrant(g), g.on = grant.on,
           Modes!setSessionPermissionPolicy(p, g),
           UNCHANGED streaming, planMode' \in BOOLEAN, planPrev' \in Modes!Profiles,
           preTrust' = Modes!Nil \/ IsOwn(preTrust')
    PROVE  /\ ModeInv'
           /\ (\A r : r \notin Granted /\ Has(Modes!sessionPermissionPolicy, r) => Has(p, r)) => UserKept
<1> HIDE DEF Has, Granted
<1>1. /\ GrantInv' /\ IsGrant(grant') /\ grant'.on = g.on
      /\ policy' \in Modes!Policies /\ jobsPolicy' \in Modes!Policies
      /\ \A r : Has(p, r) => Has(policy', r)
  BY SessionIsSet
<1>2. grant' \in [on: BOOLEAN, previous: Modes!Policies \cup {Modes!Nil}, rules: Seq(Modes!AllRules)]
  <2>1. grant'.rules \in Seq(Modes!AllRules)
    <3>1. Granted \subseteq Modes!AllRules /\ grant'.rules \in Seq(Granted)
      BY <1>1, ModeRules DEF IsGrant
    <3> QED BY <3>1
  <2>2. grant'.previous \in Modes!Policies \cup {Modes!Nil} /\ grant'.on \in BOOLEAN
    BY <1>1 DEF IsGrant, IsOwn
  <2>3. grant' = [on |-> grant'.on, previous |-> grant'.previous, rules |-> grant'.rules]
    BY <1>1 DEF IsGrant
  <2> HIDE DEF Modes!AllRules, Modes!Policies, Modes!Nil
  <2>4. ASSUME NEW a \in BOOLEAN, NEW b \in Modes!Policies \cup {Modes!Nil}, NEW c \in Seq(Modes!AllRules)
        PROVE  [on |-> a, previous |-> b, rules |-> c]
                  \in [on: BOOLEAN, previous: Modes!Policies \cup {Modes!Nil}, rules: Seq(Modes!AllRules)]
    OBVIOUS
  <2>5. [on |-> grant'.on, previous |-> grant'.previous, rules |-> grant'.rules]
          \in [on: BOOLEAN, previous: Modes!Policies \cup {Modes!Nil}, rules: Seq(Modes!AllRules)]
    BY <2>1, <2>2, <2>4
  <2> QED BY <2>3, <2>5
<1>3. preTrust' \in Modes!Policies \cup {Modes!Nil}
  BY DEF IsOwn
<1>4. Modes!TypeOK'
  BY <1>1, <1>2, <1>3 DEF ModeInv, Modes!TypeOK
<1>5. ModeInv'
  BY <1>1, <1>4 DEF ModeInv
<1>6. ASSUME \A r : r \notin Granted /\ Has(Modes!sessionPermissionPolicy, r) => Has(p, r) PROVE UserKept
  <2>1. \A r : r \notin Granted /\ Has(policy, r) => Has(Modes!sessionPermissionPolicy, r)
    BY SessionIsOwn
  <2> QED BY <1>1, <1>6, <2>1 DEF UserKept
<1> QED BY <1>5, <1>6

(* The step changes only the profile of the session's policy. *)
LEMMA ProfileStep ==
    ASSUME Modes!ConstantsOK, ModeInv, NEW prof \in Modes!Profiles,
           Modes!setSessionPermissionPolicy(Modes!WithProfile(Modes!sessionPermissionPolicy, prof), grant),
           UNCHANGED streaming, planMode' \in BOOLEAN, planPrev' \in Modes!Profiles,
           preTrust' = Modes!Nil \/ IsOwn(preTrust')
    PROVE  ModeInv' /\ UserKept
<1> HIDE DEF Has, Granted
<1> DEFINE p == Modes!WithProfile(Modes!sessionPermissionPolicy, prof)
<1>1. IsOwn(p) /\ (\A r : Has(Modes!sessionPermissionPolicy, r) => Has(p, r)) /\ IsGrant(grant)
  BY SessionIsOwn, OwnOf
<1>2. Modes!setSessionPermissionPolicy(p, grant)
  OBVIOUS
<1> HIDE DEF p
<1>3. ModeInv' /\ UserKept
  BY <1>1, <1>2, SessionStep
<1> QED BY <1>3

LEMMA FullStep == ASSUME Modes!ConstantsOK, ModeInv, Modes!EnterFull PROVE ModeInv' /\ UserKept
<1> HIDE DEF Has, Granted
<1> USE DEF Modes!EnterFull
<1> DEFINE sp == Modes!sessionPermissionPolicy
           p == Modes!WithProfile(Modes!Restore, "full")
<1>1. IsOwn(sp) /\ IsGrant(grant) /\ planPrev \in Modes!Profiles /\ "full" \in Modes!Profiles
  BY SessionIsOwn DEF ModeInv, Modes!TypeOK, Modes!Profiles
<1>2. Modes!Restore = IF planMode THEN Modes!WithProfile(sp, planPrev) ELSE sp
  BY DEF Modes!Restore
<1>3. IsOwn(Modes!Restore) /\ \A r : Has(sp, r) => Has(Modes!Restore, r)
  BY <1>1, <1>2, OwnOf
<1>4. IsOwn(p) /\ \A r : Has(sp, r) => Has(p, r)
  BY <1>1, <1>3, OwnOf
<1>5. preTrust' = Modes!Nil \/ IsOwn(preTrust')
  BY <1>3 DEF ModeInv
<1>6. Modes!setSessionPermissionPolicy(p, grant) /\ planMode' \in BOOLEAN /\ planPrev' \in Modes!Profiles
      /\ streaming' = streaming
  BY <1>1
<1> HIDE DEF p
<1> QED BY <1>1, <1>4, <1>5, <1>6, SessionStep

LEMMA CycleStep == ASSUME Modes!ConstantsOK, ModeInv, Modes!cyclePermissionMode PROVE ModeInv' /\ UserKept
<1> DEFINE target == Modes!nextPermMode(Modes!CurrentPermMode)
           prof == IF target = "plan" THEN "safe" ELSE target
<1>1. target \in {"edit", "auto", "plan", "ask"}
  BY DEF Modes!nextPermMode
<1>2. prof \in Modes!Profiles
  BY <1>1 DEF Modes!Profiles
<1> HIDE DEF target
<1>3. /\ preTrust' = Modes!Nil /\ planMode' = (target = "plan") /\ streaming' = streaming
      /\ planPrev' = IF target = "plan" THEN Modes!sessionPermissionPolicy.profile ELSE planPrev
      /\ Modes!setSessionPermissionPolicy(Modes!WithProfile(Modes!sessionPermissionPolicy, prof), grant)
  BY DEF Modes!cyclePermissionMode, target
<1>4. planPrev' \in Modes!Profiles
  BY <1>3, SessionIsOwn DEF ModeInv, Modes!TypeOK
<1>5. planMode' \in BOOLEAN
  BY <1>3
<1> HIDE DEF prof
<1> QED BY <1>2, <1>3, <1>4, <1>5, ProfileStep

LEMMA AddStep ==
    ASSUME Modes!ConstantsOK, ModeInv, NEW x \in UserRules, NEW g, IsGrant(g), g.on = grant.on,
           Modes!AddRule(Modes!RuleOf(x), g)
    PROVE  ModeInv' /\ UserKept
<1> HIDE DEF Has, Granted
<1> DEFINE sp == Modes!sessionPermissionPolicy
           p == Modes!WithRule(sp, Modes!RuleOf(x))
           off == Modes!WithRule(Modes!trustOffPolicy, Modes!RuleOf(x))
<1>1. IsOwn(sp) /\ IsGrant(grant) /\ planPrev \in Modes!Profiles /\ planMode \in BOOLEAN
  BY SessionIsOwn DEF ModeInv, Modes!TypeOK
<1>2. IsOwn(p) /\ \A r : Has(sp, r) => Has(p, r)
  BY <1>1, OwnOf
<1>3. IsOwn(off)
  BY TrustOffIsOwn, OwnOf
<1>4. /\ preTrust' = (IF sp.profile = "full" THEN off ELSE Modes!Nil)
      /\ Modes!setSessionPermissionPolicy(p, g)
      /\ planMode' = planMode /\ planPrev' = planPrev /\ streaming' = streaming
  BY DEF Modes!AddRule
<1> HIDE DEF p, off
<1> QED BY <1>1, <1>2, <1>3, <1>4, SessionStep


LEMMA GrantTyped ==
    ASSUME Modes!ConstantsOK, NEW g, IsGrant(g)
    PROVE  g \in [on: BOOLEAN, previous: Modes!Policies \cup {Modes!Nil}, rules: Seq(Modes!AllRules)]
<1>1. g.rules \in Seq(Modes!AllRules)
  <2>1. Granted \subseteq Modes!AllRules /\ g.rules \in Seq(Granted)
    BY ModeRules DEF IsGrant
  <2> HIDE DEF Granted, Modes!AllRules
  <2> QED BY <2>1
<1>2. g.previous \in Modes!Policies \cup {Modes!Nil} /\ g.on \in BOOLEAN
  BY DEF IsGrant, IsOwn
<1>3. g = [on |-> g.on, previous |-> g.previous, rules |-> g.rules]
  BY DEF IsGrant
<1> HIDE DEF Modes!AllRules, Modes!Policies, Modes!Nil
<1>4. ASSUME NEW a \in BOOLEAN, NEW b \in Modes!Policies \cup {Modes!Nil}, NEW c \in Seq(Modes!AllRules)
      PROVE  [on |-> a, previous |-> b, rules |-> c]
                \in [on: BOOLEAN, previous: Modes!Policies \cup {Modes!Nil}, rules: Seq(Modes!AllRules)]
  OBVIOUS
<1>5. [on |-> g.on, previous |-> g.previous, rules |-> g.rules]
        \in [on: BOOLEAN, previous: Modes!Policies \cup {Modes!Nil}, rules: Seq(Modes!AllRules)]
  BY <1>1, <1>2, <1>4
<1> QED BY <1>3, <1>5

LEMMA NoGrantIs == IsGrant(Modes!NoGrant) /\ Modes!NoGrant.on = FALSE
<1>1. Modes!NoGrant = [on |-> FALSE, previous |-> Modes!Nil, rules |-> << >>]
  BY DEF Modes!NoGrant
<1>2. << >> \in Seq(Granted)
  OBVIOUS
<1> HIDE DEF Granted, Modes!Nil
<1> QED BY <1>1, <1>2 DEF IsGrant

(* Without a grant every policy is the policy without rules of skills.       *)
LEMMA PlainStep ==
    ASSUME Modes!ConstantsOK, ModeInv, NEW p, IsOwn(p), Modes!setPermissionPolicy(p, Modes!NoGrant),
           streaming' \in BOOLEAN, UNCHANGED planPrev, planMode' \in BOOLEAN,
           preTrust' = Modes!Nil \/ preTrust' = preTrust
    PROVE  ModeInv' /\ policy' = p
<1>1. policy' = p /\ jobsPolicy' = p /\ grant' = Modes!NoGrant
  BY NoGrantIs DEF Modes!setPermissionPolicy, Modes!SessionPolicy
<1>2. IsGrant(grant') /\ grant'.on = FALSE
  BY <1>1, NoGrantIs
<1>3. grant' \in [on: BOOLEAN, previous: Modes!Policies \cup {Modes!Nil}, rules: Seq(Modes!AllRules)]
  BY <1>2, GrantTyped
<1>4. Modes!TypeOK'
  BY <1>1, <1>3 DEF ModeInv, Modes!TypeOK, IsOwn
<1>5. GrantInv'
  BY <1>1, <1>2 DEF GrantInv, IsGrant
<1> QED BY <1>1, <1>2, <1>4, <1>5 DEF ModeInv

LEMMA EndStep == ASSUME Modes!ConstantsOK, ModeInv, Modes!EndTurn PROVE ModeInv' /\ UserKept
<1> HIDE DEF Has, Granted
<1> USE DEF Modes!EndTurn
<1>1. CASE grant.on
  <2> DEFINE p == Modes!WithProfile(grant.previous, policy.profile)
  <2>1. p = Modes!sessionPermissionPolicy
    BY <1>1 DEF Modes!sessionPermissionPolicy, Modes!SessionPolicy
  <2>2. IsOwn(p) /\ \A r : r \notin Granted /\ Has(policy, r) => Has(p, r)
    BY <2>1, SessionIsOwn
  <2>3. Modes!setPermissionPolicy(p, Modes!NoGrant)
    BY <1>1
  <2>4. streaming' \in BOOLEAN /\ planPrev' = planPrev /\ planMode' \in BOOLEAN /\ preTrust' = preTrust
    BY DEF ModeInv, Modes!TypeOK
  <2> HIDE DEF p
  <2>5. ModeInv' /\ policy' = p
    BY <2>2, <2>3, <2>4, PlainStep
  <2> QED BY <2>2, <2>5 DEF UserKept
<1>2. CASE ~grant.on
  <2>1. UNCHANGED <<policy, jobsPolicy, grant, planMode, planPrev, preTrust>> /\ streaming' = FALSE
    BY <1>2
  <2> HIDE DEF Modes!EndTurn
  <2> QED BY <1>2, <2>1 DEF ModeInv, GrantInv, Modes!TypeOK, UserKept
<1> QED BY <1>1, <1>2

LEMMA ApplyStep ==
    ASSUME Modes!ConstantsOK, ModeInv, NEW x \in GrantRules, Modes!applySkillGrant(x)
    PROVE  ModeInv' /\ UserKept
<1> HIDE DEF Has, Granted
<1> DEFINE new == Modes!RuleOf(x)
           previous == IF grant.on THEN grant.previous ELSE policy
           p == Modes!WithRule(policy, new)
           more == Append(grant.rules, new)
           g == [on |-> TRUE, previous |-> previous, rules |-> more]
<1>0. new \in Granted /\ new \in Modes!AllRules
  BY ModeRules
<1>1. Modes!setPermissionPolicy(p, g) /\ UNCHANGED <<planMode, planPrev, preTrust, streaming>> /\ streaming = TRUE
  BY DEF Modes!applySkillGrant, ModeInv, Modes!TypeOK
<1>2. IsOwn(previous) /\ LiesOver(policy, previous) /\ policy \in Modes!Policies
  BY DEF ModeInv, GrantInv, Modes!TypeOK, LiesOver, IsOwn
<1>3. /\ p \in Modes!Policies
      /\ \A r : Has(p, r) <=> Has(policy, r) \/ r = new
  <2> HIDE DEF new
  <2> QED BY <1>0, <1>2, HasOf
<1>4. LiesOver(p, previous)
  BY <1>0, <1>2, <1>3 DEF LiesOver
<1>5. more \in Seq(Granted)
  <2> HIDE DEF new
  <2> QED BY <1>0 DEF ModeInv, GrantInv
<1>6. IsGrant(g)
  <2> HIDE DEF more, previous
  <2> QED BY <1>2, <1>5 DEF IsGrant
<1>7. g.on = TRUE /\ g.previous = previous /\ g.rules = more
  OBVIOUS
<1> HIDE DEF g, p, previous, more
<1>8. policy' = p /\ grant' = g /\ jobsPolicy' = Modes!WithProfile(previous, p.profile)
  BY <1>1, <1>7 DEF Modes!setPermissionPolicy, Modes!SessionPolicy
<1>9. IsOwn(jobsPolicy')
  <2>1. p.profile \in Modes!Profiles
    BY <1>3 DEF Modes!Policies
  <2> QED BY <1>2, <1>8, <2>1, OwnOf
<1>10. GrantInv'
  BY <1>2, <1>4, <1>5, <1>7, <1>8, <1>9 DEF GrantInv
<1>11. grant' \in [on: BOOLEAN, previous: Modes!Policies \cup {Modes!Nil}, rules: Seq(Modes!AllRules)]
  BY <1>6, <1>8, GrantTyped
<1>12. Modes!TypeOK'
  BY <1>1, <1>3, <1>8, <1>9, <1>11 DEF ModeInv, Modes!TypeOK, IsOwn
<1>13. ModeInv'
  BY <1>1, <1>10, <1>12 DEF ModeInv
<1> QED BY <1>3, <1>8, <1>13 DEF UserKept

LEMMA RuleStep ==
    ASSUME Modes!ConstantsOK, ModeInv, NEW x \in UserRules, Modes!SetRule(x) \/ Modes!rememberApproval(x)
    PROVE  ModeInv' /\ UserKept
<1>1. IsGrant(grant)
  BY SessionIsOwn
<1>2. CASE Modes!rememberApproval(x)
  BY <1>1, <1>2, AddStep DEF Modes!rememberApproval
<1>3. CASE Modes!SetRule(x)
  <2> DEFINE kept == Modes!revokeSkillGrants(grant.rules, x[1])
             g == [grant EXCEPT !.rules = kept]
  <2>1. kept \in Seq(Granted)
    <3> HIDE DEF Granted
    <3> QED BY <1>1, RevokedIs DEF IsGrant
  <2> HIDE DEF kept
  <2>2. g = [on |-> grant.on, previous |-> grant.previous, rules |-> kept]
    BY DEF ModeInv, Modes!TypeOK
  <2>3. IsGrant(g) /\ g.on = grant.on
    <3> HIDE DEF g, Granted
    <3> QED BY <1>1, <2>1, <2>2 DEF IsGrant
  <2>4. Modes!AddRule(Modes!RuleOf(x), grant) \/ Modes!AddRule(Modes!RuleOf(x), g)
    BY <1>3 DEF Modes!SetRule, kept
  <2> HIDE DEF g
  <2> QED BY <1>1, <2>3, <2>4, AddStep
<1> QED BY <1>2, <1>3


LEMMA TurnedOnStep == ASSUME Modes!ConstantsOK, ModeInv, Modes!PlanOn \/ Modes!PlanOff \/ Modes!TrustOn PROVE ModeInv' /\ UserKept
<1>1. Modes!sessionPermissionPolicy.profile \in Modes!Profiles /\ planPrev \in Modes!Profiles
      /\ "safe" \in Modes!Profiles
  BY SessionIsOwn DEF ModeInv, Modes!TypeOK, Modes!Profiles
<1>2. CASE Modes!PlanOn
  <2>1. preTrust' = Modes!Nil \/ IsOwn(preTrust')
    BY <1>2 DEF Modes!PlanOn, ModeInv
  <2>2. planMode' \in BOOLEAN /\ planPrev' \in Modes!Profiles /\ streaming' = streaming
    BY <1>1, <1>2 DEF Modes!PlanOn
  <2>3. Modes!setSessionPermissionPolicy(Modes!WithProfile(Modes!sessionPermissionPolicy, "safe"), grant)
    BY <1>2 DEF Modes!PlanOn
  <2> QED BY <1>1, <2>1, <2>2, <2>3, ProfileStep
<1>3. CASE Modes!PlanOff
  <2>1. preTrust' = Modes!Nil \/ IsOwn(preTrust')
    BY <1>3 DEF Modes!PlanOff, ModeInv
  <2>2. planMode' \in BOOLEAN /\ planPrev' \in Modes!Profiles /\ streaming' = streaming
    BY <1>1, <1>3 DEF Modes!PlanOff
  <2>3. Modes!setSessionPermissionPolicy(Modes!WithProfile(Modes!sessionPermissionPolicy, planPrev), grant)
    BY <1>3 DEF Modes!PlanOff
  <2> QED BY <1>1, <2>1, <2>2, <2>3, ProfileStep
<1>4. CASE Modes!TrustOn
  BY <1>4, FullStep DEF Modes!TrustOn
<1> QED BY <1>2, <1>3, <1>4

LEMMA ProfileSetStep ==
    ASSUME Modes!ConstantsOK, ModeInv, NEW prof \in Modes!Profiles, Modes!SetProfile(prof)
    PROVE  ModeInv' /\ UserKept
<1>1. CASE prof = "full"
  BY <1>1, FullStep DEF Modes!SetProfile
<1>2. CASE prof # "full"
  <2>1. /\ preTrust' = Modes!Nil /\ planMode' = FALSE /\ planPrev' = planPrev /\ streaming' = streaming
        /\ Modes!setSessionPermissionPolicy(Modes!WithProfile(Modes!sessionPermissionPolicy, prof), grant)
    BY <1>2 DEF Modes!SetProfile
  <2>2. planPrev' \in Modes!Profiles /\ planMode' \in BOOLEAN
    BY <2>1 DEF ModeInv, Modes!TypeOK
  <2> QED BY <2>1, <2>2, ProfileStep
<1> QED BY <1>1, <1>2

LEMMA TrustOffStep == ASSUME Modes!ConstantsOK, ModeInv, Modes!TrustOff PROVE ModeInv'
<1>1. IsOwn(Modes!trustOffPolicy) /\ IsGrant(grant)
  BY TrustOffIsOwn, SessionIsOwn
<1>2. Modes!setSessionPermissionPolicy(Modes!trustOffPolicy, grant)
      /\ preTrust' = Modes!Nil /\ UNCHANGED <<planMode, planPrev, streaming>>
  BY DEF Modes!TrustOff
<1>3. planMode' \in BOOLEAN /\ planPrev' \in Modes!Profiles /\ streaming' = streaming
  BY <1>2 DEF ModeInv, Modes!TypeOK
<1> QED BY <1>1, <1>2, <1>3, SessionStep

LEMMA ModeStep ==
    ASSUME Modes!ConstantsOK, ModeInv, [Modes!Next]_(Modes!vars)
    PROVE  ModeInv' /\ (UserKept \/ Modes!Reset \/ Modes!TrustOff)
<1>1. CASE Modes!Reset
  <2>1. streaming' \in BOOLEAN /\ planPrev' = planPrev /\ planMode' \in BOOLEAN /\ preTrust' = Modes!Nil
        /\ Modes!setPermissionPolicy(Modes!base, Modes!NoGrant)
    BY <1>1 DEF Modes!Reset, ModeInv, Modes!TypeOK
  <2>2. ModeInv'
    BY <2>1, BaseIsOwn, PlainStep
  <2> QED BY <1>1, <2>2
<1>2. CASE Modes!StartTurn
  BY <1>2 DEF Modes!StartTurn, ModeInv, GrantInv, Modes!TypeOK, UserKept
<1>3. CASE UNCHANGED Modes!vars
  BY <1>3 DEF Modes!vars, ModeInv, GrantInv, Modes!TypeOK, UserKept
<1>4. CASE \E prof \in Modes!Profiles : Modes!SetProfile(prof)
  BY <1>4, ProfileSetStep
<1>5. CASE \E x \in UserRules : Modes!SetRule(x) \/ Modes!rememberApproval(x)
  BY <1>5, RuleStep
<1>6. CASE \E x \in GrantRules : Modes!applySkillGrant(x)
  BY <1>6, ApplyStep
<1>7. CASE Modes!cyclePermissionMode
  BY <1>7, CycleStep
<1>8. CASE Modes!PlanOn \/ Modes!PlanOff \/ Modes!TrustOn
  BY <1>8, TurnedOnStep
<1>9. CASE Modes!TrustOff
  BY <1>9, TrustOffStep
<1>10. CASE Modes!EndTurn
  BY <1>10, EndStep
<1> QED BY <1>1, <1>2, <1>3, <1>4, <1>5, <1>6, <1>7, <1>8, <1>9, <1>10 DEF Modes!Next

LEMMA MaxIs ==
    ASSUME NEW n \in Nat, NEW T \in SUBSET (0..n), T # {}
    PROVE  Modes!Max(T) \in T
<1>1. Policy!Max(T) \in T /\ \A x \in T : Policy!Max(T) >= x
  BY SmallestOf
<1> QED BY <1>1, Zenon DEF Modes!Max

(* The configuration's denial decides, wherever it stands in the policy.     *)
LEMMA ConfigDenies ==
    ASSUME NEW p \in Modes!Policies, Has(p, Modes!Config)
    PROVE  Modes!Decide(p, [tool |-> "spawn_agent", command |-> Modes!NoCommand]) = "deny"
<1> DEFINE q == [tool |-> "spawn_agent", command |-> Modes!NoCommand]
           n == Len(p.rules)
           floors == {i \in DOMAIN p.rules : p.rules[i].floor /\ Modes!denyRuleOutcome(p.rules[i], q) = "match"}
<1>1. p.rules \in Seq(Modes!AllRules) /\ n \in Nat /\ DOMAIN p.rules = 1..n
  <2> HIDE DEF Modes!AllRules
  <2> QED BY DEF Modes!Policies
<1>2. /\ Modes!Config.floor /\ Modes!Config.tool = "spawn_agent" /\ Modes!Config.command = Modes!NoCommand
      /\ Modes!Config.prefix = Modes!NoPrefix
  BY DEF Modes!Config, Modes!ToolRule, Modes!Rule
<1>3. Modes!denyRuleOutcome(Modes!Config, q) = "match"
  <2>1. q.tool = "spawn_agent"
    OBVIOUS
  <2> HIDE DEF q, Modes!Config
  <2> QED BY <1>2, <2>1 DEF Modes!denyRuleOutcome, Modes!toolPatternMatches
<1> HIDE DEF q
<1>4. \A r \in Modes!AllRules : r.floor => r.decision = "deny"
  <2>1. ASSUME NEW t, NEW d PROVE Modes!ToolRule(t, d).floor => Modes!ToolRule(t, d).decision = "deny"
    <3>1. Modes!ToolRule(t, d).floor = (d = "deny") /\ Modes!ToolRule(t, d).decision = d
      BY Zenon DEF Modes!ToolRule, Modes!Rule
    <3> QED BY <3>1
  <2>2. \A r \in Modes!AllRules : \E t, d : r = Modes!ToolRule(t, d)
    BY Zenon DEF Modes!AllRules, Modes!Config, Modes!RuleOf
  <2> QED BY <2>1, <2>2
<1>5. floors # {}
  <2>1. PICK i \in 1..n : p.rules[i] = Modes!Config
    BY DEF Has
  <2>2. i \in floors
    <3> HIDE DEF Modes!Config
    <3> QED BY <1>1, <1>2, <1>3, <2>1
  <2> QED BY <2>2
<1>6. floors \in SUBSET (0..n)
  BY <1>1
<1>7. Modes!matchingRule(p, q) = floors
  <2> QED BY <1>5, Zenon DEF Modes!matchingRule
<1>8. Modes!Max(floors) \in floors
  <2> HIDE DEF floors
  <2> QED BY <1>1, <1>5, <1>6, MaxIs
<1> DEFINE m == Modes!Max(floors)
<1>9. p.rules[m].decision = "deny"
  <2>1. m \in 1..n /\ p.rules[m].floor
    BY <1>1, <1>8
  <2>2. p.rules[m] \in Modes!AllRules
    <3> HIDE DEF m, Modes!AllRules
    <3> QED BY <1>1, <2>1
  <2> QED BY <1>4, <2>1, <2>2
<1>10. q.tool = "spawn_agent" /\ "spawn_agent" \notin Modes!ReadOnly
  BY DEF q, Modes!ReadOnly
<1> HIDE DEF floors, m
<1>11. Modes!Decide(p, q) = (IF p.profile = "safe" /\ q.tool \notin Modes!ReadOnly THEN "deny"
         ELSE IF p.rules[m].decision = "allow" /\ Modes!denyFloorIndeterminate(p, q) THEN "ask"
         ELSE p.rules[m].decision)
  BY <1>5, <1>7, Zenon DEF Modes!Decide, m
<1> QED BY <1>9, <1>11 DEF q

LEMMA HoldsIs ==
    ASSUME NEW p, p.rules \in Seq(Modes!AllRules), NEW x
    PROVE  Modes!Holds(p, x) <=> Has(p, Modes!RuleOf(x))
<1>1. DOMAIN p.rules = 1 .. Len(p.rules)
  <2> HIDE DEF Modes!AllRules
  <2> QED OBVIOUS
<1>2. Modes!Holds(p, x) <=> Modes!RuleOf(x) \in {p.rules[i] : i \in DOMAIN p.rules}
  BY Zenon DEF Modes!Holds, Modes!Range
<1> QED BY <1>1, <1>2, Zenon DEF Has

LEMMA ModeInvGives ==
    ASSUME Modes!ConstantsOK, ModeInv
    PROVE  Modes!TypeOK /\ Modes!GrantNeverEscapes /\ Modes!ConfigStays
<1> HIDE DEF Has, Granted
<1>1. policy \in Modes!Policies /\ Has(policy, Modes!Config)
  BY DEF ModeInv, GrantInv, IsOwn, LiesOver
<1>2. Modes!ConfigStays
  BY <1>1, ConfigDenies DEF Modes!ConfigStays
<1>3. ASSUME NEW x \in GrantRules
      PROVE  /\ ~Modes!Holds(jobsPolicy, x) /\ ~Modes!Holds(preTrust, x) /\ ~Modes!Holds(grant.previous, x)
             /\ Modes!Holds(policy, x) => streaming
  <2>1. Modes!RuleOf(x) \in Granted
    BY ModeRules
  <2>2. \A p : IsOwn(p) => ~Modes!Holds(p, x)
    <3> SUFFICES ASSUME NEW p, IsOwn(p) PROVE ~Modes!Holds(p, x)
      OBVIOUS
    <3>1. p.rules \in Seq(Modes!AllRules)
      BY DEF IsOwn, Modes!Policies
    <3> QED BY <2>1, <3>1, HoldsIs DEF IsOwn
  <2>3. ~Modes!Holds(Modes!Nil, x)
    <3>1. Modes!Nil.rules = << >>
      BY DEF Modes!Nil
    <3>2. Modes!Nil.rules \in Seq(Modes!AllRules) /\ Len(Modes!Nil.rules) = 0
      BY <3>1
    <3> HIDE DEF Modes!Nil
    <3>3. ~Has(Modes!Nil, Modes!RuleOf(x))
      BY <3>2 DEF Has
    <3> QED BY <3>2, <3>3, HoldsIs
  <2>4. IsOwn(jobsPolicy) /\ (preTrust = Modes!Nil \/ IsOwn(preTrust))
        /\ (grant.previous = Modes!Nil \/ IsOwn(grant.previous))
    BY DEF ModeInv, GrantInv
  <2>5. Modes!Holds(policy, x) => streaming
    BY <2>2 DEF ModeInv, GrantInv
  <2> QED BY <2>2, <2>3, <2>4, <2>5
<1> QED BY <1>2, <1>3 DEF ModeInv, Modes!GrantNeverEscapes

(* What a skill pre-approves neither outlives its turn nor reaches a         *)
(* background job, what the configuration denies stays denied, and a rule of *)
(* the user stays until the session is reset or trust is left, for any rules *)
(* and any number of them.                                                   *)
THEOREM GrantsStayWithTheirTurn == ASSUME Modes!ConstantsOK PROVE ConversationSpec => GrantNeverEscapes
<1>0. UNCHANGED modeVars => UNCHANGED Modes!vars
  BY DEF modeVars, Modes!vars
<1>1. ConversationInit => ModeInv
  BY ModeInit DEF ConversationInit
<1>2. [ConversationNext]_conversationVars => [Modes!Next]_(Modes!vars)
  BY <1>0 DEF ConversationNext, AgentNext, TurnsNext, ModesNext, TreeNext, Decide, conversationVars
<1>3. ModeInv /\ [ConversationNext]_conversationVars => ModeInv'
  BY <1>2, ModeStep
<1>4. ModeInv => Modes!TypeOK /\ Modes!GrantNeverEscapes /\ Modes!ConfigStays
  BY ModeInvGives
<1>5. ModeInv /\ [ConversationNext]_conversationVars =>
        [\A x \in UserRules : Modes!Holds(policy, x) /\ ~Modes!Holds(policy', x)
            => Modes!Reset \/ Modes!TrustOff]_(Modes!vars)
  <2> SUFFICES ASSUME ModeInv, [ConversationNext]_conversationVars, NEW x \in UserRules,
                      Modes!Holds(policy, x), ~Modes!Holds(policy', x)
               PROVE  Modes!Reset \/ Modes!TrustOff
    OBVIOUS
  <2>1. ModeInv' /\ (UserKept \/ Modes!Reset \/ Modes!TrustOff)
    BY <1>2, ModeStep
  <2>2. policy.rules \in Seq(Modes!AllRules) /\ policy'.rules \in Seq(Modes!AllRules)
    BY <2>1 DEF ModeInv, Modes!TypeOK, Modes!Policies
  <2>3. Has(policy, Modes!RuleOf(x)) /\ ~Has(policy', Modes!RuleOf(x)) /\ Modes!RuleOf(x) \notin Granted
    BY <2>2, HoldsIs, ModeRules
  <2> QED BY <2>1, <2>3 DEF UserKept
<1> QED BY <1>1, <1>3, <1>4, <1>5, PTL DEF ConversationSpec, GrantNeverEscapes, Modes!UserRulesStay

=============================================================================
