------------------------ MODULE WorkflowEngine_proofs ------------------------
(***************************************************************************)
(* What a workflow run keeps for any workflow, any caps and budgets, and   *)
(* any number of calls of Engine.Cancel, whatever its jobs do: it stays    *)
(* within its cap, a cancel reaches every agent, none is left behind, and  *)
(* a run that completed has done all its work.                             *)
(***************************************************************************)
EXTENDS WorkflowEngine, FiniteSetTheorems, TLAPS

-----------------------------------------------------------------------------
(* The inductive invariant, in parts. *)

(* runAgents: from the first Spawn of an attempt or a verifier to its join.  *)
Working   == pc \in {"spawn", "register", "wait", "drain", "drained"}
Verifying == pc = "verify" \/ (Working /\ role = "verify")
Ending    == pc \in {"end", "finish", "done"}

(* What the cap check left room for is what is still to be spawned.          *)
CountInv ==
    /\ Len(job) <= MaxAgents
    /\ pc \in {"spawn", "register"} => Len(job) + todo <= MaxAgents
    /\ pc = "spawn" => todo > 0
    /\ pc = "wait" => todo = 0

(* What the driver holds in ids: the agents of the attempt, or the verifier  *)
(* that was spawned after all of them had done their work.                   *)
RoleInv ==
    /\ Working /\ role = "work" => ids = work[step]
    /\ pc \in {"spawn", "register", "wait"} /\ role = "work" => Cardinality(ids) + todo = This.items
    /\ Working /\ role = "verify" =>
          IF pc = "spawn" THEN ids = {} /\ todo = 1
          ELSE /\ todo = 0 /\ ids = {verifier[step]} /\ verifier[step] \in Jobs
               /\ \A j \in work[step] : verifier[step] > j
    /\ Verifying => /\ This.verify
                    /\ Cardinality(work[step]) = This.items
                    /\ \A j \in work[step] : job[j] = "completed"

(* Only a job just spawned is not registered yet.                            *)
ChildInv == Jobs \subseteq children \cup (IF pc = "register" THEN ids ELSE {})

(* A live job that nobody asked to stop is one the driver still holds; after *)
(* a cancel, one the driver is about to stop or Cancel has in its snapshot.  *)
AskedInv ==
    /\ \A j \in Jobs : Ended(j) \/ j \in asked \/ (Working /\ pc # "drained" /\ j \in ids)
    /\ pc = "wait" => \A j \in ids :
          /\ waiter[j] = "got" => Ended(j)
          /\ waiter[j] \in {"draining", "missing"} => j \in asked
    /\ cancelled => \A j \in Jobs :
          \/ Ended(j) \/ j \in asked
          \/ (pc \in {"register", "drain"} /\ j \in ids)
          \/ (caller = "children" /\ j \in targets)

(* A step that is done stays done.                                           *)
Done(s) ==
    /\ Cardinality(work[s]) = Steps[s].items
    /\ \A j \in work[s] : job[j] = "completed"
    /\ result[s] = IF Steps[s].verify THEN "passed" ELSE "unverified"
    /\ Steps[s].verify => /\ verifier[s] \in Jobs /\ \A j \in work[s] : verifier[s] > j
                          /\ job[verifier[s]] = "completed"

DoneInv == ~firstErr => \A s \in StepIds : s < step \/ Ending => Done(s)

EndInv ==
    /\ state \in Terminal <=> pc = "done"
    /\ state \in Terminal => state = outcome
    /\ pc \in {"finish", "done"} /\ outcome = "completed" => ~firstErr
    /\ pc \in {"finish", "done"} => outcome \in Terminal

FailInv ==
    \A s \in StepIds : result[s] = "failed" => (s < step /\ Steps[s].continue) \/ Ending

(* Every job's result has been published or dropped, but for those the       *)
(* driver holds; and what was published left some budget when the first      *)
(* agent of the attempt is spawned.                                          *)
SeenInv ==
    /\ \A j \in Jobs : j \in reported \cup missed \/ (Working /\ j \in ids)
    /\ pc = "register" => ids # {}
    /\ pc = "spawn" /\ ids = {} /\ TokenBudget > 0 => Usage(reported) < TokenBudget

RunInv == TypeOK /\ CountInv /\ RoleInv /\ ChildInv /\ AskedInv /\ DoneInv /\ EndInv /\ FailInv /\ SeenInv

-----------------------------------------------------------------------------
(* The jobs and the moves of the driver. *)

LEMMA StepTypes ==
    ASSUME ConstantsOK
    PROVE  /\ StepIds = 1..Len(Steps) /\ Len(Steps) \in Nat /\ Len(Steps) > 0
           /\ \A s \in StepIds : /\ Steps[s].items \in Nat \ {0} /\ Steps[s].verify \in BOOLEAN
                                 /\ Steps[s].retry \in Nat /\ Steps[s].continue \in BOOLEAN
<1> DEFINE S == [items: Nat \ {0}, verify: BOOLEAN, retry: Nat, continue: BOOLEAN]
<1>1. Steps \in Seq(S) /\ Len(Steps) > 0
  BY DEF ConstantsOK
<1> HIDE DEF S
<1>2. StepIds = 1..Len(Steps) /\ Len(Steps) \in Nat /\ \A s \in StepIds : Steps[s] \in S
  BY <1>1 DEF StepIds
<1> QED BY <1>1, <1>2 DEF S

LEMMA JobsType ==
    ASSUME TypeOK
    PROVE  Jobs = 1..Len(job) /\ Len(job) \in Nat /\ \A j \in Jobs : job[j] \in JobEnd \cup {"live"}
<1>1. job \in Seq(JobEnd \cup {"live"})
  BY DEF TypeOK
<1> QED BY <1>1 DEF Jobs

(* A Spawn adds one live job. *)
LEMMA SpawnGrows ==
    ASSUME TypeOK, job' = Append(job, "live")
    PROVE  /\ job' \in Seq(JobEnd \cup {"live"})
           /\ Len(job') = Len(job) + 1 /\ Jobs' = Jobs \cup {Len(job')} /\ Len(job') \notin Jobs
           /\ Len(job') # 0 /\ job'[Len(job')] = "live" /\ \A j \in Jobs : job'[j] = job[j] /\ Len(job') > j
<1>1. job \in Seq(JobEnd \cup {"live"})
  BY DEF TypeOK
<1> QED BY <1>1 DEF Jobs

(* A job that ends leaves the others as they are. *)
LEMMA EndKeeps ==
    ASSUME TypeOK, NEW j \in Jobs, JobEnds(j)
    PROVE  /\ job' \in Seq(JobEnd \cup {"live"}) /\ Len(job') = Len(job) /\ Jobs' = Jobs
           /\ \A i \in Jobs : Ended(i) => job'[i] = job[i]
<1>1. job \in Seq(JobEnd \cup {"live"}) /\ j \in DOMAIN job
  BY DEF TypeOK, Jobs
<1>2. PICK s \in JobEnd : job' = [job EXCEPT ![j] = s]
  BY DEF JobEnds
<1> QED BY <1>1, <1>2 DEF Jobs, Ended, JobEnds

(* A step or its attempt is over.                                            *)
Over == StepFails \/ (~This.verify /\ StepPasses("unverified")) \/ \E v \in {"pass", "fail", "error"} : VerificationEnds(v)

LEMMA OverMoves ==
    ASSUME ConstantsOK, TypeOK, Over
    PROVE  /\ result' \in [StepIds -> {"pending", "unverified", "passed", "failed"}]
           /\ step' \in StepIds /\ attempt' \in 1..(This.retry + 1)'
           /\ firstErr' \in BOOLEAN /\ pc' \in {"step", "attempt", "end"}
<1>1. step \in StepIds /\ step \in Nat /\ step <= Len(Steps) /\ attempt \in Nat /\ attempt > 0
      /\ result \in [StepIds -> {"pending", "unverified", "passed", "failed"}] /\ firstErr \in BOOLEAN
      /\ Steps[step].retry \in Nat /\ attempt <= Steps[step].retry + 1
  BY StepTypes DEF TypeOK, This
<1>2. ASSUME NextStep
      PROVE  step' \in StepIds /\ attempt' \in 1..(This.retry + 1)' /\ pc' \in {"step", "end"}
  <2>1. CASE step < Len(Steps)
    <3>1. step' = step + 1 /\ attempt' = 1 /\ pc' = "step"
      BY <1>2, <2>1 DEF NextStep
    <3>2. step' \in StepIds
      BY <1>1, <2>1, <3>1, StepTypes
    <3>3. Steps[step'].retry \in Nat
      BY <3>2, StepTypes
    <3> QED BY <3>1, <3>2, <3>3 DEF This
  <2>2. CASE ~(step < Len(Steps))
    BY <1>1, <1>2, <2>2 DEF NextStep, This
  <2> QED BY <2>1, <2>2
<1>3. CASE StepFails
  BY <1>1, <1>2, <1>3 DEF StepFails, This
<1>4. CASE StepPasses("unverified")
  BY <1>1, <1>2, <1>4 DEF StepPasses, This
<1>5. ASSUME NEW v \in {"pass", "fail", "error"}, VerificationEnds(v)
      PROVE  /\ result' \in [StepIds -> {"pending", "unverified", "passed", "failed"}]
             /\ step' \in StepIds /\ attempt' \in 1..(This.retry + 1)'
             /\ firstErr' \in BOOLEAN /\ pc' \in {"step", "attempt", "end"}
  <2>1. CASE StepPasses("passed")
    BY <1>1, <1>2, <2>1 DEF StepPasses, This
  <2>2. CASE attempt <= This.retry /\ attempt' = attempt + 1 /\ pc' = "attempt"
             /\ UNCHANGED <<result, step, firstErr>>
    BY <1>1, <2>2 DEF This
  <2>3. CASE StepFails
    BY <1>3, <2>3
  <2> QED BY <1>5, <2>1, <2>2, <2>3 DEF VerificationEnds
<1> QED BY <1>3, <1>4, <1>5 DEF Over

-----------------------------------------------------------------------------
(* Type correctness. *)

LEMMA TypeInit == ASSUME ConstantsOK, Init PROVE TypeOK
<1>1. 1 \in StepIds /\ Steps[1].retry \in Nat
  BY StepTypes
<1>2. state \in Terminal \cup {"pending", "running"} /\ cancelled \in BOOLEAN /\ ctxDone \in BOOLEAN
  BY DEF Init
<1>3. job \in Seq(JobEnd \cup {"live"}) /\ Jobs = {}
  BY DEF Init, Jobs
<1>4. children \subseteq Jobs /\ reported \subseteq Jobs /\ missed \subseteq Jobs /\ asked \subseteq Jobs
  BY DEF Init
<1>5. /\ work \in [StepIds -> SUBSET Jobs] /\ verifier \in [StepIds -> Jobs \cup {0}]
      /\ result \in [StepIds -> {"pending", "unverified", "passed", "failed"}]
  BY DEF Init
<1>6. step \in StepIds /\ attempt \in 1..(This.retry + 1)
  BY <1>1 DEF Init, This
<1>7. waiter \in [IF pc = "wait" THEN ids ELSE {} -> {"waiting", "draining", "got", "missing"}]
  BY DEF Init
<1>8. cancels \in 0..MaxCancels
  BY DEF Init, ConstantsOK
<1> QED BY <1>2, <1>3, <1>4, <1>5, <1>6, <1>7, <1>8 DEF Init, TypeOK, Terminal

LEMMA NoWaiters == << >> \in [{} -> {"waiting", "draining", "got", "missing"}]
OBVIOUS

(* What an action that ends a step or an attempt leaves alone.               *)
LEMMA OverType ==
    ASSUME ConstantsOK, TypeOK, Over, pc # "wait" \/ waiter' = << >>,
           UNCHANGED <<state, cancelled, children, ctxDone, work, verifier, role, todo, ids,
                       outcome, cancel, jobs>>,
           reported' \subseteq Jobs, missed' \subseteq Jobs,
           verdict' \in {"none", "pass", "fail", "error"},
           waiter' = waiter \/ waiter' = << >>, tripped' \in BOOLEAN, swept' \in BOOLEAN
    PROVE  TypeOK'
<1>1. /\ result' \in [StepIds -> {"pending", "unverified", "passed", "failed"}]
      /\ step' \in StepIds /\ attempt' \in 1..(This.retry + 1)'
      /\ firstErr' \in BOOLEAN /\ pc' \in {"step", "attempt", "end"}
  BY OverMoves
<1>2. waiter' \in [{} -> {"waiting", "draining", "got", "missing"}]
  <2>1. CASE waiter' = << >>
    BY <2>1, NoWaiters
  <2>2. CASE waiter' = waiter /\ pc # "wait"
    BY <2>2 DEF TypeOK
  <2> QED BY <2>1, <2>2
<1>3. Jobs' = Jobs
  BY DEF Jobs, jobs
<1> HIDE DEF Over
<1> QED BY <1>1, <1>2, <1>3 DEF TypeOK, cancel, jobs

LEMMA OverVerdict ==
    ASSUME NEW v \in {"pass", "fail", "error"}, VerificationEnds(v)
    PROVE  Over /\ verdict' \in {"pass", "fail", "error"}
BY DEF Over, VerificationEnds

LEMMA DriverType == ASSUME ConstantsOK, TypeOK, CountInv, EndInv, Driver PROVE TypeOK'
<1>1. /\ Jobs = 1..Len(job) /\ Len(job) \in Nat
      /\ job' = job => Jobs' = Jobs
      /\ This.items \in Nat \ {0} /\ (step' = step => This' = This)
  BY JobsType, StepTypes DEF Jobs, This, TypeOK
<1>2. CASE Drive
  BY <1>1, <1>2 DEF Drive, TypeOK, Terminal, join, cancel, jobs
<1>3. CASE BeginStep
  BY <1>1, <1>3 DEF BeginStep, TypeOK, run, join, cancel, jobs
<1>4. CASE BeginAttempt
  <2>1. CASE StepFails /\ UNCHANGED <<work, verifier, role, todo, ids>>
    BY <1>4, <2>1, OverType DEF BeginAttempt, TypeOK, Over, join
  <2>2. CASE pc' = "spawn"
    <3>1. work' \in [StepIds -> SUBSET Jobs] /\ verifier' \in [StepIds -> Jobs \cup {0}]
          /\ role' \in {"work", "verify"} /\ todo' \in Nat /\ ids' = {} /\ UNCHANGED <<result, firstErr, step, attempt>>
      BY <1>1, <1>4, <2>2 DEF BeginAttempt, TypeOK, StepFails, NextStep
    <3> QED BY <1>1, <1>4, <2>2, <3>1 DEF BeginAttempt, TypeOK, join, cancel, jobs
  <2> QED BY <1>4, <2>1, <2>2 DEF BeginAttempt
<1>5. CASE BeginVerify
  <2>1. CASE StepFails /\ UNCHANGED <<verdict, role, todo, ids>>
    BY <1>5, <2>1, OverType DEF BeginVerify, TypeOK, Over, join
  <2>2. CASE VerificationEnds("error") /\ UNCHANGED <<role, todo, ids>>
    BY <1>5, <2>2, OverType, OverVerdict DEF BeginVerify, TypeOK, join
  <2>3. CASE pc' = "spawn" /\ role' = "verify" /\ todo' = 1 /\ ids' = {}
             /\ UNCHANGED <<verdict, result, firstErr, step, attempt>>
    BY <1>1, <1>5, <2>3 DEF BeginVerify, TypeOK, join, cancel, jobs
  <2> QED BY <1>5, <2>1, <2>2, <2>3 DEF BeginVerify
<1>6. CASE SpawnRefused
  <2>1. CASE VerificationEnds("error")
    BY <1>6, <2>1, OverType, OverVerdict DEF SpawnRefused, TypeOK, join
  <2>2. CASE pc' = "drain" /\ UNCHANGED <<result, firstErr, step, attempt, verdict>>
    BY <1>1, <1>6, <2>2 DEF SpawnRefused, TypeOK, join, cancel, jobs
  <2> QED BY <1>6, <2>1, <2>2 DEF SpawnRefused
<1>7. CASE Spawn
  <2>1. CASE pc' = "drain" /\ UNCHANGED <<work, verifier, todo, ids, jobs>>
    BY <1>1, <1>7, <2>1 DEF Spawn, TypeOK, join, cancel, jobs
  <2>2. CASE /\ pc' = "register" /\ job' = Append(job, "live") /\ ids' = ids \cup {Len(job')}
             /\ todo' = todo - 1 /\ asked' = asked
             /\ IF role = "work" THEN work' = [work EXCEPT ![step] = ids'] /\ UNCHANGED verifier
                ELSE verifier' = [verifier EXCEPT ![step] = Len(job')] /\ UNCHANGED work
    <3>1. job' \in Seq(JobEnd \cup {"live"}) /\ Jobs' = Jobs \cup {Len(job')}
      BY <2>2, SpawnGrows
    <3>2. todo' \in Nat
      BY <1>7, <2>2 DEF Spawn, CountInv, TypeOK
    <3>3. ids' \subseteq Jobs'
      BY <2>2, <3>1 DEF TypeOK
    <3>4. work' \in [StepIds -> SUBSET Jobs']
      BY <2>2, <3>1, <3>3 DEF TypeOK
    <3>5. verifier' \in [StepIds -> Jobs' \cup {0}]
      BY <2>2, <3>1 DEF TypeOK
    <3>6. children' \subseteq Jobs' /\ reported' \subseteq Jobs' /\ missed' \subseteq Jobs' /\ asked' \subseteq Jobs'
      BY <1>7, <2>2, <3>1 DEF Spawn, TypeOK
    <3>7. waiter' \in [{} -> {"waiting", "draining", "got", "missing"}]
      BY <1>7 DEF Spawn, TypeOK, join
    <3> QED BY <1>1, <1>7, <2>2, <3>1, <3>2, <3>3, <3>4, <3>5, <3>6, <3>7 DEF Spawn, TypeOK, join, cancel
  <2> QED BY <1>7, <2>1, <2>2 DEF Spawn
<1>8. CASE registerChild
  <2>1. pc' \in {"drain", "spawn", "wait"}
        /\ waiter' \in [IF pc' = "wait" THEN ids' ELSE {} -> {"waiting", "draining", "got", "missing"}]
    BY <1>8 DEF registerChild, TypeOK
  <2> QED BY <1>1, <1>8, <2>1 DEF registerChild, TypeOK, cancel, jobs
<1>9. CASE Drain
  BY <1>1, <1>9 DEF Drain, TypeOK, run, join, cancel
<1>10. CASE Drained
  <2>1. reported' \subseteq Jobs /\ missed' \subseteq Jobs
    BY <1>10 DEF Drained, TypeOK
  <2>2. Over /\ verdict' \in {"none", "pass", "fail", "error"}
    BY <1>10, OverVerdict DEF Drained, Over, TypeOK
  <2> HIDE DEF Over
  <2> QED BY <1>10, <2>1, <2>2, OverType DEF Drained, TypeOK, join
<1>11. CASE Joined
  <2>1. reported' \subseteq Jobs /\ missed' \subseteq Jobs
    BY <1>11 DEF Joined, TypeOK
  <2>2. CASE pc' = "verify" /\ UNCHANGED <<result, firstErr, step, attempt, verdict>>
    BY <1>1, <1>11, <2>1, <2>2, NoWaiters DEF Joined, TypeOK, cancel, jobs
  <2>3. CASE Over /\ verdict' \in {"none", "pass", "fail", "error"}
    BY <1>11, <2>1, <2>3, OverType DEF Joined, TypeOK
  <2> QED BY <1>11, <2>2, <2>3, OverVerdict DEF Joined, Over, TypeOK
<1>12. CASE Decide
  BY <1>1, <1>12 DEF Decide, TypeOK, Terminal, run, join, cancel, jobs
<1>13. CASE finish
  BY <1>1, <1>13 DEF finish, TypeOK, EndInv, Terminal, join, cancel, jobs
<1> QED BY <1>2, <1>3, <1>4, <1>5, <1>6, <1>7, <1>8, <1>9, <1>10, <1>11, <1>12, <1>13 DEF Driver

(* Waiters, Engine.Cancel and the jobs leave the driver where it is. *)
Aside ==
    \/ \E j \in ids : Waiter(j)
    \/ Sweep \/ Cancel \/ CancelChildren \/ CancelContext
    \/ \E j \in Jobs : JobEnds(j)

LEMMA AsideType == ASSUME ConstantsOK, TypeOK, Aside PROVE TypeOK'
<1>1. /\ job' = job => Jobs' = Jobs
      /\ This' = This <=> Steps[step'] = Steps[step]
      /\ cancels \in Nat /\ MaxCancels \in Nat
  BY DEF Jobs, This, TypeOK, ConstantsOK
<1>2. ASSUME NEW j \in ids, Waiter(j) PROVE TypeOK'
  <2>1. pc = "wait" /\ waiter' \in [ids -> {"waiting", "draining", "got", "missing"}]
        /\ tripped' \in BOOLEAN /\ UNCHANGED <<run, driver, swept, cancel, job>> /\ asked' \subseteq Jobs
    <3>1. CASE WaiterGot(j)
      BY <3>1 DEF WaiterGot, TypeOK, jobs
    <3>2. CASE WaiterTimeout(j)
      BY <3>2 DEF WaiterTimeout, TypeOK
    <3>3. CASE WaiterGivesUp(j)
      BY <3>3 DEF WaiterGivesUp, TypeOK, jobs
    <3> QED BY <1>2, <3>1, <3>2, <3>3 DEF Waiter
  <2> QED BY <1>1, <2>1 DEF TypeOK, This, run, driver, cancel
<1>3. CASE Sweep
  BY <1>1, <1>3 DEF Sweep, TypeOK, This, run, driver, cancel
<1>4. CASE Cancel
  <2>1. cancels' \in 0..MaxCancels /\ targets' \subseteq children'
    BY <1>1, <1>4 DEF Cancel, TypeOK
  <2> QED BY <1>1, <1>4, <2>1 DEF Cancel, TypeOK, This, driver, join, jobs
<1>5. CASE CancelChildren
  BY <1>1, <1>5 DEF CancelChildren, TypeOK, This, run, driver, join
<1>6. CASE CancelContext
  BY <1>1, <1>6 DEF CancelContext, TypeOK, This, driver, join, jobs
<1>7. ASSUME NEW j \in Jobs, JobEnds(j) PROVE TypeOK'
  <2>1. job' \in Seq(JobEnd \cup {"live"}) /\ Jobs' = Jobs
    BY <1>7, EndKeeps
  <2> QED BY <1>7, <2>1 DEF JobEnds, TypeOK, This, run, driver, join, cancel
<1> QED BY <1>2, <1>3, <1>4, <1>5, <1>6, <1>7 DEF Aside

LEMMA AsideKeeps == Aside => UNCHANGED <<driver, reported, missed, work, verifier, result, children, state>>
BY DEF Aside, Waiter, WaiterGot, WaiterTimeout, WaiterGivesUp, Sweep, Cancel, CancelChildren,
       CancelContext, JobEnds, run, driver

LEMMA NextSplits == [Next]_vars <=> Driver \/ Aside \/ UNCHANGED vars
BY DEF Next, Aside

(* No step takes a job away, or changes how one ended, or withdraws a stop.  *)
LEMMA JobsStay ==
    ASSUME TypeOK, [Next]_vars
    PROVE  /\ Jobs \subseteq Jobs' /\ asked \subseteq asked'
           /\ \A j \in Jobs : Ended(j) => job'[j] = job[j] /\ Ended(j)'
<1>1. CASE Spawn
  <2>1. CASE job' = Append(job, "live")
    BY <1>1, <2>1, SpawnGrows DEF Spawn, Ended, jobs
  <2> QED BY <1>1, <2>1 DEF Spawn, Jobs, Ended, jobs
<1>2. ASSUME NEW j \in Jobs, JobEnds(j)
      PROVE  /\ Jobs \subseteq Jobs' /\ asked \subseteq asked'
             /\ \A i \in Jobs : Ended(i) => job'[i] = job[i] /\ Ended(i)'
  BY <1>2, EndKeeps DEF Ended, JobEnds
<1>3. CASE job' = job /\ asked \subseteq asked'
  BY <1>3 DEF Jobs, Ended
<1>4. Driver => Spawn \/ (job' = job /\ asked \subseteq asked')
  BY DEF Driver, Drive, BeginStep, BeginAttempt, BeginVerify, SpawnRefused, registerChild, Drain,
         Drained, Joined, Decide, finish, jobs
<1>5. Aside => (\E j \in Jobs : JobEnds(j)) \/ (job' = job /\ asked \subseteq asked')
  BY DEF Aside, Waiter, WaiterGot, WaiterTimeout, WaiterGivesUp, Sweep, Cancel, CancelChildren,
         CancelContext, jobs
<1>6. UNCHANGED vars => job' = job /\ asked' = asked
  BY DEF vars, jobs
<1> QED BY <1>1, <1>2, <1>3, <1>4, <1>5, <1>6, NextSplits

-----------------------------------------------------------------------------
(* The cap. *)

LEMMA CountStep == ASSUME ConstantsOK, TypeOK, CountInv, [Next]_vars PROVE CountInv'
<1>1. Len(job) \in Nat /\ todo \in Nat /\ MaxAgents \in Nat /\ This.items \in Nat \ {0}
  BY JobsType, StepTypes DEF TypeOK, This, ConstantsOK
<1>2. CASE Spawn
  <2>1. CASE job' = Append(job, "live") /\ todo' = todo - 1 /\ pc' = "register"
    BY <1>1, <1>2, <2>1, SpawnGrows DEF Spawn, CountInv
  <2> QED BY <1>2, <2>1 DEF Spawn, CountInv, jobs
<1>3. CASE BeginAttempt
  BY <1>1, <1>3 DEF BeginAttempt, CountInv, OverCap, StepFails, NextStep, jobs
<1>4. CASE BeginVerify
  BY <1>1, <1>4 DEF BeginVerify, CountInv, OverCap, StepFails, VerificationEnds, StepPasses, NextStep, jobs
<1>5. CASE registerChild
  BY <1>1, <1>5 DEF registerChild, CountInv, jobs
<1>6. CASE Drive \/ BeginStep \/ SpawnRefused \/ Drain \/ Decide \/ finish
  BY <1>6 DEF Drive, BeginStep, SpawnRefused, Drain, Decide, finish, CountInv, run, join, jobs,
              StepFails, VerificationEnds, StepPasses, NextStep
<1>7. CASE Drained \/ Joined
  <2>1. pc' \in {"step", "attempt", "verify", "end"} /\ job' = job
    BY <1>7 DEF Drained, Joined, jobs, StepFails, VerificationEnds, StepPasses, NextStep
  <2> QED BY <2>1 DEF CountInv
<1>8. CASE Aside
  <2>1. Len(job') = Len(job)
    BY <1>8, EndKeeps DEF Aside, Waiter, WaiterGot, WaiterTimeout, WaiterGivesUp, Sweep, Cancel,
            CancelChildren, CancelContext, jobs
  <2> QED BY <1>8, <2>1, AsideKeeps DEF CountInv, driver
<1>9. CASE UNCHANGED vars
  BY <1>9 DEF CountInv, vars, driver, jobs
<1> QED BY <1>2, <1>3, <1>4, <1>5, <1>6, <1>7, <1>8, <1>9, NextSplits DEF Driver

-----------------------------------------------------------------------------
(* What the driver holds. *)

LEMMA JobSets ==
    ASSUME TypeOK, NEW S \in SUBSET Jobs
    PROVE  IsFiniteSet(S) /\ Cardinality(S) \in Nat
<1>1. IsFiniteSet(Jobs)
  BY JobsType, FS_Interval
<1> QED BY <1>1, FS_Subset, FS_CardinalityType

LEMMA RoleStep ==
    ASSUME ConstantsOK, TypeOK, CountInv, RoleInv, [Next]_vars
    PROVE  RoleInv'
<1>1. step \in StepIds /\ ids \subseteq Jobs /\ work[step] \subseteq Jobs /\ todo \in Nat
      /\ role \in {"work", "verify"} /\ This.items \in Nat /\ Cardinality(ids) \in Nat /\ 0 \notin Jobs
  <2>1. step \in StepIds /\ ids \subseteq Jobs /\ work[step] \subseteq Jobs /\ todo \in Nat /\ role \in {"work", "verify"}
    BY DEF TypeOK
  <2> QED BY <2>1, StepTypes, JobSets, JobsType DEF This
<1>2. Jobs \subseteq Jobs' /\ \A j \in Jobs : job[j] = "completed" => job'[j] = "completed"
  BY JobsStay DEF Ended
<1>3. CASE pc' \in {"step", "attempt", "end", "finish", "done"}
  BY <1>3 DEF RoleInv, Working, Verifying
<1>4. CASE BeginAttempt /\ pc' = "spawn"
  <2>1. role' = "work" /\ todo' = This.items /\ ids' = {} /\ work' = [work EXCEPT ![step] = {}] /\ step' = step
    BY <1>4 DEF BeginAttempt, StepFails, NextStep
  <2>2. work'[step] = {}
    BY <1>1, <2>1 DEF TypeOK
  <2> QED BY <1>1, <1>4, <2>1, <2>2, FS_EmptySet DEF RoleInv, Working, Verifying, This
<1>5. CASE BeginVerify /\ pc' = "spawn"
  <2>1. pc = "verify" /\ role' = "verify" /\ todo' = 1 /\ ids' = {} /\ UNCHANGED <<step, work, job>>
    BY <1>5 DEF BeginVerify, StepFails, VerificationEnds, StepPasses, NextStep, jobs
  <2>2. Verifying
    BY <2>1 DEF Verifying
  <2> QED BY <1>5, <2>1, <2>2 DEF RoleInv, Working, Verifying, This
<1>6. CASE (SpawnRefused \/ Spawn) /\ pc' = "drain"
  <2>1. pc = "spawn" /\ role = "work" /\ UNCHANGED <<role, ids, work, step, job>>
    BY <1>1, <1>6 DEF SpawnRefused, Spawn, jobs, VerificationEnds, StepPasses, StepFails, NextStep
  <2> QED BY <1>6, <2>1 DEF RoleInv, Working, Verifying
<1>7. CASE Spawn /\ pc' # "drain"
  <2>1. /\ pc = "spawn" /\ pc' = "register" /\ job' = Append(job, "live") /\ ids' = ids \cup {Len(job')}
        /\ todo' = todo - 1 /\ UNCHANGED <<step, role>>
        /\ IF role = "work" THEN work' = [work EXCEPT ![step] = ids'] /\ UNCHANGED verifier
           ELSE verifier' = [verifier EXCEPT ![step] = Len(job')] /\ UNCHANGED work
    BY <1>7 DEF Spawn
  <2>2. Len(job') \in Jobs' /\ Len(job') \notin Jobs /\ \A j \in Jobs : Len(job') > j
    BY <2>1, SpawnGrows
  <2>3. CASE role = "work"
    <3>1. work'[step] = ids'
      BY <1>1, <2>1, <2>3 DEF TypeOK
    <3>2. Cardinality(ids') = Cardinality(ids) + 1
      BY <1>1, <2>1, <2>2, JobSets, FS_AddElement
    <3>3. Cardinality(ids) + todo = This.items
      BY <2>1, <2>3 DEF RoleInv
    <3> QED BY <1>1, <2>1, <2>3, <3>1, <3>2, <3>3 DEF RoleInv, Working, Verifying, This
  <2>4. CASE role = "verify"
    <3>1. verifier'[step] = Len(job')
      BY <1>1, <2>1, <2>4 DEF TypeOK
    <3>2. ids = {} /\ todo = 1 /\ This.verify /\ Cardinality(work[step]) = This.items
          /\ \A j \in work[step] : job[j] = "completed"
      BY <2>1, <2>4 DEF RoleInv, Working, Verifying
    <3>3. ids' = {verifier'[step']} /\ todo' = 0 /\ verifier'[step'] \in Jobs'
      BY <2>1, <2>2, <3>1, <3>2
    <3>4. \A j \in work'[step'] : verifier'[step'] > j /\ job'[j] = "completed"
      BY <1>1, <1>2, <2>1, <2>2, <2>4, <3>1, <3>2
    <3>5. This' = This /\ work'[step'] = work[step]
      BY <2>1, <2>4 DEF This
    <3> QED BY <2>1, <2>4, <3>2, <3>3, <3>4, <3>5 DEF RoleInv, Working, Verifying
  <2> QED BY <1>1, <2>3, <2>4
<1>8. CASE registerChild
  <2>1. /\ pc = "register" /\ pc' \in {"drain", "spawn", "wait"}
        /\ pc' = "spawn" => todo > 0
        /\ UNCHANGED <<step, role, todo, ids, work, verifier, job>>
    BY <1>8 DEF registerChild, jobs
  <2> QED BY <1>1, <1>2, <2>1 DEF RoleInv, Working, Verifying, This
<1>9. CASE Drain
  BY <1>2, <1>9 DEF Drain, RoleInv, Working, Verifying, This, run
<1>10. CASE Joined /\ pc' = "verify"
  <2>1. /\ pc = "wait" /\ role = "work" /\ This.verify /\ (\A j \in ids : job[j] = "completed")
        /\ UNCHANGED <<step, role, work, job>>
    BY <1>10 DEF Joined, Succeeded, StepFails, VerificationEnds, StepPasses, NextStep, jobs
  <2>2. ids = work[step] /\ Cardinality(ids) + 0 = This.items
    BY <2>1 DEF RoleInv, CountInv, Working
  <2> QED BY <1>1, <1>10, <2>1, <2>2 DEF RoleInv, Working, Verifying, This
<1>11. CASE UNCHANGED <<pc, step, role, todo, ids, work, verifier>>
  BY <1>1, <1>2, <1>11 DEF RoleInv, Working, Verifying, This
<1>12. Aside \/ UNCHANGED vars => UNCHANGED <<pc, step, role, todo, ids, work, verifier>>
  BY AsideKeeps DEF vars, run, driver
<1>13. /\ BeginAttempt => pc' \in {"spawn", "step", "attempt", "end"}
       /\ BeginVerify => pc' \in {"spawn", "step", "attempt", "end"}
       /\ SpawnRefused => pc' \in {"drain", "step", "attempt", "end"}
       /\ Drained => pc' \in {"step", "attempt", "end"}
       /\ Joined => pc' \in {"verify", "step", "attempt", "end"}
       /\ Drive \/ BeginStep \/ Decide \/ finish => pc' \in {"step", "attempt", "end", "finish", "done"}
  BY DEF BeginAttempt, BeginVerify, SpawnRefused, Drained, Joined, Drive, BeginStep, Decide, finish,
         StepFails, VerificationEnds, StepPasses, NextStep
<1> QED BY <1>3, <1>4, <1>5, <1>6, <1>7, <1>8, <1>9, <1>10, <1>11, <1>12, <1>13, NextSplits DEF Driver

-----------------------------------------------------------------------------
(* The children and who was asked to stop. *)

LEMMA ChildStep ==
    ASSUME TypeOK, ChildInv, [Next]_vars
    PROVE  ChildInv'
<1>1. CASE Spawn
  <2>1. CASE job' = Append(job, "live") /\ pc' = "register" /\ ids' = ids \cup {Len(job')}
    <3>1. Jobs' = Jobs \cup {Len(job')}
      BY <2>1, SpawnGrows
    <3>2. Jobs \subseteq children /\ children' = children
      BY <1>1 DEF Spawn, ChildInv
    <3> QED BY <2>1, <3>1, <3>2 DEF ChildInv
  <2> QED BY <1>1, <2>1 DEF Spawn, ChildInv, Jobs, jobs
<1>2. CASE registerChild
  BY <1>2 DEF registerChild, ChildInv, Jobs, jobs
<1>3. CASE Aside
  <2>1. Jobs' = Jobs
    BY <1>3, EndKeeps DEF Aside, Waiter, WaiterGot, WaiterTimeout, WaiterGivesUp, Sweep, Cancel,
            CancelChildren, CancelContext, Jobs, jobs
  <2> QED BY <1>3, <2>1, AsideKeeps DEF ChildInv, driver
<1>4. CASE UNCHANGED vars
  BY <1>4 DEF ChildInv, Jobs, vars, run, driver, jobs
<1>5. ASSUME Driver, ~Spawn, ~registerChild PROVE ChildInv'
  <2>1. pc # "register" /\ UNCHANGED <<children, job>>
    BY <1>5 DEF Driver, Drive, BeginStep, BeginAttempt, BeginVerify, SpawnRefused, Drain, Drained,
                Joined, Decide, finish, run, jobs
  <2> QED BY <2>1 DEF ChildInv, Jobs
<1> QED BY <1>1, <1>2, <1>3, <1>4, <1>5, NextSplits

LEMMA AskedDriver ==
    ASSUME TypeOK, RoleInv, ChildInv, AskedInv, Driver
    PROVE  AskedInv'
<1> DEFINE Settled(j) == Ended(j) \/ j \in asked
<1>1. \A j \in Jobs : j \in Jobs' /\ (Settled(j) => Settled(j)')
  BY JobsStay DEF Next
<1>2. Jobs' = Jobs \/ (Spawn /\ pc' = "register" /\ Jobs' \subseteq Jobs \cup ids' /\ ids \subseteq ids')
  <2>1. CASE /\ Spawn /\ pc' = "register" /\ job' = Append(job, "live")
             /\ ids' = ids \cup {Len(job')}
    BY <2>1, SpawnGrows
  <2>2. CASE job' = job
    BY <2>2 DEF Jobs
  <2> QED BY <2>1, <2>2 DEF Driver, Drive, BeginStep, BeginAttempt, BeginVerify, SpawnRefused, Spawn,
          registerChild, Drain, Drained, Joined, Decide, finish, run, jobs
<1>3. \A j \in Jobs : Settled(j) \/ (Working /\ pc # "drained" /\ j \in ids)
  BY DEF AskedInv
<1>4. cancelled => \A j \in Jobs : \/ Settled(j) \/ (pc \in {"register", "drain"} /\ j \in ids)
                                   \/ (caller = "children" /\ j \in targets)
  BY DEF AskedInv
<1>5. UNCHANGED <<cancelled, caller, targets>>
  BY DEF Driver, Drive, BeginStep, BeginAttempt, BeginVerify, SpawnRefused, Spawn, registerChild,
         Drain, Drained, Joined, Decide, finish, run, cancel
<1> HIDE DEF Settled
<1>6. (* the jobs that are let go *)
      \/ \A j \in Jobs : Settled(j)'
      \/ /\ Working' /\ pc' # "drained" /\ ids \subseteq ids'
         /\ pc \in {"register", "drain"} => pc' \in {"register", "drain"} \/ ~cancelled
  <2>1. CASE Drive \/ BeginStep \/ BeginAttempt \/ BeginVerify \/ Drained \/ Decide \/ finish
    <3>1. ~Working \/ pc = "drained"
      BY <2>1 DEF Drive, BeginStep, BeginAttempt, BeginVerify, Drained, Decide, finish, Working
    <3> QED BY <1>1, <1>3, <3>1
  <2>2. CASE SpawnRefused
    <3>1. CASE role = "verify"
      BY <1>1, <1>3, <2>2, <3>1 DEF SpawnRefused, RoleInv, Working
    <3>2. CASE role # "verify"
      BY <2>2, <3>2 DEF SpawnRefused, Working
    <3> QED BY <3>1, <3>2
  <2>3. CASE Spawn
    BY <2>3 DEF Spawn, Working
  <2>4. CASE registerChild
    BY <2>4 DEF registerChild, Working
  <2>5. CASE Drain
    <3>1. \A j \in ids : Settled(j)'
      BY <2>5 DEF Drain, Settled
    <3> QED BY <1>1, <1>3, <3>1
  <2>6. CASE Joined
    <3>1. pc = "wait" /\ ids \subseteq Jobs /\ \A j \in ids : waiter[j] \in {"got", "missing"}
      BY <2>6 DEF Joined, TypeOK
    <3>2. \A j \in ids : Settled(j)
      BY <3>1 DEF AskedInv, Settled
    <3> QED BY <1>1, <1>3, <3>1, <3>2
  <2> QED BY <2>1, <2>2, <2>3, <2>4, <2>5, <2>6 DEF Driver
<1>7. \A j \in Jobs' : Settled(j)' \/ (Working' /\ pc' # "drained" /\ j \in ids')
  <2>1. CASE Jobs' = Jobs
    BY <1>1, <1>3, <1>6, <2>1
  <2>2. CASE Spawn /\ pc' = "register" /\ Jobs' \subseteq Jobs \cup ids' /\ ids \subseteq ids'
    BY <1>1, <1>3, <2>2 DEF Working
  <2> QED BY <1>2, <2>1, <2>2
<1>8. cancelled' => \A j \in Jobs' : \/ Settled(j)' \/ (pc' \in {"register", "drain"} /\ j \in ids')
                                     \/ (caller' = "children" /\ j \in targets')
  <2>1. CASE Jobs' = Jobs
    BY <1>1, <1>4, <1>5, <1>6, <2>1
  <2>2. CASE Spawn /\ pc' = "register" /\ Jobs' \subseteq Jobs \cup ids' /\ ids \subseteq ids'
    BY <1>1, <1>4, <1>5, <2>2
  <2> QED BY <1>2, <2>1, <2>2
<1>9. pc' = "wait" => \A j \in ids' : waiter'[j] = "waiting"
  BY DEF Driver, Drive, BeginStep, BeginAttempt, BeginVerify, SpawnRefused, Spawn, registerChild,
         Drain, Drained, Joined, Decide, finish, StepFails, VerificationEnds, StepPasses, NextStep
<1> QED BY <1>7, <1>8, <1>9 DEF AskedInv, Settled

LEMMA AskedStep ==
    ASSUME TypeOK, RoleInv, ChildInv, AskedInv, [Next]_vars
    PROVE  AskedInv'
<1>1. CASE Driver
  BY <1>1, AskedDriver
<1>2. ids \subseteq Jobs /\ targets \subseteq Jobs /\ (pc = "wait" => waiter \in [ids -> {"waiting", "draining", "got", "missing"}])
  BY DEF TypeOK
<1>3. CASE Aside \/ UNCHANGED vars
  <2>1. Jobs' = Jobs /\ UNCHANGED <<pc, ids, children>>
    BY <1>3, EndKeeps, AsideKeeps DEF Aside, Waiter, WaiterGot, WaiterTimeout, WaiterGivesUp, Sweep,
       Cancel, CancelChildren, CancelContext, Jobs, vars, run, driver, jobs
  <2>2. asked \subseteq asked' /\ \A j \in Jobs : Ended(j) => Ended(j)'
    BY JobsStay
  <2> DEFINE Said == \A j \in ids : /\ waiter'[j] = "got" => Ended(j)'
                                    /\ waiter'[j] \in {"draining", "missing"} => j \in asked'
  <2>3. pc = "wait" => Said
    <3>1. ASSUME NEW i \in ids, Waiter(i) PROVE Said
      BY <1>2, <2>2, <3>1 DEF Waiter, WaiterGot, WaiterTimeout, WaiterGivesUp, AskedInv, Ended
    <3>2. CASE waiter' = waiter
      BY <1>2, <2>2, <3>2 DEF AskedInv
    <3> QED BY <1>3, <3>1, <3>2 DEF Aside, Sweep, Cancel, CancelChildren, CancelContext, JobEnds, vars, join
  <2>4. cancelled' => \A j \in Jobs : \/ Ended(j)' \/ j \in asked'
                                      \/ (pc \in {"register", "drain"} /\ j \in ids)
                                      \/ (caller' = "children" /\ j \in targets')
    <3>1. CASE Cancel
      BY <2>2, <3>1 DEF Cancel, ChildInv
    <3>2. CASE CancelChildren
      BY <2>2, <3>2 DEF CancelChildren, AskedInv, run
    <3>3. CASE CancelContext
      BY <2>2, <3>3 DEF CancelContext, AskedInv
    <3>4. CASE UNCHANGED <<cancelled, caller, targets>>
      BY <2>2, <3>4 DEF AskedInv
    <3> QED BY <1>3, <3>1, <3>2, <3>3, <3>4 DEF Aside, Waiter, WaiterGot, WaiterTimeout, WaiterGivesUp,
            Sweep, JobEnds, vars, run, cancel
  <2>5. \A j \in Jobs : Ended(j)' \/ j \in asked' \/ (Working /\ pc # "drained" /\ j \in ids)
    BY <2>2 DEF AskedInv
  <2>6. Working' = Working
    BY <2>1 DEF Working
  <2> QED BY <2>1, <2>3, <2>4, <2>5, <2>6 DEF AskedInv
<1> QED BY <1>1, <1>3, NextSplits

-----------------------------------------------------------------------------
(* The end of a run. *)

LEMMA EndStep ==
    ASSUME TypeOK, EndInv, [Next]_vars
    PROVE  EndInv'
<1>1. CASE Drive
  BY <1>1 DEF Drive, EndInv, Terminal
<1>2. CASE BeginStep \/ BeginAttempt \/ BeginVerify \/ SpawnRefused \/ Spawn \/ registerChild \/ Drain \/ Drained \/ Joined
  <2>1. pc \notin {"finish", "done"} /\ pc' \notin {"finish", "done"} /\ state' = state
    BY <1>2 DEF BeginStep, BeginAttempt, BeginVerify, SpawnRefused, Spawn, registerChild, Drain,
                Drained, Joined, StepFails, VerificationEnds, StepPasses, NextStep, run
  <2> QED BY <2>1 DEF EndInv
<1>3. CASE Decide
  BY <1>3 DEF Decide, EndInv, Terminal, run, TypeOK
<1>4. CASE finish
  BY <1>4 DEF finish, EndInv
<1>5. CASE UNCHANGED <<driver, state>>
  BY <1>5 DEF EndInv, driver
<1> QED BY <1>1, <1>2, <1>3, <1>4, <1>5, AsideKeeps, NextSplits DEF Driver, vars, run

(* Nothing after a step undoes what made it done. *)
LEMMA DoneStays ==
    ASSUME TypeOK, [Next]_vars, NEW s \in StepIds, Done(s),
           work'[s] = work[s], verifier'[s] = verifier[s], result'[s] = result[s]
    PROVE  Done(s)'
<1>1. work[s] \subseteq Jobs
  BY DEF TypeOK
<1>2. Jobs \subseteq Jobs' /\ \A j \in Jobs : job[j] = "completed" => job'[j] = "completed"
  BY JobsStay DEF Ended
<1> QED BY <1>1, <1>2 DEF Done

(* Only the join of an attempt or of a verifier lets a step pass.            *)
LEMMA PassIsDone ==
    ASSUME ConstantsOK, TypeOK, CountInv, RoleInv, Joined, pc' # "attempt", pc' # "verify", ~firstErr',
           NEW i \in StepIds, i = step
    PROVE  /\ Done(i)' /\ \A s \in StepIds : s # step => result'[s] = result[s]
           /\ (step < Len(Steps) /\ step' = step + 1 /\ pc' = "step") \/ (step = Len(Steps) /\ step' = step /\ pc' = "end")
<1>1. step \in StepIds /\ step \in Nat /\ step <= Len(Steps) /\ role \in {"work", "verify"}
      /\ result \in [StepIds -> {"pending", "unverified", "passed", "failed"}]
  BY StepTypes DEF TypeOK
<1>2. pc = "wait" /\ Working /\ todo = 0 /\ UNCHANGED <<work, verifier, job>>
      /\ Jobs' = Jobs
  BY DEF Joined, Working, CountInv, jobs, Jobs
<1>3. CASE role = "work"
  <2>1. ~Steps[i].verify /\ StepPasses("unverified") /\ \A j \in ids : job[j] = "completed"
    BY <1>3 DEF Joined, StepFails, Succeeded, This
  <2>2. ids = work[i] /\ Cardinality(ids) + 0 = Steps[i].items
    BY <1>2, <1>3 DEF RoleInv, This
  <2>3. Cardinality(ids) \in Nat
    BY JobSets DEF TypeOK
  <2>4. result'[i] = "unverified" /\ \A s \in StepIds : s # step => result'[s] = result[s]
    BY <1>1, <2>1 DEF StepPasses
  <2>5. Done(i)'
    BY <1>1, <1>2, <2>1, <2>2, <2>3, <2>4, StepTypes DEF Done
  <2> QED BY <1>1, <2>1, <2>4, <2>5 DEF StepPasses, NextStep
<1>4. CASE role = "verify"
  <2>1. PICK v \in {"pass", "fail", "error"} :
            VerificationEnds(v) /\ (v = "pass" => \A j \in ids : job[j] = "completed")
    BY <1>4 DEF Joined, Succeeded
  <2>2. v = "pass" /\ StepPasses("passed")
    BY <2>1 DEF VerificationEnds, StepFails
  <2>3. /\ Steps[i].verify /\ Cardinality(work[i]) = Steps[i].items
        /\ (\A j \in work[i] : job[j] = "completed" /\ verifier[i] > j)
        /\ ids = {verifier[i]} /\ verifier[i] \in Jobs
    BY <1>2, <1>4 DEF RoleInv, Verifying, This
  <2>4. result'[i] = "passed" /\ \A s \in StepIds : s # step => result'[s] = result[s]
    BY <1>1, <2>2 DEF StepPasses
  <2>5. Done(i)'
    BY <1>1, <1>2, <2>1, <2>2, <2>3, <2>4 DEF Done
  <2> QED BY <1>1, <2>2, <2>4, <2>5 DEF StepPasses, NextStep
<1> QED BY <1>1, <1>3, <1>4

LEMMA DoneStep ==
    ASSUME ConstantsOK, TypeOK, CountInv, RoleInv, DoneInv, [Next]_vars
    PROVE  DoneInv'
<1>1. StepIds = 1..Len(Steps) /\ Len(Steps) \in Nat /\ step \in StepIds
      /\ work \in [StepIds -> SUBSET Jobs] /\ verifier \in [StepIds -> Jobs \cup {0}]
      /\ result \in [StepIds -> {"pending", "unverified", "passed", "failed"}] /\ firstErr \in BOOLEAN
  BY StepTypes DEF TypeOK
<1> SUFFICES ASSUME ~firstErr', NEW s \in StepIds, s < step' \/ Ending' PROVE Done(s)'
  BY DEF DoneInv
<1>2. CASE Joined /\ pc' \notin {"attempt", "verify"}
  <2>1. ~firstErr /\ UNCHANGED <<work, verifier>> /\ pc = "wait"
    BY <1>1, <1>2 DEF Joined, StepFails, StepPasses, VerificationEnds
  <2>2. /\ (s = step => Done(s)') /\ \A i \in StepIds : i # step => result'[i] = result[i]
        /\ (step < Len(Steps) /\ step' = step + 1 /\ pc' = "step") \/ (step = Len(Steps) /\ step' = step /\ pc' = "end")
    BY <1>1, <1>2, PassIsDone
  <2>3. s < step \/ s = step
    BY <1>1, <2>2 DEF Ending
  <2>4. CASE s < step
    <3>1. Done(s) /\ s # step
      BY <1>1, <2>1, <2>4 DEF DoneInv
    <3> QED BY <2>1, <2>2, <3>1, DoneStays
  <2> QED BY <2>2, <2>3, <2>4
<1>3. CASE step' = step /\ ~Ending' /\ firstErr' = firstErr /\ (\A i \in StepIds : i # step =>
              work'[i] = work[i] /\ verifier'[i] = verifier[i] /\ result'[i] = result[i])
  <2>1. Done(s) /\ s # step
    BY <1>1, <1>3 DEF DoneInv
  <2> QED BY <1>3, <2>1, DoneStays
<1>4. CASE UNCHANGED <<work, verifier, result, step, firstErr>> /\ (Ending' => Ending)
  <2>1. Done(s)
    BY <1>4 DEF DoneInv
  <2> QED BY <1>4, <2>1, DoneStays
<1>5. ASSUME VerificationEnds("error")
      PROVE  step' = step /\ ~Ending' /\ firstErr' = firstErr /\ result' = result
  BY <1>5 DEF StepFails, VerificationEnds, Ending
<1>6. Drive \/ BeginStep => step' = step /\ ~Ending' /\ firstErr' = firstErr /\ UNCHANGED <<work, verifier, result>>
  BY DEF Drive, BeginStep, Ending, run
<1>7. BeginAttempt => step' = step /\ ~Ending' /\ firstErr' = firstErr /\ result' = result
                      /\ \A i \in StepIds : i # step => work'[i] = work[i] /\ verifier'[i] = verifier[i]
  BY <1>1 DEF BeginAttempt, StepFails, Ending
<1>8. BeginVerify => step' = step /\ ~Ending' /\ firstErr' = firstErr /\ UNCHANGED <<work, verifier, result>>
  BY <1>5 DEF BeginVerify, StepFails, Ending
<1>9. SpawnRefused => step' = step /\ ~Ending' /\ firstErr' = firstErr /\ UNCHANGED <<work, verifier, result>>
  BY <1>5 DEF SpawnRefused, Ending
<1>10. Spawn => step' = step /\ ~Ending' /\ firstErr' = firstErr /\ result' = result
                /\ \A i \in StepIds : i # step => work'[i] = work[i] /\ verifier'[i] = verifier[i]
  BY <1>1 DEF Spawn, Ending
<1>11. registerChild \/ Drain => step' = step /\ ~Ending' /\ firstErr' = firstErr /\ UNCHANGED <<work, verifier, result>>
  BY DEF registerChild, Drain, Ending, run
<1>12. Drained => step' = step /\ ~Ending' /\ firstErr' = firstErr /\ UNCHANGED <<work, verifier, result>>
  BY <1>5 DEF Drained, StepFails
<1>13. Joined /\ pc' \in {"attempt", "verify"} =>
           step' = step /\ ~Ending' /\ firstErr' = firstErr /\ UNCHANGED <<work, verifier, result>>
  BY DEF Joined, StepFails, StepPasses, VerificationEnds, NextStep, Ending
<1>14. Decide \/ finish => UNCHANGED <<work, verifier, result, step, firstErr>> /\ Ending
  BY DEF Decide, finish, run, Ending
<1>15. Aside \/ UNCHANGED vars => UNCHANGED <<work, verifier, result, step, firstErr>> /\ (Ending' => Ending)
  BY AsideKeeps DEF vars, run, driver, Ending
<1> QED BY <1>2, <1>3, <1>4, <1>6, <1>7, <1>8, <1>9, <1>10, <1>11, <1>12, <1>13, <1>14, <1>15, NextSplits DEF Driver

-----------------------------------------------------------------------------
(* Failures and the budget. *)

LEMMA FailStep ==
    ASSUME ConstantsOK, TypeOK, FailInv, [Next]_vars
    PROVE  FailInv'
<1>1. StepIds = 1..Len(Steps) /\ Len(Steps) \in Nat /\ step \in StepIds
      /\ result \in [StepIds -> {"pending", "unverified", "passed", "failed"}]
  BY StepTypes DEF TypeOK
<1>2. CASE Over /\ ~Ending
  <2>1. CASE StepFails /\ ~Ending'
    <3>1. step' = step + 1 /\ Steps[step].continue /\ result' = [result EXCEPT ![step] = "failed"]
      BY <2>1 DEF StepFails, NextStep, Ending, This
    <3> QED BY <1>1, <1>2, <3>1 DEF FailInv
  <2>2. CASE Ending'
    BY <2>2 DEF FailInv
  <2>3. ASSUME NEW v \in {"unverified", "passed"}, StepPasses(v), ~Ending' PROVE FailInv'
    <3>1. step' = step + 1 /\ result' = [result EXCEPT ![step] = v]
      BY <2>3 DEF StepPasses, NextStep, Ending
    <3> QED BY <1>1, <1>2, <3>1 DEF FailInv
  <2>4. CASE UNCHANGED <<result, step>>
    BY <1>2, <2>4 DEF FailInv
  <2> QED BY <1>2, <2>1, <2>2, <2>3, <2>4 DEF Over, VerificationEnds
<1>3. CASE UNCHANGED <<result, step>> /\ (Ending => Ending')
  BY <1>3 DEF FailInv
<1>4. Over \/ (UNCHANGED <<result, step>> /\ (Ending => Ending'))
  <2>1. CASE BeginAttempt \/ BeginVerify \/ SpawnRefused
    BY <2>1, OverVerdict DEF BeginAttempt, BeginVerify, SpawnRefused, Over, Ending
  <2>2. CASE Drained \/ Joined
    BY <2>2, OverVerdict DEF Drained, Joined, Over, Ending
  <2>3. CASE Drive \/ BeginStep \/ Spawn \/ registerChild \/ Drain \/ Decide \/ finish
    BY <2>3 DEF Drive, BeginStep, Spawn, registerChild, Drain, Decide, finish, run, Ending
  <2>4. CASE Aside \/ UNCHANGED vars
    BY <2>4, AsideKeeps DEF vars, run, driver, Ending
  <2> QED BY <2>1, <2>2, <2>3, <2>4, NextSplits DEF Driver
<1>5. CASE Over /\ Ending
  <2>1. Aside \/ UNCHANGED vars \/ Decide \/ finish
    BY <1>5, NextSplits DEF Driver, Drive, BeginStep, BeginAttempt, BeginVerify, SpawnRefused, Spawn,
       registerChild, Drain, Drained, Joined, Ending
  <2>2. UNCHANGED <<result, step>> /\ Ending'
    BY <1>5, <2>1, AsideKeeps DEF Decide, finish, vars, run, driver, Ending
  <2> QED BY <1>3, <2>2
<1> QED BY <1>2, <1>3, <1>4, <1>5

LEMMA SeenStep ==
    ASSUME ConstantsOK, TypeOK, RoleInv, SeenInv, [Next]_vars
    PROVE  SeenInv'
<1>1. ids \subseteq Jobs /\ TokenBudget \in Nat /\ Usage(reported) \in Int
  <2>1. ids \subseteq Jobs /\ reported \subseteq Jobs /\ TokenBudget \in Nat /\ JobTokens \in Nat
    BY DEF TypeOK, ConstantsOK
  <2>2. Cardinality(reported) \in Nat
    BY <2>1, JobSets
  <2> QED BY <2>1, <2>2 DEF Usage
<1>2. \A j \in Jobs : j \in reported \cup missed \/ (Working /\ j \in ids)
  BY DEF SeenInv
<1>3. CASE Spawn
  <2>1. CASE UNCHANGED <<ids, job>> /\ pc' = "drain"
    BY <1>2, <1>3, <2>1 DEF Spawn, SeenInv, Working, Jobs
  <2>2. CASE pc' = "register" /\ job' = Append(job, "live") /\ ids' = ids \cup {Len(job')}
    <3>1. Jobs' = Jobs \cup {Len(job')}
      BY <2>2, SpawnGrows
    <3>2. UNCHANGED <<reported, missed>> /\ Working'
      BY <1>3, <2>2 DEF Spawn, Working
    <3> QED BY <1>2, <2>2, <3>1, <3>2 DEF SeenInv
  <2> QED BY <1>3, <2>1, <2>2 DEF Spawn, jobs
<1>4. CASE BeginAttempt \/ BeginVerify
  <2>1. ~Working /\ UNCHANGED <<job, reported, missed>> /\ pc' # "register"
        /\ (pc' = "spawn" /\ TokenBudget > 0 => Usage(reported) < TokenBudget)
    BY <1>1, <1>4 DEF BeginAttempt, BeginVerify, Working, Exhausted, StepFails, VerificationEnds,
       StepPasses, NextStep, jobs
  <2> QED BY <1>2, <2>1 DEF SeenInv, Jobs, Usage
<1>5. CASE SpawnRefused
  <2>1. pc = "spawn" /\ UNCHANGED <<ids, job, reported, missed>> /\ pc' # "register" /\ pc' # "spawn"
        /\ (role = "verify" => ids = {}) /\ (role # "verify" => Working')
    BY <1>5 DEF SpawnRefused, RoleInv, Working, StepFails, VerificationEnds, StepPasses, NextStep, jobs
  <2> QED BY <1>2, <2>1 DEF SeenInv, Jobs
<1>6. CASE registerChild \/ Drain
  <2>1. Working' /\ UNCHANGED <<ids, job, reported, missed>> /\ pc' # "register"
        /\ (pc' = "spawn" => ids # {})
    BY <1>6 DEF registerChild, Drain, Working, SeenInv, run, jobs
  <2> QED BY <1>2, <2>1 DEF SeenInv, Jobs
<1>7. CASE Drained \/ Joined
  <2>1. ids \subseteq reported' \cup missed' /\ reported \subseteq reported' /\ missed \subseteq missed'
        /\ job' = job /\ pc' \notin {"register", "spawn"}
    BY <1>7 DEF Drained, Joined, StepFails, VerificationEnds, StepPasses, NextStep, jobs
  <2> QED BY <1>2, <2>1 DEF SeenInv, Jobs
<1>8. CASE Drive \/ BeginStep \/ Decide \/ finish
  <2>1. ~Working /\ UNCHANGED <<job, reported, missed>> /\ pc' \notin {"register", "spawn"}
    BY <1>8 DEF Drive, BeginStep, Decide, finish, Working, run, jobs
  <2> QED BY <1>2, <2>1 DEF SeenInv, Jobs
<1>9. CASE Aside \/ UNCHANGED vars
  <2>1. Jobs' = Jobs /\ UNCHANGED <<pc, ids, reported, missed>>
    BY <1>9, EndKeeps, AsideKeeps DEF Aside, Waiter, WaiterGot, WaiterTimeout, WaiterGivesUp, Sweep,
       Cancel, CancelChildren, CancelContext, Jobs, vars, run, driver, jobs
  <2> QED BY <2>1 DEF SeenInv, Working, Usage
<1> QED BY <1>3, <1>4, <1>5, <1>6, <1>7, <1>8, <1>9, NextSplits DEF Driver

-----------------------------------------------------------------------------
(* The theorems. *)

LEMMA RunInit == ASSUME ConstantsOK, Init PROVE RunInv
<1>1. Jobs = {} /\ Len(job) = 0 /\ pc = "start" /\ state = "pending" /\ step = 1 /\ ~cancelled
      /\ result = [s \in StepIds |-> IF Steps[s].verify THEN "pending" ELSE "unverified"]
  BY DEF Init, Jobs
<1>2. CountInv /\ RoleInv /\ ChildInv /\ AskedInv /\ EndInv /\ FailInv /\ SeenInv
  BY <1>1 DEF CountInv, RoleInv, ChildInv, AskedInv, EndInv, FailInv, SeenInv, Working, Verifying,
              Terminal, ConstantsOK
<1>3. DoneInv
  BY <1>1, StepTypes DEF DoneInv, Ending
<1> QED BY <1>2, <1>3, TypeInit DEF RunInv

LEMMA RunStep == ASSUME ConstantsOK, RunInv, [Next]_vars PROVE RunInv'
<1>1. TypeOK'
  <2>1. CASE UNCHANGED vars
    BY <2>1 DEF RunInv, TypeOK, Jobs, This, vars, run, driver, join, cancel, jobs
  <2> QED BY <2>1, DriverType, AsideType, NextSplits DEF RunInv
<1> QED BY <1>1, CountStep, RoleStep, ChildStep, AskedStep, DoneStep, EndStep, FailStep, SeenStep DEF RunInv

(* The driver's records, the join and the call of Engine.Cancel agree at     *)
(* every step of a run (Engine.drive, Run.registerChild, waitAll).           *)
THEOREM RunCorrect == ASSUME ConstantsOK PROVE Spec => []RunInv
<1>1. Init => RunInv
  BY RunInit
<1>2. RunInv /\ [Next]_vars => RunInv'
  BY RunStep
<1> QED BY <1>1, <1>2, PTL DEF Spec

(* A completed run did all its work: every agent of the last attempt of      *)
(* every step ended well, and its verifier, spawned after them, said pass    *)
(* (Engine.runStep, Run.finish).                                             *)
THEOREM CompletedIsDone == ASSUME ConstantsOK PROVE Spec => []CompletedMeansDone
<1>1. RunInv => CompletedMeansDone
  <2> SUFFICES ASSUME RunInv, state = "completed" PROVE \A s \in StepIds : Done(s)
    BY DEF CompletedMeansDone, Done
  <2>1. pc = "done" /\ outcome = "completed" /\ ~firstErr
    BY DEF RunInv, EndInv, Terminal
  <2> QED BY <2>1 DEF RunInv, DoneInv, Ending
<1> QED BY <1>1, RunCorrect, PTL

(* Retries and verifiers included, a run spawns at most maxAgents agents; a  *)
(* returned Cancel has reached every live one, or the driver is about to;    *)
(* and an ended run has left none that was not asked to stop.                *)
THEOREM AgentsAreReached ==
    ASSUME ConstantsOK PROVE Spec => [](WithinCap /\ CancelReachesChildren /\ NoStrayChild)
<1>1. RunInv => WithinCap
  BY DEF RunInv, CountInv, WithinCap
<1>2. RunInv => CancelReachesChildren
  BY DEF RunInv, AskedInv, CancelReachesChildren
<1>3. RunInv => NoStrayChild
  BY DEF RunInv, EndInv, AskedInv, Working, NoStrayChild
<1> QED BY <1>1, <1>2, <1>3, RunCorrect, PTL

LEMMA OnlySpawnSpawns ==
    ASSUME TypeOK, [Next]_vars, Len(job') > Len(job)
    PROVE  Spawn
<1>1. Len(job) \in Nat
  BY JobsType
<1>2. Len(job') # Len(job)
  BY <1>1
<1>3. Aside => Len(job') = Len(job)
  BY EndKeeps DEF Aside, Waiter, WaiterGot, WaiterTimeout, WaiterGivesUp, Sweep, Cancel, CancelChildren,
     CancelContext, jobs
<1> QED BY <1>2, <1>3, NextSplits DEF Driver, Drive, BeginStep, BeginAttempt, BeginVerify, SpawnRefused,
        registerChild, Drain, Drained, Joined, Decide, finish, vars, run, jobs

(* No agent is spawned after a failure that does not continue, and no        *)
(* attempt or verifier starts once the agents that ended so far used the     *)
(* budget up (workflowBudgetError, Engine.drive).                            *)
THEOREM SpawnsAreDue == ASSUME ConstantsOK PROVE Spec => FailFast /\ BudgetIsABoundary
<1>1. ASSUME RunInv, [Next]_vars, Len(job') > Len(job)
      PROVE  \A s \in StepIds : result[s] = "failed" => s < step /\ Steps[s].continue
  <2>1. pc = "spawn"
    BY <1>1, OnlySpawnSpawns DEF RunInv, Spawn
  <2> QED BY <1>1, <2>1 DEF RunInv, FailInv, Ending
<1>2. ASSUME RunInv, [Next]_vars, Len(job') > Len(job), ids = {}, TokenBudget > 0
      PROVE  Usage({j \in Jobs \ missed : Ended(j)}) < TokenBudget
  <2> DEFINE S == {j \in Jobs \ missed : Ended(j)}
  <2>1. pc = "spawn"
    BY <1>2, OnlySpawnSpawns DEF RunInv, Spawn
  <2>2. Usage(reported) < TokenBudget /\ S \subseteq reported /\ reported \subseteq Jobs
    BY <1>2, <2>1 DEF RunInv, SeenInv, TypeOK
  <2>3. IsFiniteSet(reported) /\ Cardinality(reported) \in Nat
    BY <1>2, <2>2, JobSets DEF RunInv
  <2>4. Cardinality(S) \in Nat /\ Cardinality(S) <= Cardinality(reported)
    BY <2>2, <2>3, FS_Subset, FS_CardinalityType
  <2> HIDE DEF S
  <2>5. ASSUME NEW a \in Nat, NEW b \in Nat, NEW t \in Nat, a <= b PROVE t * a <= t * b
    BY <2>5
  <2>6. JobTokens \in Nat /\ TokenBudget \in Nat
    BY DEF ConstantsOK
  <2>7. Usage(S) <= Usage(reported) /\ Usage(S) \in Int /\ Usage(reported) \in Int
    BY <2>3, <2>4, <2>5, <2>6 DEF Usage
  <2> QED BY <2>2, <2>6, <2>7 DEF S
<1>3. RunInv /\ [Next]_vars => [Len(job') > Len(job) => \A s \in StepIds : result[s] = "failed" => s < step /\ Steps[s].continue]_vars
  BY <1>1
<1>4. RunInv /\ [Next]_vars => [Len(job') > Len(job) /\ ids = {} /\ TokenBudget > 0 =>
          Usage({j \in Jobs \ missed : Ended(j)}) < TokenBudget]_vars
  BY <1>2
<1> QED BY <1>3, <1>4, RunCorrect, PTL DEF Spec, FailFast, BudgetIsABoundary

(* A run that completed has done its work, within its cap; a cancel and the  *)
(* end of a run reach every agent; no agent is spawned after the budget is   *)
(* used up or a failure that does not continue (workflows/engine.go).        *)
THEOREM PromisesKept == ASSUME ConstantsOK PROVE Spec => RunKeepsItsPromises
<1>1. RunInv => TypeOK
  BY DEF RunInv
<1> QED BY <1>1, RunCorrect, CompletedIsDone, AgentsAreReached, SpawnsAreDue, PTL DEF RunKeepsItsPromises
=============================================================================
