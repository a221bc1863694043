------------------------------- MODULE MCJobs -------------------------------
(* What agents at work leave for others, for TLC: the records of jobs on     *)
(* their way to the disk, the results of jobs and who takes them, and the    *)
(* approvals they wait for.  They share no variable, and `part' says which   *)
(* of them moves in this behaviour.  The write path is JobStore's own, and   *)
(* so are NothingIsLost, RecordIsDurable and EventuallyDurable.              *)
EXTENDS JobStore

CONSTANTS j1, j2, w1, w2, main, t1

VARIABLES
    part,
    terminal, status, results, terminalCh, waiting, waits, injections,
    policy, pc, asks, alive, envelopes, dead, queue, active, answer, returned, shown, visible,
    messages, hand, mustShow, changes, pressed, settled, remembered

Results == INSTANCE JobResults WITH Jobs <- {j1, j2}, Waiters <- {w1, w2}, MaxWaits <- 3
Queue   == INSTANCE ApprovalQueue WITH Main <- main, Agents <- {j1}, Tools <- {t1}, MaxPrompts <- 2,
               MaxChanges <- 1, results <- messages

ASSUME ConstantsOK /\ Results!ConstantsOK /\ Queue!ConstantsOK

storeVars  == vars
resultVars == <<terminal, status, results, terminalCh, waiting, waits, injections>>
queueVars  == <<policy, pc, asks, alive, envelopes, dead, queue, active, answer, returned, shown,
                visible, messages, hand, mustShow, changes, pressed, settled, remembered>>
jobsVars   == <<part, storeVars, resultVars, queueVars>>

JobsInit == part \in {"store", "results", "queue"} /\ Init /\ Results!Init /\ Queue!Init

StoreNext   == part = "store" /\ Next /\ UNCHANGED <<part, resultVars, queueVars>>
ResultsNext == part = "results" /\ Results!Next /\ UNCHANGED <<part, storeVars, queueVars>>
QueueNext   == part = "queue" /\ Queue!Next /\ UNCHANGED <<part, storeVars, resultVars>>

JobsNext == StoreNext \/ ResultsNext \/ QueueNext

\* The fairness that each module states, while it is the one that moves.
StoreFairness ==
    /\ \A t \in Threads : WF_storeVars(part = "store" /\ SaveCopy(t))
    /\ \A j \in Jobs : /\ WF_storeVars(part = "store" /\ flushPendingSnapshot(j))
                       /\ WF_storeVars(part = "store" /\ FlushJob(j))
ResultsFairness ==
    /\ \A j \in {j1, j2} : WF_resultVars(part = "results" /\ Results!CloseTerminalCh(j))
    /\ \A w \in {w1, w2} : WF_resultVars(part = "results" /\ Results!WakeUp(w))
QueueFairness ==
    /\ WF_queueVars(part = "queue" /\ Queue!showPendingApproval)
    /\ WF_queueVars(part = "queue" /\ \E h \in hand : Queue!Deliver(h))
    /\ SF_queueVars(part = "queue" /\ \E key \in messages : Queue!resolveApprovalResult(key))
    /\ \A c \in Queue!Callers :
           WF_queueVars(part = "queue" /\ \E i \in Queue!Ids : Queue!Receive(c, i) \/ Queue!GiveUp(c, i))

JobsSpec == JobsInit /\ [][JobsNext]_jobsVars /\ StoreFairness /\ ResultsFairness /\ QueueFairness

-----------------------------------------------------------------------------
\* JobResults: the queue is exactly the results nobody has decided on, a result enters the
\* session once, and a waiter is woken by the end of its job.
QueueIsUndecided ==
    /\ [](part = "results" => Results!TypeOK /\ Results!QueueIsUndecided)
    /\ Results!InjectedAtMostOnce /\ Results!WaitersReturn

\* ApprovalQueue: every request is queued, on screen or answered, and answered by what was
\* said to it; an answer arrives, and a dead request leaves the screen.
AnswersArrive ==
    /\ [](part = "queue" => /\ Queue!TypeOK /\ Queue!NoPromptLost
                            /\ Queue!AnswerIsItsOwn /\ Queue!ActiveIsOnScreen)
    /\ Queue!DisplayedStays /\ Queue!UserAnswerArrives /\ Queue!DeadPromptLeaves

=============================================================================
