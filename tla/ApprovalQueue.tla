--------------------------- MODULE ApprovalQueue ---------------------------
(***************************************************************************)
(* One prompt for all agents: internal/app's uiApprover and the part of    *)
(* the App that shows its requests, with internal/jobs' jobApprover in     *)
(* front of it for background jobs.                                        *)
(*                                                                         *)
(* An agent that needs approval queues an envelope and blocks until it has *)
(* a decision or its context dies.  The App is one goroutine that handles  *)
(* one message at a time; a key on the modal becomes a result message that *)
(* is handled later, after other messages.  A decision is taken under the  *)
(* lock of the approver and delivered after it is released.                *)
(*                                                                         *)
(* Trust mode (autoTrust) is never switched on by the App and is left out. *)
(* The wake-up messages of the approver are not modelled: the one-second   *)
(* tick runs the same handler.                                             *)
(***************************************************************************)
EXTENDS Integers, Sequences

CONSTANTS
    Main,        \* the foreground agent
    Agents,      \* background jobs that may write
    Tools,       \* tools whose calls need approval
    MaxPrompts,  \* bound: envelopes
    MaxChanges   \* bound: changes of the permission policy by the user

ConstantsOK ==
    /\ Main \notin Agents
    /\ MaxPrompts \in Nat
    /\ MaxChanges \in Nat

VARIABLES
    policy,     \* uiApprover.policy: what it says of each tool
    pc,         \* pc[c]: where the approval call of c is
    asks,       \* asks[c]: the tool c asks for
    alive,      \* callers whose context is not cancelled
    envelopes,  \* every envelope so far; its index is its id
    dead,       \* envelopes whose context died
    queue,      \* uiApprover.queue, in order of id
    active,     \* uiApprover.active, 0 for none
    answer,     \* answer[i]: the decision buffered in envelope i
    returned,   \* returned[i]: what the caller of i was told
    shown,      \* App.approvalID
    visible,    \* the modal is on screen
    results,    \* result messages not handled yet
    hand,       \* decisions taken by the App and not delivered yet
    mustShow,   \* the message being handled ends with showPendingApproval
    changes,    \* changes of the policy so far
    pressed,    \* history: answers given on the modal
    settled,    \* history: envelopes settled by the policy
    remembered  \* history: envelopes that left a standing rule

approver == <<queue, active, answer>>
app      == <<shown, visible, results, hand, mustShow>>
history  == <<pressed, settled, remembered>>
vars     == <<policy, pc, asks, alive, envelopes, dead, approver, returned, app, changes, history>>

Callers == Agents \cup {Main}
Ids     == DOMAIN envelopes
Verdict == {"approve", "reject"}
Key     == [id: 0..MaxPrompts, verdict: Verdict, remember: BOOLEAN]
Policy  == [Tools -> {"ask", "allow", "deny"}]

TypeOK ==
    /\ policy \in Policy
    /\ pc \in [Callers -> {"idle", "asked", "waiting"}]
    /\ asks \in [Callers -> Tools]
    /\ alive \subseteq Callers
    /\ envelopes \in Seq([caller: Callers, tool: Tools])
    /\ dead \subseteq Ids
    /\ queue \subseteq Ids
    /\ active \in (Ids \cup {0}) \ queue
    /\ answer \in [1..MaxPrompts -> Verdict \cup {"none"}]
    /\ returned \in [1..MaxPrompts -> Verdict \cup {"none", "cancelled"}]
    /\ shown \in Ids \cup {0}
    /\ visible \in BOOLEAN
    /\ results \subseteq Key
    /\ hand \subseteq [key: Key, byUser: BOOLEAN]
    /\ mustShow \in BOOLEAN
    /\ changes \in 0..MaxChanges
    /\ pressed \subseteq [id: 0..MaxPrompts, verdict: Verdict]
    /\ settled \subseteq Ids
    /\ remembered \subseteq Ids

Init ==
    /\ policy = [t \in Tools |-> "ask"]
    /\ pc = [c \in Callers |-> "idle"]
    /\ asks \in [Callers -> Tools]
    /\ alive = Callers
    /\ envelopes = << >>
    /\ dead = {}
    /\ queue = {}
    /\ active = 0
    /\ answer = [i \in 1..MaxPrompts |-> "none"]
    /\ returned = [i \in 1..MaxPrompts |-> "none"]
    /\ shown = 0
    /\ visible = FALSE
    /\ results = {}
    /\ hand = {}
    /\ mustShow = FALSE
    /\ changes = 0
    /\ pressed = {}
    /\ settled = {}
    /\ remembered = {}

-----------------------------------------------------------------------------
Live(i) == i \in Ids /\ i \notin dead
Foreground(i) == envelopes[i].caller = Main
Waits(c, i) == pc[c] = "waiting" /\ envelopes[i].caller = c /\ returned[i] = "none"

(* popLocked: foreground first, then by arrival. *)
Before(i, k) ==
    \/ Foreground(i) /\ ~Foreground(k)
    \/ (Foreground(i) <=> Foreground(k)) /\ i < k

(* Mutant: a policy that allows the tool also settles a job's request. *)
SettlesAnyCaller(pol, i) == pol[envelopes[i].tool] # "ask"

(* envelopePolicyDecision: an allow settles only what the policy of the      *)
(* foreground was asked about, a deny settles everything.                    *)
Settles(pol, i) ==
    \/ pol[envelopes[i].tool] = "deny"
    \/ pol[envelopes[i].tool] = "allow" /\ Foreground(i)

Ruling(pol, i) ==
    [key |-> [id |-> i,
              verdict |-> IF pol[envelopes[i].tool] = "deny" THEN "reject" ELSE "approve",
              remember |-> FALSE],
     byUser |-> FALSE]

-----------------------------------------------------------------------------
(* The callers. *)

(* The policy says ask; a job asks by the policy it was started with. *)
Approve(c, t) ==
    /\ c \in alive
    /\ pc[c] = "idle"
    /\ c = Main => policy[t] = "ask"
    /\ pc' = [pc EXCEPT ![c] = "asked"]
    /\ asks' = [asks EXCEPT ![c] = t]
    /\ UNCHANGED <<policy, alive, envelopes, dead, approver, returned, app, changes, history>>

prompt(c) ==
    /\ pc[c] = "asked"
    /\ \/ /\ c \in alive
          /\ Len(envelopes) < MaxPrompts
          /\ pc' = [pc EXCEPT ![c] = "waiting"]
          /\ envelopes' = Append(envelopes, [caller |-> c, tool |-> asks[c]])
          /\ queue' = queue \cup {Len(envelopes')}
       \/ /\ c \notin alive
          /\ pc' = [pc EXCEPT ![c] = "idle"]
          /\ UNCHANGED <<envelopes, queue>>
    /\ UNCHANGED <<policy, asks, alive, dead, active, answer, returned, app, changes, history>>

Receive(c, i) ==
    /\ Waits(c, i)
    /\ answer[i] # "none"
    /\ returned' = [returned EXCEPT ![i] = answer[i]]
    /\ pc' = [pc EXCEPT ![c] = "idle"]
    /\ UNCHANGED <<policy, asks, alive, envelopes, dead, approver, app, changes, history>>

(* The context of a waiting caller is done: drop.  With an answer in the     *)
(* buffer the select may still take this branch.                             *)
GiveUp(c, i) ==
    /\ Waits(c, i)
    /\ i \in dead
    /\ active' = IF active = i THEN 0 ELSE active
    /\ queue' = queue \ {i}
    /\ returned' = [returned EXCEPT ![i] = "cancelled"]
    /\ pc' = [pc EXCEPT ![c] = "idle"]
    /\ UNCHANGED <<policy, asks, alive, envelopes, dead, answer, app, changes, history>>

(* A turn or a job ends or is cancelled. *)
Kill(c) ==
    /\ alive' = alive \ {c}
    /\ dead' = dead \cup {i \in Ids : envelopes[i].caller = c}

ContextDies(c) ==
    /\ c \in alive
    /\ Kill(c)
    /\ UNCHANGED <<policy, pc, asks, envelopes, approver, returned, app, changes, history>>

NewTurn ==
    /\ Main \notin alive
    /\ pc[Main] = "idle"
    /\ alive' = alive \cup {Main}
    /\ UNCHANGED <<policy, pc, asks, envelopes, dead, approver, returned, app, changes, history>>

-----------------------------------------------------------------------------
(* The App. *)

Free == hand = {} /\ ~mustShow

IsLive(i) == i # 0 /\ active = i /\ Live(i)

(* In the order of popLocked: the live requests the policy settles before    *)
(* the first one that needs the user, and that one.                          *)
Queued  == {i \in queue : Live(i)}
Reached == {i \in Queued : \A k \in Queued : Before(k, i) => Settles(policy, k)}
Ruled   == {i \in Reached : Settles(policy, i)}
First   == Reached \ Ruled

(* Mutant: the request that is shown stays in the queue. *)
NextKeepsQueued ==
    IF active # 0 /\ Live(active)
    THEN UNCHANGED <<active, queue, hand, settled>>
    ELSE /\ active' = IF First = {} THEN 0 ELSE CHOOSE i \in First : TRUE
         /\ queue' = Queued \ Ruled
         /\ hand' = {Ruling(policy, i) : i \in Ruled}
         /\ settled' = settled \cup Ruled

(* Mutant: a request on screen gives way to the next one. *)
NextDisplaces ==
    /\ active' = IF First = {} THEN 0 ELSE CHOOSE i \in First : TRUE
    /\ queue' = Queued \ Reached
    /\ hand' = {Ruling(policy, i) : i \in Ruled}
    /\ settled' = settled \cup Ruled

(* Next: nothing while a live request is displayed; else the dead ones are   *)
(* forgotten, and requests are taken in order until one needs the user.      *)
NextRequest ==
    IF active # 0 /\ Live(active)
    THEN UNCHANGED <<active, queue, hand, settled>>
    ELSE /\ active' = IF First = {} THEN 0 ELSE CHOOSE i \in First : TRUE
         /\ queue' = Queued \ Reached
         /\ hand' = {Ruling(policy, i) : i \in Ruled}
         /\ settled' = settled \cup Ruled

(* Mutant: whatever is on screen stays there. *)
showPendingTrustsScreen ==
    /\ hand = {}
    /\ mustShow' = FALSE
    /\ \/ /\ visible
          /\ UNCHANGED <<active, queue, hand, settled, shown, visible>>
       \/ /\ ~visible
          /\ NextRequest
          /\ IF active' \notin {0, active}
             THEN shown' = active' /\ visible' = TRUE
             ELSE shown' = shown /\ visible' = FALSE
    /\ UNCHANGED <<policy, pc, asks, alive, envelopes, dead, answer, returned, results,
                   changes, pressed, remembered>>

(* On the tick, on a wake-up, and at the end of other handlers. *)
showPendingApproval ==
    /\ hand = {}
    /\ mustShow' = FALSE
    /\ \/ /\ visible /\ IsLive(shown)
          /\ UNCHANGED <<active, queue, hand, settled, shown, visible>>
       \/ /\ ~(visible /\ IsLive(shown))
          /\ NextRequest
          /\ IF active' \notin {0, active}
             THEN shown' = active' /\ visible' = TRUE
             ELSE shown' = (IF visible THEN 0 ELSE shown) /\ visible' = FALSE
    /\ UNCHANGED <<policy, pc, asks, alive, envelopes, dead, answer, returned, results,
                   changes, pressed, remembered>>

(* A key on the modal: it disappears, its result becomes a message. *)
Press(verdict, remember) ==
    /\ Free /\ visible
    /\ remember => verdict = "approve"
    /\ LET key == [id |-> shown, verdict |-> verdict, remember |-> remember] IN
          /\ results' = results \cup {key}
          /\ pressed' = pressed \cup {[id |-> shown, verdict |-> verdict]}
    /\ visible' = FALSE
    /\ UNCHANGED <<policy, pc, asks, alive, envelopes, dead, approver, returned, shown,
                   hand, mustShow, changes, settled, remembered>>

(* ResolveID, its critical section: only the displayed envelope is taken. *)
ResolveID(key) ==
    IF key.id # 0 /\ active = key.id
    THEN active' = 0 /\ hand' = {[key |-> key, byUser |-> TRUE]}
    ELSE UNCHANGED <<active, hand>>

(* Mutant: the answer goes to whatever is displayed now. *)
resolveDisplayed(key) ==
    /\ Free
    /\ key \in results
    /\ results' = results \ {key}
    /\ mustShow' = TRUE
    /\ ResolveID([key EXCEPT !.id = active])
    /\ shown' = 0
    /\ visible' = FALSE
    /\ UNCHANGED <<policy, pc, asks, alive, envelopes, dead, queue, answer, returned,
                   changes, history>>

resolveApprovalResult(key) ==
    /\ Free
    /\ key \in results
    /\ results' = results \ {key}
    /\ mustShow' = TRUE
    /\ \/ /\ key.id # shown
          /\ UNCHANGED <<active, hand, shown>>
       \/ /\ key.id = shown
          /\ ResolveID(key)
          /\ shown' = 0
    /\ UNCHANGED <<policy, pc, asks, alive, envelopes, dead, queue, answer, returned, visible,
                   changes, history>>

(* The rest of ResolveID and its caller, and the deliveries of Next and of   *)
(* ResolveActiveByPolicy: the user's decision is given to a live caller      *)
(* only, and only then leaves a rule.                                        *)
Deliver(h) ==
    /\ h \in hand
    /\ hand' = hand \ {h}
    /\ LET i == h.key.id
           given == ~h.byUser \/ Live(i) IN
          /\ answer' = IF given /\ answer[i] = "none"
                       THEN [answer EXCEPT ![i] = h.key.verdict] ELSE answer
          /\ IF given /\ h.key.remember
             THEN /\ policy' = [policy EXCEPT ![envelopes[i].tool] = "allow"]
                  /\ remembered' = remembered \cup {i}
             ELSE UNCHANGED <<policy, remembered>>
    /\ UNCHANGED <<pc, asks, alive, envelopes, dead, queue, active, returned, shown, visible,
                   results, mustShow, changes, pressed, settled>>

(* Ctrl+C: a running turn is cancelled and its own prompt rejected; with no  *)
(* turn running it rejects the prompt on screen, whoever asks.               *)
CtrlC ==
    /\ Free
    /\ LET streaming == Main \in alive \/ pc[Main] # "idle"
           rejects == visible /\ (streaming => Foreground(shown)) IN
          /\ streaming \/ visible
          /\ IF streaming THEN Kill(Main) ELSE UNCHANGED <<alive, dead>>
          /\ IF rejects
             THEN /\ ResolveID([id |-> shown, verdict |-> "reject", remember |-> FALSE])
                  /\ shown' = 0 /\ visible' = FALSE
             ELSE UNCHANGED <<active, hand, shown, visible>>
    /\ mustShow' = TRUE
    /\ UNCHANGED <<policy, pc, asks, envelopes, queue, answer, returned, results, changes, history>>

(* Mutant: the modal is taken down whether or not the policy settles it. *)
cycleAlwaysHides(pol) ==
    /\ Free
    /\ changes < MaxChanges
    /\ changes' = changes + 1
    /\ policy' = pol
    /\ IF IsLive(shown) /\ Settles(pol, shown)
       THEN /\ active' = 0
            /\ hand' = {Ruling(pol, shown)}
            /\ settled' = settled \cup {shown}
       ELSE UNCHANGED <<active, hand, settled>>
    /\ shown' = 0 /\ visible' = FALSE
    /\ mustShow' = TRUE
    /\ UNCHANGED <<pc, asks, alive, envelopes, dead, queue, answer, returned, results, pressed,
                   remembered>>

(* Shift+Tab: the new policy settles the request on screen if it can. *)
cyclePermissionMode(pol) ==
    /\ Free
    /\ changes < MaxChanges
    /\ changes' = changes + 1
    /\ policy' = pol
    /\ IF IsLive(shown) /\ Settles(pol, shown)
       THEN /\ active' = 0
            /\ hand' = {Ruling(pol, shown)}
            /\ settled' = settled \cup {shown}
            /\ shown' = 0 /\ visible' = FALSE
       ELSE UNCHANGED <<active, hand, settled, shown, visible>>
    /\ mustShow' = TRUE
    /\ UNCHANGED <<pc, asks, alive, envelopes, dead, queue, answer, returned, results, pressed,
                   remembered>>

(* /permissions and /trust: the request on screen is not looked at again. *)
setPermissionPolicy(pol) ==
    /\ Free
    /\ changes < MaxChanges
    /\ changes' = changes + 1
    /\ policy' = pol
    /\ UNCHANGED <<pc, asks, alive, envelopes, dead, approver, returned, app, history>>

-----------------------------------------------------------------------------
Next ==
    \/ \E c \in Callers : \/ prompt(c)
                          \/ ContextDies(c)
                          \/ \E t \in Tools : Approve(c, t)
                          \/ \E i \in Ids : Receive(c, i) \/ GiveUp(c, i)
    \/ NewTurn
    \/ showPendingApproval
    \/ \E verdict \in Verdict, remember \in BOOLEAN : Press(verdict, remember)
    \/ \E key \in results : resolveApprovalResult(key)
    \/ \E h \in hand : Deliver(h)
    \/ CtrlC
    \/ \E pol \in Policy : cyclePermissionMode(pol) \/ setPermissionPolicy(pol)

(* The App handles its messages and ticks, a caller that can go on does.     *)
(* The user need not answer.                                                 *)
Fairness ==
    /\ WF_vars(showPendingApproval)
    /\ WF_vars(\E h \in hand : Deliver(h))
    /\ SF_vars(\E key \in results : resolveApprovalResult(key))
    /\ \A c \in Callers : WF_vars(\E i \in Ids : Receive(c, i) \/ GiveUp(c, i))

Spec == Init /\ [][Next]_vars /\ Fairness

-----------------------------------------------------------------------------
(* Properties. *)

(* A caller that waits and may still be answered is queued, on screen, or    *)
(* already answered: no envelope falls between the queue, the active slot    *)
(* and a decision in the hands of the App.                                   *)
NoPromptLost ==
    \A c \in Callers, i \in Ids :
        Waits(c, i) /\ Live(i) =>
            \/ i \in queue \cup {active}
            \/ answer[i] # "none"
            \/ \E h \in hand : h.key.id = i

(* What an agent is told is what the user answered to that very request, or  *)
(* what the policy of the foreground says of its own request; nothing but a  *)
(* key on its modal approves a background job's request.                     *)
AnswerIsItsOwn ==
    \A i \in Ids : returned[i] = "approve" =>
        \/ \E key \in pressed : key.id = i /\ key.verdict = "approve"
        \/ Foreground(i) /\ i \in settled

(* The active request can be answered: its modal is up, or the user's answer *)
(* to it is on its way.  Otherwise nobody could answer it and nothing would  *)
(* ever replace it.                                                          *)
ActiveIsOnScreen ==
    active # 0 /\ Live(active) /\ Free =>
        /\ shown = active
        /\ visible \/ \E key \in results : key.id = active

(* "Nothing ever displaces a live displayed envelope" (uiApprover.Next): it  *)
(* leaves the slot with a decision, or dead.                                 *)
DisplayedStays ==
    [][active # 0 /\ active' # active =>
          active \in dead \/ \E h \in hand' : h.key.id = active]_vars

(* "It must only follow a decision that actually reached a waiting caller"   *)
(* (App.resolveApprovalResult): no rule is left on behalf of a caller that   *)
(* was told its request is cancelled.                                        *)
RememberedReachedCaller == \A i \in remembered : returned[i] # "cancelled"

(* A prompt whose agent died does not hold the screen.                       *)
DeadPromptLeaves == []<>~(visible /\ shown \in dead)

(* An answer given on the modal ends the wait of its caller, whatever other  *)
(* messages the App handles first.                                           *)
UserAnswerArrives == []<>(\A key \in pressed : returned[key.id] # "none")
=============================================================================
