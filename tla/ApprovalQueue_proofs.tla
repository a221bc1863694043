------------------------- MODULE ApprovalQueue_proofs -------------------------
(***************************************************************************)
(* What the approval queue keeps for any number of agents, tools and       *)
(* requests: a request is queued, on screen or answered, what is on screen *)
(* can be answered, and the answer is the one that was given to it.        *)
(***************************************************************************)
EXTENDS ApprovalQueue, TLAPS

-----------------------------------------------------------------------------
(* The inductive invariant, in parts. *)

BoundInv == Len(envelopes) <= MaxPrompts

(* What entitles a caller to be told that its request is approved.           *)
Justified(i) ==
    \/ \E key \in pressed : key.id = i /\ key.verdict = "approve"
    \/ (Foreground(i) /\ i \in settled)

(* A decision is about a request that was made, and an approval is justified *)
(* wherever it is on its way: in a result message, in the hands of the App,  *)
(* in the envelope.                                                          *)
OwnInv ==
    /\ \A i \in 1..MaxPrompts : answer[i] # "none" \/ returned[i] # "none" => i \in Ids
    /\ \A i \in Ids : answer[i] = "approve" \/ returned[i] = "approve" => Justified(i)
    /\ \A h \in hand : h.key.id \in Ids /\ (h.key.verdict = "approve" => Justified(h.key.id))
    /\ \A key \in results : [id |-> key.id, verdict |-> key.verdict] \in pressed

(* The caller of a request that is not answered waits for it and no other.   *)
WaitInv ==
    \A i \in Ids : returned[i] = "none" =>
        /\ pc[envelopes[i].caller] = "waiting"
        /\ \A k \in Ids : envelopes[k].caller = envelopes[i].caller /\ returned[k] = "none" => i = k

(* ActiveIsOnScreen holds between the steps of one message too.              *)
ScreenInv ==
    active # 0 /\ Live(active) =>
        shown = active /\ (visible \/ \E key \in results : key.id = active)

QueueInv == TypeOK /\ BoundInv /\ OwnInv /\ WaitInv /\ ScreenInv /\ NoPromptLost

-----------------------------------------------------------------------------
(* Type correctness. *)

(* Envelopes are numbered from 1. *)
LEMMA IdsType ==
    ASSUME TypeOK
    PROVE  /\ Ids = 1..Len(envelopes) /\ Len(envelopes) \in Nat
           /\ \A i \in Ids : envelopes[i].caller \in Callers /\ envelopes[i].tool \in Tools
<1> DEFINE S == [caller: Callers, tool: Tools]
<1>1. envelopes \in Seq(S)
  BY DEF TypeOK
<1> HIDE DEF S
<1>2. Ids = 1..Len(envelopes) /\ Len(envelopes) \in Nat /\ \A i \in Ids : envelopes[i] \in S
  BY <1>1 DEF Ids
<1> QED BY <1>2 DEF S

LEMMA BoundedIds == ASSUME ConstantsOK, TypeOK, BoundInv PROVE Ids \subseteq 1..MaxPrompts
BY IdsType DEF BoundInv, ConstantsOK

(* A decision of the policy is a decision. *)
LEMMA RulingType ==
    ASSUME NEW pol, NEW i \in 0..MaxPrompts
    PROVE  /\ Ruling(pol, i) \in [key: Key, byUser: BOOLEAN] /\ Ruling(pol, i).key.id = i
           /\ Ruling(pol, i).key.verdict = "approve" => pol[envelopes[i].tool] # "deny"
BY DEF Ruling, Key, Verdict

(* At most one request needs the user: the first.                            *)
LEMMA FirstIsUnique ==
    ASSUME TypeOK, NEW i \in First, NEW k \in First
    PROVE  i = k
<1>1. i \in Queued /\ k \in Queued /\ ~Settles(policy, i) /\ ~Settles(policy, k)
  BY DEF First, Ruled, Reached
<1>2. ~Before(k, i) /\ ~Before(i, k)
  BY <1>1 DEF First, Reached
<1>3. i \in Int /\ k \in Int
  BY <1>1, IdsType DEF Queued, TypeOK
<1> QED BY <1>2, <1>3 DEF Before

(* What Next takes and leaves. *)
LEMMA NextTakes ==
    ASSUME TypeOK, NextRequest, ~(active # 0 /\ Live(active))
    PROVE  /\ active' = 0 \/ active' \in First
           /\ \A i \in First : active' = i
           /\ queue' = Queued \ Reached /\ hand' = {Ruling(policy, i) : i \in Ruled}
           /\ settled' = settled \cup Ruled
           /\ Queued \subseteq queue /\ Reached \subseteq Queued /\ Reached = Ruled \cup First
<1>1. \A i, k \in First : i = k
  BY FirstIsUnique
<1> HIDE DEF First
<1>2. /\ active' = 0 \/ active' \in First
      /\ \A i \in First : active' = i
  BY <1>1 DEF NextRequest
<1>3. Queued \subseteq queue /\ Reached \subseteq Queued /\ Reached = Ruled \cup First
  BY DEF Queued, Reached, First, Ruled
<1> QED BY <1>2, <1>3 DEF NextRequest

LEMMA TypeInit == ASSUME ConstantsOK, Init PROVE TypeOK /\ BoundInv
<1>1. envelopes \in Seq([caller: Callers, tool: Tools]) /\ Len(envelopes) = 0 /\ Ids = {}
  BY DEF Init, Ids
<1>2. changes \in 0..MaxChanges
  BY DEF Init, ConstantsOK
<1>3. policy \in Policy
  BY DEF Init, Policy
<1>4. /\ pc \in [Callers -> {"idle", "asked", "waiting"}] /\ asks \in [Callers -> Tools]
      /\ answer \in [1..MaxPrompts -> Verdict \cup {"none"}]
      /\ returned \in [1..MaxPrompts -> Verdict \cup {"none", "cancelled"}]
  BY DEF Init
<1>5. /\ alive \subseteq Callers /\ dead \subseteq Ids /\ queue \subseteq Ids
      /\ active \in (Ids \cup {0}) \ queue /\ shown \in Ids \cup {0}
      /\ visible \in BOOLEAN /\ mustShow \in BOOLEAN /\ settled \subseteq Ids
      /\ remembered \subseteq Ids
  BY DEF Init
<1>6. results \subseteq Key /\ hand \subseteq [key: Key, byUser: BOOLEAN]
      /\ pressed \subseteq [id: 0..MaxPrompts, verdict: Verdict]
  BY DEF Init
<1> QED BY <1>1, <1>2, <1>3, <1>4, <1>5, <1>6 DEF TypeOK, BoundInv, ConstantsOK

(* The callers keep the queue typed. *)
LEMMA CallerType ==
    ASSUME ConstantsOK, TypeOK, BoundInv,
           \/ \E c \in Callers : \/ prompt(c)
                                 \/ ContextDies(c)
                                 \/ \E t \in Tools : Approve(c, t)
                                 \/ \E i \in Ids : Receive(c, i) \/ GiveUp(c, i)
           \/ NewTurn
    PROVE  TypeOK' /\ BoundInv'
<1> DEFINE Goal == TypeOK' /\ BoundInv'
<1>1. ASSUME NEW c \in Callers, NEW t \in Tools, Approve(c, t) PROVE Goal
  BY <1>1 DEF Approve, TypeOK, BoundInv, Ids, approver, app, history
<1>2. ASSUME NEW c \in Callers, prompt(c) PROVE Goal
  <2>1. CASE UNCHANGED <<envelopes, queue>>
    BY <1>2, <2>1 DEF prompt, TypeOK, BoundInv, Ids, app, history
  <2>2. CASE /\ Len(envelopes) < MaxPrompts
             /\ envelopes' = Append(envelopes, [caller |-> c, tool |-> asks[c]])
             /\ queue' = queue \cup {Len(envelopes')}
    <3>1. [caller |-> c, tool |-> asks[c]] \in [caller: Callers, tool: Tools]
      BY DEF TypeOK
    <3>2. envelopes' \in Seq([caller: Callers, tool: Tools]) /\ Len(envelopes') = Len(envelopes) + 1
      BY <2>2, <3>1 DEF TypeOK
    <3>3. Ids' = Ids \cup {Len(envelopes')} /\ Len(envelopes') \notin Ids /\ Len(envelopes') # 0
      <4>1. Ids' = 1..Len(envelopes')
        BY <3>2 DEF Ids
      <4> QED BY <3>2, <4>1, IdsType
    <3>4. BoundInv'
      BY <2>2, <3>2, IdsType DEF BoundInv, ConstantsOK
    <3>5. /\ dead' \subseteq Ids' /\ queue' \subseteq Ids' /\ active' \in (Ids' \cup {0}) \ queue'
          /\ shown' \in Ids' \cup {0} /\ settled' \subseteq Ids' /\ remembered' \subseteq Ids'
      BY <1>2, <2>2, <3>3 DEF prompt, TypeOK, app, history
    <3>6. pc' \in [Callers -> {"idle", "asked", "waiting"}]
      BY <1>2 DEF prompt, TypeOK
    <3> QED BY <1>2, <3>2, <3>4, <3>5, <3>6 DEF prompt, TypeOK, app, history
  <2> QED BY <1>2, <2>1, <2>2 DEF prompt
<1>3. ASSUME NEW c \in Callers, ContextDies(c) PROVE Goal
  BY <1>3 DEF ContextDies, Kill, TypeOK, BoundInv, Ids, approver, app, history
<1>4. ASSUME NEW c \in Callers, NEW i \in Ids, Receive(c, i) PROVE Goal
  BY <1>4, BoundedIds DEF Receive, TypeOK, BoundInv, Ids, approver, app, history
<1>5. ASSUME NEW c \in Callers, NEW i \in Ids, GiveUp(c, i) PROVE Goal
  BY <1>5, BoundedIds DEF GiveUp, TypeOK, BoundInv, Ids, app, history
<1>6. CASE NewTurn
  BY <1>6 DEF NewTurn, TypeOK, BoundInv, Ids, approver, app, history, Callers
<1> QED BY <1>1, <1>2, <1>3, <1>4, <1>5, <1>6

(* Taking a decision on the displayed request. *)
LEMMA ResolveType ==
    ASSUME TypeOK, NEW key \in Key, ResolveID(key)
    PROVE  /\ hand' \subseteq [key: Key, byUser: BOOLEAN]
           /\ active' \in {0, active}
<1>1. [key |-> key, byUser |-> TRUE] \in [key: Key, byUser: BOOLEAN]
  OBVIOUS
<1>2. CASE active' = 0 /\ hand' = {[key |-> key, byUser |-> TRUE]}
  BY <1>1, <1>2
<1>3. CASE UNCHANGED <<active, hand>>
  BY <1>3 DEF TypeOK
<1> QED BY <1>2, <1>3 DEF ResolveID

(* The App keeps the queue typed. *)
LEMMA AppType ==
    ASSUME ConstantsOK, TypeOK, BoundInv, OwnInv,
           \/ showPendingApproval
           \/ \E verdict \in Verdict, remember \in BOOLEAN : Press(verdict, remember)
           \/ \E key \in results : resolveApprovalResult(key)
           \/ \E h \in hand : Deliver(h)
           \/ CtrlC
           \/ \E pol \in Policy : cyclePermissionMode(pol) \/ setPermissionPolicy(pol)
           \/ UNCHANGED vars
    PROVE  TypeOK' /\ BoundInv'
<1> DEFINE Goal == TypeOK' /\ BoundInv'
<1>1. CASE showPendingApproval
  <2>0. /\ envelopes' = envelopes /\ Ids' = Ids /\ Ids \subseteq 1..MaxPrompts
        /\ Len(envelopes) \in Nat
    BY <1>1, BoundedIds, IdsType DEF showPendingApproval, Ids
  <2>1. /\ queue' \subseteq Ids /\ active' \in (Ids \cup {0}) \ queue' /\ settled' \subseteq Ids
        /\ hand' \subseteq [key: Key, byUser: BOOLEAN]
    <3>1. CASE UNCHANGED <<active, queue, hand, settled>>
      BY <3>1 DEF TypeOK
    <3>2. CASE NextRequest /\ ~(active # 0 /\ Live(active))
      <4>1. Queued \subseteq Ids /\ Reached \subseteq Queued /\ Ruled \subseteq Ids
        BY <3>2, NextTakes DEF TypeOK
      <4>2. \A i \in Ruled : Ruling(policy, i) \in [key: Key, byUser: BOOLEAN]
        BY <2>0, <4>1, RulingType
      <4>3. active' = 0 \/ active' \in Reached
        BY <3>2, NextTakes
      <4>4. queue' = Queued \ Reached /\ hand' = {Ruling(policy, i) : i \in Ruled} /\ settled' = settled \cup Ruled
        BY <3>2, NextTakes
      <4> HIDE DEF Queued, Reached, Ruled
      <4>5. 0 \notin Ids
        BY <2>0
      <4> QED BY <4>1, <4>2, <4>3, <4>4, <4>5 DEF TypeOK
    <3> QED BY <1>1, <3>1, <3>2 DEF showPendingApproval, NextRequest
  <2>2. shown' \in Ids \cup {0} /\ visible' \in BOOLEAN
    BY <1>1, <2>1 DEF showPendingApproval, TypeOK
  <2> QED BY <1>1, <2>0, <2>1, <2>2 DEF showPendingApproval, TypeOK, BoundInv
<1>2. ASSUME NEW verdict \in Verdict, NEW remember \in BOOLEAN, Press(verdict, remember) PROVE Goal
  <2>1. shown \in 0..MaxPrompts
    BY BoundedIds DEF TypeOK, ConstantsOK
  <2>2. /\ results' \subseteq Key /\ pressed' \subseteq [id: 0..MaxPrompts, verdict: Verdict]
    BY <1>2, <2>1 DEF Press, TypeOK, Key
  <2> QED BY <1>2, <2>2 DEF Press, TypeOK, BoundInv, Ids, approver
<1>3. ASSUME NEW key \in results, resolveApprovalResult(key) PROVE Goal
  <2>1. hand' \subseteq [key: Key, byUser: BOOLEAN]
    <3>1. key \in Key
      BY DEF TypeOK
    <3> QED BY <1>3, <3>1, ResolveType DEF resolveApprovalResult, TypeOK
  <2>2. active' \in (Ids \cup {0}) \ queue
    BY <1>3, IdsType DEF resolveApprovalResult, ResolveID, TypeOK
  <2> QED BY <1>3, <2>1, <2>2 DEF resolveApprovalResult, TypeOK, BoundInv, Ids, history
<1>4. ASSUME NEW h \in hand, Deliver(h) PROVE Goal
  <2>1. h.key \in Key /\ h.key.id \in Ids
    BY DEF TypeOK, OwnInv
  <2>2. h.key.verdict \in Verdict /\ envelopes[h.key.id].tool \in Tools
    BY <2>1, IdsType DEF Key
  <2>3. answer' \in [1..MaxPrompts -> Verdict \cup {"none"}]
    BY <1>4, <2>2 DEF Deliver, TypeOK
  <2>4. policy' \in Policy /\ remembered' \subseteq Ids
    BY <1>4, <2>1, <2>2 DEF Deliver, TypeOK, Policy
  <2> QED BY <1>4, <2>3, <2>4 DEF Deliver, TypeOK, BoundInv, Ids
<1>5. CASE CtrlC
  <2>1. shown \in 0..MaxPrompts
    BY BoundedIds DEF TypeOK, ConstantsOK
  <2>2. [id |-> shown, verdict |-> "reject", remember |-> FALSE] \in Key
    BY <2>1 DEF Key, Verdict
  <2>3. /\ hand' \subseteq [key: Key, byUser: BOOLEAN] /\ active' \in (Ids \cup {0}) \ queue
        /\ shown' \in Ids \cup {0} /\ visible' \in BOOLEAN
    <3>1. CASE UNCHANGED <<active, hand, shown, visible>>
      BY <3>1 DEF TypeOK
    <3>2. CASE ResolveID([id |-> shown, verdict |-> "reject", remember |-> FALSE]) /\ shown' = 0 /\ visible' = FALSE
      <4>1. hand' \subseteq [key: Key, byUser: BOOLEAN] /\ active' \in {0, active}
        BY <2>2, <3>2, ResolveType
      <4>2. active \in (Ids \cup {0}) \ queue /\ 0 \notin queue
        BY IdsType DEF TypeOK
      <4> QED BY <3>2, <4>1, <4>2
    <3> QED BY <1>5, <3>1, <3>2 DEF CtrlC
  <2>4. alive' \subseteq Callers /\ dead' \subseteq Ids
    BY <1>5 DEF CtrlC, Kill, TypeOK
  <2> QED BY <1>5, <2>3, <2>4 DEF CtrlC, TypeOK, BoundInv, Ids, history
<1>6. ASSUME NEW pol \in Policy, cyclePermissionMode(pol) PROVE Goal
  <2>1. shown \in 0..MaxPrompts /\ (IsLive(shown) => shown \in Ids)
    BY BoundedIds DEF TypeOK, ConstantsOK, IsLive, Live
  <2>2. /\ hand' \subseteq [key: Key, byUser: BOOLEAN] /\ active' \in (Ids \cup {0}) \ queue
        /\ shown' \in Ids \cup {0} /\ visible' \in BOOLEAN /\ settled' \subseteq Ids
    <3>1. CASE UNCHANGED <<active, hand, settled, shown, visible>>
      BY <3>1 DEF TypeOK
    <3>2. CASE /\ IsLive(shown) /\ active' = 0 /\ hand' = {Ruling(pol, shown)}
               /\ settled' = settled \cup {shown} /\ shown' = 0 /\ visible' = FALSE
      <4>1. Ruling(pol, shown) \in [key: Key, byUser: BOOLEAN]
        BY <2>1, RulingType
      <4>2. 0 \notin queue /\ settled \subseteq Ids
        BY IdsType DEF TypeOK
      <4> QED BY <2>1, <3>2, <4>1, <4>2
    <3> QED BY <1>6, <3>1, <3>2 DEF cyclePermissionMode
  <2> QED BY <1>6, <2>2 DEF cyclePermissionMode, TypeOK, BoundInv, Ids, ConstantsOK
<1>7. ASSUME NEW pol \in Policy, setPermissionPolicy(pol) PROVE Goal
  BY <1>7 DEF setPermissionPolicy, TypeOK, BoundInv, Ids, ConstantsOK, approver, app, history
<1>8. CASE UNCHANGED vars
  BY <1>8 DEF vars, TypeOK, BoundInv, Ids, approver, app, history
<1> QED BY <1>1, <1>2, <1>3, <1>4, <1>5, <1>6, <1>7, <1>8

-----------------------------------------------------------------------------
(* What each action does to a request that was made. *)

(* A new envelope gets the next number and changes no other. *)
LEMMA PromptAppends ==
    ASSUME ConstantsOK, TypeOK, NEW c \in Callers, prompt(c), envelopes' # envelopes
    PROVE  /\ Ids' = Ids \cup {Len(envelopes')} /\ Len(envelopes') \notin Ids
           /\ Len(envelopes') \in Nat \ {0}
           /\ \A i \in Ids : envelopes'[i] = envelopes[i]
           /\ envelopes'[Len(envelopes')] = [caller |-> c, tool |-> asks[c]]
           /\ queue' = queue \cup {Len(envelopes')}
           /\ pc[c] = "asked" /\ pc' = [pc EXCEPT ![c] = "waiting"]
           /\ Len(envelopes') <= MaxPrompts
<1> DEFINE e == [caller |-> c, tool |-> asks[c]]
           S == [caller: Callers, tool: Tools]
<1>1. e \in S /\ envelopes \in Seq(S)
  BY DEF TypeOK
<1>2. /\ envelopes' = Append(envelopes, e) /\ Len(envelopes) < MaxPrompts
      /\ queue' = queue \cup {Len(envelopes')}
      /\ pc[c] = "asked" /\ pc' = [pc EXCEPT ![c] = "waiting"]
  BY DEF prompt
<1> HIDE DEF e, S
<1>3. /\ Len(envelopes') = Len(envelopes) + 1 /\ Ids' = 1..Len(envelopes')
      /\ \A i \in 1..Len(envelopes) : envelopes'[i] = envelopes[i]
      /\ envelopes'[Len(envelopes')] = e
  BY <1>1, <1>2 DEF Ids
<1>4. Ids = 1..Len(envelopes) /\ Len(envelopes) \in Nat
  BY IdsType
<1>5. Ids' = Ids \cup {Len(envelopes')} /\ Len(envelopes') \notin Ids /\ Len(envelopes') \in Nat \ {0}
  BY <1>3, <1>4
<1>6. Len(envelopes') <= MaxPrompts
  BY <1>2, <1>3, <1>4 DEF ConstantsOK
<1>7. \A i \in Ids : envelopes'[i] = envelopes[i]
  BY <1>3, <1>4
<1>8. envelopes'[Len(envelopes')] = [caller |-> c, tool |-> asks[c]]
  BY <1>3 DEF e
<1> QED BY <1>2, <1>5, <1>6, <1>7, <1>8

(* What entitled a caller to an approval stays. *)
LEMMA JustifiedStays ==
    ASSUME NEW i, envelopes'[i] = envelopes[i], pressed \subseteq pressed', settled \subseteq settled',
           Justified(i)
    PROVE  Justified(i)'
BY DEF Justified, Foreground

(* A step that makes no decision and delivers none. *)
LEMMA OwnStays ==
    ASSUME OwnInv, Ids' = Ids, envelopes' = envelopes, UNCHANGED <<answer, hand>>,
           \A i \in Ids : returned'[i] \in {returned[i], "cancelled"} \/ returned'[i] = answer[i],
           \A i \in 1..MaxPrompts : i \notin Ids => returned'[i] = returned[i],
           pressed \subseteq pressed', settled \subseteq settled',
           \A key \in results' : [id |-> key.id, verdict |-> key.verdict] \in pressed'
    PROVE  OwnInv'
<1>1. \A i \in Ids : Justified(i) => Justified(i)'
  BY JustifiedStays
<1>2. \A i \in 1..MaxPrompts : answer'[i] # "none" \/ returned'[i] # "none" => i \in Ids'
  BY DEF OwnInv
<1>3. \A i \in Ids' : answer'[i] = "approve" \/ returned'[i] = "approve" => Justified(i)'
  BY <1>1 DEF OwnInv
<1>4. \A h \in hand' : h.key.id \in Ids' /\ (h.key.verdict = "approve" => Justified(h.key.id)')
  BY <1>1 DEF OwnInv
<1> HIDE DEF Justified
<1> QED BY <1>2, <1>3, <1>4 DEF OwnInv

(* An approval is justified wherever it is on its way. *)
LEMMA OwnNext ==
    ASSUME ConstantsOK, TypeOK, BoundInv, OwnInv, [Next]_vars PROVE OwnInv'
<1>0. Ids \subseteq 1..MaxPrompts /\ 0 \notin Ids
  BY BoundedIds
<1>1. ASSUME NEW c \in Callers, NEW t \in Tools, Approve(c, t) PROVE OwnInv'
  BY <1>1, OwnStays DEF Approve, approver, app, history, Ids, OwnInv
<1>2. ASSUME NEW c \in Callers, prompt(c) PROVE OwnInv'
  <2>1. CASE envelopes' = envelopes
    BY <1>2, <2>1, OwnStays DEF prompt, app, history, Ids, OwnInv
  <2>2. CASE envelopes' # envelopes
    <3> DEFINE n == Len(envelopes')
    <3>1. /\ Ids' = Ids \cup {n} /\ n \notin Ids /\ n \in 1..MaxPrompts
          /\ \A i \in Ids : envelopes'[i] = envelopes[i]
      <4>1. /\ Ids' = Ids \cup {n} /\ n \notin Ids /\ n \in Nat \ {0} /\ n <= MaxPrompts
            /\ \A i \in Ids : envelopes'[i] = envelopes[i]
        BY <1>2, <2>2, PromptAppends
      <4> HIDE DEF n
      <4> QED BY <4>1 DEF ConstantsOK
    <3>2. UNCHANGED <<answer, returned, hand, results, pressed, settled>>
      BY <1>2 DEF prompt, app, history
    <3> HIDE DEF n
    <3>3. \A i \in Ids : Justified(i) => Justified(i)'
      BY <3>1, <3>2, JustifiedStays
    <3>4. answer[n] = "none" /\ returned[n] = "none"
      BY <3>1 DEF OwnInv
    <3> HIDE DEF Justified
    <3> QED BY <3>1, <3>2, <3>3, <3>4 DEF OwnInv
  <2> QED BY <2>1, <2>2
<1>3. ASSUME NEW c \in Callers, ContextDies(c) PROVE OwnInv'
  BY <1>3, OwnStays DEF ContextDies, approver, app, history, Ids, OwnInv
<1>4. ASSUME NEW c \in Callers, NEW i \in Ids, Receive(c, i) PROVE OwnInv'
  <2>1. \A k \in 1..MaxPrompts : returned'[k] = IF k = i THEN answer[k] ELSE returned[k]
    BY <1>4 DEF Receive, TypeOK
  <2> QED BY <1>0, <1>4, <2>1, OwnStays DEF Receive, approver, app, history, Ids, OwnInv
<1>5. ASSUME NEW c \in Callers, NEW i \in Ids, GiveUp(c, i) PROVE OwnInv'
  <2>1. \A k \in 1..MaxPrompts : returned'[k] = IF k = i THEN "cancelled" ELSE returned[k]
    BY <1>5 DEF GiveUp, TypeOK
  <2> QED BY <1>0, <1>5, <2>1, OwnStays DEF GiveUp, app, history, Ids, OwnInv
<1>6. CASE NewTurn \/ UNCHANGED vars
  BY <1>6, OwnStays DEF NewTurn, vars, approver, app, history, Ids, OwnInv
<1>7. CASE showPendingApproval
  <2>1. CASE UNCHANGED <<active, queue, hand, settled>>
    BY <1>7, <2>1, OwnStays DEF showPendingApproval, Ids, OwnInv
  <2>2. CASE NextRequest /\ ~(active # 0 /\ Live(active))
    <3>1. /\ hand' = {Ruling(policy, i) : i \in Ruled} /\ settled' = settled \cup Ruled
          /\ Ruled \subseteq Ids
      BY <2>2, NextTakes DEF TypeOK
    <3>2. /\ UNCHANGED <<envelopes, answer, returned, results, pressed>> /\ Ids' = Ids
      BY <1>7 DEF showPendingApproval, Ids
    <3>3. \A i \in Ids : Justified(i) => Justified(i)'
      BY <3>1, <3>2, JustifiedStays
    <3>4. ASSUME NEW i \in Ruled, Ruling(policy, i).key.verdict = "approve" PROVE Justified(i)'
      <4>1. policy[envelopes[i].tool] # "deny"
        BY <3>4 DEF Ruling
      <4>2. Settles(policy, i)
        BY DEF Ruled
      <4>3. Foreground(i) /\ i \in settled'
        BY <4>1, <4>2, <3>1 DEF Settles
      <4> QED BY <4>3, <3>2 DEF Justified, Foreground
    <3>5. \A i \in Ruled : Ruling(policy, i).key.id = i
      BY DEF Ruling
    <3> HIDE DEF Justified, Ruled, Ruling
    <3>6. \A h \in hand' : h.key.id \in Ids' /\ (h.key.verdict = "approve" => Justified(h.key.id)')
      BY <3>1, <3>2, <3>4, <3>5
    <3> QED BY <3>1, <3>2, <3>3, <3>6 DEF OwnInv
  <2> QED BY <1>7, <2>1, <2>2 DEF showPendingApproval, NextRequest
<1>8. ASSUME NEW verdict \in Verdict, NEW remember \in BOOLEAN, Press(verdict, remember) PROVE OwnInv'
  BY <1>8, OwnStays DEF Press, approver, Ids, OwnInv
<1>9. ASSUME NEW key \in Key, key.id \in Ids, key.verdict = "approve" => Justified(key.id),
             hand' = {[key |-> key, byUser |-> TRUE]} \/ hand' = hand,
             Ids' = Ids, UNCHANGED <<envelopes, answer, returned, pressed, settled>>, results' \subseteq results
      PROVE  OwnInv'
  <2>1. \A i \in Ids : Justified(i) => Justified(i)'
    BY <1>9, JustifiedStays
  <2>2. \A h \in hand' : h.key.id \in Ids' /\ (h.key.verdict = "approve" => Justified(h.key.id)')
    BY <1>9, <2>1 DEF OwnInv
  <2> HIDE DEF Justified
  <2> QED BY <1>9, <2>1, <2>2 DEF OwnInv
<1>10. ASSUME NEW key \in results, resolveApprovalResult(key) PROVE OwnInv'
  <2>1. CASE hand' = hand
    BY <1>10, <2>1, OwnStays DEF resolveApprovalResult, history, Ids, OwnInv
  <2>2. CASE hand' # hand
    <3>1. key \in Key /\ key.id \in Ids /\ hand' = {[key |-> key, byUser |-> TRUE]}
      BY <1>10, <2>2 DEF resolveApprovalResult, ResolveID, TypeOK
    <3>2. Justified(key.id)  \/ key.verdict # "approve"
      BY DEF OwnInv, Justified
    <3> QED BY <1>9, <1>10, <3>1, <3>2 DEF resolveApprovalResult, history, Ids
  <2> QED BY <2>1, <2>2
<1>11. CASE CtrlC
  <2>1. CASE hand' = hand
    BY <1>11, <2>1, OwnStays DEF CtrlC, history, Ids, OwnInv
  <2>2. CASE hand' # hand
    <3> DEFINE key == [id |-> shown, verdict |-> "reject", remember |-> FALSE]
    <3>1. key.id \in Ids /\ hand' = {[key |-> key, byUser |-> TRUE]}
      BY <1>11, <2>2 DEF CtrlC, ResolveID, TypeOK
    <3>2. key \in Key /\ key.verdict = "reject"
      <4>1. shown \in 0..MaxPrompts
        BY <1>0 DEF TypeOK, ConstantsOK
      <4> QED BY <4>1 DEF Key, Verdict
    <3> HIDE DEF key
    <3> QED BY <1>9, <1>11, <3>1, <3>2 DEF CtrlC, history, Ids
  <2> QED BY <2>1, <2>2
<1>12. ASSUME NEW h \in hand, Deliver(h) PROVE OwnInv'
  <2>1. h.key.id \in Ids /\ (h.key.verdict = "approve" => Justified(h.key.id))
    BY DEF OwnInv
  <2>2. UNCHANGED <<envelopes, returned, results, pressed, settled>> /\ Ids' = Ids /\ hand' \subseteq hand
    BY <1>12 DEF Deliver, Ids
  <2>3. \A i \in 1..MaxPrompts : answer'[i] = answer[i] \/ (i = h.key.id /\ answer'[i] = h.key.verdict)
    BY <1>12 DEF Deliver, TypeOK
  <2>4. \A i \in Ids : Justified(i) => Justified(i)'
    BY <2>2, JustifiedStays
  <2> HIDE DEF Justified
  <2>5. \A i \in Ids : answer'[i] = "approve" \/ returned'[i] = "approve" => Justified(i)'
    BY <1>0, <2>1, <2>2, <2>3, <2>4 DEF OwnInv
  <2> QED BY <2>1, <2>2, <2>3, <2>4, <2>5 DEF OwnInv
<1>13. ASSUME NEW pol \in Policy, cyclePermissionMode(pol) PROVE OwnInv'
  <2>1. CASE UNCHANGED <<hand, settled>>
    BY <1>13, <2>1, OwnStays DEF cyclePermissionMode, Ids, OwnInv
  <2>2. CASE IsLive(shown) /\ Settles(pol, shown) /\ hand' = {Ruling(pol, shown)} /\ settled' = settled \cup {shown}
    <3>0. PICK i \in Ids : i = shown
      BY <2>2 DEF IsLive, Live
    <3>1. UNCHANGED <<envelopes, answer, returned, results, pressed>> /\ Ids' = Ids
      BY <1>13 DEF cyclePermissionMode, Ids
    <3>2. \A k \in Ids : Justified(k) => Justified(k)'
      BY <2>2, <3>1, JustifiedStays
    <3>3. /\ hand' = {Ruling(pol, i)} /\ settled' = settled \cup {i} /\ Settles(pol, i)
          /\ Ruling(pol, i).key.id = i
      BY <2>2, <3>0 DEF Ruling
    <3>4. ASSUME Ruling(pol, i).key.verdict = "approve" PROVE Justified(i)'
      <4>1. Foreground(i)
        BY <3>3, <3>4 DEF Ruling, Settles
      <4> QED BY <3>1, <3>3, <4>1 DEF Justified, Foreground
    <3> HIDE DEF Justified, Ruling
    <3>5. \A h \in hand' : h.key.id \in Ids' /\ (h.key.verdict = "approve" => Justified(h.key.id)')
      BY <3>1, <3>3, <3>4
    <3> QED BY <3>1, <3>2, <3>3, <3>5 DEF OwnInv
  <2> QED BY <1>13, <2>1, <2>2 DEF cyclePermissionMode
<1>14. ASSUME NEW pol \in Policy, setPermissionPolicy(pol) PROVE OwnInv'
  BY <1>14, OwnStays DEF setPermissionPolicy, approver, app, history, Ids, OwnInv
<1> QED BY <1>1, <1>2, <1>3, <1>4, <1>5, <1>6, <1>7, <1>8, <1>10, <1>11, <1>12, <1>13, <1>14 DEF Next

-----------------------------------------------------------------------------
(* Who waits. *)

(* A caller has one request at a time. *)
LEMMA WaitNext ==
    ASSUME ConstantsOK, TypeOK, BoundInv, OwnInv, WaitInv, [Next]_vars PROVE WaitInv'
<1>0. Ids \subseteq 1..MaxPrompts
  BY BoundedIds
<1>1. CASE UNCHANGED <<envelopes, returned, pc>>
  BY <1>1 DEF WaitInv, Ids
<1>2. ASSUME NEW c \in Callers, NEW t \in Tools, Approve(c, t) PROVE WaitInv'
  <2>1. UNCHANGED <<envelopes, returned>> /\ Ids' = Ids
    BY <1>2 DEF Approve, Ids
  <2>2. pc[c] = "idle" /\ \A d \in Callers : d # c => pc'[d] = pc[d]
    BY <1>2 DEF Approve, TypeOK
  <2> QED BY <2>1, <2>2, IdsType DEF WaitInv
<1>3. ASSUME NEW c \in Callers, prompt(c) PROVE WaitInv'
  <2>1. returned' = returned
    BY <1>3 DEF prompt
  <2>2. CASE envelopes' = envelopes
    <3>1. pc[c] = "asked" /\ (\A d \in Callers : d # c => pc'[d] = pc[d]) /\ Ids' = Ids
      BY <1>3, <2>2 DEF prompt, TypeOK, Ids
    <3> QED BY <2>1, <2>2, <3>1, IdsType DEF WaitInv
  <2>3. CASE envelopes' # envelopes
    <3> DEFINE n == Len(envelopes')
    <3>1. /\ Ids' = Ids \cup {n} /\ n \notin Ids /\ \A i \in Ids : envelopes'[i] = envelopes[i]
          /\ envelopes'[n].caller = c /\ pc[c] = "asked" /\ pc' = [pc EXCEPT ![c] = "waiting"]
      <4>1. /\ Ids' = Ids \cup {n} /\ n \notin Ids /\ \A i \in Ids : envelopes'[i] = envelopes[i]
            /\ envelopes'[n] = [caller |-> c, tool |-> asks[c]]
            /\ pc[c] = "asked" /\ pc' = [pc EXCEPT ![c] = "waiting"]
        BY <1>3, <2>3, PromptAppends
      <4> HIDE DEF n
      <4> QED BY <4>1
    <3>2. \A i \in Ids : returned[i] = "none" => envelopes[i].caller # c
      BY <3>1 DEF WaitInv
    <3>3. \A d \in Callers : pc'[d] = IF d = c THEN "waiting" ELSE pc[d]
      BY <3>1 DEF TypeOK
    <3> HIDE DEF n
    <3> QED BY <2>1, <3>1, <3>2, <3>3, IdsType DEF WaitInv
  <2> QED BY <2>2, <2>3
<1>5. ASSUME NEW c \in Callers, NEW i \in Ids, Receive(c, i) \/ GiveUp(c, i) PROVE WaitInv'
  <2>1. /\ envelopes[i].caller = c /\ returned[i] = "none" /\ envelopes' = envelopes /\ Ids' = Ids
        /\ \A d \in Callers : d # c => pc'[d] = pc[d]
    BY <1>5 DEF Receive, GiveUp, Waits, TypeOK, Ids
  <2>2. returned'[i] # "none" /\ \A k \in Ids \ {i} : returned'[k] = returned[k]
    BY <1>0, <1>5 DEF Receive, GiveUp, TypeOK
  <2> QED BY <2>1, <2>2, IdsType DEF WaitInv
<1> QED BY <1>1, <1>2, <1>3, <1>5
        DEF Next, vars, approver, app, history, ContextDies, NewTurn, showPendingApproval, Press,
            resolveApprovalResult, Deliver, CtrlC, cyclePermissionMode, setPermissionPolicy

-----------------------------------------------------------------------------
(* What is on screen. *)

(* The displayed request can be answered after every step. *)
LEMMA ScreenNext ==
    ASSUME ConstantsOK, TypeOK, BoundInv, ScreenInv, [Next]_vars PROVE ScreenInv'
<1>0. active \in Ids \cup {0}
  BY DEF TypeOK
<1>1. ASSUME dead \subseteq dead', active' \in {0, active}, shown' = shown, visible => visible', results \subseteq results'
      PROVE  ScreenInv'
  BY <1>0, <1>1 DEF ScreenInv, Live
<1>2. ASSUME NEW verdict \in Verdict, NEW remember \in BOOLEAN, Press(verdict, remember) PROVE ScreenInv'
  <2>1. UNCHANGED <<dead, active, shown>>
    BY <1>2 DEF Press, approver
  <2>2. PICK key \in results' : key.id = shown
    <3>1. [id |-> shown, verdict |-> verdict, remember |-> remember] \in results'
      BY <1>2 DEF Press
    <3>2. [id |-> shown, verdict |-> verdict, remember |-> remember].id = shown
      OBVIOUS
    <3> QED BY <3>1, <3>2
  <2>3. active # 0 /\ Live(active)' => shown = active
    BY <1>0, <2>1 DEF ScreenInv, Live
  <2> QED BY <2>1, <2>2, <2>3 DEF ScreenInv, Live
<1>3. ASSUME NEW key \in results, resolveApprovalResult(key) PROVE ScreenInv'
  <2>1. UNCHANGED <<dead, visible>> /\ results' = results \ {key}
    BY <1>3 DEF resolveApprovalResult
  <2>2. CASE active' = 0
    BY <2>2 DEF ScreenInv
  <2>3. CASE active' # 0
    <3>1. active' = active /\ (active = shown => key.id # active) /\ (key.id # shown => shown' = shown)
      BY <1>3, <2>3 DEF resolveApprovalResult, ResolveID
    <3>2. active = shown => key.id # shown
      BY <3>1
    <3> QED BY <1>0, <2>1, <3>1, <3>2 DEF ScreenInv, Live
  <2> QED BY <2>2, <2>3
<1>4. CASE CtrlC
  <2>1. dead \subseteq dead' /\ results' = results
    BY <1>4 DEF CtrlC, Kill
  <2>2. CASE UNCHANGED <<active, shown, visible>>
    BY <1>1, <2>1, <2>2
  <2>3. CASE ResolveID([id |-> shown, verdict |-> "reject", remember |-> FALSE])
    <3>1. active' = 0 \/ (active' = active /\ (active = shown => shown = 0))
      BY <2>3 DEF ResolveID
    <3> QED BY <1>0, <2>1, <3>1 DEF ScreenInv, Live
  <2> QED BY <1>4, <2>2, <2>3 DEF CtrlC
<1>5. ASSUME NEW pol \in Policy, cyclePermissionMode(pol) PROVE ScreenInv'
  <2>1. CASE active' = 0
    BY <2>1 DEF ScreenInv
  <2>2. CASE UNCHANGED <<active, shown, visible>>
    BY <1>1, <1>5, <2>2 DEF cyclePermissionMode
  <2> QED BY <1>5, <2>1, <2>2 DEF cyclePermissionMode
<1>6. CASE showPendingApproval
  <2>0. UNCHANGED <<dead, results>>
    BY <1>6 DEF showPendingApproval
  <2>1. CASE active' = 0 \/ UNCHANGED <<active, shown, visible>>
    BY <1>1, <2>0, <2>1 DEF ScreenInv
  <2>2. CASE active' # 0 /\ active' # active
    BY <1>6, <2>2 DEF showPendingApproval, ScreenInv
  <2>3. CASE active' = active /\ active # 0 /\ ~(visible /\ IsLive(shown))
    <3>1. CASE Live(active)
      <4>1. shown = active /\ ~visible
        BY <2>3, <3>1 DEF ScreenInv, IsLive
      <4>2. shown' = shown
        BY <1>6, <2>3, <4>1 DEF showPendingApproval, IsLive
      <4> QED BY <2>0, <2>3, <3>1, <4>1, <4>2 DEF ScreenInv
    <3>2. CASE ~Live(active)
      BY <1>0, <2>0, <2>3, <3>2 DEF ScreenInv, Live
    <3> QED BY <3>1, <3>2
  <2> QED BY <1>6, <2>1, <2>2, <2>3 DEF showPendingApproval
<1>7. ASSUME NEW c \in Callers, NEW i \in Ids, GiveUp(c, i) PROVE ScreenInv'
  BY <1>1, <1>7 DEF GiveUp, app
<1>8. ASSUME NEW c \in Callers, prompt(c) PROVE ScreenInv'
  BY <1>1, <1>8 DEF prompt, app
<1>9. CASE UNCHANGED <<active, shown, visible, results>> /\ dead \subseteq dead'
  BY <1>1, <1>9
<1> QED BY <1>2, <1>3, <1>4, <1>5, <1>6, <1>7, <1>8, <1>9
        DEF Next, vars, approver, app, history, Approve, Receive, ContextDies, Kill, NewTurn, Deliver,
            setPermissionPolicy

-----------------------------------------------------------------------------
(* No request is lost. *)

(* Request i is queued, on screen, answered, or about to be.                 *)
Accounted(i) == i \in queue \cup {active} \/ answer[i] # "none" \/ \E h \in hand : h.key.id = i

(* A step that makes no request accounts for those it leaves unanswered.     *)
LEMMA LostStays ==
    ASSUME TypeOK, NoPromptLost, WaitInv, UNCHANGED <<envelopes, answer>>, dead \subseteq dead',
           \A i \in Ids : returned'[i] = "none" => returned[i] = "none",
           \A i \in Ids : Live(i) /\ i \notin dead' /\ returned'[i] = "none" /\ Accounted(i)
                          => Accounted(i)'
    PROVE  NoPromptLost'
<1>1. SUFFICES ASSUME NEW c \in Callers, NEW i \in Ids, envelopes[i].caller = c, returned'[i] = "none",
                      i \notin dead'
               PROVE  Accounted(i)'
  BY DEF NoPromptLost, Waits, Live, Ids, Accounted
<1>2. Waits(c, i) /\ Live(i)
  BY <1>1 DEF WaitInv, Waits, Live
<1>3. Accounted(i)
  BY <1>2 DEF NoPromptLost, Accounted
<1> QED BY <1>1, <1>2, <1>3

LEMMA LostNext ==
    ASSUME ConstantsOK, TypeOK, BoundInv, OwnInv, WaitInv, NoPromptLost, [Next]_vars
    PROVE  NoPromptLost'
<1>0. Ids \subseteq 1..MaxPrompts
  BY BoundedIds
<1>1. CASE UNCHANGED <<envelopes, answer, returned, queue, active, hand>> /\ dead \subseteq dead'
  BY <1>1, LostStays DEF Accounted
<1>2. ASSUME NEW c \in Callers, prompt(c) PROVE NoPromptLost'
  <2>1. UNCHANGED <<answer, returned, active, hand, dead>>
    BY <1>2 DEF prompt, app
  <2>2. CASE envelopes' = envelopes
    <3>1. queue' = queue
      <4>1. Len(envelopes') # Len(envelopes) \/ queue' = queue
        BY <2>2, <1>2, IdsType DEF prompt
      <4> QED BY <4>1, <2>2
    <3> QED BY <1>1, <2>1, <2>2, <3>1
  <2>3. CASE envelopes' # envelopes
    <3> DEFINE n == Len(envelopes')
    <3>1. /\ Ids' = Ids \cup {n} /\ \A i \in Ids : envelopes'[i] = envelopes[i]
          /\ queue' = queue \cup {n}
      BY <1>2, <2>3, PromptAppends
    <3> HIDE DEF n
    <3>2. SUFFICES ASSUME NEW d \in Callers, NEW i \in Ids, envelopes[i].caller = d, returned[i] = "none",
                          i \notin dead
                   PROVE  Accounted(i)'
      BY <2>1, <3>1 DEF NoPromptLost, Waits, Live, Accounted
    <3>3. Accounted(i)
      BY <3>2 DEF NoPromptLost, WaitInv, Waits, Live, Accounted
    <3> QED BY <2>1, <3>1, <3>3 DEF Accounted
  <2> QED BY <2>2, <2>3
<1>3. ASSUME NEW c \in Callers, NEW i \in Ids, Receive(c, i) PROVE NoPromptLost'
  <2>1. \A k \in Ids : returned'[k] = "none" => returned[k] = "none"
    BY <1>0, <1>3 DEF Receive, Waits, TypeOK
  <2> QED BY <1>3, <2>1, LostStays DEF Receive, approver, app, Accounted
<1>4. ASSUME NEW c \in Callers, NEW i \in Ids, GiveUp(c, i) PROVE NoPromptLost'
  <2>1. \A k \in Ids : returned'[k] = "none" => returned[k] = "none"
    BY <1>0, <1>4 DEF GiveUp, Waits, TypeOK
  <2>2. i \in dead /\ active' = (IF active = i THEN 0 ELSE active) /\ queue' = queue \ {i}
    BY <1>4 DEF GiveUp
  <2>3. \A k \in Ids : Live(k) /\ Accounted(k) => Accounted(k)'
    BY <1>4, <2>2 DEF GiveUp, app, Live, Accounted
  <2> QED BY <1>4, <2>1, <2>3, LostStays DEF GiveUp
<1>5. CASE showPendingApproval
  <2>1. UNCHANGED <<envelopes, answer, returned, dead>> /\ hand = {}
    BY <1>5 DEF showPendingApproval
  <2>2. CASE UNCHANGED <<active, queue, hand, settled>>
    BY <1>1, <2>1, <2>2
  <2>3. CASE NextRequest /\ ~(active # 0 /\ Live(active))
    <3>1. /\ \A i \in First : active' = i
          /\ queue' = Queued \ Reached /\ hand' = {Ruling(policy, i) : i \in Ruled}
          /\ Reached = Ruled \cup First
      BY <2>3, NextTakes
    <3>2. \A i : Ruling(policy, i).key.id = i
      BY DEF Ruling
    <3>3. ASSUME NEW i \in Ids, Live(i), Accounted(i), answer[i] = "none" PROVE Accounted(i)'
      <4>1. i # 0
        BY <1>0
      <4>2. i \in Queued
        BY <2>1, <2>3, <3>3, <4>1 DEF Queued, Accounted
      <4> HIDE DEF Queued, Reached, Ruled, First, Ruling
      <4>3. i \in queue' \/ i \in Ruled \/ active' = i
        BY <3>1, <4>2
      <4>4. i \in Ruled => \E h \in hand' : h.key.id = i
        BY <3>1, <3>2
      <4> QED BY <4>3, <4>4 DEF Accounted
    <3>4. \A i \in Ids : Live(i) /\ Accounted(i) => Accounted(i)'
      BY <2>1, <3>3 DEF Accounted
    <3> QED BY <2>1, <3>4, LostStays
  <2> QED BY <1>5, <2>2, <2>3 DEF showPendingApproval, NextRequest
<1>6. ASSUME NEW key, hand = {}, ResolveID(key), UNCHANGED <<envelopes, answer, returned, queue>>,
             dead \subseteq dead'
      PROVE  NoPromptLost'
  <2>1. ASSUME active' = 0, hand' = {[key |-> key, byUser |-> TRUE]}, active = key.id
        PROVE  NoPromptLost'
    <3>1. [key |-> key, byUser |-> TRUE].key.id = key.id
      OBVIOUS
    <3>2. \A i \in Ids : Accounted(i) => Accounted(i)'
      BY <1>6, <2>1, <3>1 DEF Accounted
    <3> QED BY <1>6, <3>2, LostStays
  <2> QED BY <1>1, <1>6, <2>1 DEF ResolveID
<1>7. ASSUME NEW key \in results, resolveApprovalResult(key) PROVE NoPromptLost'
  <2>1. hand = {} /\ UNCHANGED <<envelopes, answer, returned, queue, dead>>
    BY <1>7 DEF resolveApprovalResult, Free
  <2>2. UNCHANGED <<active, hand>> \/ ResolveID(key)
    BY <1>7 DEF resolveApprovalResult
  <2> QED BY <1>1, <1>6, <2>1, <2>2
<1>8. CASE CtrlC
  <2>1. hand = {} /\ UNCHANGED <<envelopes, answer, returned, queue>> /\ dead \subseteq dead'
    BY <1>8 DEF CtrlC, Free, Kill
  <2>2. UNCHANGED <<active, hand>> \/ ResolveID([id |-> shown, verdict |-> "reject", remember |-> FALSE])
    BY <1>8 DEF CtrlC
  <2> QED BY <1>1, <1>6, <2>1, <2>2
<1>9. ASSUME NEW h \in hand, Deliver(h) PROVE NoPromptLost'
  <2>1. UNCHANGED <<envelopes, returned, queue, active, pc, dead>> /\ hand' = hand \ {h}
    BY <1>9 DEF Deliver
  <2>2. h.key.verdict # "none" /\ h.key.id \in Ids
    BY DEF TypeOK, Key, Verdict, OwnInv
  <2>3. /\ \A i \in Ids : answer[i] # "none" => answer'[i] # "none"
        /\ Live(h.key.id) => answer'[h.key.id] # "none"
    BY <1>0, <1>9, <2>2 DEF Deliver, TypeOK
  <2>4. \A i \in Ids : Live(i) /\ Accounted(i) => Accounted(i)'
    BY <2>1, <2>3 DEF Accounted
  <2> HIDE DEF Accounted
  <2>5. \A c \in Callers, i \in Ids : Waits(c, i) /\ Live(i) => Accounted(i)'
    BY <2>4 DEF NoPromptLost, Accounted
  <2> QED BY <2>1, <2>5 DEF NoPromptLost, Waits, Live, Ids, Accounted
<1>10. ASSUME NEW pol \in Policy, cyclePermissionMode(pol) PROVE NoPromptLost'
  <2>1. hand = {} /\ UNCHANGED <<envelopes, answer, returned, queue, dead>>
    BY <1>10 DEF cyclePermissionMode, Free
  <2>2. CASE UNCHANGED <<active, hand>>
    BY <1>1, <2>1, <2>2
  <2>3. CASE IsLive(shown) /\ active' = 0 /\ hand' = {Ruling(pol, shown)}
    <3>1. Ruling(pol, shown).key.id = active
      BY <2>3 DEF Ruling, IsLive
    <3> HIDE DEF Ruling
    <3>2. \A i \in Ids : Accounted(i) => Accounted(i)'
      BY <2>1, <2>3, <3>1 DEF Accounted
    <3> QED BY <2>1, <3>2, LostStays
  <2> QED BY <1>10, <2>2, <2>3 DEF cyclePermissionMode
<1> QED BY <1>1, <1>2, <1>3, <1>4, <1>5, <1>7, <1>8, <1>9, <1>10
        DEF Next, vars, approver, app, history, Approve, ContextDies, Kill, NewTurn, Press,
            setPermissionPolicy

-----------------------------------------------------------------------------
(* The invariant holds, for any number of agents, tools and requests. *)
THEOREM QueueCorrect == ASSUME ConstantsOK PROVE Spec => []QueueInv
<1>1. ASSUME Init PROVE QueueInv
  <2>1. TypeOK /\ BoundInv /\ Ids = {}
    <3>1. envelopes = << >>
      BY <1>1 DEF Init
    <3> QED BY <1>1, <3>1, TypeInit DEF Ids
  <2>2. OwnInv
    <3>1. \A i \in 1..MaxPrompts : answer[i] = "none" /\ returned[i] = "none"
      BY <1>1 DEF Init
    <3>2. hand = {} /\ results = {}
      BY <1>1 DEF Init
    <3> QED BY <2>1, <3>1, <3>2 DEF OwnInv
  <2>3. WaitInv /\ NoPromptLost
    BY <2>1 DEF WaitInv, NoPromptLost
  <2>4. ScreenInv
    BY <1>1 DEF Init, ScreenInv
  <2> QED BY <2>1, <2>2, <2>3, <2>4 DEF QueueInv
<1>2. ASSUME QueueInv, [Next]_vars PROVE QueueInv'
  <2>1. TypeOK /\ BoundInv /\ OwnInv /\ WaitInv /\ ScreenInv /\ NoPromptLost
    BY <1>2 DEF QueueInv
  <2>2. TypeOK' /\ BoundInv'
    BY <1>2, <2>1, CallerType, AppType DEF Next
  <2>3. OwnInv' /\ WaitInv' /\ ScreenInv' /\ NoPromptLost'
    BY <1>2, <2>1, OwnNext, WaitNext, ScreenNext, LostNext
  <2> QED BY <2>2, <2>3 DEF QueueInv
<1>3. Init => QueueInv
  BY <1>1
<1>4. QueueInv /\ [Next]_vars => QueueInv'
  BY <1>2
<1> QED BY <1>3, <1>4, PTL DEF Spec

(* No request falls between the queue, the screen and an answer, what is on  *)
(* screen can be answered, and an agent is only told approved when the user  *)
(* pressed it on that request or the policy allows the foreground's own.     *)
THEOREM PromptsAreAnswered ==
    ASSUME ConstantsOK PROVE Spec => [](NoPromptLost /\ AnswerIsItsOwn /\ ActiveIsOnScreen)
<1>1. QueueInv => NoPromptLost /\ AnswerIsItsOwn /\ ActiveIsOnScreen
  BY DEF QueueInv, OwnInv, Justified, AnswerIsItsOwn, ScreenInv, ActiveIsOnScreen
<1> QED BY <1>1, QueueCorrect, PTL

(* The request on screen leaves it decided, or because its caller is gone.   *)
LEMMA DisplayedStep ==
    ASSUME ConstantsOK, QueueInv, [Next]_vars, active # 0, active' # active
    PROVE  active \in dead \/ \E h \in hand' : h.key.id = active
<1> USE DEF QueueInv
<1>1. ASSUME NEW key, ResolveID(key) PROVE \E h \in hand' : h.key.id = active
  <2>1. hand' = {[key |-> key, byUser |-> TRUE]} /\ key.id = active
    BY <1>1 DEF ResolveID
  <2> QED BY <2>1
<1>2. ASSUME NEW c \in Callers, NEW i \in Ids, GiveUp(c, i) PROVE active \in dead
  BY <1>2 DEF GiveUp
<1>3. CASE showPendingApproval
  <2>1. ~Live(active)
    BY <1>3 DEF showPendingApproval, NextRequest
  <2> QED BY <2>1 DEF Live, TypeOK
<1>4. ASSUME NEW key \in results, resolveApprovalResult(key) PROVE \E h \in hand' : h.key.id = active
  BY <1>1, <1>4 DEF resolveApprovalResult
<1>5. CASE CtrlC
  BY <1>1, <1>5 DEF CtrlC
<1>6. ASSUME NEW pol \in Policy, cyclePermissionMode(pol) PROVE \E h \in hand' : h.key.id = active
  <2>1. hand' = {Ruling(pol, shown)} /\ shown = active
    BY <1>6 DEF cyclePermissionMode, IsLive
  <2> QED BY <2>1 DEF Ruling
<1> QED BY <1>2, <1>3, <1>4, <1>5, <1>6
        DEF Next, vars, approver, app, history, Approve, prompt, Receive, ContextDies, NewTurn, Press,
            Deliver, setPermissionPolicy

(* Nothing ever displaces a live displayed request.                          *)
THEOREM DisplayedRequestStays == ASSUME ConstantsOK PROVE Spec => DisplayedStays
<1>1. ConstantsOK /\ QueueInv /\ [Next]_vars =>
        [active # 0 /\ active' # active =>
            active \in dead \/ \E h \in hand' : h.key.id = active]_vars
  BY DisplayedStep
<1> QED BY <1>1, QueueCorrect, PTL DEF Spec, DisplayedStays
=============================================================================
