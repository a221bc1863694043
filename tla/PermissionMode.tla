--------------------------- MODULE PermissionMode ---------------------------
(***************************************************************************)
(* The policy of the session and everything that changes it: Shift+Tab,    *)
(* /plan, /trust, /permissions, "allow for this session" on the modal and  *)
(* the pre-approval a skill brings to one turn.  internal/app:             *)
(* permission_mode.go, slashcmd_permissions.go, slashcmd_trust.go,         *)
(* slashcmd_plan.go, approval_remember.go and skillgrant.go.  All of it    *)
(* runs on the Update goroutine.                                           *)
(***************************************************************************)
EXTENDS PermissionPolicy

CONSTANTS
    UserRules,    \* rules the user may add: (tool, decision) pairs
    GrantRules,   \* rules a skill may bring
    MaxRules      \* bound: rules of the session

ConstantsOK == /\ MaxRules \in Nat
               /\ UserRules \subseteq Tools \X Decisions
               /\ GrantRules \subseteq Tools \X {"allow"}
               /\ UserRules \cap GrantRules = {}

Nil    == [profile |-> "none", rules |-> << >>]
Config == ToolRule("spawn_agent", "deny")

VARIABLES
    policy,     \* App.permissionPolicy, what the agent obeys
    jobsPolicy, \* what new background jobs obey
    planMode, planPrev,
    preTrust,   \* preTrustPolicy, or Nil
    grant,      \* activeSkillGrant: [on, previous, rules]
    streaming   \* a turn runs

vars == <<policy, jobsPolicy, planMode, planPrev, preTrust, grant, streaming>>

NoGrant == [on |-> FALSE, previous |-> Nil, rules |-> << >>]
base    == [profile |-> "ask", rules |-> <<Config>>]   \* permissionBase

RuleOf(pair) == ToolRule(pair[1], pair[2])
AllRules     == {Config} \cup {RuleOf(x) : x \in UserRules \cup GrantRules}
Policies     == [profile: Profiles, rules: Seq(AllRules)]

TypeOK ==
    /\ policy \in Policies /\ jobsPolicy \in Policies
    /\ planMode \in BOOLEAN /\ planPrev \in Profiles /\ streaming \in BOOLEAN
    /\ preTrust \in Policies \cup {Nil}
    /\ grant \in [on: BOOLEAN, previous: Policies \cup {Nil}, rules: Seq(AllRules)]

Init ==
    /\ policy = base /\ jobsPolicy = base
    /\ planMode = FALSE /\ planPrev = "ask"
    /\ preTrust = Nil
    /\ grant = NoGrant
    /\ streaming = FALSE

-----------------------------------------------------------------------------
WithProfile(p, profile) == [p EXCEPT !.profile = profile]
WithRule(p, rule)       == [p EXCEPT !.rules = Append(@, rule)]
WithRules(p, rules)     == [p EXCEPT !.rules = @ \o rules]

\* Mutant: what the user decides is based on what the turn may do.
sessionPolicyOfTurn(g, p) == p

\* The policy without the temporary rules.
SessionPolicy(g, p) == IF g.on THEN WithProfile(g.previous, p.profile) ELSE p

sessionPermissionPolicy == SessionPolicy(grant, policy)

setPermissionPolicy(p, g) ==
    /\ policy' = p
    /\ grant' = g
    /\ jobsPolicy' = SessionPolicy(g, p)

\* Mutant: the end of the turn restores what was there when it began.
setAroundGrant(p, g) ==
    setPermissionPolicy(IF g.on THEN WithRules(p, g.rules) ELSE p, g)

\* A decision of the user outlives the grant, and the grant is laid over it.
setSessionPermissionPolicy(p, g) ==
    IF g.on
    THEN setPermissionPolicy(WithRules(p, g.rules), [g EXCEPT !.previous = p])
    ELSE setPermissionPolicy(p, g)

\* The rules of a grant without those about a tool.
revokeSkillGrants(rules, tool) ==
    LET kept[i \in 0 .. Len(rules)] ==
            IF i = 0 THEN << >>
            ELSE IF rules[i].tool = tool THEN kept[i - 1]
            ELSE Append(kept[i - 1], rules[i])
    IN  kept[Len(rules)]

trustOffPolicy ==
    LET restore == IF preTrust # Nil THEN preTrust ELSE base
    IN  IF restore.profile = "full" THEN WithProfile(restore, "ask") ELSE restore

-----------------------------------------------------------------------------
CurrentPermMode ==
    IF planMode THEN "plan" ELSE sessionPermissionPolicy.profile

\* Shift+Tab: manual, accept edits, auto, plan and back; out of bypass to manual.
nextPermMode(m) ==
    CASE m \in {"ask", "safe"} -> "edit"
      [] m = "edit"            -> "auto"
      [] m = "auto"            -> "plan"
      [] OTHER                 -> "ask"

cyclePermissionMode ==
    LET target == nextPermMode(CurrentPermMode)
        p      == sessionPermissionPolicy
    IN  /\ preTrust' = Nil
        /\ planMode' = (target = "plan")
        /\ planPrev' = IF target = "plan" THEN p.profile ELSE planPrev
        /\ setSessionPermissionPolicy(
              WithProfile(p, IF target = "plan" THEN "safe" ELSE target), grant)
        /\ UNCHANGED streaming

\* /plan waits for the turn to end.
PlanOn ==
    /\ ~planMode /\ ~streaming
    /\ planMode' = TRUE
    /\ planPrev' = sessionPermissionPolicy.profile
    /\ preTrust' = IF planPrev' = "full" THEN preTrust ELSE Nil
    /\ setSessionPermissionPolicy(WithProfile(sessionPermissionPolicy, "safe"), grant)
    /\ UNCHANGED streaming

PlanOff ==
    /\ planMode /\ ~streaming
    /\ planMode' = FALSE
    /\ setSessionPermissionPolicy(WithProfile(sessionPermissionPolicy, planPrev), grant)
    /\ UNCHANGED <<planPrev, preTrust, streaming>>

\* What /trust on and the bypass profile come back to.
Restore == IF planMode THEN WithProfile(sessionPermissionPolicy, planPrev)
           ELSE sessionPermissionPolicy

EnterFull ==
    /\ preTrust' = IF Restore.profile # "full" THEN Restore ELSE preTrust
    /\ planMode' = FALSE
    /\ setSessionPermissionPolicy(WithProfile(Restore, "full"), grant)
    /\ UNCHANGED <<planPrev, streaming>>

TrustOn == EnterFull

TrustOff ==
    /\ sessionPermissionPolicy.profile = "full" \/ preTrust # Nil
    /\ preTrust' = Nil
    /\ setSessionPermissionPolicy(trustOffPolicy, grant)
    /\ UNCHANGED <<planMode, planPrev, streaming>>

\* /permissions profile.
SetProfile(profile) ==
    IF profile = "full" THEN EnterFull
    ELSE /\ preTrust' = Nil
         /\ planMode' = FALSE
         /\ setSessionPermissionPolicy(WithProfile(sessionPermissionPolicy, profile), grant)
         /\ UNCHANGED <<planPrev, streaming>>

\* A rule of the session is also laid on what /trust off returns to.
AddRule(rule, g) ==
    LET p == sessionPermissionPolicy
    IN  /\ Len(p.rules) < MaxRules + 1
        /\ preTrust' = IF p.profile = "full" THEN WithRule(trustOffPolicy, rule) ELSE Nil
        /\ setSessionPermissionPolicy(WithRule(p, rule), g)
        /\ UNCHANGED <<planMode, planPrev, streaming>>

\* /permissions rule; a rule that asks ends what a skill had pre-approved.
SetRule(pair) ==
    AddRule(RuleOf(pair),
            IF pair[2] # "ask" THEN grant
            ELSE [grant EXCEPT !.rules = revokeSkillGrants(@, pair[1])])

\* rememberApproval, from the modal of a turn.
rememberApproval(pair) ==
    /\ streaming /\ pair[2] = "allow"
    /\ AddRule(RuleOf(pair), grant)

Reset ==
    /\ planMode' = FALSE /\ preTrust' = Nil
    /\ setPermissionPolicy(base, NoGrant)
    /\ UNCHANGED <<planPrev, streaming>>

-----------------------------------------------------------------------------
StartTurn ==
    /\ ~streaming
    /\ streaming' = TRUE
    /\ UNCHANGED <<policy, jobsPolicy, planMode, planPrev, preTrust, grant>>

\* A skill typed by the user or loaded by the model.  The first grant of a turn
\* remembers the policy, later ones add to it.
applySkillGrant(pair) ==
    /\ streaming /\ Len(grant.rules) < 1
    /\ LET previous == IF grant.on THEN grant.previous ELSE policy
       IN  setPermissionPolicy(WithRule(policy, RuleOf(pair)),
              [on |-> TRUE, previous |-> previous, rules |-> Append(grant.rules, RuleOf(pair))])
    /\ UNCHANGED <<planMode, planPrev, preTrust, streaming>>

\* releaseSkillGrant, when the turn ends in whatever way.
EndTurn ==
    /\ streaming
    /\ streaming' = FALSE
    /\ IF grant.on
       THEN setPermissionPolicy(WithProfile(grant.previous, policy.profile), NoGrant)
       ELSE UNCHANGED <<policy, jobsPolicy, grant>>
    /\ UNCHANGED <<planMode, planPrev, preTrust>>

Next ==
    \/ cyclePermissionMode \/ PlanOn \/ PlanOff \/ TrustOn \/ TrustOff \/ Reset
    \/ \E p \in Profiles : SetProfile(p)
    \/ \E x \in UserRules : SetRule(x) \/ rememberApproval(x)
    \/ StartTurn \/ EndTurn
    \/ \E x \in GrantRules : applySkillGrant(x)

Spec == Init /\ [][Next]_vars

-----------------------------------------------------------------------------
Holds(p, x) == RuleOf(x) \in Range(p.rules)

\* What a skill pre-approves is neither given to background jobs, nor kept by
\* any of the policies that are restored later, nor left after the turn.
GrantNeverEscapes ==
    \A x \in GrantRules :
        /\ ~Holds(jobsPolicy, x) /\ ~Holds(preTrust, x) /\ ~Holds(grant.previous, x)
        /\ Holds(policy, x) => streaming

\* A rule the user added during a turn or a mode is in force until the user
\* resets the session or leaves trust mode.
UserRulesStay ==
    [][\A x \in UserRules :
          Holds(policy, x) /\ ~Holds(policy', x)
             => Reset \/ TrustOff]_vars

\* What the configuration denies stays denied.
ConfigStays == Decide(policy, [tool |-> "spawn_agent", command |-> NoCommand]) = "deny"

\* skillgrant.go:226-232 and docs/security.md "Plan: mutations denied": while
\* plan mode is shown, the policy is read-only.
\* (Does not hold: README, Observations.)
PlanIsReadOnly ==
    planMode => \A t \in Edits \cup {Shell} :
                   Decide(policy, [tool |-> t, command |-> NoCommand]) = "deny"
=============================================================================
