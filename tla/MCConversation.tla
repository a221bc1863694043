--------------------------- MODULE MCConversation ---------------------------
(* The conversation for TLC: the agent's run over the transcript, the App's  *)
(* turns, the permission modes, the policy, and the agents that delegate and *)
(* wait for one another.  They share no variable, and `part' says which of   *)
(* them moves in this behaviour.  The tree of agents is Delegation's own,    *)
(* and so are ChildrenAreAccountedFor and JobsEnd.                           *)
EXTENDS Delegation, Integers, Sequences

CONSTANTS UserRules, GrantRules, MaxRules   \* of PermissionMode

VARIABLES
    part,
    messages, saved, phase, calls, next, iter, cancelled, request, before, bounds,
    app, skillMsg, submitted, started, removed,
    policy, jobsPolicy, planMode, planPrev, preTrust, grant, streaming,
    rules, req, answer

Agent == INSTANCE AgentTurn WITH MaxMessages <- 6, maxToolIterations <- 2, Keep <- 2,
    MaxPrompts <- 2, MaxInjections <- 1, MaxCancels <- 1, MaxFaults <- 1
Turns == INSTANCE AppTurn WITH MaxPrompts <- 2, Loops <- {1}, MaxIters <- 2
Modes == INSTANCE PermissionMode
Policy == INSTANCE PermissionPolicy

ASSUME /\ Agent!ConstantsOK /\ Turns!ConstantsOK /\ Modes!ConstantsOK /\ ConstantsOK

agentVars  == <<messages, saved, phase, calls, next, iter, cancelled, request, before, bounds>>
turnVars   == <<app, skillMsg, submitted, started, removed>>
modeVars   == <<policy, jobsPolicy, planMode, planPrev, preTrust, grant, streaming>>
policyVars == <<rules, req, answer>>
treeVars   == vars
conversationVars == <<part, agentVars, turnVars, modeVars, policyVars, treeVars>>

-----------------------------------------------------------------------------
(* What the user may add to the policy, and what a skill may bring.          *)
SessionRules == {<<"write_file", "allow">>, <<"write_file", "ask">>}
SkillRules   == {<<"execute_command", "allow">>}

(* Policies of up to two rules, and the commands they may be about.          *)
Git(ws) == Policy!Segment(<<"git">> \o ws, FALSE)
Rules ==
    {Policy!ToolRule("*", "allow"), Policy!ToolRule("execute_command", "deny"),
     Policy!ToolRule("mcp:*", "ask"), Policy!PrefixRule(<<"git", "push">>, "deny"),
     Policy!PrefixRule(<<"git">>, "allow"), Policy!CommandRule(<<Git(<<"push">>)>>, "allow")}
PolicyInputs ==
    [profile: {"safe", "ask", "full"},
     rules: {<< >>} \cup {<<r>> : r \in Rules} \cup {<<r, s>> : r, s \in Rules}]
Words(n)  == [1 .. n -> Policy!Words]
OneSegment  == {<<Policy!Segment(ws, FALSE)>> : ws \in Words(1) \cup Words(2)}
LastSegments == {Policy!Segment(ws, FALSE) : ws \in Words(1) \cup Words(2)}
                    \cup {Policy!Segment(ws, TRUE) : ws \in Words(1) \cup Words(2)}
TwoSegments == {<<Policy!Segment(<<"dir">>, FALSE), last>> : last \in LastSegments}
GitSegment  == {<<Git(ws)>> : ws \in Words(2)}
Commands    == OneSegment \cup TwoSegments \cup GitSegment
Requests ==
    [tool: Policy!Tools \ {"execute_command"}, command: {<< >>}]
    \cup [tool: {"execute_command"}, command: Commands]
NoInput == [tool |-> "todo", command |-> << >>]

Decide ==
    /\ part = "policy" /\ answer = "none"
    /\ answer' = Policy!Decide(rules, req)
    /\ UNCHANGED <<part, rules, req, agentVars, turnVars, modeVars, treeVars>>

-----------------------------------------------------------------------------
ConversationInit ==
    /\ part \in {"agent", "turns", "modes", "policy", "tree"}
    /\ Agent!Init /\ Turns!Init /\ Modes!Init /\ Init
    /\ IF part = "policy" THEN rules \in PolicyInputs /\ req \in Requests
                          ELSE rules = [profile |-> "safe", rules |-> << >>] /\ req = NoInput
    /\ answer = "none"

AgentNext ==
    /\ part = "agent" /\ Agent!Next
    /\ UNCHANGED <<part, turnVars, modeVars, policyVars, treeVars>>
TurnsNext ==
    /\ part = "turns" /\ Turns!Next
    /\ UNCHANGED <<part, agentVars, modeVars, policyVars, treeVars>>
ModesNext ==
    /\ part = "modes" /\ Modes!Next
    /\ UNCHANGED <<part, agentVars, turnVars, policyVars, treeVars>>
TreeNext ==
    /\ part = "tree" /\ Next
    /\ UNCHANGED <<part, agentVars, turnVars, modeVars, policyVars>>

ConversationNext == AgentNext \/ TurnsNext \/ ModesNext \/ Decide \/ TreeNext

\* The fairness that Delegation states, while it is the one that moves.
TreeFairness ==
    /\ \A a \in Agents :
           /\ WF_treeVars(part = "tree" /\ Execute(a))
           /\ WF_treeVars(part = "tree" /\ CallReturns(a))
           /\ \A j \in Jobs : /\ WF_treeVars(part = "tree" /\ WaiterWakes(a, j))
                              /\ WF_treeVars(part = "tree" /\ WaiterTimesOut(a, j))
    /\ \A j \in Jobs :
           /\ WF_treeVars(part = "tree" /\ AcquireSlot(j))
           /\ SF_treeVars(part = "tree" /\ JobEnds(j))
           /\ WF_treeVars(part = "tree" /\ ReleaseSlot(j))
           /\ WF_treeVars(part = "tree" /\ StrayWakes(j))

ConversationSpec == ConversationInit /\ [][ConversationNext]_conversationVars /\ TreeFairness

-----------------------------------------------------------------------------
\* AgentTurn: a provider is only sent calls that have all their results, and compaction
\* forgets no call that the messages it keeps are about.
RequestIsWellFormed ==
    [](part = "agent" => Agent!TypeOK /\ Agent!RequestIsWellFormed) /\ Agent!CompactionKeepsTail

\* AppTurn: a prompt is started once, or waits for something that will start it, or was
\* taken back; a compaction due to a prompt lets it run, a stopped loop starts no turn, and
\* a skill's grant does not outlive its turn.
NoPromptStranded ==
    /\ [](part = "turns" => /\ Turns!TypeOK /\ Turns!NoPromptStranded
                            /\ Turns!PromptRunsOnce /\ Turns!GrantEndsWithTurn)
    /\ Turns!StoppedLoopIsQuiet /\ Turns!CompactionLetsATurnRun

\* PermissionMode: what a skill pre-approves stays with its turn, and no change of mode loses
\* a rule the user added or the configuration has.
GrantNeverEscapes ==
    [](part = "modes" => Modes!TypeOK /\ Modes!GrantNeverEscapes /\ Modes!ConfigStays) /\ Modes!UserRulesStay

\* PermissionPolicy: a denial is never overruled, whatever the words hide.
DenyIsAFloor == Policy!DenyIsAFloor(rules, req)

=============================================================================
