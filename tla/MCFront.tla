------------------------------ MODULE MCFront ------------------------------
(* What surrounds an agent, for TLC: the manager of MCP servers, the         *)
(* workspaces of jobs, the skills, the commands tools run, the configuration *)
(* file, the keys of the screen, the setup of providers, the Conduit shadow, *)
(* the Codex login, the loop detector and the list of Agent View.  They      *)
(* share no variable, and `part' says which of them moves in this behaviour. *)
(* The manager is McpManager's own, and so is ServersAreOwned.               *)
EXTENDS McpManager, Integers, Sequences

CONSTANTS
    Jobs, NoJob,                                                   \* of JobWorkspace and AgentList
    Callers, Computers, Endpoints, MayRepoint,                     \* of JobWorkspace
    Requests, Faults, MaxLogins, MaxTokens,                        \* of CodexAuth
    ShadowAgents, MaxTurns, MaxHappenings, MaxEvidence, MaxGates,  \* of ConduitShadow
    Settings, Known, Optional, InArray, Values, Flags, Misreads,   \* of ConfigFile
    Slugs, Keys, MaxConfigured, MaxPrompts, MaxSubmits, MaxLists,  \* of ProviderSetup
    Names, Sessions, Contents, Embedded, Published, Commands,      \* of Skills
    Calls, MaxParallel, MaxIterations,                             \* of LoopDetector
    ConfigWindow, ConfigThreshold,
    p1, none

VARIABLES
    part,
    registry, default, job, root, trees, worktreeRoots, verifyRoots, resubmit,
    file, old, installer, approvals, session, agreed, last,
    kind, pc, ctx, shell, reaped, child, watcher, copier, expired, written, buffer, outcome, result,
    configFile, configEnv, mem, override, saving,
    prompt, jobsPanel, agentView, workflowView, approval, picker, reply, stale, autocomplete, text,
    focused, dispatch, streaming,
    configKey, providerEnv, defaultProvider, providers, activeProvider, cachedModels, modelVersions,
    keyPrompt, validation, validating, fetches, asked, prompts, submits, lists,
    enabled, turn, turnStarted, active, seq, capsule, happened, call, sent, saved, log,
    authFile, service, logins, mu, lost, req,
    recent, ended, rounds,
    info, list, visible, rows, cursor, scroll, height, requests

\* A skill's tree: its body, the values of disable-model-invocation, the tools it asks for.
Ask(t, s) == [tool |-> t, scope |-> s]
Plain == [body |-> 1, flags |-> << >>, described |-> TRUE,
          asks |-> {Ask("Bash", "git"), Ask("Bash", "any"), Ask("Read", "git")}]
Hidden == [body |-> 2, flags |-> <<"true", "false">>, described |-> TRUE, asks |-> {Ask("Bash", "none")}]
SkillFiles  == {Plain, Hidden}
PlainSkills == {Plain}

Workspace == INSTANCE JobWorkspace
Skill     == INSTANCE Skills
Command   == INSTANCE CommandRun WITH Kinds <- {"tool", "ssh", "server"}, MaxOutput <- 2
Config    == INSTANCE ConfigFile WITH file <- configFile, env <- configEnv
Keyboard  == INSTANCE Screen
Setup     == INSTANCE ProviderSetup WITH None <- none, env <- providerEnv, default <- defaultProvider, active <- activeProvider,
                 prompt <- keyPrompt
Shadow    == INSTANCE ConduitShadow WITH Agents <- ShadowAgents, started <- turnStarted
Login     == INSTANCE CodexAuth WITH Processes <- {p1}, file <- authFile
Loop      == INSTANCE LoopDetector
Agents    == INSTANCE AgentList WITH Ends <- {"completed", "cancelled"},
                 Heights <- {1, 6}, MaxRequests <- 2

ASSUME /\ ConstantsOK /\ Workspace!ConstantsOK /\ Skill!ConstantsOK /\ Command!ConstantsOK /\ Config!ConstantsOK
       /\ Setup!ConstantsOK /\ Shadow!ConstantsOK /\ Login!ConstantsOK /\ Loop!ConstantsOK
       /\ Agents!ConstantsOK

managerVars   == vars
workspaceVars == <<registry, default, job, root, trees, worktreeRoots, verifyRoots, resubmit>>
skillVars     == <<file, old, installer, approvals, session, agreed, last>>
commandVars   == <<kind, pc, ctx, shell, reaped, child, watcher, copier, expired, written, buffer,
                   outcome, result>>
configVars    == <<configFile, configEnv, mem, override, saving>>
keyboardVars  == <<prompt, jobsPanel, agentView, workflowView, approval, picker, reply, stale,
                   autocomplete, text, focused, dispatch, streaming>>
setupVars     == <<configKey, providerEnv, defaultProvider, providers, activeProvider, cachedModels,
                   modelVersions, keyPrompt, validation, validating, fetches, asked, prompts,
                   submits, lists>>
shadowVars    == <<enabled, turn, turnStarted, active, seq, capsule, happened, call, sent, saved, log>>
loginVars     == <<authFile, service, logins, mu, lost, req>>
loopVars      == <<recent, ended, rounds>>
agentsVars    == <<info, list, visible, rows, cursor, scroll, height, requests>>
frontVars == <<part, managerVars, workspaceVars, skillVars, commandVars, configVars, keyboardVars, setupVars,
          shadowVars, loginVars, loopVars, agentsVars>>

\* A part that does not move is in one of its initial states.
FrontInit ==
    /\ part \in {"manager", "workspace", "skill", "command", "config", "keyboard", "setup", "shadow", "login", "loop", "agents"}
    /\ Init /\ (part # "manager" => clients = [s \in Servers |-> 0])
    /\ Login!Init /\ Loop!Init /\ Agents!Init /\ (part # "agents" => height = 1)
    /\ Workspace!Init /\ (part # "workspace" => registry = [c \in Computers |-> 0])
    /\ Skill!Init /\ (part # "skill" => /\ \A n \in Names : \A s \in DOMAIN file[n] : s # Skill!Builtin => file[n][s] = Skill!Missing
                                        /\ ~approvals.newer)
    /\ Command!Init /\ (part # "command" => kind = "tool")
    /\ Config!Init /\ (part # "config" => /\ configFile = Config!Missing
                                          /\ configEnv = [s \in DOMAIN configEnv |-> Config!Absent])
    /\ Keyboard!Init /\ (part # "keyboard" => ~streaming)
    /\ Setup!Init /\ (part # "setup" => /\ \A s \in Slugs : configKey[s] = none /\ providerEnv[s] = none
                                        /\ defaultProvider = none)
    /\ Shadow!Init /\ (part # "shadow" => enabled)

ManagerNext ==
    /\ part = "manager" /\ Next
    /\ UNCHANGED <<part, workspaceVars, skillVars, commandVars, configVars, keyboardVars, setupVars,
                   shadowVars, loginVars, loopVars, agentsVars>>
WorkspaceNext ==
    /\ part = "workspace" /\ Workspace!Next
    /\ UNCHANGED <<part, managerVars, skillVars, commandVars, configVars, keyboardVars, setupVars,
                   shadowVars, loginVars, loopVars, agentsVars>>
SkillNext ==
    /\ part = "skill" /\ Skill!Next
    /\ UNCHANGED <<part, managerVars, workspaceVars, commandVars, configVars, keyboardVars,
                   setupVars, shadowVars, loginVars, loopVars, agentsVars>>
CommandNext ==
    /\ part = "command" /\ Command!Next
    /\ UNCHANGED <<part, managerVars, workspaceVars, skillVars, configVars, keyboardVars, setupVars,
                   shadowVars, loginVars, loopVars, agentsVars>>
ConfigNext ==
    /\ part = "config" /\ Config!Next
    /\ UNCHANGED <<part, managerVars, workspaceVars, skillVars, commandVars, keyboardVars,
                   setupVars, shadowVars, loginVars, loopVars, agentsVars>>
KeyboardNext ==
    /\ part = "keyboard" /\ Keyboard!Next
    /\ UNCHANGED <<part, managerVars, workspaceVars, skillVars, commandVars, configVars, setupVars,
                   shadowVars, loginVars, loopVars, agentsVars>>
SetupNext ==
    /\ part = "setup" /\ Setup!Next
    /\ UNCHANGED <<part, managerVars, workspaceVars, skillVars, commandVars, configVars,
                   keyboardVars, shadowVars, loginVars, loopVars, agentsVars>>
ShadowNext ==
    /\ part = "shadow" /\ Shadow!Next
    /\ UNCHANGED <<part, managerVars, workspaceVars, skillVars, commandVars, configVars,
                   keyboardVars, setupVars, loginVars, loopVars, agentsVars>>
LoginNext ==
    /\ part = "login" /\ Login!Next
    /\ UNCHANGED <<part, managerVars, workspaceVars, skillVars, commandVars, configVars,
                   keyboardVars, setupVars, shadowVars, loopVars, agentsVars>>
LoopNext ==
    /\ part = "loop" /\ Loop!Next
    /\ UNCHANGED <<part, managerVars, workspaceVars, skillVars, commandVars, configVars,
                   keyboardVars, setupVars, shadowVars, loginVars, agentsVars>>
AgentsNext ==
    /\ part = "agents" /\ Agents!Next
    /\ UNCHANGED <<part, managerVars, workspaceVars, skillVars, commandVars, configVars,
                   keyboardVars, setupVars, shadowVars, loginVars, loopVars>>

FrontNext ==
    \/ ManagerNext \/ WorkspaceNext \/ SkillNext \/ CommandNext \/ ConfigNext \/ KeyboardNext \/ SetupNext
    \/ ShadowNext \/ LoginNext \/ LoopNext \/ AgentsNext

\* The fairness that CommandRun states, while it is the one that moves.
CommandFairness ==
    /\ WF_commandVars(part = "command" /\ Command!killTree)
    /\ WF_commandVars(part = "command" /\ Command!Reap)
    /\ WF_commandVars(part = "command" /\ Command!Copy)
    /\ WF_commandVars(part = "command" /\ Command!WatcherEnds)
    /\ WF_commandVars(part = "command" /\ Command!WaitDelay)
    /\ WF_commandVars(part = "command" /\ Command!LocalReturns)
    /\ WF_commandVars(part = "command" /\ Command!SSHReturns)
    /\ WF_commandVars(part = "command" /\ Command!Report)
    /\ WF_commandVars(part = "command" /\ Command!releaseTree)

FrontSpec == FrontInit /\ [][FrontNext]_frontVars /\ CommandFairness

-----------------------------------------------------------------------------
\* JobWorkspace: two jobs that may write do not share a tree, a worktree is made for its job
\* and never taken over, and a job has one successor at most.
WritersAreApart ==
    /\ [](part = "workspace" => Workspace!TypeOK /\ Workspace!WritersAreApart /\ Workspace!ResubmittedOnce)
    /\ Workspace!NoTreeIsTakenOver

\* Skills: a project's skill is served with the body that was agreed to, and an installed
\* skill is whole.
OnlyWhatWasAgreed == [](part = "skill" => Skill!TypeOK /\ Skill!OnlyWhatWasAgreed) /\ Skill!InstalledWhole

\* CommandRun: the status a command is reported with is its shell's, nothing is read after it
\* has returned, and a command that is stopped returns.
StatusIsTheShells ==
    /\ [](part = "command" => Command!TypeOK /\ Command!StatusIsTheShells) /\ Command!NothingAfterReturn
    /\ part = "command" => Command!StoppedCommandReturns

\* ConfigFile: a save leaves what others wrote, and nothing gets into the file that nobody set.
OthersSettingsStay ==
    [](part = "config" => Config!TypeOK /\ Config!OnlyWhatWasSet) /\ Config!OthersSettingsStay

\* Screen, AgentList: a key reaches what is drawn, and in a list that changes under it the
\* job the user chose.
KeysReachWhatIsDrawn ==
    /\ [](part = "keyboard" => Keyboard!TypeOK /\ Keyboard!KeysReachWhatIsDrawn)
    /\ [](part = "agents" => Agents!TypeOK) /\ Agents!SelectionStays /\ Agents!EveryJobHasARow
    /\ Agents!DecisionsStand

\* ProviderSetup: the key saved is the one asked for and checked, and an old catalog does not
\* replace a newer one.
OnlyTheAskedKey ==
    [](part = "setup" => Setup!TypeOK) /\ Setup!OnlyTheAskedKey /\ Setup!RefreshIsCurrent

\* ConduitShadow: what is saved is what the runtime was told.
EvidenceIsTheRuntimes == part = "shadow" => Shadow!TypeOK /\ Shadow!EvidenceIsTheRuntimes

\* CodexAuth: the file is never a mix of two logins.
FileIsOneLogin == part = "login" => Login!TypeOK /\ Login!FileIsOneLogin

\* LoopDetector: a run that repeats itself is stopped.
StoppedWhenStuck == part = "loop" => Loop!TypeOK /\ Loop!StoppedWhenStuck

=============================================================================
