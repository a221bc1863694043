-------------------------------- MODULE Skills --------------------------------
(***************************************************************************)
(* Skills: discovery, approval, installation and the two ways a body       *)
(* reaches a turn (internal/skills, internal/tools/skill.go,               *)
(* internal/app/slash_registry.go and slashcmd_skills.go,                  *)
(* cmd/packetcode/skills.go), for the skill files of one repository.       *)
(*                                                                         *)
(* A file is a body under a header.  The approvals of the user are one     *)
(* file that every session reads when it starts and rewrites whole.        *)
(***************************************************************************)
EXTENDS Integers, FiniteSets, Sequences, SequencesExt

CONSTANTS
    Names,
    Sessions,
    Contents,      \* what a SKILL.md may hold: [body, flags, asks, described]
    Embedded,      \* that of the skills in the binary
    Published,     \* those of the repository that packetcode skills install copies
    Commands       \* names that a markdown command file holds

ConstantsOK ==
    /\ \A c \in Contents : DOMAIN c = {"body", "flags", "asks", "described"}
    /\ Published \cup {Embedded} \subseteq Contents /\ Commands \subseteq Names

VARIABLES
    file,        \* the tree under each name in each scope, or Missing
    old,         \* NAME.packetcode-old in the user's scope
    installer,   \* packetcode skills install: [pc, name, staging, backup]
    approvals,   \* the file: [newer, entries]
    session,     \* [up, store, registry, tool]: registry is the App's, tool the skill tool's
    agreed,      \* history: the bodies the user has said /skills allow to
    last         \* what the last step handed a model

vars == <<file, old, installer, approvals, session, agreed, last>>
disk == <<file, old, installer>>

-----------------------------------------------------------------------------
(* Headers *)

\* ParseFrontmatterFields: the first line of a key counts, and a value that is
\* not a truth value leaves the default.
Flag(c, default) ==
    IF c.flags = <<>> \/ c.flags[1] \notin {"true", "false"} THEN default ELSE c.flags[1] = "true"
ModelInvocable(c) == ~Flag(c, FALSE)

Shell == {"Bash", "execute_command"}

\* Mutant: a scope is dropped where it cannot be expressed.
parseAllowedToolsBare(asks) ==
    {[tool |-> IF a.tool \in Shell THEN "execute_command" ELSE a.tool, scope |-> "any"] :
       a \in {a \in asks : a.tool \in Shell /\ a.scope # "none"}}

\* parseAllowedTools, scopedGrant: a bare name is taken as it is written; a
\* narrowed one is a grant for the shell only, and never for any command.
parseAllowedTools(asks) ==
    {[tool |-> a.tool, scope |-> "any"] : a \in {a \in asks : a.scope = "none"}} \cup
    {[tool |-> "execute_command", scope |-> a.scope] :
       a \in {a \in asks : a.tool \in Shell /\ a.scope \notin {"none", "any"}}}

\* What a grant lets a turn call, and what its author wrote.
Covers(g) == IF g.tool = "execute_command" THEN IF g.scope = "any" THEN {"git", "rm"} ELSE {g.scope}
             ELSE IF g.tool = "read_file" THEN {"read"} ELSE {}
Means(a)  == IF a.tool \in Shell THEN IF a.scope \in {"none", "any"} THEN {"git", "rm"} ELSE {a.scope}
             ELSE {"read"}

-----------------------------------------------------------------------------
(* Discovery *)

Builtin        == "builtin"
ProjectForeign == "project .claude"
ProjectNative  == "project .packetcode"
UserForeign    == "user .claude"
UserNative     == "user .packetcode"

\* Load: weakest first.
scopes == <<Builtin, ProjectForeign, ProjectNative, UserForeign, UserNative>>
Project == {ProjectForeign, ProjectNative}

Nothing    == [body |-> 0, flags |-> <<>>, asks |-> {}, described |-> FALSE]
Missing    == [content |-> Nothing, whole |-> TRUE]
Tree(c)    == [content |-> c, whole |-> TRUE]
NoSkill    == [place |-> "none", content |-> Nothing, pending |-> FALSE]
Off        == [up |-> FALSE, store |-> {}, registry |-> [n \in Names |-> NoSkill],
               tool |-> [n \in Names |-> NoSkill]]

\* newSkill, loadSkillDir: a file without a description is not a skill.
Loads(t) == t # Missing /\ t.content.described

\* Mutant: an approval is of the name.
ApprovedByName(store, n, c) == \E e \in store : e[1] = n
\* Approved: of this body under this name; the header is not part of it.
Approved(store, n, c) == <<n, c.body>> \in store

\* AllowedTools: a project skill is granted nothing.
AllowedTools(s) == IF s.place \in Project THEN {} ELSE parseAllowedTools(s.content.asks)

loadScopeDir(place, n, store) ==
    [place |-> place, content |-> file[n][place].content,
     pending |-> place = ProjectForeign /\ ~Approved(store, n, file[n][place].content)]

\* upsert: a later scope displaces an earlier one, pending or not.
Load(store) ==
    [n \in Names |->
        LET found == {i \in DOMAIN scopes : Loads(file[n][scopes[i]])}
        IN  IF found = {} THEN NoSkill ELSE loadScopeDir(scopes[Max(found)], n, store)]

\* LoadApprovals: another version means nothing is approved.
LoadApprovals == IF approvals.newer THEN {} ELSE approvals.entries

Enabled(s) == s # NoSkill /\ ~s.pending

\* LoadSlashRegistry: skills first, and a command file displaces a skill.
Verb(n, registry) == n \notin Commands /\ Enabled(registry[n])

-----------------------------------------------------------------------------
NoRead == [session |-> "none"]

Init ==
    /\ file \in [Names -> {f \in [ToSet(scopes) -> {Missing, Tree(Embedded)}] :
                             f[Builtin] # Missing /\ f[ProjectForeign] = Missing /\ f[UserNative] = Missing}]
    /\ old = [n \in Names |-> Missing]
    /\ installer = [pc |-> "idle"]
    /\ approvals \in [newer : BOOLEAN, entries : {{}}]
    /\ session = [p \in Sessions |-> Off]
    /\ agreed = {}
    /\ last = NoRead

\* The skill tool is given the registry of the start, and keeps it.
Start(p) ==
    /\ ~session[p].up
    /\ LET registry == Load(LoadApprovals)
       IN  session' = [session EXCEPT ![p] = [up |-> TRUE, store |-> LoadApprovals,
                                              registry |-> registry, tool |-> registry]]
    /\ last' = NoRead /\ UNCHANGED <<disk, approvals, agreed>>

Exit(p) ==
    /\ session[p].up
    /\ session' = [session EXCEPT ![p] = Off]
    /\ last' = NoRead /\ UNCHANGED <<disk, approvals, agreed>>

\* save, which may fail with the change made in memory; a registry of the new
\* state replaces the App's only when it did not.
SaveAndReload(p, store) ==
    \/ /\ approvals' = [newer |-> FALSE, entries |-> store]
       /\ LET now == Load(store)
          IN  session' = [session EXCEPT ![p].store = store, ![p].registry = now]
    \/ /\ session' = [session EXCEPT ![p].store = store]
       /\ UNCHANGED approvals

\* handleSkillApproval, /skills allow.  What is approved is the body that was
\* loaded, which the file may have left behind; an entry is one per name.
Approve(p, n) ==
    LET s     == session[p].registry[n]
        entry == <<n, s.content.body>>
    IN  /\ session[p].up /\ s # NoSkill /\ s.pending
        /\ SaveAndReload(p, {e \in session[p].store : e[1] # n} \cup {entry})
        /\ agreed' = agreed \cup {entry}
        /\ last' = NoRead /\ UNCHANGED <<disk>>

\* /skills revoke.
Revoke(p, n) ==
    /\ session[p].up
    /\ SaveAndReload(p, {e \in session[p].store : e[1] # n})
    /\ last' = NoRead /\ UNCHANGED <<disk, agreed>>

-----------------------------------------------------------------------------
(* Use *)

\* SkillTool.Execute: the body, or a file beside it, of a skill the model may
\* have.  The body's grants go to the turn.
Execute(p, n) ==
    LET s == session[p].tool[n]
    IN  /\ session[p].up /\ Enabled(s) /\ ModelInvocable(s.content)
        /\ last' = [session |-> p, name |-> n, skill |-> s, by |-> "model", grants |-> AllowedTools(s)]
        /\ UNCHANGED <<disk, approvals, session, agreed>>

\* /NAME, expanded into the user's message.
Expand(p, n) ==
    LET s == session[p].registry[n]
    IN  /\ session[p].up /\ Verb(n, session[p].registry)
        /\ last' = [session |-> p, name |-> n, skill |-> s, by |-> "user", grants |-> AllowedTools(s)]
        /\ UNCHANGED <<disk, approvals, session, agreed>>

-----------------------------------------------------------------------------
(* The files *)

\* The repository is edited, or another commit is checked out.
RepositoryChanges(n, t) ==
    /\ file' = [file EXCEPT ![n][ProjectForeign] = t]
    /\ last' = NoRead
    /\ UNCHANGED <<old, installer, approvals, session, agreed>>

Settled == UNCHANGED <<approvals, session, agreed>> /\ last' = NoRead

\* Mutant: the tree is copied where it will be read.
copyTreeInPlace(n) ==
    /\ installer' = [installer EXCEPT !.pc = "copied"]
    /\ file' = [file EXCEPT ![n][UserNative] = [installer.staging EXCEPT !.whole = FALSE]]
    /\ UNCHANGED old

\* Install: a skill that would not load is not copied; one that is there needs
\* --force.
BeginInstall(n, c) ==
    /\ installer.pc = "idle" /\ c.described
    /\ \E force \in BOOLEAN : file[n][UserNative] = Missing \/ force
    /\ installer' = [pc |-> "copy", name |-> n, staging |-> [content |-> c, whole |-> FALSE], backup |-> FALSE]
    /\ Settled /\ UNCHANGED <<file, old>>

\* replaceDir, step by step; the process may end between any two, and what it
\* leaves under NAME.packetcode-partial is cleared before it is used again.
copyTree(n) ==
    /\ installer' = [installer EXCEPT !.pc = "copied", !.staging.whole = TRUE]
    /\ UNCHANGED <<file, old>>
setAside(n) ==
    /\ installer' = [installer EXCEPT !.pc = "aside", !.backup = file[n][UserNative] # Missing]
    /\ old' = [old EXCEPT ![n] = IF file[n][UserNative] = Missing THEN @ ELSE file[n][UserNative]]
    /\ file' = [file EXCEPT ![n][UserNative] = Missing]
putInPlace(n) ==
    /\ installer' = [installer EXCEPT !.pc = "placed"]
    /\ file' = [file EXCEPT ![n][UserNative] = installer.staging]
    /\ UNCHANGED old
putBack(n) ==
    /\ installer' = [pc |-> "idle"]
    /\ IF ~installer.backup THEN UNCHANGED <<file, old>>
       ELSE /\ file' = [file EXCEPT ![n][UserNative] = old[n]]
            /\ old' = [old EXCEPT ![n] = Missing]
forgetOld(n) ==
    /\ installer' = [pc |-> "idle"]
    /\ old' = [old EXCEPT ![n] = IF installer.backup THEN Missing ELSE @] /\ UNCHANGED file

replaceDir ==
    /\ \/ installer.pc = "copy"   /\ copyTree(installer.name)
       \/ installer.pc = "copied" /\ setAside(installer.name)
       \/ installer.pc = "aside"  /\ (putInPlace(installer.name) \/ putBack(installer.name))
       \/ installer.pc = "placed" /\ forgetOld(installer.name)
    /\ Settled

InstallerDies ==
    /\ installer.pc # "idle"
    /\ installer' = [pc |-> "idle"]
    /\ Settled /\ UNCHANGED <<file, old>>

\* Remove: RemoveAll takes the tree, or leaves some of it.
Uninstall(n) ==
    /\ file[n][UserNative] # Missing
    /\ \E left \in {Missing, [file[n][UserNative] EXCEPT !.whole = FALSE]} :
         file' = [file EXCEPT ![n][UserNative] = left]
    /\ Settled /\ UNCHANGED <<old, installer>>

Next ==
    \/ \E p \in Sessions : Start(p) \/ Exit(p)
    \/ \E p \in Sessions, n \in Names : Approve(p, n) \/ Revoke(p, n) \/ Execute(p, n) \/ Expand(p, n)
    \/ \E n \in Names, c \in Contents : RepositoryChanges(n, Tree(c))
    \/ \E n \in Names, c \in Published : BeginInstall(n, c)
    \/ \E n \in Names : RepositoryChanges(n, Missing) \/ Uninstall(n)
    \/ replaceDir
    \/ InstallerDies

Spec == Init /\ [][Next]_vars

-----------------------------------------------------------------------------
TypeOK ==
    /\ \A n \in Names : old[n].whole \in BOOLEAN
    /\ installer.pc \in {"idle", "copy", "copied", "aside", "placed"}
    /\ \A p \in Sessions : session[p].store \subseteq Names \X {c.body : c \in Contents}

\* README.md, "bound to the body you approved": whatever the repository, other
\* sessions and failed saves do, no model is handed a repository's foreign skill
\* with a body the user has not said allow to; and no skill widens a turn beyond
\* what its author wrote, a repository's not at all.
OnlyWhatWasAgreed ==
    last # NoRead =>
        /\ last.skill.place = ProjectForeign => <<last.name, last.skill.content.body>> \in agreed
        /\ last.skill.place \in Project => last.grants = {}
        /\ \A g \in last.grants : Covers(g) \subseteq UNION {Means(a) : a \in last.skill.content.asks}
        /\ \A g \in last.grants : g.tool = "execute_command" /\ g.scope = "any"
              => \E a \in last.skill.content.asks : a.tool = "execute_command" /\ a.scope = "none"

\* install.go, "rather than a half-written directory": what appears under the
\* name of a user's skill is whole, and a whole skill that is there to be read
\* stays somewhere unless it is removed.
InstalledWhole ==
    [][\A n \in Names :
         LET was == file[n][UserNative]  now == file'[n][UserNative]
         IN  /\ now.content # was.content => now.whole \/ now = old[n]
             /\ was # Missing /\ was.whole /\ now = Missing /\ installer' # installer => old'[n] = was]_vars

\* slashcmd_skills.go, "It is no longer loaded": what the App holds back, /skills
\* revoke having said so, the skill tool does not serve.
\* (Does not hold: README, Observations.)
RevokedIsNotServed ==
    last # NoRead => session[last.session].registry[last.name] # [last.skill EXCEPT !.pending = TRUE]

=============================================================================
