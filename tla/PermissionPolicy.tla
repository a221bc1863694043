-------------------------- MODULE PermissionPolicy --------------------------
(***************************************************************************)
(* What a permission policy says of a tool call:                           *)
(* internal/permissions/policy.go.  A policy is a profile and a list of    *)
(* rules; a call is a tool and, for the shell, a command line.  A command  *)
(* line is a list of segments between shell operators, a segment a list of *)
(* words; of a word only its class matters, and the words below are one of *)
(* each.                                                                   *)
(***************************************************************************)
EXTENDS Integers, Sequences, SequencesExt, FiniteSetsExt

Profiles  == {"safe", "ask", "edit", "auto", "full"}
Decisions == {"allow", "ask", "deny"}
Shell     == "execute_command"
Edits     == {"write_file", "patch_file"}
ReadOnly  == {"read_file", "skill"}
Mcp       == {"server__tool"}
Gated     == Edits \cup Mcp \cup {Shell, "spawn_agent"}
Tools     == Gated \cup ReadOnly \cup {"todo"}

\* Word classes: plain, quoted, an option, a variable, a pattern, an assignment
\* before the command, and a command that runs another one.
Words == {"git", "push", "dir", "'push'", "-C", "$X", "p*", "A=1", "sh"}

unquoteField(w)       == IF w = "'push'" THEN "push" ELSE w
fieldUnresolvable(w)  == w \in {"$X", "p*"}
Globs(w)              == w = "p*"
IsOption(w)           == w = "-C"
IsAssignment(w)       == w = "A=1"
CommandIndirection(w) == w = "sh"

\* splitSimpleCommands: after < or > the first word is a file.
Segment(ws, redirect) == [words |-> ws, redirectTarget |-> redirect]
NoCommand == << >>

\* Rules of the session carry no reason; a denial is a floor wherever it is.
NoPrefix == << >>
Rule(tool, decision, prefix, command) ==
    [tool |-> tool, decision |-> decision, prefix |-> prefix, command |-> command,
     floor |-> decision = "deny"]
ToolRule(tool, decision)     == Rule(tool, decision, NoPrefix, NoCommand)
PrefixRule(prefix, decision) == Rule(Shell, decision, prefix, NoCommand)
CommandRule(cmd, decision)   == Rule(Shell, decision, NoPrefix, cmd)

-----------------------------------------------------------------------------
\* A prefix the user denied, against the words of one command: options may be
\* skipped, and what cannot be read is undecided.  What is known after a word of
\* the prefix: where to look for the next one, and the outcome so far.
Compared(at, skipped, outcome) == [at |-> at, skippedOption |-> skipped, outcome |-> outcome]

FirstWord(words, want) ==
    Compared(2, FALSE, IF fieldUnresolvable(words[1]) THEN "undecided"
                       ELSE IF unquoteField(words[1]) = want THEN "match"
                       ELSE "none")

NextWord(words, want, last) ==
    LET i == Min({j \in last.at .. Len(words) + 1 :
                     j = Len(words) + 1 \/ ~IsOption(words[j]) \/ unquoteField(words[j]) = want})
        skippedOption == last.skippedOption \/ i > last.at
        wordAppearsLater ==
            \E j \in i .. Len(words) : unquoteField(words[j]) = want \/ fieldUnresolvable(words[j])
    IN  Compared(i + 1, skippedOption,
            IF i > Len(words) THEN "none"
            ELSE IF fieldUnresolvable(words[i]) THEN "undecided"
            ELSE IF unquoteField(words[i]) = want THEN "match"
            ELSE IF skippedOption /\ wordAppearsLater THEN "undecided"
            ELSE "none")

prefixOutcomeForFields(words, prefix) ==
    LET compared[k \in 1 .. Len(prefix)] ==
            IF k = 1 THEN FirstWord(words, prefix[1])
            ELSE IF compared[k - 1].outcome # "match" THEN compared[k - 1]
            ELSE NextWord(words, prefix[k], compared[k - 1])
    IN  compared[Len(prefix)].outcome

\* The words of a segment that name the command it runs.
CommandWords(seg) ==
    LET ws  == IF seg.redirectTarget /\ seg.words # << >> THEN Tail(seg.words) ELSE seg.words
        i   == Min({j \in 1 .. Len(ws) + 1 : j = Len(ws) + 1 \/ ~IsAssignment(ws[j])})
    IN  SubSeq(ws, i, Len(ws))

commandPrefixDenyOutcome(cmd, prefix) ==
    LET Ran     == {CommandWords(cmd[i]) : i \in DOMAIN cmd} \ {<< >>}
        Outcome == {prefixOutcomeForFields(ws, prefix) : ws \in Ran}
    IN  IF "match" \in Outcome THEN "match"
        ELSE IF \/ "undecided" \in Outcome
                \/ \E i \in DOMAIN cmd : \E j \in DOMAIN cmd[i].words : Globs(cmd[i].words[j])
                \/ \E ws \in Ran : CommandIndirection(unquoteField(ws[1]))
        THEN "undecided"
        ELSE "none"

\* A prefix the user allowed matches one simple command, word by word.
commandPrefixMatches(cmd, prefix) ==
    /\ Len(cmd) = 1 /\ ~cmd[1].redirectTarget
    /\ \A i \in DOMAIN cmd[1].words : Globs(cmd[1].words[i])
                                      \/ ~fieldUnresolvable(cmd[1].words[i])
    /\ IsPrefix(prefix, cmd[1].words)

toolPatternMatches(pattern, tool) ==
    \/ pattern = "*" \/ pattern = tool
    \/ pattern = "mcp:*" /\ tool \in Mcp

denyRuleOutcome(rule, req) ==
    IF \/ ~toolPatternMatches(rule.tool, req.tool)
       \/ rule.command # NoCommand /\ rule.command # req.command
    THEN "none"
    ELSE IF rule.prefix = NoPrefix THEN "match"
    ELSE commandPrefixDenyOutcome(req.command, rule.prefix)

ruleMatchesRequest(rule, req) ==
    /\ toolPatternMatches(rule.tool, req.tool)
    /\ rule.command = NoCommand \/ rule.command = req.command
    /\ rule.prefix = NoPrefix \/ commandPrefixMatches(req.command, rule.prefix)

profileDecision(profile, tool) ==
    CASE tool \in ReadOnly                                     -> "allow"
      [] profile = "safe"                                      -> "deny"
      [] profile = "full"                                      -> "allow"
      [] profile = "edit" /\ tool \in Edits                    -> "allow"
      [] profile = "auto" /\ tool \in Edits \cup {Shell}       -> "allow"
      [] tool \in Gated                                        -> "ask"
      [] OTHER                                                 -> "allow"

\* Mutant: the last rule that matches decides, a denial or not.
matchingRuleLast(policy, req) ==
    {i \in DOMAIN policy.rules : ruleMatchesRequest(policy.rules[i], req)}

\* Mutant: what cannot be decided does not apply.
denyFloorIgnored(policy, req) == FALSE

\* The rules that may decide: floors that match, or else every rule that does.
matchingRule(policy, req) ==
    LET floors == {i \in DOMAIN policy.rules :
                      policy.rules[i].floor /\ denyRuleOutcome(policy.rules[i], req) = "match"}
    IN  IF floors # {} THEN floors
        ELSE {i \in DOMAIN policy.rules : ruleMatchesRequest(policy.rules[i], req)}

denyFloorIndeterminate(policy, req) ==
    \E i \in DOMAIN policy.rules :
        policy.rules[i].floor /\ denyRuleOutcome(policy.rules[i], req) = "undecided"

Decide(policy, req) ==
    LET rules    == matchingRule(policy, req)
        decision == IF rules # {} THEN policy.rules[Max(rules)].decision
                    ELSE profileDecision(policy.profile, req.tool)
    IN  IF policy.profile = "safe" /\ req.tool \notin ReadOnly THEN "deny"
        ELSE IF decision = "allow" /\ denyFloorIndeterminate(policy, req) THEN "ask"
        ELSE decision

-----------------------------------------------------------------------------
\* What the shell may make of a word, and whether the words of a command, read
\* one way, run the prefix: an option may take the word that follows it.
Readings(w) == IF fieldUnresolvable(w) THEN {"git", "push", "dir"} ELSE {unquoteField(w)}

\* The words of the prefix stand in the command in their order; what stands before
\* the last of them is an option or follows one.
Names(words, prefix) ==
    \E at \in [DOMAIN prefix -> DOMAIN words] :
        /\ \A k \in DOMAIN prefix : prefix[k] \in Readings(words[at[k]])
        /\ \A k, l \in DOMAIN prefix : k < l => at[k] < at[l]
        /\ \A p \in 1 .. at[Len(prefix)] \ Range(at) :
              IsOption(words[p]) \/ (p > 1 /\ p - 1 \notin Range(at) /\ IsOption(words[p - 1]))

MayRun(cmd, prefix) ==
    \E i \in DOMAIN cmd :
        LET ws == CommandWords(cmd[i])
        IN  ws # << >> /\ ~IsOption(ws[1]) /\ Names(ws, prefix)

\* policy.go:144-181 and docs/security.md "Explicit deny rules remain a floor":
\* whatever the profile and the other rules say, a command that may run what a
\* rule denies is not run without a question.
DenyIsAFloor(policy, req) ==
    \A r \in Range(policy.rules) :
        /\ r.decision = "deny"
        /\ IF r.prefix = NoPrefix THEN ruleMatchesRequest(r, req)
           ELSE req.tool = Shell /\ MayRun(req.command, r.prefix)
        => Decide(policy, req) # "allow"
=============================================================================
