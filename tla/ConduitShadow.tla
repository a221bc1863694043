----------------------------- MODULE ConduitShadow -----------------------------
(***************************************************************************)
(* The shadow telemetry of a turn on the Sugar provider: a run is opened   *)
(* with the runtime, every tool result, rejection and provider failure is  *)
(* an event of it, and what the runtime took is kept as evidence in the    *)
(* capsule of the session (internal/agent/conduit_shadow.go, the client of *)
(* internal/provider/sugar/runtime.go, internal/handoff).                  *)
(*                                                                         *)
(* Agents with sessions of their own share the client.  An event is the    *)
(* number of the happening it reports in its turn.                         *)
(***************************************************************************)
EXTENDS Naturals, Sequences

CONSTANTS Agents, MaxTurns, MaxHappenings,
          MaxEvidence, MaxGates   \* a capsule's; 20 and 12 in the code

ConstantsOK == Agents # {} /\ {MaxTurns, MaxHappenings, MaxEvidence, MaxGates} \subseteq Nat \ {0}

VARIABLES
    enabled,      \* the client's
    turn,         \* the number of the agent's turn
    started, active, seq,   \* conduitShadowState
    capsule,      \* [evidence, gates], in memory
    happened,     \* tool results, rejections and failures of this turn
    call,         \* the request that runs: "none", "emit" or "continue"
    sent,         \* the event it carries has reached the runtime
    saved,        \* SpecialistCapsule of the session: [turn, evidence, gates]
    log           \* the runtime's events, by turn

shadow == <<started, active, seq, capsule, call, sent>>
vars == <<enabled, turn, shadow, happened, saved, log>>

NoCapsule == [evidence |-> <<>>, gates |-> <<>>]
First(s, n) == SubSeq(s, 1, IF Len(s) < n THEN Len(s) ELSE n)

\* handoff.Normalize: the oldest of each list stay.
Normalize(c) == [evidence |-> First(c.evidence, MaxEvidence), gates |-> First(c.gates, MaxGates)]

-----------------------------------------------------------------------------
Init ==
    /\ enabled \in BOOLEAN
    /\ turn = [a \in Agents |-> 0] /\ happened = [a \in Agents |-> 0]
    /\ started = [a \in Agents |-> TRUE] /\ active = [a \in Agents |-> FALSE] /\ seq = [a \in Agents |-> 0]
    /\ capsule = [a \in Agents |-> NoCapsule] /\ call = [a \in Agents |-> "none"] /\ sent = [a \in Agents |-> FALSE]
    /\ saved = [a \in Agents |-> [turn |-> 0, evidence |-> <<>>, gates |-> <<>>]]
    /\ log = [a \in Agents |-> [t \in 0..MaxTurns |-> <<>>]]

\* newConduitShadowState, with a user message.
BeginTurn(a) ==
    /\ call[a] = "none" /\ turn[a] < MaxTurns
    /\ turn' = [turn EXCEPT ![a] = @ + 1] /\ happened' = [happened EXCEPT ![a] = 0]
    /\ started' = [started EXCEPT ![a] = FALSE] /\ active' = [active EXCEPT ![a] = FALSE]
    /\ seq' = [seq EXCEPT ![a] = 0] /\ capsule' = [capsule EXCEPT ![a] = NoCapsule]
    /\ UNCHANGED <<enabled, call, sent, saved, log>>

\* The session takes the capsule, or its file cannot be written.
SetSpecialistCapsule(a, c) ==
    \/ saved' = [saved EXCEPT ![a] = [turn |-> turn[a], evidence |-> c.evidence, gates |-> c.gates]]
    \/ UNCHANGED saved

persistCapsule(a, c) ==
    /\ capsule' = [capsule EXCEPT ![a] = Normalize(c)]
    /\ SetSpecialistCapsule(a, Normalize(c))

\* A 404, 405 or 501: the client is inert from here on.
startFallback == enabled /\ enabled' = FALSE

\* start: once in a turn, before the provider is asked.  No run is opened, or its answer
\* is lost, or it is active.
start(a) ==
    /\ ~started[a] /\ started' = [started EXCEPT ![a] = TRUE]
    /\ \/ enabled /\ active' = [active EXCEPT ![a] = TRUE] /\ persistCapsule(a, capsule[a]) /\ UNCHANGED enabled
       \/ UNCHANGED <<active, capsule, saved, enabled>>
       \/ startFallback /\ UNCHANGED <<active, capsule, saved>>
    /\ UNCHANGED <<turn, seq, call, sent, happened, log>>

-----------------------------------------------------------------------------
\* toolResult, blocked, providerFailure: a failed gate is noted in the capsule, and the
\* event is sent; or the shadow is not active.
Happens(a) ==
    /\ started[a] /\ call[a] = "none" /\ happened[a] < MaxHappenings
    /\ happened' = [happened EXCEPT ![a] = @ + 1]
    /\ IF active[a]
       THEN /\ call' = [call EXCEPT ![a] = "emit"]
            /\ \/ capsule' = [capsule EXCEPT ![a].gates = Append(@, happened'[a])]
               \/ UNCHANGED capsule
       ELSE UNCHANGED <<call, capsule>>
    /\ UNCHANGED <<enabled, turn, started, active, seq, sent, saved, log>>

\* The runtime takes the next event of a run and answers an old number as a duplicate.
RuntimeTakes(a) ==
    /\ call[a] = "emit" /\ enabled /\ ~sent[a] /\ sent' = [sent EXCEPT ![a] = TRUE]
    /\ log' = IF Len(log[a][turn[a]]) = seq[a] THEN [log EXCEPT ![a][turn[a]] = Append(@, happened[a])] ELSE log
    /\ UNCHANGED <<enabled, turn, started, active, seq, capsule, call, happened, saved>>

\* Mutant: an event whose answer is lost is skipped and the next one sent under its number.
skipEvent(a) == UNCHANGED <<active, capsule, saved>>
\* Mutant: what the capsule holds is saved before the run is given up.
saveAndGiveUp(a) == active' = [active EXCEPT ![a] = FALSE] /\ persistCapsule(a, capsule[a])
\* emit, an error: the run is given up.
giveUp(a) == active' = [active EXCEPT ![a] = FALSE] /\ UNCHANGED <<capsule, saved>>

\* The event is not sent, or its answer is an error, late or says that there is no such
\* endpoint.
EmitFails(a) ==
    /\ call[a] = "emit" /\ call' = [call EXCEPT ![a] = "none"] /\ sent' = [sent EXCEPT ![a] = FALSE]
    /\ giveUp(a)
    /\ \/ UNCHANGED enabled
       \/ ~sent[a] /\ startFallback
    /\ UNCHANGED <<turn, started, seq, happened, log>>

\* The answer carries the number that was sent: the event is evidence.
Emitted(a) ==
    /\ call[a] = "emit" /\ sent[a] /\ sent' = [sent EXCEPT ![a] = FALSE]
    /\ seq' = [seq EXCEPT ![a] = @ + 1] /\ call' = [call EXCEPT ![a] = "continue"]
    /\ capsule' = [capsule EXCEPT ![a].evidence = Append(@, happened[a])]
    /\ UNCHANGED <<enabled, turn, started, active, happened, saved, log>>

\* The client's Continue: a decision, or none, or there is no such endpoint.
Continue(decided) ==
    \/ decided /\ enabled /\ UNCHANGED enabled
    \/ ~decided /\ (UNCHANGED enabled \/ startFallback)

\* Its decision is noted; without one the run is given up.  Either way the capsule is
\* saved.
Continued(a) ==
    /\ call[a] = "continue" /\ call' = [call EXCEPT ![a] = "none"] /\ persistCapsule(a, capsule[a])
    /\ \/ Continue(TRUE) /\ UNCHANGED active
       \/ Continue(FALSE) /\ active' = [active EXCEPT ![a] = FALSE]
    /\ UNCHANGED <<turn, started, seq, sent, happened, log>>

Next == \E a \in Agents : \/ BeginTurn(a) \/ start(a) \/ Happens(a) \/ RuntimeTakes(a)
                          \/ EmitFails(a) \/ Emitted(a) \/ Continued(a)

Spec == Init /\ [][Next]_vars

-----------------------------------------------------------------------------
TypeOK ==
    /\ turn \in [Agents -> 0..MaxTurns] /\ call \in [Agents -> {"none", "emit", "continue"}]
    /\ \A a \in Agents : Len(saved[a].evidence) <= MaxEvidence /\ Len(saved[a].gates) <= MaxGates

\* conduit_shadow.go, "decisions are recorded as local evidence only": whatever requests
\* and answers are lost, what the session keeps of a turn is what the runtime knows: its
\* evidence is the runtime's first events in their order, its failed gates are among them.
EvidenceIsTheRuntimes ==
    \A a \in Agents : LET events == log[a][saved[a].turn] IN
        /\ saved[a].evidence = First(events, Len(saved[a].evidence))
        /\ \A i \in DOMAIN saved[a].gates : \E j \in DOMAIN events : events[j] = saved[a].gates[i]

=============================================================================
