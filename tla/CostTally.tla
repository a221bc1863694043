------------------------------ MODULE CostTally ------------------------------
(***************************************************************************)
(* What is billed: the usage a session accumulates (UpdateUsage in         *)
(* internal/session/session.go) and the tally file all processes of the    *)
(* user share (internal/cost/tally.go).  A tracker reads the file when it  *)
(* is made and then writes its whole copy at every report.                 *)
(*                                                                         *)
(* Tokens stand for the four counts, which are treated alike.              *)
(***************************************************************************)
EXTENDS Integers, FiniteSets, Functions

CONSTANTS
    Sessions,
    Procs,         \* packetcode processes
    Models,        \* provider/model labels
    MaxTokens      \* used in all

ConstantsOK == /\ IsFiniteSet(Sessions) /\ IsFiniteSet(Models) /\ Models # {}
               /\ MaxTokens \in Nat \ {0}

VARIABLES
    used,      \* TokenUsage of each session, in its file
    file,      \* cost-tally.json: a tally
    tally,     \* each tracker's copy
    at,        \* the session each process is in, or 0
    model,     \* the active model of each process
    reset      \* tokens used before the last reset, by session

vars == <<used, file, tally, at, model, reset>>

Zero  == [m \in Models |-> 0]
\* SessionCost: the high-water mark, the label last reported, and the shares.
Row(n, l, s) == [input |-> n, label |-> l, shares |-> s]
Empty == [s \in Sessions |-> Row(0, CHOOSE m \in Models : TRUE, Zero)]
Total(shares) == FoldFunction(LAMBDA a, b : a + b, 0, shares)
Room == MaxTokens - Total(used)

-----------------------------------------------------------------------------
\* A tally written before shares were kept has a total and one label.
Init ==
    /\ used \in [Sessions -> 0 .. 1] /\ reset = [s \in Sessions |-> 0]
    /\ \E l \in Models : file = [s \in Sessions |-> Row(used[s], l, Zero)]
    /\ tally = [p \in Procs |-> file]
    /\ at = [p \in Procs |-> {}]
    /\ model \in [Procs -> Models]

\* Mutant: the shares of an old tally are not seeded.
noSeed(row) == row.shares

\* recordUsageLocked: an old tally's total becomes its label's share first.
seed(row) == IF Total(row.shares) = 0 /\ row.input > 0 THEN [Zero EXCEPT ![row.label] = row.input]
             ELSE row.shares

\* Mutant: what is reported is added.
addUsage(row, m, n) ==
    Row(row.input + n, m, [seed(row) EXCEPT ![m] = @ + n])

\* recordUsageLocked: a cumulative count n raises the high-water mark, and the
\* increase is m's.
recordUsage(row, m, n) ==
    LET delta == IF n > row.input THEN n - row.input ELSE 0
    IN  Row(row.input + delta, m, [seed(row) EXCEPT ![m] = @ + delta])

Report(p, s, n) ==
    /\ tally' = [tally EXCEPT ![p][s] = recordUsage(@, model[p], n)]
    /\ file' = tally'[p]

\* One reply: its usage is added to the session's, whose totals are reported.
UsageUpdate(p, s) ==
    /\ at[p] = {s} /\ Room > 0
    /\ used' = [used EXCEPT ![s] = @ + 1]
    /\ Report(p, s, used'[s])
    /\ UNCHANGED <<at, model, reset>>

\* A compaction's usage goes to the session and reaches the tally with the next.
CompactionUsage(p, s) ==
    /\ at[p] = {s} /\ Room > 0
    /\ used' = [used EXCEPT ![s] = @ + 1]
    /\ UNCHANGED <<file, tally, at, model, reset>>

\* /model and /provider.
Switch(p, m) ==
    /\ model' = [model EXCEPT ![p] = m]
    /\ UNCHANGED <<used, file, tally, at, reset>>

\* A process goes to a session, or starts again in it with a new tracker.
Start(p, s) ==
    /\ \A q \in Procs \ {p} : s \notin at[q]
    /\ at' = [at EXCEPT ![p] = {s}]
    /\ tally' \in {tally, [tally EXCEPT ![p] = file]}
    /\ UNCHANGED <<used, file, model, reset>>

\* /cost reset --yes
Reset(p) ==
    /\ tally' = [tally EXCEPT ![p] = Empty]
    /\ file' = Empty
    /\ reset' = used
    /\ UNCHANGED <<used, at, model>>

Next == \E p \in Procs :
    \/ Reset(p)
    \/ \E s \in Sessions : UsageUpdate(p, s) \/ CompactionUsage(p, s) \/ Start(p, s)
    \/ \E m \in Models : Switch(p, m)

Spec == Init /\ [][Next]_vars

-----------------------------------------------------------------------------
TypeOK == \A s \in Sessions : used[s] \in 0 .. MaxTokens /\ file[s].input \in Nat

\* tally.go, a total is priced by its shares: whatever another process wrote
\* over it, every tally prices each token it counts once and none nobody used.
PricedOnce ==
    \A t \in {file} \cup {tally[p] : p \in Procs} : \A s \in Sessions :
        /\ Total(t[s].shares) \in {0, t[s].input}
        /\ t[s].input <= used[s]

\* docs/advanced-guide.md "irreversibly reset the cost tally": after a reset the
\* tally counts what is used from then on.
\* (Does not hold: README, Observations.)
ResetIsKept == \A s \in Sessions : file[s].input <= used[s] - reset[s]

=============================================================================
