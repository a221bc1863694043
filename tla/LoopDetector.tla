---------------------------- MODULE LoopDetector ----------------------------
(***************************************************************************)
(* The rounds of tool calls of one run of the agent, and what ends them    *)
(* when they make no progress: agent/loopdetect.go, called by oneTurn for  *)
(* every round, and the cap of Agent.run.                                  *)
(*                                                                         *)
(* A round is the sequence of its calls.  A call is a number that stands   *)
(* for the tool, the arguments that ran and the result: two calls with the *)
(* same number are the same work with the same answer.                     *)
(***************************************************************************)
EXTENDS Naturals, SequencesExt

CONSTANTS Calls,             \* \subseteq Nat
          MaxParallel,       \* bound: calls of a round
          MaxIterations,     \* maxToolIterations
          ConfigWindow, ConfigThreshold   \* 0: not configured

ConstantsOK ==
    /\ Calls \subseteq Nat /\ MaxIterations \in Nat \ {0}
    /\ {MaxParallel, ConfigWindow, ConfigThreshold} \subseteq Nat

VARIABLES
    recent,   \* the signatures in the window
    ended,    \* "no", or why the run ended: "answer", "loop", "cap", "budget"
    rounds    \* history: the rounds of the run

vars == <<recent, ended, rounds>>

\* newLoopDetector.
windowTurns == IF ConfigWindow > 0 THEN ConfigWindow ELSE 10
threshold == IF ConfigThreshold > 0 THEN ConfigThreshold ELSE 5

Init == recent = << >> /\ ended = "no" /\ rounds = << >>

\* Mutant: the calls are signed in the order they came in.
fingerprintInOrder(obs) == obs
\* fingerprintTurn: a model that reorders its parallel calls does not hide a loop.
fingerprintTurn(obs) ==
    LET order == CHOOSE p \in Bijection(DOMAIN obs, DOMAIN obs) :
                     \A i, j \in DOMAIN obs : i <= j => obs[p[i]] <= obs[p[j]]
    IN  [i \in DOMAIN obs |-> obs[order[i]]]

\* Mutant: the window keeps one round too few.
LastFew(s) == IF Len(s) >= windowTurns THEN Tail(s) ELSE s
LastOf(s) == IF Len(s) > windowTurns THEN SubSeq(s, Len(s) - windowTurns + 1, Len(s)) ELSE s

repeats(window) == Cardinality({i \in DOMAIN window : window[i] = Last(window)})

\* oneTurn with tool calls, observe, and the checks of run at the end of a round.
Round(obs) ==
    LET window == LastOf(Append(recent, fingerprintTurn(obs))) IN
    /\ ended = "no" /\ rounds' = Append(rounds, obs) /\ recent' = window
    /\ \/ ended' = IF repeats(window) > threshold THEN "loop" ELSE IF Len(rounds') = MaxIterations THEN "cap" ELSE "no"
       \/ repeats(window) <= threshold /\ ended' = "budget"

\* A response without tool calls is the answer.
Answers ==
    /\ ended = "no" /\ ended' = "answer" /\ UNCHANGED <<recent, rounds>>

Next == Answers \/ \E n \in 1..MaxParallel : \E obs \in [1..n -> Calls] : Round(obs)

Spec == Init /\ [][Next]_vars

-----------------------------------------------------------------------------
TypeOK ==
    /\ Len(recent) <= windowTurns /\ Len(rounds) <= MaxIterations
    /\ ended \in {"no", "answer", "loop", "cap", "budget"}

SameWork(k, l) == ToBag(rounds[k]) = ToBag(rounds[l])
Repeated(l) == Cardinality({k \in 1..l : k > l - windowTurns /\ SameWork(k, l)})

\* loopdetect.go, loopDetector: a run goes on until some work was done, with the same answer
\* and in whatever order, more than threshold times in windowTurns rounds, and is stopped
\* in that very round; a run that makes progress is never stopped for a loop.
StoppedWhenStuck ==
    \A l \in DOMAIN rounds : Repeated(l) > threshold <=> l = Len(rounds) /\ ended = "loop"

=============================================================================
