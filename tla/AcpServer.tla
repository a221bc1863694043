----------------------------- MODULE AcpServer -----------------------------
(***************************************************************************)
(* Sessions and prompts of one ACP connection: internal/acp/server.go.     *)
(*                                                                         *)
(* One goroutine dispatches the client's messages, one after the other;    *)
(* every prompt runs on a goroutine of its own, and so does the release of *)
(* a session that is closed under a running prompt.  A runtime is what a   *)
(* session owns (registries, transcript, MCP children).  The agent behind  *)
(* a prompt is reduced to what the server sees of it: it sends updates,    *)
(* asks for permission, and ends, with or without a terminal event.        *)
(* The methods that only read (lists, usage, files) are left out.          *)
(***************************************************************************)
EXTENDS Integers, FiniteSets

CONSTANTS
    Sessions,     \* ids a client may create or load
    MaxRuntimes,  \* bound: runtimes built
    MaxPrompts    \* bound: prompts accepted

ConstantsOK == MaxRuntimes \in Nat /\ MaxPrompts \in Nat

VARIABLES
    sessions,   \* Server.sessions: the runtime of a session, 0 for none
    runtimes,   \* runtimes built so far
    active,     \* sessionState.active, by runtime
    cancelled,  \* sessionState.cancelled
    cancel,     \* sessionState.cancel: the prompt it cancels, 0 for nil
    prompts,    \* prompts accepted so far
    of,         \* of[p]: the runtime prompt p runs on
    pc,         \* pc[p]: where its goroutine is
    ended,      \* prompts whose context is done
    verdict,    \* verdict[p]: how runPrompt saw the turn end
    reply,      \* reply[p]: what is in the channel of its permission request
    releasing,  \* runtimes a release goroutine waits for
    closes,     \* closes[r]: how often Runtime.Close was called
    serve,      \* where Serve is; "new" until the client has sent initialize
    closing,    \* the runtimes Serve has still to close on its way out
    replayed,   \* history: runtimes whose session was loaded anew
    stray       \* history: prompts that sent an update after that

session == <<sessions, runtimes, active, cancelled, cancel, releasing, closes>>
prompt  == <<prompts, of, pc, ended, verdict, reply>>
history == <<replayed, stray>>
vars    == <<session, prompt, serve, closing, history>>

Runtimes == 1..MaxRuntimes
Prompts  == 1..MaxPrompts

TypeOK ==
    /\ sessions \in [Sessions -> 0..MaxRuntimes]
    /\ runtimes \in 0..MaxRuntimes
    /\ active \in [Runtimes -> BOOLEAN]
    /\ cancelled \in [Runtimes -> BOOLEAN]
    /\ cancel \in [Runtimes -> 0..MaxPrompts]
    /\ prompts \in 0..MaxPrompts
    /\ of \in [Prompts -> 0..MaxRuntimes]
    /\ pc \in [Prompts -> {"none", "run", "ask", "tool", "trail", "clear", "respond", "done"}]
    /\ ended \subseteq Prompts
    /\ verdict \in [Prompts -> {"none", "cancelled", "failed", "done"}]
    /\ reply \in [Prompts -> {"none", "allow", "late allow", "reject"}]
    /\ releasing \subseteq Runtimes
    /\ closes \in [Runtimes -> 0..2]
    /\ serve \in {"new", "serving", "cancel", "drain", "close", "returned"}
    /\ closing \subseteq Runtimes
    /\ replayed \subseteq Runtimes
    /\ stray \subseteq Prompts

Init ==
    /\ sessions = [s \in Sessions |-> 0]
    /\ runtimes = 0
    /\ active = [r \in Runtimes |-> FALSE]
    /\ cancelled = [r \in Runtimes |-> FALSE]
    /\ cancel = [r \in Runtimes |-> 0]
    /\ prompts = 0
    /\ of = [p \in Prompts |-> 0]
    /\ pc = [p \in Prompts |-> "none"]
    /\ ended = {}
    /\ verdict = [p \in Prompts |-> "none"]
    /\ reply = [p \in Prompts |-> "none"]
    /\ releasing = {}
    /\ closes = [r \in Runtimes |-> 0]
    /\ serve = "new"
    /\ closing = {}
    /\ replayed = {} /\ stray = {}

-----------------------------------------------------------------------------
(* The dispatcher. *)

closeRuntime(r) == closes' = [closes EXCEPT ![r] = @ + 1]

(* initialize comes first; every other request is refused until then.       *)
handleInitialize ==
    /\ serve = "new"
    /\ serve' = "serving"
    /\ UNCHANGED <<session, prompt, closing, history>>

(* session/new: the factory builds a runtime, or the request fails; a        *)
(* runtime under an id that is already held is closed again.                 *)
handleNewSession(s) ==
    /\ serve = "serving"
    /\ runtimes < MaxRuntimes
    /\ runtimes' = runtimes + 1
    /\ IF sessions[s] = 0
       THEN sessions' = [sessions EXCEPT ![s] = runtimes'] /\ UNCHANGED closes
       ELSE closeRuntime(runtimes') /\ UNCHANGED sessions
    /\ UNCHANGED <<active, cancelled, cancel, releasing, prompt, serve, closing, history>>

(* session/load: a session that is already held is replaced, unless a prompt *)
(* runs on it; its transcript is replayed before the answer.                 *)
handleLoadSession(s) ==
    /\ serve = "serving"
    /\ runtimes < MaxRuntimes
    /\ sessions[s] # 0 => ~active[sessions[s]]
    /\ runtimes' = runtimes + 1
    /\ sessions' = [sessions EXCEPT ![s] = runtimes']
    /\ IF sessions[s] # 0
       THEN closeRuntime(sessions[s]) /\ replayed' = replayed \cup {sessions[s]}
       ELSE UNCHANGED <<closes, replayed>>
    /\ UNCHANGED <<active, cancelled, cancel, releasing, prompt, serve, closing, stray>>

(* session/prompt: refused for an unknown session and for one that is busy.  *)
handlePrompt(s) ==
    /\ serve = "serving"
    /\ prompts < MaxPrompts
    /\ LET r == sessions[s] IN
          /\ r # 0 /\ ~active[r]
          /\ prompts' = prompts + 1
          /\ of' = [of EXCEPT ![prompts'] = r]
          /\ pc' = [pc EXCEPT ![prompts'] = "run"]
          /\ active' = [active EXCEPT ![r] = TRUE]
          /\ cancelled' = [cancelled EXCEPT ![r] = FALSE]
          /\ cancel' = [cancel EXCEPT ![r] = prompts']
    /\ UNCHANGED <<sessions, runtimes, releasing, closes, ended, verdict, reply, serve, closing,
                   history>>

CancelTurn(r) ==
    /\ cancelled' = [cancelled EXCEPT ![r] = TRUE]
    /\ ended' = ended \cup ({cancel[r]} \ {0})

handleCancel(s) ==
    /\ serve = "serving"
    /\ sessions[s] # 0 /\ active[sessions[s]]
    /\ CancelTurn(sessions[s])
    /\ UNCHANGED <<sessions, runtimes, active, cancel, releasing, closes, prompts, of, pc, verdict,
                   reply, serve, closing, history>>

(* Mutant: the runtime is freed at once. *)
closeAtOnce(s) ==
    /\ serve = "serving"
    /\ sessions[s] # 0
    /\ sessions' = [sessions EXCEPT ![s] = 0]
    /\ CancelTurn(sessions[s]) /\ closeRuntime(sessions[s])
    /\ UNCHANGED <<runtimes, active, cancel, releasing, prompts, of, pc, verdict, reply, serve,
                   closing, history>>

(* Mutant: the running turn is waited for, not cancelled. *)
closeWaits(s) ==
    /\ serve = "serving"
    /\ sessions[s] # 0
    /\ sessions' = [sessions EXCEPT ![s] = 0]
    /\ LET r == sessions[s] IN
          IF active[r]
          THEN /\ releasing' = releasing \cup {r}
               /\ UNCHANGED closes
          ELSE closeRuntime(r) /\ UNCHANGED releasing
    /\ UNCHANGED <<runtimes, active, cancelled, cancel, prompt, serve, closing, history>>

(* session/close and releaseSession: the session is unregistered, its turn   *)
(* cancelled, and its runtime freed once the turn has drained.               *)
handleCloseSession(s) ==
    /\ serve = "serving"
    /\ sessions[s] # 0
    /\ sessions' = [sessions EXCEPT ![s] = 0]
    /\ LET r == sessions[s] IN
          IF active[r]
          THEN /\ CancelTurn(r)
               /\ releasing' = releasing \cup {r}
               /\ UNCHANGED closes
          ELSE closeRuntime(r) /\ UNCHANGED <<cancelled, ended, releasing>>
    /\ UNCHANGED <<runtimes, active, cancel, prompts, of, pc, verdict, reply, serve, closing, history>>

(* The client's answer to a permission request that is still pending; that   *)
(* an allow came after the cancellation is only recorded.                    *)
handleResponse(p, what) ==
    /\ serve = "serving"
    /\ pc[p] = "ask" /\ reply[p] = "none"
    /\ reply' = [reply EXCEPT ![p] = IF what = "allow" /\ p \in ended THEN "late allow" ELSE what]
    /\ UNCHANGED <<session, prompts, of, pc, ended, verdict, serve, closing, history>>

-----------------------------------------------------------------------------
(* The goroutine of a prompt. *)

Update(p) == stray' = IF of[p] \in replayed THEN stray \cup {p} ELSE stray

(* An event of the turn is forwarded. *)
Event(p) ==
    /\ pc[p] = "run"
    /\ Update(p)
    /\ UNCHANGED <<session, prompt, serve, closing, replayed>>

(* permissionApprover.Approve: a fresh request id, so no old answer fits.    *)
Ask(p) ==
    /\ pc[p] = "run"
    /\ pc' = [pc EXCEPT ![p] = "ask"]
    /\ UNCHANGED <<session, prompts, of, ended, verdict, reply, serve, closing, history>>

(* Mutant: an answer counts whatever else has happened. *)
callClientIgnoresCancel(p) ==
    /\ pc[p] = "ask"
    /\ reply[p] # "none" \/ p \in ended
    /\ pc' = [pc EXCEPT ![p] = IF reply[p] \in {"allow", "late allow"} THEN "tool" ELSE "run"]
    /\ reply' = [reply EXCEPT ![p] = "none"]
    /\ UNCHANGED <<session, prompts, of, ended, verdict, serve, closing, history>>

(* callClient: an answer, unless the turn is cancelled; cancellation wins.   *)
callClient(p) ==
    /\ pc[p] = "ask"
    /\ reply[p] # "none" \/ p \in ended
    /\ pc' = [pc EXCEPT ![p] = IF reply[p] \in {"allow", "late allow"} /\ p \notin ended
                               THEN "tool" ELSE "run"]
    /\ reply' = [reply EXCEPT ![p] = "none"]
    /\ UNCHANGED <<session, prompts, of, ended, verdict, serve, closing, history>>

(* The tool that was allowed runs; a cancelled one returns. *)
ToolReturns(p) ==
    /\ pc[p] = "tool"
    /\ pc' = [pc EXCEPT ![p] = "run"]
    /\ UNCHANGED <<session, prompts, of, ended, verdict, reply, serve, closing, history>>

(* The event stream ends; what is written from here on depends on how.       *)
StreamEnds(p) ==
    /\ pc[p] = "run"
    /\ \E outcome \in {"failed", "done"} :
          verdict' = [verdict EXCEPT ![p] = IF cancelled[of[p]] \/ p \in ended
                                            THEN "cancelled" ELSE outcome]
    /\ cancel' = [cancel EXCEPT ![of[p]] = 0]
    /\ pc' = [pc EXCEPT ![p] = "trail"]
    /\ UNCHANGED <<sessions, runtimes, active, cancelled, releasing, closes, prompts, of, ended,
                   reply, serve, closing, history>>

(* Open tool calls are closed and the plan is settled. *)
Trailing(p) ==
    /\ pc[p] = "trail"
    /\ Update(p)
    /\ pc' = [pc EXCEPT ![p] = "clear"]
    /\ UNCHANGED <<session, prompts, of, ended, verdict, reply, serve, closing, replayed>>

(* Mutant: the session is free as soon as the stream has ended. *)
clearActiveEarly(p) ==
    /\ \/ /\ pc[p] = "trail" /\ active[of[p]]
          /\ active' = [active EXCEPT ![of[p]] = FALSE]
          /\ UNCHANGED pc
       \/ /\ pc[p] = "clear"
          /\ pc' = [pc EXCEPT ![p] = "respond"]
          /\ UNCHANGED active
    /\ UNCHANGED <<sessions, runtimes, cancelled, cancel, releasing, closes, prompts, of, ended,
                   verdict, reply, serve, closing, history>>

(* clearActive, just before the response. *)
clearActive(p) ==
    /\ pc[p] = "clear"
    /\ active' = [active EXCEPT ![of[p]] = FALSE]
    /\ pc' = [pc EXCEPT ![p] = "respond"]
    /\ UNCHANGED <<sessions, runtimes, cancelled, cancel, releasing, closes, prompts, of, ended,
                   verdict, reply, serve, closing, history>>

(* The response, and the deferred end of the worker and of its context.      *)
Respond(p) ==
    /\ pc[p] = "respond"
    /\ pc' = [pc EXCEPT ![p] = "done"]
    /\ ended' = ended \cup {p}
    /\ UNCHANGED <<session, prompts, of, verdict, reply, serve, closing, history>>

(* releaseSession's goroutine: workers.Wait, then Runtime.Close.             *)
Release(r) ==
    /\ r \in releasing
    /\ \A p \in Prompts : of[p] = r => pc[p] = "done"
    /\ releasing' = releasing \ {r}
    /\ closeRuntime(r)
    /\ UNCHANGED <<sessions, runtimes, active, cancelled, cancel, prompt, serve, closing, history>>

-----------------------------------------------------------------------------
(* Input ends, or the context of Serve does, which is the parent of every    *)
(* prompt's.                                                                 *)
InputEnds ==
    /\ serve \in {"new", "serving"}
    /\ serve' = "cancel"
    /\ closing' = {sessions[s] : s \in Sessions} \ {0}
    /\ \/ UNCHANGED ended
       \/ ended' = ended \cup 1..prompts
    /\ UNCHANGED <<session, prompts, of, pc, verdict, reply, history>>

(* shutdown: the turns of the held sessions are cancelled, everything is     *)
(* drained, and their runtimes are closed.                                   *)
shutdown ==
    \/ /\ serve = "cancel"
       /\ serve' = "drain"
       /\ cancelled' = [r \in Runtimes |-> cancelled[r] \/ (r \in closing /\ cancel[r] # 0)]
       /\ ended' = ended \cup ({cancel[r] : r \in closing} \ {0})
       /\ UNCHANGED <<closes, closing>>
    \/ /\ serve = "drain"
       /\ releasing = {} /\ \A p \in Prompts : pc[p] \in {"none", "done"}
       /\ serve' = "close"
       /\ UNCHANGED <<closes, closing, cancelled, ended>>
    \/ \E r \in closing :
       /\ serve = "close"
       /\ closeRuntime(r)
       /\ closing' = closing \ {r}
       /\ UNCHANGED <<serve, cancelled, ended>>
    \/ /\ serve = "close" /\ closing = {}
       /\ serve' = "returned"
       /\ UNCHANGED <<closes, closing, cancelled, ended>>

Shutdown ==
    /\ shutdown
    /\ UNCHANGED <<sessions, runtimes, active, cancel, releasing, prompts, of, pc, verdict, reply,
                   history>>

Worker(p) ==
    callClient(p) \/ ToolReturns(p) \/ StreamEnds(p) \/ Trailing(p) \/ clearActive(p) \/ Respond(p)

Next ==
    \/ handleInitialize
    \/ \E s \in Sessions : \/ handleNewSession(s) \/ handleLoadSession(s) \/ handlePrompt(s) \/ handleCancel(s)
                           \/ handleCloseSession(s)
    \/ \E p \in Prompts : \/ \E what \in {"allow", "reject"} : handleResponse(p, what)
                          \/ Event(p) \/ Ask(p) \/ Worker(p)
    \/ \E r \in Runtimes : Release(r)
    \/ InputEnds \/ Shutdown

(* A goroutine that can go on does, and a cancelled agent stops; the client  *)
(* owes nothing.                                                             *)
Fairness ==
    /\ \A p \in Prompts : /\ WF_vars(Worker(p) /\ pc[p] # "run")
                          /\ SF_vars(StreamEnds(p) /\ p \in ended)
    /\ \A r \in Runtimes : WF_vars(Release(r))
    /\ WF_vars(Shutdown)

Spec == Init /\ [][Next]_vars /\ Fairness

-----------------------------------------------------------------------------
(* "Every runtime is closed exactly once" (shutdown), and never while a      *)
(* prompt still reads its events.                                            *)
RuntimeClosedOnce ==
    /\ \A r \in Runtimes : closes[r] <= 1
    /\ \A p \in 1..prompts : closes[of[p]] > 0 => pc[p] \notin {"run", "ask", "tool", "trail"}
    /\ serve = "returned" => \A r \in 1..runtimes : closes[r] = 1

(* No update of a prompt reaches the client after its session was loaded     *)
(* anew, between or after the replayed turns.  (runPrompt: "a session/load   *)
(* landing mid-teardown cannot interleave its replay with them")             *)
ReplayIsNotInterleaved == stray = {}

(* "A late allow must never authorize a tool after session/cancel has        *)
(* already been observed" (callClient).                                      *)
LateAllowIsRefused ==
    [][\A p \in Prompts : pc'[p] = "tool" => reply[p] # "late allow"]_vars

(* A turn that is cancelled, and a runtime whose session is closed, come to  *)
(* an end with no further help from the client, even with a permission       *)
(* request open that nobody answers.  (handleCloseSession)                   *)
CancelledTurnEnds ==
    /\ \A p \in Prompts : p \in ended ~> pc[p] = "done"
    /\ \A r \in Runtimes : r \in releasing ~> closes[r] = 1
=============================================================================
