------------------------------- MODULE CodexAuth -------------------------------
(***************************************************************************)
(* The ChatGPT login that packetcode shares with the Codex CLI: auth.json, *)
(* read for every request, and refreshed when a request is answered with a *)
(* 401 (internal/provider/codexauth, the adapter of provider/codex and     *)
(* Client.send of provider/responses).                                     *)
(*                                                                         *)
(* A process runs several requests at once and has one Store, whose mutex  *)
(* orders them; another process and the CLI use the same file.  A token is *)
(* [login, n]: the login it came from and its number in it.                *)
(***************************************************************************)
EXTENDS Naturals

CONSTANTS Processes, Requests,   \* the requests of a process
          Faults,                \* of {"write", "answer"}: a file that cannot be written, an answer lost
          MaxLogins, MaxTokens   \* logins by the CLI; tokens of each kind in a login

ConstantsOK == Faults \subseteq {"write", "answer"} /\ "none" \notin Requests /\ MaxLogins \in Nat \ {0} /\ MaxTokens \in Nat

VARIABLES
    file,      \* auth.json: [access, refresh, account]
    service,   \* [login -> [valid, newest, refresh]]: the access tokens it takes, the last it
               \* gave out, the refresh token it takes
    logins,
    mu,        \* [process -> the request that holds Store.mu, or "none"]
    lost,      \* history: the logins a newer token of which was not received or not written
    req        \* [<<process, request>> -> [pc, attempt, sent, account, read, got]]

vars == <<file, service, logins, mu, lost, req>>

Reqs == Processes \X Requests
Token(l, n) == [login |-> l, n |-> n]
Tokens(l, a, r) == [access |-> Token(l, a), refresh |-> Token(l, r), account |-> l]
Nothing == Tokens(0, 0, 0)
Idle == [pc |-> "idle", attempt |-> 0, sent |-> Token(0, 0), account |-> 0, read |-> Nothing, got |-> Nothing]

Init ==
    /\ logins = 1 /\ service = [l \in 1..MaxLogins |-> [valid |-> {1}, newest |-> 1, refresh |-> 1]]
    /\ file = Tokens(1, 1, 1)
    /\ mu = [p \in Processes |-> "none"] /\ lost = {} /\ req = [r \in Reqs |-> Idle]

\* The access tokens of a login have run out.
Expire ==
    /\ \E l \in 1..logins : service[l].valid # {} /\ service' = [service EXCEPT ![l].valid = {}]
    /\ UNCHANGED <<file, logins, mu, req, lost>>

\* codex login, in a terminal of its own.
CliLogin ==
    /\ logins < MaxLogins /\ logins' = logins + 1 /\ file' = Tokens(logins + 1, 1, 1)
    /\ UNCHANGED <<service, mu, req, lost>>

-----------------------------------------------------------------------------
\* send, Token: the file is read for each attempt.
Send(r) ==
    /\ req[r].pc \in {"idle", "again"} /\ mu[r[1]] = "none"
    /\ req' = [req EXCEPT ![r].pc = "sent", ![r].sent = file.access, ![r].account = file.account]
    /\ UNCHANGED <<file, service, logins, mu, lost>>

\* The response, or a failure that is not about the login.
Answered(r) ==
    /\ req[r].pc = "sent" /\ req' = [req EXCEPT ![r] = Idle]
    /\ UNCHANGED <<file, service, logins, mu, lost>>

\* A 401: the token is refreshed once; a second one is the answer.
Unauthorized(r) ==
    /\ req[r].pc = "sent" /\ req[r].sent.n \notin service[req[r].sent.login].valid
    /\ req' = IF req[r].attempt = 0 THEN [req EXCEPT ![r] = [Idle EXCEPT !.pc = "refresh", !.attempt = 1]] ELSE [req EXCEPT ![r] = Idle]
    /\ UNCHANGED <<file, service, logins, mu, lost>>

\* Mutant: the mutex is not taken.
NoLock(r) == UNCHANGED mu
Lock(r) == mu[r[1]] = "none" /\ mu' = [mu EXCEPT ![r[1]] = r[2]]
Unlock(r) == mu' = [mu EXCEPT ![r[1]] = "none"]

\* Refresh: under the mutex, from the file as it is then.
RefreshReads(r) ==
    /\ req[r].pc = "refresh" /\ Lock(r)
    /\ req' = [req EXCEPT ![r].pc = "exchange", ![r].read = file]
    /\ UNCHANGED <<file, service, logins, lost>>

\* authAdapter.Refresh, an error: the request ends with it, whatever Refresh returned.
Fails(r) == req' = [req EXCEPT ![r] = [Idle EXCEPT !.pc = "failed", !.got = req[r].got]] /\ Unlock(r)

\* exchange: the service takes the refresh token it gave out last; it answers with an
\* access token, and with a new refresh token or none.
exchange(r) ==
    LET old == req[r].read  l == old.refresh.login  s == service[l] IN
    /\ req[r].pc = "exchange" /\ UNCHANGED <<file, logins>>
    /\ \/ Fails(r) /\ UNCHANGED <<service, lost>>
       \/ /\ old.refresh.n = s.refresh /\ s.newest < MaxTokens
          /\ \E n \in {s.refresh, s.refresh + 1} :
             /\ service' = [service EXCEPT ![l] = [valid |-> s.valid \cup {s.newest + 1}, newest |-> s.newest + 1, refresh |-> n]]
             /\ \/ "answer" \in Faults /\ Fails(r) /\ lost' = lost \cup {l}
                \/ /\ req' = [req EXCEPT ![r].pc = "write", ![r].read = Nothing, ![r].got = [Tokens(l, s.newest + 1, n) EXCEPT !.account = old.account]]
                   /\ UNCHANGED <<mu, lost>>

\* Mutant: the account is the one the file names when it is written.
AccountOfTheFile(r) == [req[r].got EXCEPT !.account = file.account]
\* The tokens written: the account is carried forward from the file that was read.
next(r) == req[r].got

\* write, and the unlock; an error goes to the caller with the tokens.
write(r) ==
    /\ req[r].pc = "write" /\ UNCHANGED <<service, logins>>
    /\ \/ file' = next(r) /\ req' = [req EXCEPT ![r] = [Idle EXCEPT !.pc = "again", !.attempt = 1]] /\ Unlock(r) /\ UNCHANGED lost
       \/ "write" \in Faults /\ UNCHANGED file /\ Fails(r) /\ lost' = lost \cup {req[r].got.account}

\* The turn ends with the error; another request is another turn.
TurnEnds(r) ==
    /\ req[r].pc = "failed" /\ req' = [req EXCEPT ![r] = Idle]
    /\ UNCHANGED <<file, service, logins, mu, lost>>

Next == \/ Expire \/ CliLogin
        \/ \E r \in Reqs : Send(r) \/ Answered(r) \/ Unauthorized(r) \/ RefreshReads(r) \/ exchange(r) \/ write(r) \/ TurnEnds(r)

Spec == Init /\ [][Next]_vars

-----------------------------------------------------------------------------
TypeOK ==
    /\ logins \in 1..MaxLogins /\ \A p \in Processes : mu[p] \in Requests \cup {"none"}
    /\ \A r \in Reqs : req[r].pc \in {"idle", "sent", "refresh", "exchange", "write", "again", "failed"} /\ req[r].attempt \in 0..1

Holds(r) == req[r].pc = "write"

\* codexauth.go, "so packetcode and the Codex CLI stay in sync": the file holds the tokens
\* and the account of one login, whatever logins of the CLI and requests of the process
\* overlap, a request names the account of its token, and the refresh token of the file can
\* be used, unless its successor was lost, or a refresh holds it and is about to write it.
\* (One process: two that refresh overtake each other, README, Observations.)
FileIsOneLogin ==
    /\ file.access.login = file.account /\ file.refresh.login = file.account
    /\ \A r \in Reqs : req[r].pc = "sent" => req[r].account = req[r].sent.login
    /\ \/ file.refresh.n = service[file.account].refresh \/ file.account \in lost
       \/ \E r \in Reqs : Holds(r) /\ req[r].got.account = file.account

\* codexauth.go, "the returned tokens are still usable for the current process": no request
\* fails for its login while the process was handed tokens that the service takes.
\* (Does not hold: README, Observations.)
RefreshedTokensAreUsed ==
    \A r \in Reqs : req[r].pc = "failed" => req[r].got = Nothing

=============================================================================
