-------------------------------- MODULE MCData --------------------------------
(* The data of a conversation for TLC: a provider's stream, the saved        *)
(* sessions, oversized tool output, the tally of costs, the requests built   *)
(* from a transcript and the split of thinking from text.  They share no     *)
(* variable, and `part' says which of them moves in this behaviour.  The     *)
(* sessions are SessionStore's own, and so is MessagesStayHome.              *)
EXTENDS SessionStore

CONSTANTS
    s1,
    Runes, MaxRunes, ExcerptLimit, markerReserve, lineWindow, Budget, PageLimits, MaxSpills,  \* of ToolOutput
    Accounts, Procs, Models, MaxTokens,                                                       \* of CostTally
    Names, MaxReplies, MaxCalls                                                               \* of WireRequest

VARIABLES
    part,
    adapter, reply, truncated, streamed, attempt, refreshed, wire, conn, parser, ch, guard,
    ctxDone, sctxDone, agent,
    text, entries, files, spilling, written, minted, closed, pruned, shown, handle, reader,
    used, file, tally, at, model, reset,
    messages, provider, replies,
    thought, rest, inThink, buf, visible, reasoning, ended

Stream == INSTANCE ProviderStream WITH
    Adapters <- {"compat", "responses", "anthropic", "gemini", "ollama"},
    Replies <- {<< >>, <<2>>, <<1, 2>>}, Capacity <- 2, MaxAttempts <- 2
Output == INSTANCE ToolOutput
Costs  == INSTANCE CostTally WITH Sessions <- Accounts
Wires  == INSTANCE WireRequest
Filter == INSTANCE ThinkFilter WITH MaxPieces <- 3, MaxChunk <- 4,
    text <- thought, shown <- visible

ASSUME /\ Stream!ConstantsOK /\ ConstantsOK /\ Output!ConstantsOK
       /\ Costs!ConstantsOK /\ Wires!ConstantsOK /\ Filter!ConstantsOK

streamVars == <<adapter, reply, truncated, streamed, attempt, refreshed, wire, conn, parser, ch,
                guard, ctxDone, sctxDone, agent>>
storeVars  == vars
outputVars == <<text, entries, files, spilling, written, minted, closed, pruned, shown, handle,
                reader>>
costVars   == <<used, file, tally, at, model, reset>>
wireVars   == <<messages, provider, replies>>
filterVars == <<thought, rest, inThink, buf, visible, reasoning, ended>>
dataVars   == <<part, streamVars, storeVars, outputVars, costVars, wireVars, filterVars>>

-----------------------------------------------------------------------------
(* Runes of one byte, line ends and runes of three; and one text that is not *)
(* shown in full.                                                            *)
ShortRunes == {<<"a">>, <<"n">>, <<"W", "w", "w">>}
LongText   == <<"a", "a", "W", "w", "w">>

DataInit ==
    /\ part \in {"stream", "store", "output", "costs", "wires", "filter"}
    /\ Stream!Init
    /\ (part # "stream" => adapter = "compat" /\ reply = << >>)
    /\ Init
    /\ (part # "store" => computer = "local" /\ current = s1 /\
                          disk = [s \in Sessions |-> Record(1, "local", << >>)])
    /\ Output!Init
    /\ (part # "output" => text = LongText)
    /\ Costs!Init
    /\ (part # "costs" => used = [s \in Accounts |-> 0] /\ file = Costs!Empty /\
                          model = [p \in Procs |-> CHOOSE m \in Models : TRUE])
    /\ Wires!Init
    /\ (part # "wires" => provider = "compat")
    /\ Filter!Init
    /\ (part # "filter" => thought = << >>)

StreamNext ==
    /\ part = "stream" /\ Stream!Next
    /\ UNCHANGED <<part, storeVars, outputVars, costVars, wireVars, filterVars>>
StoreNext ==
    /\ part = "store" /\ Next
    /\ UNCHANGED <<part, streamVars, outputVars, costVars, wireVars, filterVars>>
OutputNext ==
    /\ part = "output" /\ Output!Next
    /\ UNCHANGED <<part, streamVars, storeVars, costVars, wireVars, filterVars>>
CostsNext ==
    /\ part = "costs" /\ Costs!Next
    /\ UNCHANGED <<part, streamVars, storeVars, outputVars, wireVars, filterVars>>
WiresNext ==
    /\ part = "wires" /\ Wires!Next
    /\ UNCHANGED <<part, streamVars, storeVars, outputVars, costVars, filterVars>>
FilterNext ==
    /\ part = "filter" /\ Filter!Next
    /\ UNCHANGED <<part, streamVars, storeVars, outputVars, costVars, wireVars>>

DataNext == StreamNext \/ StoreNext \/ OutputNext \/ CostsNext \/ WiresNext \/ FilterNext

\* The fairness that ProviderStream states, while it is the one that moves.
StreamFairness ==
    /\ WF_streamVars(part = "stream" /\ Stream!Attempt)
    /\ WF_streamVars(part = "stream" /\ Stream!Expire)
    /\ WF_streamVars(part = "stream" /\ Stream!ReadFrame)
    /\ WF_streamVars(part = "stream" /\ (Stream!Send \/ Stream!SendRefused))
    /\ WF_streamVars(part = "stream" /\ Stream!Return)
    /\ WF_streamVars(part = "stream" /\ Stream!Consume)
    /\ WF_streamVars(part = "stream" /\ Stream!Finalize)
    /\ WF_streamVars(part = "stream" /\ Stream!RunCalls)

DataSpec == DataInit /\ [][DataNext]_dataVars /\ StreamFairness

-----------------------------------------------------------------------------
\* ProviderStream: a tool runs with the arguments the model sent, all of them, and a turn
\* ends, whatever the server does.  ThinkFilter: where the stream is cut makes no difference
\* to what it says.
CallsRunWhole ==
    /\ [](part = "stream" => Stream!TypeOK /\ Stream!CallsRunWhole)
    /\ [](part = "filter" => Filter!TypeOK /\ Filter!CutsMakeNoDifference)
    /\ part = "stream" => Stream!StreamEnds

\* ToolOutput: paging through spilled output shows all of it, and a closed store leaves no
\* file behind.
NothingIsOmitted ==
    part = "output" => Output!TypeOK /\ Output!NothingIsOmitted /\ Output!CloseLeavesNothing

\* CostTally: each token is priced once.
PricedOnce == part = "costs" => Costs!TypeOK /\ Costs!PricedOnce

\* WireRequest: every result is sent with the call it answers.
ResultsReachTheirCalls == part = "wires" => Wires!TypeOK /\ Wires!ResultsReachTheirCalls

=============================================================================
