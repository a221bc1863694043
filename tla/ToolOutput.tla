------------------------------ MODULE ToolOutput ------------------------------
(***************************************************************************)
(* Oversized tool results (internal/toolout): the excerpt the model is     *)
(* shown, the spill directory that keeps the rest within a budget, and the *)
(* pages read_tool_output (internal/tools/read_tool_output.go) gives back. *)
(*                                                                         *)
(* A text is its bytes: "a", a newline "n", and a rune of three bytes      *)
(* "W" "w" "w".  One agent's tool calls run one after another, so at most  *)
(* one spill is under way; Close and the start of another packetcode, which*)
(* prunes old directories, come whenever they like.                        *)
(***************************************************************************)
EXTENDS Integers, Sequences, SequencesExt, FiniteSets, FiniteSetsExt

CONSTANTS
    Runes,         \* the runes texts are made of: sequences of bytes
    MaxRunes,      \* of the text
    ExcerptLimit,  \* Options.ExcerptLimit, and of it
    markerReserve, \* what the marker takes
    lineWindow,
    Budget,        \* Options.Budget, in texts
    PageLimits,    \* limits the model asks for
    MaxSpills

ConstantsOK ==
    /\ Runes \subseteq {<<"a">>, <<"n">>, <<"W", "w", "w">>}
    /\ MaxRunes \in Nat /\ ExcerptLimit \in Nat /\ markerReserve \in Nat /\ lineWindow \in Nat
    /\ ExcerptLimit > markerReserve
    /\ Budget \in Nat /\ PageLimits \subseteq Nat \ {0} /\ MaxSpills \in Nat

VARIABLES
    text,       \* the oversized result
    entries,    \* handles the store holds, oldest first
    files,      \* files in the spill directory
    spilling,   \* the handle being written, or 0
    written,    \* its file was written
    minted,     \* handles minted
    closed, pruned,  \* the store; its directory was removed
    shown,      \* [head, tail]: the excerpt's bounds, once captured
    handle,     \* the handle in its marker, or 0
    reader      \* [offset, got, state]: the pages read so far

vars == <<text, entries, files, spilling, written, minted, closed, pruned, shown, handle, reader>>

Texts == {FlattenSeq(s) : s \in UNION {[1 .. n -> Runes] : n \in 0 .. MaxRunes}}
RuneStart(b) == b # "w"
At(c, i) == c[i + 1]                    \* Go's c[i]
Slice(c, i, j) == SubSeq(c, i + 1, j)   \* Go's c[i:j]
Lowest(S, default)  == IF S = {} THEN default ELSE Min(S)
Highest(S, default) == IF S = {} THEN default ELSE Max(S)

-----------------------------------------------------------------------------
\* A head ends on a rune, and after a newline if one is near.
alignHeadEnd(c, h) ==
    LET head == Highest({i \in 1 .. h : i = Len(c) \/ RuneStart(At(c, i))}, 0)
        nl   == Highest({i \in 0 .. head - 1 : At(c, i) = "n"}, -1)
    IN  IF nl >= 0 /\ head - nl <= lineWindow THEN nl + 1 ELSE head

alignTailStart(c, t) ==
    LET start == Lowest({i \in t .. Len(c) - 1 : RuneStart(At(c, i))}, Len(c))
        nl    == Lowest({i \in start .. Len(c) - 1 : At(c, i) = "n"}, Len(c))
    IN  IF nl < Len(c) /\ nl - start <= lineWindow THEN nl + 1 ELSE start

\* Excerpt: head + marker + tail; what lies between is omitted.
Excerpt(c) ==
    LET kept == Max({2, ExcerptLimit - markerReserve})
        head == alignHeadEnd(c, (kept * 2) \div 3)
    IN  [head |-> head, tail |-> Max({head, alignTailStart(c, Len(c) - (kept - head))})]

\* Mutant: a window may cut a rune in half.
keepPartialRune(b) == b

\* Drops the rune that the end of the window cuts.
trimPartialRune(b) ==
    LET last == Highest({i \in 1 .. Len(b) : RuneStart(b[i])}, 0)
    IN  IF last > 0 /\ b[last] = "W" /\ Len(b) - last < 2 THEN SubSeq(b, 1, last - 1) ELSE b

\* Store.Read: a page begins and ends on a rune.
Page(c, offset, limit) ==
    LET window == Slice(c, offset, Min({Len(c), offset + limit}))
        first  == Lowest({i \in 1 .. Len(window) : RuneStart(window[i])}, Len(window) + 1)
        body   == SubSeq(window, first, Len(window))
        begin  == offset + first - 1
        whole  == IF begin + Len(body) < Len(c) THEN trimPartialRune(body) ELSE body
    IN  IF offset >= Len(c) THEN [offset |-> Len(c), next |-> Len(c)]
        ELSE [offset |-> begin, next |-> begin + Len(whole)]

-----------------------------------------------------------------------------
Init ==
    /\ text \in {c \in Texts : Len(c) > ExcerptLimit}
    /\ entries = << >> /\ files = {} /\ spilling = 0 /\ written = FALSE /\ minted = 0
    /\ closed = FALSE /\ pruned = FALSE
    /\ shown = [head |-> -1, tail |-> -1] /\ handle = 0
    /\ reader = [offset |-> 0, got |-> {}, state |-> "idle"]

\* spill, first half: room is made, oldest first, before the file is written.
BeginSpill ==
    /\ spilling = 0 /\ ~closed /\ minted < MaxSpills /\ Budget > 0
    /\ LET n == Max({0, Len(entries) + 1 - Budget})
       IN  /\ entries' = SubSeq(entries, n + 1, Len(entries))
           /\ files' = files \ ToSet(SubSeq(entries, 1, n))
    /\ minted' = minted + 1 /\ spilling' = minted + 1 /\ written' = FALSE
    /\ UNCHANGED <<text, closed, pruned, shown, handle, reader>>

\* The write, without the lock: it fails when the directory is gone, or anyway.
WriteSpill ==
    /\ spilling # 0 /\ ~written
    /\ \/ /\ ~pruned
          /\ files' = files \cup {spilling} /\ written' = TRUE
          /\ UNCHANGED <<spilling, shown, handle>>
       \/ /\ spilling' = 0
          /\ UNCHANGED <<files, written>>
          /\ shown' = Excerpt(text) /\ handle' = 0
    /\ UNCHANGED <<text, entries, minted, closed, pruned, reader>>

\* Mutant: the store is not looked at again after the write.
EndSpillBlindly ==
    /\ spilling # 0 /\ written
    /\ entries' = Append(entries, spilling)
    /\ handle' = spilling /\ shown' = Excerpt(text)
    /\ spilling' = 0
    /\ UNCHANGED <<text, files, written, minted, closed, pruned, reader>>

\* spill, second half: a store closed meanwhile keeps nothing.
EndSpill ==
    /\ spilling # 0 /\ written
    /\ IF closed THEN /\ files' = files \ {spilling}
                      /\ handle' = 0
                      /\ UNCHANGED entries
       ELSE /\ entries' = Append(entries, spilling)
            /\ handle' = spilling
            /\ UNCHANGED files
    /\ shown' = Excerpt(text) /\ spilling' = 0
    /\ UNCHANGED <<text, written, minted, closed, pruned, reader>>

\* The model reads from the start of what the marker says is omitted; a result
\* spilled later may have pushed its own out.
StartReading ==
    /\ reader.state = "idle" /\ handle # 0
    /\ reader' = [reader EXCEPT !.offset = shown.head, !.state = "reading"]
    /\ UNCHANGED <<text, entries, files, spilling, written, minted, closed, pruned, shown, handle>>

Read ==
    /\ reader.state = "reading"
    /\ \E limit \in PageLimits :
         LET page == Page(text, reader.offset, limit)
         IN  IF handle \notin ToSet(entries) \/ handle \notin files
             THEN reader' = [reader EXCEPT !.state = "lost"]
             ELSE reader' = [offset |-> page.next,
                             got    |-> reader.got \cup (page.offset .. page.next - 1),
                             state  |-> IF page.next >= Len(text) THEN "end" ELSE "reading"]
    /\ UNCHANGED <<text, entries, files, spilling, written, minted, closed, pruned, shown, handle>>

Close ==
    /\ ~closed
    /\ closed' = TRUE /\ pruned' = TRUE
    /\ entries' = << >> /\ files' = {}
    /\ UNCHANGED <<text, spilling, written, minted, shown, handle, reader>>

\* Another session's Open prunes a directory nothing was written to for a day.
Prune ==
    /\ ~pruned
    /\ pruned' = TRUE /\ files' = {}
    /\ UNCHANGED <<text, entries, spilling, written, minted, closed, shown, handle, reader>>

Next == \/ BeginSpill \/ WriteSpill \/ EndSpill \/ StartReading \/ Read \/ Close \/ Prune

Spec == Init /\ [][Next]_vars

-----------------------------------------------------------------------------
TypeOK ==
    /\ Len(entries) <= Budget /\ spilling \in 0 .. MaxSpills
    /\ reader.state \in {"idle", "reading", "lost", "end"}

\* read_tool_output "Continue from the next_offset ... until it says end of
\* output": the excerpt and the pages that follow its marker are the whole text.
NothingIsOmitted ==
    reader.state = "end" => 0 .. Len(text) - 1 \subseteq (0 .. shown.head - 1) \cup reader.got

\* store.go "Sessions clean up on Close": a closed store leaves no file, however
\* a spill was under way.
CloseLeavesNothing == closed /\ spilling = 0 => files = {} /\ entries = << >>

=============================================================================
