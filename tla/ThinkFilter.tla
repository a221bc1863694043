------------------------------ MODULE ThinkFilter ------------------------------
(***************************************************************************)
(* The split of a model's text into what is shown and what it was thinking *)
(* (internal/provider/openaicompat/think.go).  The text arrives in chunks  *)
(* cut anywhere, in a tag too; what might become a tag is held back.       *)
(*                                                                         *)
(* A text is a sequence of characters; the tags are <t> and </t>.          *)
(***************************************************************************)
EXTENDS Integers, Sequences, SequencesExt, FiniteSetsExt

CONSTANTS MaxPieces,   \* of a text
          MaxChunk     \* characters of a delta

ConstantsOK == MaxPieces \in Nat /\ MaxChunk \in Nat \ {0}

openTag  == <<"<", "t", ">">>
closeTag == <<"<", "/", "t", ">">>

\* Texts with tags, and with what looks like one.
Pieces == {openTag, closeTag, <<"x">>, <<"<">>, <<"<", "/">>}
Texts  == {FlattenSeq(s) : s \in UNION {[1 .. n -> Pieces] : n \in 0 .. MaxPieces}}

VARIABLES
    text,      \* what the model sends
    rest,      \* of it, still to come
    inThink, buf,   \* thinkFilter
    shown, reasoning,   \* emitted so far
    ended

vars == <<text, rest, inThink, buf, shown, reasoning, ended>>

-----------------------------------------------------------------------------
IndexIn(s, tag) ==
    LET at == {i \in 1 .. Len(s) - Len(tag) + 1 : SubSeq(s, i, i + Len(tag) - 1) = tag}
    IN  IF at = {} THEN 0 ELSE Min(at)

\* Mutant: nothing is held back.
holdNothing(s, tag) == 0

\* The longest end of s that begins the tag.
partialTagSuffix(s, tag) ==
    Max({n \in 0 .. Min({Len(tag) - 1, Len(s)}) : IsPrefix(SubSeq(s, Len(s) - n + 1, Len(s)), tag)})

Tag(f) == IF f.inThink THEN closeTag ELSE openTag

\* The first n characters held are emitted, on the side where the stream is.
Emit(f, n) ==
    LET out == SubSeq(f.buf, 1, n)
    IN  [f EXCEPT !.buf       = SubSeq(@, n + 1, Len(@)),
                  !.visible   = IF f.inThink THEN @ ELSE @ \o out,
                  !.reasoning = IF f.inThink THEN @ \o out ELSE @]

\* Emits up to the first tag, and passes it.
PassTag(f) ==
    LET i == IndexIn(f.buf, Tag(f))
    IN  IF i = 0 THEN f
        ELSE [Emit(f, i - 1) EXCEPT !.buf = SubSeq(@, Len(Tag(f)) + 1, Len(@)), !.inThink = ~@]

\* The loop of Write: past every tag, then all but the held end.
Split(f) ==
    LET passed[k \in 0 .. Len(f.buf)] == IF k = 0 THEN f ELSE PassTag(passed[k - 1])
        g == passed[Len(f.buf)]
    IN  Emit(g, Len(g.buf) - partialTagSuffix(g.buf, Tag(g)))

Write(chunk) ==
    Split([inThink |-> inThink, buf |-> buf \o chunk, visible |-> shown, reasoning |-> reasoning])

\* What the whole text splits into, read at once.
Whole(s) ==
    LET from[at \in 1 .. Len(s) + 1, thinking \in BOOLEAN] ==
            LET tag   == IF thinking THEN closeTag ELSE openTag
                i     == IndexIn(SubSeq(s, at, Len(s)), tag)
                out   == SubSeq(s, at, IF i = 0 THEN Len(s) ELSE at + i - 2)
                after == IF i = 0 THEN << << >>, << >> >>
                         ELSE from[at + i - 1 + Len(tag), ~thinking]
            IN  IF thinking THEN <<after[1], out \o after[2]>> ELSE <<out \o after[1], after[2]>>
    IN  from[1, FALSE]

-----------------------------------------------------------------------------
Init ==
    /\ text \in Texts /\ rest = text
    /\ inThink = FALSE /\ buf = << >>
    /\ shown = << >> /\ reasoning = << >> /\ ended = FALSE

\* emitContent: one delta of the stream.
Delta ==
    /\ rest # << >>
    /\ \E n \in 1 .. Min({MaxChunk, Len(rest)}) :
         LET f == Write(SubSeq(rest, 1, n))
         IN  /\ rest' = SubSeq(rest, n + 1, Len(rest))
             /\ inThink' = f.inThink /\ buf' = f.buf
             /\ shown' = f.visible /\ reasoning' = f.reasoning
    /\ UNCHANGED <<text, ended>>

\* flushFilter: what is held when the stream ends is emitted, not lost.
Flush ==
    /\ rest = << >> /\ ~ended
    /\ ended' = TRUE /\ buf' = << >>
    /\ IF inThink THEN reasoning' = reasoning \o buf /\ UNCHANGED shown
       ELSE shown' = shown \o buf /\ UNCHANGED reasoning
    /\ UNCHANGED <<text, rest, inThink>>

Next == Delta \/ Flush

Spec == Init /\ [][Next]_vars

-----------------------------------------------------------------------------
TypeOK == Len(shown) + Len(reasoning) + Len(buf) + Len(rest) <= Len(text)

\* think.go "Tags are not guaranteed to arrive whole": however the stream is
\* cut, what is shown and what is kept as reasoning is what the text says.
CutsMakeNoDifference == ended => <<shown, reasoning>> = Whole(text)

=============================================================================
