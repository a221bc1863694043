------------------------------ MODULE AgentList ------------------------------
(***************************************************************************)
(* The list of jobs in Agent View: ui/components/agentview, with what      *)
(* internal/app does with the keys it takes.                               *)
(*                                                                         *)
(* Jobs run on while the list is read.  A row holds what the job was when  *)
(* the list was last built; a key asks something of the job in the row by  *)
(* a message, which the application handles later, messages in any order.  *)
(* p and Enter only show the job; closing the list is in Screen.           *)
(***************************************************************************)
EXTENDS Integers, SequencesExt, FiniteSetsExt

CONSTANTS Jobs, NoJob,
          Ends,         \* bound: the states jobs end in
          Heights,      \* what listHeight may be, in lines
          MaxRequests   \* bound: messages under way

Final == {"completed", "failed", "cancelled", "abandoned"}
ConstantsOK == NoJob \notin Jobs /\ Ends \subseteq Final /\ Heights \subseteq Nat \ {0} /\ MaxRequests \in Nat

VARIABLES
    info,       \* info[j]: the Manager's, of the jobs there are
    list,       \* Manager.List: the job that changed last is first
    visible, rows, cursor,   \* of the view; the cursor is 0 where the code has -1
    scroll,     \* scrollOffset: rows above the first that is drawn
    height,     \* listHeight
    requests    \* <<key, job>>, not yet handled

vars == <<info, list, visible, rows, cursor, scroll, height, requests>>
manager == <<info, list>>

Groups == <<"input", "active", "completed", "failed", "cancelled", "abandoned">>

\* The first three are headed even when they are empty.
Primary == {"input", "active", "completed"}

\* Snapshot, as far as the list tells jobs apart.
Started == [state |-> "active", blocked |-> FALSE, decided |-> FALSE, text |-> FALSE]
IsTerminal(s) == s.state \in Final

groupForJob(s) == IF s.blocked THEN "input" ELSE s.state
canCancel(s) == s.state = "active"
canDecideResult(s) == IsTerminal(s) /\ ~s.decided /\ (s.state = "cancelled" => s.text)

-----------------------------------------------------------------------------
Header(g) == [kind |-> "header", group |-> g]
JobRow(g, j, s) ==
    [kind |-> "job", group |-> g, id |-> j,
     keys |-> {k \in {"cancel"} : canCancel(s)} \cup {k \in {"inject", "ignore"} : canDecideResult(s)}]

\* rebuildRows: the sort within a group is stable, by the key List is sorted by.
rebuildRows(now, jobs) ==
    LET section(g) ==
            LET items == SelectSeq(jobs, LAMBDA j : groupForJob(now[j]) = g) IN
            IF items = << >> /\ g \notin Primary THEN << >>
            ELSE <<Header(g)>> \o [k \in DOMAIN items |-> JobRow(g, items[k], now[items[k]])]
    IN FoldLeft(LAMBDA above, g : above \o section(g), << >>, Groups)

JobRows(r) == {i \in DOMAIN r : r[i].kind = "job"}
firstJobRow(r) == IF JobRows(r) = {} THEN 0 ELSE Min(JobRows(r))
lastJobRow(r) == IF JobRows(r) = {} THEN 0 ELSE Max(JobRows(r))

SelectedID == IF cursor \in JobRows(rows) THEN rows[cursor].id ELSE NoJob

\* ensureCursorVisible: what the offset is with the cursor at c.
ensureCursorVisible(r, c, h) ==
    LET atMost == IF c <= scroll THEN c - 1 ELSE scroll
        atLeast == IF c > atMost + h THEN c - h ELSE atMost
    IN IF c = 0 THEN 0 ELSE Min({atLeast, Max({0, Len(r) - h})})

\* renderRows: the lines of the rows that are drawn above row c, a header's two and of a job
\* two at least.
LinesAbove(c) == 2 * (c - 1 - scroll)

\* Mutant: the cursor stays where it is, whichever job is there now.
SelectByRow(r) == IF cursor \in JobRows(r) THEN cursor ELSE firstJobRow(r)
\* SetJobs: the job that was selected, if it is listed.
Selection(r) ==
    LET at == {i \in JobRows(r) : r[i].id = SelectedID} IN IF at = {} THEN firstJobRow(r) ELSE Min(at)

SetJobs ==
    /\ rows' = rebuildRows(info', list')
    /\ cursor' = Selection(rows')
    /\ scroll' = ensureCursorVisible(rows', cursor', height)

-----------------------------------------------------------------------------
Init ==
    /\ info = << >> /\ list = << >> /\ visible = FALSE
    /\ rows = << >> /\ cursor = 0 /\ scroll = 0
    /\ height \in Heights /\ requests = {}

\* stampSnapshotLocked: a change of a job makes it the newest.
Stamp(j, s) ==
    /\ info' = [k \in DOMAIN info \cup {j} |-> IF k = j THEN s ELSE info[k]]
    /\ list' = <<j>> \o SelectSeq(list, LAMBDA k : k # j)

\* What jobs do by themselves: start, ask and be answered, end; what else takes a result.
JobChanges(j) ==
    /\ \/ j \notin DOMAIN info /\ Stamp(j, Started)
       \/ /\ j \in DOMAIN info /\ ~IsTerminal(info[j])
          /\ \/ Stamp(j, [info[j] EXCEPT !.blocked = ~@])
             \/ \E end \in Ends, text \in BOOLEAN :
                    Stamp(j, [state |-> end, blocked |-> FALSE, decided |-> FALSE, text |-> text])
       \/ /\ j \in DOMAIN info /\ IsTerminal(info[j]) /\ ~info[j].decided
          /\ Stamp(j, [info[j] EXCEPT !.decided = TRUE])
    /\ UNCHANGED <<visible, rows, cursor, scroll, height, requests>>

Show == visible' = TRUE /\ UNCHANGED manager /\ SetJobs /\ UNCHANGED <<height, requests>>
Hide == visible /\ visible' = FALSE /\ UNCHANGED <<manager, rows, cursor, scroll, height, requests>>

\* handleJobUpdate, while the list is on the screen.
JobUpdate == visible /\ UNCHANGED manager /\ SetJobs /\ UNCHANGED <<visible, height, requests>>

Resize ==
    /\ \E h \in Heights \ {height} : height' = h /\ scroll' = ensureCursorVisible(rows, cursor, h)
    /\ UNCHANGED <<manager, visible, rows, cursor, requests>>

-----------------------------------------------------------------------------
\* The cursor after move(delta) from c: the next row of a job, past the headers.
Moved(c, delta) ==
    LET ahead == {i \in JobRows(rows) : (i - c) * delta > 0} IN
    IF c = 0 THEN firstJobRow(rows)
    ELSE IF ahead = {} THEN c
    ELSE IF delta > 0 THEN Min(ahead) ELSE Max(ahead)

\* page: half the lines, in moves.
Paged(direction) ==
    LET steps == Max({1, height \div 2})
        after[n \in 0..steps] == IF n = 0 THEN cursor ELSE Moved(after[n - 1], direction)
    IN after[steps]

MoveTo(c) == cursor' = c /\ scroll' = ensureCursorVisible(rows, c, height)

NavigationKey ==
    /\ visible
    /\ \/ \E delta \in {-1, 1} : MoveTo(Moved(cursor, delta)) \/ MoveTo(Paged(delta))
       \/ MoveTo(firstJobRow(rows)) \/ MoveTo(lastJobRow(rows))
    /\ UNCHANGED <<manager, visible, rows, height, requests>>

\* c, i and x: what the row shows says whether the key is taken.
ActionKey ==
    /\ visible /\ cursor \in JobRows(rows)
    /\ \E key \in rows[cursor].keys : requests' = requests \cup {<<key, SelectedID>>}
    /\ Cardinality(requests') <= MaxRequests
    /\ UNCHANGED <<manager, visible, rows, cursor, scroll, height>>

\* The list is built anew whether there was something to cancel or not.
handleAgentCancel(j) ==
    /\ <<"cancel", j>> \in requests /\ requests' = requests \ {<<"cancel", j>>}
    /\ IF IsTerminal(info[j]) THEN UNCHANGED manager ELSE Stamp(j, [info[j] EXCEPT !.blocked = FALSE])
    /\ SetJobs
    /\ UNCHANGED <<visible, height>>

\* handleAgentInject and handleAgentIgnore: a decision that stands is not taken back.  The
\* session may refuse what is injected.
DecideResult(key, j) ==
    /\ <<key, j>> \in requests /\ requests' = requests \ {<<key, j>>}
    /\ \/ ~info[j].decided /\ Stamp(j, [info[j] EXCEPT !.decided = TRUE]) /\ SetJobs
       \/ (info[j].decided \/ key = "inject") /\ UNCHANGED <<manager, rows, cursor, scroll>>
       \/ info[j].decided /\ key = "ignore" /\ UNCHANGED manager /\ SetJobs
    /\ UNCHANGED <<visible, height>>

Next ==
    \/ \E j \in Jobs : JobChanges(j) \/ handleAgentCancel(j) \/ DecideResult("inject", j) \/ DecideResult("ignore", j)
    \/ Show \/ Hide \/ JobUpdate \/ Resize \/ NavigationKey \/ ActionKey

Spec == Init /\ [][Next]_vars

-----------------------------------------------------------------------------
TypeOK ==
    /\ DOMAIN info = ToSet(list) /\ ToSet(list) \subseteq Jobs /\ cursor \in 0..Len(rows)
    /\ height \in Heights /\ scroll \in 0..Len(rows) /\ requests \subseteq {"cancel", "inject", "ignore"} \X Jobs

\* agentview.go, "Selection is preserved by job ID when possible": jobs change groups and
\* pass each other under the cursor, and it stays on the job the user chose.
SelectionStays ==
    [][rows' # rows /\ SelectedID # NoJob => \E i \in JobRows(rows') : i = cursor' /\ rows'[i].id = SelectedID]_vars

\* agentview.go, "its jobs disappear from the view entirely": every job there is when the
\* list is built has one row, and if there is any the cursor is on one.
EveryJobHasARow ==
    [][rows' # rows => /\ \A j \in ToSet(list') : Quantify(JobRows(rows'), LAMBDA i : rows'[i].id = j) = 1
                       /\ list' # << >> => cursor' \in JobRows(rows')]_vars

\* A key finds the job in a state its handler takes: what was decided on or has ended since
\* the row was drawn is left as it is.
DecisionsStand ==
    [][\A j \in DOMAIN info : /\ info[j].decided => info'[j] = info[j]
                              /\ IsTerminal(info[j]) => info'[j].state = info[j].state]_vars

\* ensureCursorVisible by its name: the row under the cursor is drawn.
\* (Does not hold: README, Observations.)
SelectedIsDrawn == visible /\ cursor # 0 => scroll < cursor /\ LinesAbove(cursor) < height

=============================================================================
