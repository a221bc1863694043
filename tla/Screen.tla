-------------------------------- MODULE Screen --------------------------------
(***************************************************************************)
(* The terminal screen of internal/app: which overlay is drawn, which gets *)
(* the keys, and which gets every other message (View, handleKey and       *)
(* updateInner of app.go), with the components of internal/ui/components.  *)
(*                                                                         *)
(* One message is handled at a time.  The reply of a picker's loader comes *)
(* as a message; approvals come and go with the jobs that ask for them.    *)
(***************************************************************************)
EXTENDS Naturals, Sequences

VARIABLES
    prompt, jobsPanel, agentView, workflowView,   \* visible or not
    approval,       \* "none", or the origin of the one on screen: "turn" or "job"
    picker,         \* [on, id, items, load: "idle", "loading", "refreshing" or "failed"]
    reply,          \* the loader's for this opening is on its way
    stale,          \* one for an earlier opening, or its timer, is
    autocomplete,   \* the popup is visible
    text,           \* of the composer: "empty", "verb" (a bare /verb or an @token) or "words"
    focused,        \* the composer has the cursor
    dispatch,       \* agentDispatchFocused
    streaming

vars == <<prompt, jobsPanel, agentView, workflowView, approval, picker, reply, stale, autocomplete, text, focused, dispatch, streaming>>
panels == <<jobsPanel, agentView, workflowView>>
loads == <<reply, stale>>
composer == <<text, focused, dispatch>>

Closed == [on |-> FALSE, id |-> "none", items |-> "none", load |-> "idle"]

-----------------------------------------------------------------------------
\* What can lie over the composer, and whether it is there.
Overlays == <<"prompt", "approval", "picker", "jobs", "agents", "workflows">>
IsUp == [prompt |-> prompt, approval |-> approval # "none", picker |-> picker.on,
         jobs |-> jobsPanel, agents |-> agentView, workflows |-> workflowView]

\* The first of a cascade of overlays that is there.
FirstOf(cascade) ==
    LET up == SelectSeq(cascade, LAMBDA o : IsUp[o]) IN IF up = << >> THEN "composer" ELSE up[1]

modalOwnsKeyboard == \E o \in DOMAIN IsUp : IsUp[o]

\* View: what is drawn over the composer.
Drawn == FirstOf(Overlays)

\* Mutant: an approval takes the keys before the prompt does.
ApprovalFirst == FirstOf(<<"approval", "prompt", "picker", "jobs", "agents", "workflows">>)

\* handleKey: who has the keys that neither the popup nor a shortcut takes.
KeysGoTo == FirstOf(Overlays)

\* updateInner: who gets a message that is not a key and has no case of its own.
MessagesGoTo == FirstOf(Tail(Overlays))

\* The components: the composer's text and cursor, the popup, the views.
SetValue(t)    == text' = t
Reset          == text' = "empty"
ReplaceMention == text' = "words"
Focus          == focused' = TRUE
Blur           == focused' = FALSE
ClosePopup     == autocomplete' = FALSE
ShowJob        == jobsPanel' = TRUE
ShowWorkflows  == workflowView' = TRUE
showAgentView  == agentView' = TRUE /\ dispatch' = FALSE /\ Reset /\ Blur

\* The popup after refreshAutocomplete, for this text.
refreshAutocomplete(t) ==
    MessagesGoTo = "composer" /\ t = "verb"

\* picker.Open: earlier requests are void; with a loader, a request is sent.
OpenPicker(id, cached) ==
    /\ picker' = [on |-> TRUE, id |-> id, items |-> IF cached THEN "own" ELSE "none",
                  load |-> IF id # "model" THEN "idle" ELSE IF cached THEN "refreshing" ELSE "loading"]
    /\ reply' = (id = "model") /\ stale' = (stale \/ reply)
    /\ ClosePopup

HidePicker == picker' = [picker EXCEPT !.on = FALSE, !.load = "idle"] /\ reply' = FALSE /\ stale' = (stale \/ reply)

\* beginLoad, unless one is running.
BeginLoad ==
    IF picker.id # "model" \/ picker.load \in {"loading", "refreshing"} THEN UNCHANGED <<picker, loads>>
    ELSE /\ picker' = [picker EXCEPT !.load = IF picker.items = "none" THEN "loading" ELSE "refreshing"]
         /\ reply' = TRUE /\ UNCHANGED stale

-----------------------------------------------------------------------------
Init ==
    /\ prompt = FALSE /\ jobsPanel = FALSE /\ agentView = FALSE /\ workflowView = FALSE
    /\ approval = "none" /\ picker = Closed /\ reply = FALSE /\ stale = FALSE
    /\ autocomplete = FALSE /\ text = "empty" /\ focused = TRUE /\ dispatch = FALSE
    /\ streaming \in BOOLEAN

\* The popup takes Esc, Tab, Enter and the arrows before anything else.
PopupKey ==
    /\ autocomplete
    /\ \/ ClosePopup /\ UNCHANGED <<picker, loads, text>>
       \/ ClosePopup /\ ReplaceMention /\ UNCHANGED <<picker, loads>>
       \/ /\ Reset
          /\ \E id \in {"provider", "model"}, cached \in BOOLEAN : OpenPicker(id, id = "provider" \/ cached)
    /\ UNCHANGED <<prompt, panels, approval, focused, dispatch, streaming>>

\* Ctrl+P and Alt+M.
Shortcut ==
    /\ ~modalOwnsKeyboard /\ ~autocomplete
    /\ \E id \in {"provider", "model", "session"}, cached \in BOOLEAN : OpenPicker(id, id # "model" \/ cached)
    /\ UNCHANGED <<prompt, panels, approval, composer, streaming>>

\* Ctrl+C: the turn; else the prompt, the approval, the draft; else it quits.
CtrlC ==
    \/ /\ streaming
       /\ approval' = IF approval = "turn" THEN "none" ELSE approval
       /\ UNCHANGED <<prompt, autocomplete, text>>
    \/ /\ ~streaming /\ prompt /\ prompt' = FALSE
       /\ UNCHANGED <<approval, autocomplete, text>>
    \/ /\ ~streaming /\ ~prompt /\ approval # "none" /\ approval' = "none"
       /\ UNCHANGED <<prompt, autocomplete, text>>
    \/ /\ ~streaming /\ ~modalOwnsKeyboard /\ text # "empty"
       /\ Reset /\ ClosePopup
       /\ UNCHANGED <<prompt, approval>>

CtrlCKey == CtrlC /\ UNCHANGED <<panels, picker, loads, focused, dispatch, streaming>>

\* The prompt: Esc and, once a key it submitted is validated, its own end.
PromptKey ==
    /\ KeysGoTo = "prompt"
    /\ prompt' = FALSE
    /\ \/ UNCHANGED <<picker, loads, autocomplete>>
       \/ OpenPicker("provider", TRUE)
    /\ UNCHANGED <<panels, approval, composer, streaming>>

\* The approval: any answer hides it.
ApprovalKey ==
    /\ KeysGoTo = "approval"
    /\ approval' = "none"
    /\ UNCHANGED <<prompt, panels, picker, loads, autocomplete, composer, streaming>>

PickerKey ==
    /\ KeysGoTo = "picker" /\ ~autocomplete
    /\ \/ HidePicker /\ UNCHANGED prompt
       \/ picker.load \notin {"loading", "failed"} /\ HidePicker /\ prompt' \in {FALSE, picker.id = "provider"}
       \/ picker.id = "provider" /\ HidePicker /\ prompt' = TRUE
       \/ BeginLoad /\ UNCHANGED prompt
    /\ UNCHANGED <<panels, approval, autocomplete, composer, streaming>>

\* The transcript, the run list: Esc; the latter opens the former.
PanelKey ==
    /\ ~autocomplete
    /\ \/ KeysGoTo = "jobs" /\ jobsPanel' = FALSE /\ UNCHANGED workflowView
       \/ KeysGoTo = "workflows" /\ workflowView' = FALSE /\ UNCHANGED jobsPanel
       \/ KeysGoTo = "workflows" /\ ShowJob /\ UNCHANGED workflowView
    /\ UNCHANGED <<prompt, agentView, approval, picker, loads, autocomplete, composer, streaming>>

\* Mutant: the list is closed and the composer left without the cursor.
LeaveBlurred == agentView' = FALSE /\ UNCHANGED <<jobsPanel, composer>>
\* Esc in the list.
LeaveAgents == agentView' = FALSE /\ dispatch' = FALSE /\ Focus /\ UNCHANGED <<jobsPanel, text>>

\* The list of Agent View: n to describe a task, Esc, and the transcript of a job.
AgentListKey ==
    \/ dispatch' = TRUE /\ Reset /\ Focus /\ UNCHANGED <<agentView, jobsPanel>>
    \/ LeaveAgents
    \/ ShowJob /\ UNCHANGED <<agentView, composer>>

\* Agent View: its list, or the task; Enter or Esc to be back in the list.
AgentKey ==
    /\ KeysGoTo = "agents" /\ ~autocomplete
    /\ \/ ~dispatch /\ AgentListKey
       \/ dispatch /\ (\E t \in {"verb", "words"} : SetValue(t)) /\ UNCHANGED <<agentView, jobsPanel, focused, dispatch>>
       \/ dispatch /\ dispatch' = FALSE /\ Reset /\ Blur /\ UNCHANGED <<agentView, jobsPanel>>
    /\ UNCHANGED <<prompt, workflowView, approval, picker, loads, autocomplete, streaming>>

\* The composer: an edit; Left on an empty line; Enter, whose text is a prompt, or a
\* command that may open a view.
ComposerKey ==
    /\ KeysGoTo = "composer"
    /\ \/ /\ \E t \in {"empty", "verb", "words"} : SetValue(t) /\ autocomplete' = refreshAutocomplete(t)
          /\ UNCHANGED <<panels, focused, dispatch, streaming>>
       \/ /\ text = "empty" => ~streaming /\ ~autocomplete
          /\ showAgentView /\ ClosePopup
          /\ UNCHANGED <<jobsPanel, workflowView, streaming>>
       \/ /\ text # "empty" /\ Reset /\ ClosePopup
          /\ \/ streaming' = TRUE /\ UNCHANGED panels
             \/ ShowJob /\ UNCHANGED <<agentView, workflowView, streaming>>
             \/ ShowWorkflows /\ UNCHANGED <<agentView, jobsPanel, streaming>>
          /\ UNCHANGED <<focused, dispatch>>
    /\ UNCHANGED <<prompt, approval, picker, loads>>

-----------------------------------------------------------------------------
\* showPendingApproval: one arrives, or the one on screen is no longer waited for.
showPendingApproval ==
    /\ \/ approval = "none" /\ approval' \in {"job"} \cup {o \in {"turn"} : streaming} /\ ClosePopup
       \/ approval # "none" /\ approval' = "none" /\ UNCHANGED autocomplete
    /\ UNCHANGED <<prompt, panels, picker, loads, composer, streaming>>

\* itemsLoadedMsg, to the picker if no approval is on the screen.
ItemsLoaded ==
    /\ reply /\ reply' = FALSE
    /\ IF MessagesGoTo = "picker"
       THEN \/ picker' = [picker EXCEPT !.load = "idle", !.items = "own"]
            \/ picker' = [picker EXCEPT !.load = IF picker.items = "none" THEN "failed" ELSE "idle"]
       ELSE UNCHANGED picker
    /\ UNCHANGED <<prompt, panels, approval, stale, autocomplete, composer, streaming>>

\* One of an earlier opening: its instance or request differs.
StaleReply == stale /\ stale' = FALSE /\ UNCHANGED <<prompt, panels, approval, picker, reply, autocomplete, composer, streaming>>

\* refreshMsg, a minute after a load that succeeded or failed.
RefreshTimer ==
    /\ MessagesGoTo = "picker" /\ BeginLoad
    /\ UNCHANGED <<prompt, panels, approval, autocomplete, composer, streaming>>

\* A tick of the cursor or the spinner, a printed line: where it reaches the composer
\* the popup is refreshed.
OtherMessage ==
    /\ MessagesGoTo = "composer" /\ autocomplete' = refreshAutocomplete(text)
    /\ UNCHANGED <<prompt, panels, approval, picker, loads, composer, streaming>>

TurnEnds ==
    /\ streaming /\ streaming' = FALSE
    /\ approval' = IF approval = "turn" THEN "none" ELSE approval
    /\ UNCHANGED <<prompt, panels, picker, loads, autocomplete, composer>>

Next == \/ PopupKey \/ Shortcut \/ CtrlCKey \/ PromptKey \/ ApprovalKey \/ PickerKey \/ PanelKey \/ AgentKey \/ ComposerKey
        \/ showPendingApproval \/ ItemsLoaded \/ StaleReply \/ RefreshTimer \/ OtherMessage \/ TurnEnds

\* A loader has ten seconds; its reply is a message like any other.
Spec == Init /\ [][Next]_vars /\ WF_vars(ItemsLoaded)

-----------------------------------------------------------------------------
TypeOK ==
    /\ approval \in {"none", "turn", "job"} /\ picker.load \in {"idle", "loading", "refreshing", "failed"}
    /\ text \in {"empty", "verb", "words"} /\ \A b \in {prompt, jobsPanel, agentView, workflowView, reply, stale, autocomplete, focused, dispatch, streaming} : b \in BOOLEAN

\* app.go, "They block the input anyway": the overlay that is drawn is the one that has
\* the keys, in whatever order overlays came, and when the last is gone the composer
\* has the cursor again.
KeysReachWhatIsDrawn ==
    /\ KeysGoTo = Drawn
    /\ focused = (~agentView \/ dispatch)

\* picker.go, "so the App can forward messages unconditionally": a picker that stays
\* open stops loading.
\* (Does not hold: README, Observations.)
PickerSettles == (picker.on /\ picker.load = "loading") ~> (~picker.on \/ picker.load # "loading")

\* app.go, "Closes when any modal is up".
\* (Does not hold: README, Observations.)
PopupClosesUnderModals == autocomplete => ~modalOwnsKeyboard

=============================================================================
