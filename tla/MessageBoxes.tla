----------------------------- MODULE MessageBoxes -----------------------------
(***************************************************************************)
(* The message boxes of js/lobibox.js (js/messageboxes.js is the same      *)
(* code): alert, confirm, prompt, progress and window.                     *)
(*                                                                         *)
(* hide and destroy animate the box and do their work in a callback        *)
(* delayToRemove later; nothing cancels that callback, so it may find a    *)
(* box that has been shown, hidden or destroyed again.  All boxes share    *)
(* one backdrop, which the callbacks remove by what they find in the       *)
(* document.  A box of which the constructor was called is never forgotten *)
(* by the handler of the Esc key it has put on the document.               *)
(*                                                                         *)
(* setProgress calls the script's progressUpdated between storing the      *)
(* progress and testing it; that function may call any method, setProgress *)
(* again included.  Timers and events wait until it has returned.          *)
(***************************************************************************)
EXTENDS Integers, Sequences

CONSTANTS
    Box,         \* the objects scripts make, one per call of a constructor
    Options,     \* options scripts give, by the kind of box
    Levels,      \* arguments of setProgress
    MaxTimers,   \* bound on the callbacks waiting for one box
    MaxCalls     \* bound on the calls of setProgress within each other

ASSUME BoxAssumption == MaxTimers \in Nat /\ MaxCalls \in Nat /\ Levels \subseteq Int

Kind == {"alert", "confirm", "prompt", "progress", "window"}
Answer == {"ok", "cancel", "yes", "no"}

VARIABLES
    opt,        \* $options of the boxes made so far, with their kind
    doc,        \* boxes whose element is in the document
    hidden,     \* boxes whose element has the class lobibox-hidden
    unbound,    \* boxes whose element has lost its handlers: jQuery's remove takes them off
    pending,    \* callbacks of each box that wait for their timer, in order
    backdrop,   \* the backdrop is in the document, and lobibox-open on its body
    loading,    \* windows whose content has been asked for at their creation
    progress,   \* $progress of each box
    completed,  \* how often each box has triggered progressCompleted
    calls,      \* boxes of the calls of setProgress that are in progressUpdated, last first
    nested      \* history: boxes of which one such call was made within another

progressVars == <<progress, completed, calls, nested>>
boxVars == <<opt, doc, hidden, unbound, pending, backdrop, loading, progressVars>>

Made == DOMAIN opt

-----------------------------------------------------------------------------
(* Options.                                                                *)

BaseDefaults ==
    [modal |-> TRUE, closeOnEsc |-> TRUE, closeButton |-> TRUE, hideClass |-> TRUE, callback |-> FALSE]

Buttons ==
    [k \in Kind |-> CASE k = "alert" -> {"ok"}
                      [] k = "confirm" -> {"yes", "no"}
                      [] k = "prompt" -> {"ok", "cancel"}
                      [] OTHER -> {}]

WindowDefaults == [url |-> FALSE, autoload |-> TRUE, showAfterLoad |-> TRUE]

(* $.extend({}, defaults, given): what is given counts before the default. *)
Extend(defaults, given) ==
    [o \in DOMAIN defaults \cup DOMAIN given |-> IF o \in DOMAIN given THEN given[o] ELSE defaults[o]]

(* What the caller gives counts before the defaults of all boxes.          *)
ProcessInput(kind, given) ==
    Extend(Extend(BaseDefaults, [kind |-> kind, buttons |-> Buttons[kind]]), given)

(* Scripts give values to options, and leave out the rest.                 *)
Option(kind) == DOMAIN BaseDefaults \cup (IF kind = "window" THEN DOMAIN WindowDefaults ELSE {})
ASSUME OptionsAssumption ==
    \A kind \in Kind : \A given \in Options[kind] :
        DOMAIN given \subseteq Option(kind) /\ \A o \in DOMAIN given : given[o] \in BOOLEAN

Autoloads(o) == o.url /\ o.autoload

-----------------------------------------------------------------------------
(* What the methods do.                                                    *)

Modals(S) == {b \in S : opt[b].modal}

(* Mutant: the backdrop goes with the box.                                 *)
HideCallbackAlone(b) ==
    /\ hidden' = hidden \cup {b}
    /\ backdrop' = (backdrop /\ ~opt[b].modal)

HideCallback(b) ==
    /\ hidden' = hidden \cup {b}
    /\ backdrop' = (backdrop /\ Modals(doc \ hidden') # {})

(* Mutant: boxes that are hidden are not looked for.                       *)
DestroyCallbackVisible(S) ==
    /\ doc' = doc \ S
    /\ unbound' = unbound \cup S
    /\ backdrop' = (backdrop /\ ~(Modals(doc') = {} /\ hidden = {}))

DestroyCallback(S) ==
    /\ doc' = doc \ S
    /\ unbound' = unbound \cup S
    /\ backdrop' = (backdrop /\ Modals(doc') # {})

Wait(S, what) == pending' = [b \in Box |-> IF b \in S THEN pending[b] \o what ELSE pending[b]]

(* hide and destroy: the callback waits unless there is no animation.      *)
HideBox(b) ==
    IF opt[b].hideClass
    THEN Wait({b}, <<"hide">>) /\ UNCHANGED <<hidden, backdrop>>
    ELSE HideCallback(b) /\ UNCHANGED pending

DestroyBoxes(S, what) ==
    LET now == {b \in S : ~opt[b].hideClass} IN
    /\ Wait(S \ now, what)
    /\ \/ now = {} /\ UNCHANGED <<doc, unbound, backdrop>>
       \/ now # {} /\ DestroyCallback(now)

ShowBox(b, modal) ==
    /\ hidden' = hidden \ {b}
    /\ doc' = doc \cup {b}
    /\ backdrop' = (backdrop \/ modal)

MayWait(b) == Len(pending[b]) < MaxTimers

-----------------------------------------------------------------------------
(* Calls of scripts.                                                       *)

(* _init of all boxes: the object is made, and its element shown or not.   *)
New(b, o, showing) ==
    /\ b \notin Made
    /\ opt' = [c \in Made \cup {b} |-> IF c = b THEN o ELSE opt[c]]
    /\ \/ showing /\ ShowBox(b, o.modal)
       \/ ~showing /\ UNCHANGED <<hidden, doc, backdrop>>
    /\ UNCHANGED <<unbound, pending, progressVars>>

(* Lobibox.alert, confirm, prompt and progress show the box at once.       *)
Alert(b, given) == New(b, ProcessInput("alert", given), TRUE) /\ UNCHANGED loading
Confirm(b, given) == New(b, ProcessInput("confirm", given), TRUE) /\ UNCHANGED loading
Prompt(b, given) == New(b, ProcessInput("prompt", given), TRUE) /\ UNCHANGED loading
Progress(b, given) == New(b, ProcessInput("progress", given), TRUE) /\ UNCHANGED loading

(* Lobibox.window may ask for its content first.                           *)
WindowBox(b, given) ==
    LET o == ProcessInput("window", Extend(WindowDefaults, given)) IN
    /\ New(b, o, Autoloads(o) => ~o.showAfterLoad)
    /\ loading' = IF Autoloads(o) THEN loading \cup {b} ELSE loading

Show(b) ==
    /\ b \in Made
    /\ ShowBox(b, opt[b].modal)
    /\ UNCHANGED <<opt, unbound, pending, loading, progressVars>>

Hide(b) ==
    /\ b \in Made /\ MayWait(b)
    /\ HideBox(b)
    /\ UNCHANGED <<opt, doc, unbound, loading, progressVars>>

Destroy(b) ==
    /\ b \in Made /\ MayWait(b)
    /\ DestroyBoxes({b}, <<"destroy">>)
    /\ UNCHANGED <<opt, hidden, loading, progressVars>>

(* Mutant: a value above 100 is kept.                                      *)
ClampBelow(p) == IF p < 0 THEN 0 ELSE p

Clamp(p) == IF p < 0 THEN 0 ELSE IF p > 100 THEN 100 ELSE p

UnderWay(b) == \E i \in DOMAIN calls : calls[i] = b

(* Mutant: a complete box takes a further value.                           *)
SetProgressAgain(b, p) ==
    /\ b \in Made /\ opt[b].kind = "progress" /\ Len(calls) < MaxCalls
    /\ completed[b] < 2
    /\ progress' = [progress EXCEPT ![b] = Clamp(p)]
    /\ calls' = <<b>> \o calls
    /\ nested' = IF UnderWay(b) THEN nested \cup {b} ELSE nested
    /\ UNCHANGED <<opt, doc, hidden, unbound, pending, backdrop, loading, completed>>

(* The progress is stored and progressUpdated called.                      *)
SetProgress(b, p) ==
    /\ b \in Made /\ opt[b].kind = "progress" /\ Len(calls) < MaxCalls
    /\ progress[b] # 100
    /\ progress' = [progress EXCEPT ![b] = Clamp(p)]
    /\ calls' = <<b>> \o calls
    /\ nested' = IF UnderWay(b) THEN nested \cup {b} ELSE nested
    /\ UNCHANGED <<opt, doc, hidden, unbound, pending, backdrop, loading, completed>>

(* progressUpdated returns, or there is none, and the progress is tested,  *)
(* which by now may be that of a call within.                              *)
ProgressUpdated(b) ==
    /\ calls # <<>> /\ b = Head(calls)
    /\ calls' = Tail(calls)
    /\ completed' = IF progress[b] = 100 THEN [completed EXCEPT ![b] = @ + 1] ELSE completed
    /\ UNCHANGED <<opt, doc, hidden, unbound, pending, backdrop, loading, progress, nested>>

-----------------------------------------------------------------------------
(* Events, which come between the calls of scripts.                        *)

(* The content of a window arrives, or the request fails and that is all.  *)
Loaded(b) ==
    /\ b \in loading /\ calls = <<>>
    /\ loading' = loading \ {b}
    /\ \/ UNCHANGED <<hidden, doc, backdrop>>
       \/ opt[b].showAfterLoad /\ ShowBox(b, opt[b].modal)
    /\ UNCHANGED <<opt, unbound, pending, progressVars>>

TimerFires(b) ==
    /\ pending[b] # <<>> /\ calls = <<>>
    /\ pending' = [pending EXCEPT ![b] = Tail(@)]
    /\ \/ Head(pending[b]) = "hide" /\ HideCallback(b) /\ UNCHANGED <<doc, unbound>>
       \/ Head(pending[b]) = "destroy" /\ DestroyCallback({b}) /\ UNCHANGED hidden
    /\ UNCHANGED <<opt, loading, progressVars>>

(* Esc: every box ever made with closeOnEsc is destroyed, shown or not.    *)
EscKey ==
    LET S == {b \in Made : opt[b].closeOnEsc} IN
    /\ S # {} /\ calls = <<>> /\ \A b \in S : MayWait(b)
    /\ DestroyBoxes(S, <<"destroy">>)
    /\ UNCHANGED <<opt, hidden, loading, progressVars>>

(* An element can be clicked as long as it is visible, also while it is    *)
(* being animated away.                                                    *)
Clickable(b) == calls = <<>> /\ b \in doc \ (hidden \cup unbound) /\ MayWait(b)

ClickClose(b) ==
    /\ Clickable(b) /\ opt[b].closeButton
    /\ DestroyBoxes({b}, <<"destroy">>)
    /\ UNCHANGED <<opt, hidden, loading, progressVars>>

(* With a callback a button has two handlers, and both destroy the box.    *)
ClickButton(b, answer) ==
    /\ Clickable(b) /\ answer \in opt[b].buttons
    /\ DestroyBoxes({b}, IF opt[b].callback THEN <<"destroy", "destroy">> ELSE <<"destroy">>)
    /\ UNCHANGED <<opt, hidden, loading, progressVars>>

-----------------------------------------------------------------------------
BoxInit ==
    /\ opt = <<>>
    /\ doc = {} /\ hidden = {} /\ unbound = {}
    /\ pending = [b \in Box |-> <<>>]
    /\ backdrop = FALSE
    /\ loading = {}
    /\ progress = [b \in Box |-> 0]
    /\ completed = [b \in Box |-> 0]
    /\ calls = <<>> /\ nested = {}

ScriptCalls ==
    \E b \in Box :
        \/ \E g \in Options.alert : Alert(b, g)
        \/ \E g \in Options.confirm : Confirm(b, g)
        \/ \E g \in Options.prompt : Prompt(b, g)
        \/ \E g \in Options.progress : Progress(b, g)
        \/ \E g \in Options.window : WindowBox(b, g)
        \/ Show(b) \/ Hide(b) \/ Destroy(b)
        \/ \E p \in Levels : SetProgress(b, p)
        \/ ProgressUpdated(b)

BoxEvents ==
    \/ EscKey
    \/ \E b \in Box : ClickClose(b) \/ Loaded(b)

Timers == \E b \in Box : TimerFires(b)

ClickAnswer == \E b \in Box, a \in Answer : ClickButton(b, a)

-----------------------------------------------------------------------------
(* Properties.                                                             *)

BoxTypeOK ==
    /\ Made \subseteq Box
    /\ \A b \in Made : /\ opt[b].kind \in Kind /\ opt[b].buttons \subseteq Answer
                       /\ \A o \in DOMAIN BaseDefaults : opt[b][o] \in BOOLEAN
    /\ doc \subseteq Made /\ hidden \subseteq Made /\ unbound \subseteq Made
    /\ pending \in [Box -> Seq({"hide", "destroy"})]
    /\ \A b \in Box : Len(pending[b]) =< MaxTimers + 1
    /\ backdrop \in BOOLEAN
    /\ loading \subseteq Made
    /\ progress \in [Box -> 0..100]
    /\ completed \in [Box -> Nat]
    /\ calls \in Seq(Box) /\ Len(calls) =< MaxCalls
    /\ nested \subseteq Box

(* Whatever order the callbacks of hidden, destroyed and shown boxes come  *)
(* in, a modal box that can be seen has the backdrop behind it, and the    *)
(* backdrop never stays over a document without modal boxes.               *)
BackdropMatchesBoxes ==
    /\ Modals(doc \ hidden) # {} => backdrop
    /\ backdrop => Modals(doc) # {}

(* A progress box reports its completion only at 100 %, where it then      *)
(* stays; once it has got there and the calls of setProgress have returned *)
(* it has reported it; and it reports it once, whatever the script goes on *)
(* to set and whether the box is still there, unless a progressUpdated has *)
(* called setProgress of its own box, as then the calls around that one    *)
(* find 100 % as well.                                                     *)
CompletesOnce ==
    \A b \in Box : /\ completed[b] > 0 => progress[b] = 100
                   /\ progress[b] = 100 /\ ~UnderWay(b) => completed[b] > 0
                   /\ completed[b] > 1 => b \in nested

(* When all modal boxes of the document are being destroyed the backdrop   *)
(* goes, unless one that is not comes into the document, boxes are shown   *)
(* again and again, or a progressUpdated never returns.                    *)
Destroyed(b) == \E i \in DOMAIN pending[b] : pending[b][i] = "destroy"
BackdropGoes ==
    \/ []<><<~(doc' \subseteq doc)>>_boxVars
    \/ <>[](calls # <<>>)
    \/ (\A b \in Modals(doc) : Destroyed(b)) ~> (~backdrop \/ \E b \in Modals(doc) : ~Destroyed(b))
=============================================================================
