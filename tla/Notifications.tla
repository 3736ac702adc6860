---------------------------- MODULE Notifications ----------------------------
(***************************************************************************)
(* The notifications of js/lobibox.js (js/notifications.js is the same     *)
(* code).  Small ones ("normal" and "mini") go after a delay or when they  *)
(* are clicked.  Large ones are the tabs of one wrapper per position, of   *)
(* which Bootstrap's tab plugin shows one; they stay until closed.         *)
(* A removal takes effect 500 ms after remove was called, and nothing      *)
(* keeps remove from being called again before.                            *)
(***************************************************************************)
EXTENDS Naturals, SequencesExt

CONSTANTS
    Note,          \* the objects scripts make
    Position,      \* places of notifications
    MaxRemovals    \* bound on the removals of one notification under way

ASSUME NoteAssumption == MaxRemovals \in Nat

NoteOption == [size : {"normal", "mini", "large"}, position : Position,
               closable : BOOLEAN, closeOnClick : BOOLEAN, delay : BOOLEAN]
NoNote == "no note"

VARIABLES
    bootstrap,    \* the page has the tab plugin
    note,         \* $options of the notifications made so far
    shown,        \* small notifications in the document
    ticking,      \* notifications whose delay runs
    removals,     \* removals of each that wait for their 500 ms
    tabs,         \* large notifications of each position, in the order of their tabs
    active        \* the tab shown at each position

noteVars == <<bootstrap, note, shown, ticking, removals, tabs, active>>

Small(n) == note[n].size # "large"
OnPage(n) == n \in shown \/ \E p \in Position : n \in Range(tabs[p])

(* Lobibox.notify.  Without the plugin the constructor throws once the tab *)
(* is in the wrapper, and $el, which remove needs, is never set.           *)
Notify(n, o) ==
    /\ n \notin DOMAIN note
    /\ note' = [k \in DOMAIN note \cup {n} |-> IF k = n THEN o ELSE note[k]]
    /\ \/ /\ o.size # "large"
          /\ shown' = shown \cup {n}
          /\ ticking' = IF o.delay THEN ticking \cup {n} ELSE ticking
          /\ UNCHANGED <<tabs, active>>
       \/ /\ o.size = "large"
          /\ tabs' = [tabs EXCEPT ![o.position] = Append(@, n)]
          /\ active' = IF bootstrap THEN [active EXCEPT ![o.position] = n] ELSE active
          /\ UNCHANGED <<shown, ticking>>
    /\ UNCHANGED <<bootstrap, removals>>

(* remove, called k times by the handlers of one event.                    *)
CallRemove(n, k) ==
    IF Small(n) \/ bootstrap THEN removals' = [removals EXCEPT ![n] = @ + k] ELSE UNCHANGED removals

(* The close button; the click goes on to the notification itself.         *)
Close(n) ==
    /\ n \in DOMAIN note /\ OnPage(n) /\ note[n].closable /\ removals[n] < MaxRemovals
    /\ CallRemove(n, IF Small(n) /\ note[n].closeOnClick THEN 2 ELSE 1)
    /\ UNCHANGED <<bootstrap, note, shown, ticking, tabs, active>>

Click(n) ==
    /\ n \in shown /\ note[n].closeOnClick /\ removals[n] < MaxRemovals
    /\ CallRemove(n, 1)
    /\ UNCHANGED <<bootstrap, note, shown, ticking, tabs, active>>

(* Mutant: the end of the delay only stops the timer.                      *)
DelayEndsTimer(n) ==
    /\ n \in ticking
    /\ ticking' = ticking \ {n}
    /\ UNCHANGED <<bootstrap, note, shown, removals, tabs, active>>

DelayEnds(n) ==
    /\ n \in ticking
    /\ ticking' = ticking \ {n}
    /\ CallRemove(n, 1)
    /\ UNCHANGED <<bootstrap, note, shown, tabs, active>>

Tab(s, n) == CHOOSE i \in DOMAIN s : s[i] = n

(* Mutant: the tab after the removed one is shown, or none.                *)
FindTabToActivateNext(s, n) ==
    LET i == Tab(s, n) IN IF i < Len(s) THEN s[i + 1] ELSE NoNote

(* The tab before the removed one, else the tab after it, else none.       *)
FindTabToActivate(s, n) ==
    LET i == Tab(s, n) IN
    IF i > 1 THEN s[i - 1] ELSE IF i < Len(s) THEN s[i + 1] ELSE NoNote

RemovalFires(n) ==
    LET p == note[n].position IN
    /\ removals[n] > 0
    /\ removals' = [removals EXCEPT ![n] = @ - 1]
    /\ shown' = shown \ {n}
    /\ \/ /\ n \in Range(tabs[p])
          /\ active' = [active EXCEPT ![p] = FindTabToActivate(tabs[p], n)]
          /\ tabs' = [tabs EXCEPT ![p] = RemoveAt(@, Tab(@, n))]
       \/ n \notin Range(tabs[p]) /\ UNCHANGED <<tabs, active>>
    /\ UNCHANGED <<bootstrap, note, ticking>>

(* The reader of large notifications goes from tab to tab.                 *)
ChooseTab ==
    \E p \in Position : \E n \in Range(tabs[p]) :
        /\ bootstrap
        /\ active' = [active EXCEPT ![p] = n]
        /\ UNCHANGED <<bootstrap, note, shown, ticking, removals, tabs>>

-----------------------------------------------------------------------------
NoteInit ==
    /\ bootstrap \in BOOLEAN
    /\ note = <<>>
    /\ shown = {} /\ ticking = {}
    /\ removals = [n \in Note |-> 0]
    /\ tabs = [p \in Position |-> <<>>]
    /\ active = [p \in Position |-> NoNote]

NoteTimers == \E n \in Note : DelayEnds(n) \/ RemovalFires(n)

NoteNext ==
    \/ \E n \in Note : (\E o \in NoteOption : Notify(n, o)) \/ Close(n) \/ Click(n)
    \/ ChooseTab
    \/ NoteTimers

NoteTypeOK ==
    /\ bootstrap \in BOOLEAN
    /\ DOMAIN note \subseteq Note
    /\ \A n \in DOMAIN note : note[n] \in NoteOption
    /\ shown \subseteq DOMAIN note /\ ticking \subseteq DOMAIN note
    /\ removals \in [Note -> 0..MaxRemovals + 2]
    /\ tabs \in [Position -> Seq(Note)]
    /\ active \in [Position -> Note \cup {NoNote}]

(* As long as a position has large notifications one of them is open,      *)
(* however their removals overlap.                                         *)
TabStaysOpen ==
    bootstrap => \A p \in Position : tabs[p] # <<>> => active[p] \in Range(tabs[p])

(* A small notification with a delay goes, whether it is clicked or not.   *)
NotesGo == \A n \in Note : (n \in shown /\ n \in ticking) ~> n \notin shown
=============================================================================
