----------------------------- MODULE PageScripts -----------------------------
(***************************************************************************)
(* A page and its scripts.  The page decides which script runs on it: the  *)
(* upload page uses confirm boxes; on the others a script may use the      *)
(* boxes, the notifications or the layout of a box in any way their        *)
(* methods allow.                                                          *)
(***************************************************************************)
EXTENDS UploadPage, Notifications, BoxLayout

VARIABLE page

pageScriptVars == <<page, boxVars, uploadVars, noteVars, layoutVars>>

(* What is not on the page starts in one of its states.                    *)
Some(S) == CHOOSE x \in S : TRUE

PageInit ==
    /\ page \in {"upload", "boxes", "notes", "layout"}
    /\ BoxInit /\ UploadInit /\ NoteInit /\ LayoutInit
    /\ page # "notes" => ~bootstrap
    /\ page # "layout" => win = Some(Window) /\ rect = Place(Some(Size), Some(Natural))

OnUploadPage == page = "upload" /\ UploadNext /\ UNCHANGED <<page, noteVars, layoutVars>>

OnBoxPage ==
    /\ page = "boxes"
    /\ ScriptCalls \/ BoxEvents \/ ClickAnswer \/ Timers
    /\ UNCHANGED <<page, uploadVars, noteVars, layoutVars>>

OnNotePage == page = "notes" /\ NoteNext /\ UNCHANGED <<page, boxVars, uploadVars, layoutVars>>

OnLayoutPage == page = "layout" /\ LayoutNext /\ UNCHANGED <<page, boxVars, uploadVars, noteVars>>

PageNext == OnUploadPage \/ OnBoxPage \/ OnNotePage \/ OnLayoutPage

PageSpec == PageInit /\ [][PageNext]_pageScriptVars

(* The browser fires timers that are due, those of boxes when no script is *)
(* in the middle of a call; users and scripts may do nothing.              *)
BoxTimer(b) == TimerFires(b) /\ UNCHANGED <<page, uploadVars, noteVars, layoutVars>>
NoteTimer(n) ==
    /\ DelayEnds(n) \/ RemovalFires(n)
    /\ UNCHANGED <<page, boxVars, uploadVars, layoutVars>>

PageFairSpec ==
    /\ PageSpec
    /\ \A b \in Box : SF_pageScriptVars(BoxTimer(b))
    /\ \A n \in Note : WF_pageScriptVars(NoteTimer(n))

(* One type invariant for the parts of the page.                           *)
PageTypeOK == BoxTypeOK /\ UploadTypeOK /\ NoteTypeOK /\ LayoutTypeOK
=============================================================================
