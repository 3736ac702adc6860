------------------------------- MODULE Debugger -------------------------------
(***************************************************************************)
(* The debugger page and Process/Debugger/ProcessManager: two child        *)
(* processes for the whole application, a ttyd that serves gdb and a ttyd  *)
(* that serves ckb-debugger, each on its fixed port, replaced whenever a   *)
(* session is opened.  The debugger reads the transaction from a file      *)
(* named after the script's hash, which sessions with that script share.   *)
(*                                                                         *)
(* Tippy does not stop the two when it ends, and the page's frames show    *)
(* whatever listens on the ports.                                          *)
(***************************************************************************)
EXTENDS CommandProcess

CONSTANTS
    Tx,         \* transactions of the chain
    Script      \* scripts, by their hash

VARIABLES
    gdb, dbg,   \* the static fields: a child and its session, or Null
    orphans,    \* children of this run of the application no field refers to
    leftover,   \* children of earlier runs
    mock,       \* the transaction in the file of each script
    session,    \* the session being opened, or Null
    page,       \* the session whose page is shown, or Null
    closed      \* Close was the last request, and has returned

debugVars == <<gdb, dbg, orphans, leftover, mock, session, page, closed>>

Session == [tx : Tx, script : Script]
Tool == {"gdb", "dbg"}
Ttyd == [tool : Tool, of : Session]
Field == [st : ChildState, of : Session]

ASSUME DebugNullAssumption == Null \notin Session /\ Null \notin Field /\ Null \notin Tx

(* The child behind a field, if it runs.                                   *)
Running(tool, field) ==
    IF field # Null /\ field.st = "running" THEN {[tool |-> tool, of |-> field.of]} ELSE {}

Referenced == Running("gdb", gdb) \cup Running("dbg", dbg)

(* What a frame of the page shows: one process listens on each port.       *)
Listening(tool) == {c \in Referenced \cup orphans \cup leftover : c.tool = tool}

Stopped(field) == IF field = Null THEN Null ELSE [field EXCEPT !.st = Killed(@)]
CannotStop(field) == field # Null /\ StopThrows(field.st)

-----------------------------------------------------------------------------
(* DetailsModel.OnGet: the transaction comes from the node of the active   *)
(* project, which must be up.                                              *)

Dump(nodeUp) ==
    \E s \in Session :
        /\ nodeUp
        /\ Does("idle", "write_mock")
        /\ session' = s
        /\ page' = Null /\ closed' = FALSE
        /\ UNCHANGED <<gdb, dbg, orphans, leftover, mock>>

(* Mutant: the file is written only once, as .gdbinit is.                  *)
WriteMockTxOnce ==
    /\ Does("write_mock", "stop_gdb")
    /\ mock' = [mock EXCEPT ![session.script] = IF @ = Null THEN session.tx ELSE @]
    /\ UNCHANGED <<gdb, dbg, orphans, leftover, session, page, closed>>

WriteMockTx ==
    /\ Does("write_mock", "stop_gdb")
    /\ mock' = [mock EXCEPT ![session.script] = session.tx]
    /\ UNCHANGED <<gdb, dbg, orphans, leftover, session, page, closed>>

(* InvalidOperationException is caught and the page shown with a message,  *)
(* other exceptions show an error page; Close catches neither.             *)
StopThrew ==
    /\ Goto("idle")
    /\ page' = session
    /\ session' = Null
    /\ UNCHANGED faults

(* Stop, for a session to be opened or for Close, which has none.          *)
Close ==
    /\ Does("idle", "stop_gdb")
    /\ session = Null
    /\ page' = Null /\ closed' = FALSE
    /\ UNCHANGED <<gdb, dbg, orphans, leftover, mock, session>>

StopGdb ==
    /\ ~CannotStop(gdb)
    /\ Does("stop_gdb", "stop_dbg")
    /\ gdb' = Stopped(gdb)
    /\ UNCHANGED <<dbg, orphans, leftover, mock, session, page, closed>>

StopGdbThrows ==
    /\ step = "stop_gdb" /\ CannotStop(gdb)
    /\ StopThrew
    /\ UNCHANGED <<gdb, dbg, orphans, leftover, mock, closed>>

(* Mutant: Stop deals with gdb only.                                       *)
StopDebuggerSkipped ==
    /\ ~CannotStop(dbg)
    /\ Does("stop_dbg", IF session = Null THEN "idle" ELSE "make")
    /\ closed' = (session = Null)
    /\ UNCHANGED <<gdb, dbg, orphans, leftover, mock, session, page>>

StopDebugger ==
    /\ ~CannotStop(dbg)
    /\ Does("stop_dbg", IF session = Null THEN "idle" ELSE "make")
    /\ dbg' = Stopped(dbg)
    /\ closed' = (session = Null)
    /\ UNCHANGED <<gdb, orphans, leftover, mock, session, page>>

StopDebuggerThrows ==
    /\ step = "stop_dbg" /\ CannotStop(dbg)
    /\ StopThrew
    /\ UNCHANGED <<gdb, dbg, orphans, leftover, mock, closed>>

(* The fields are replaced; a child they still referred to is nobody's.    *)
MakeBoth ==
    /\ Does("make", "start_dbg")
    /\ orphans' = orphans \cup Referenced
    /\ gdb' = [st |-> "none", of |-> session]
    /\ dbg' = [st |-> "none", of |-> session]
    /\ UNCHANGED <<leftover, mock, session, page, closed>>

(* A ttyd exits if its port is taken.                                      *)
Launched(tool) == IF Listening(tool) = {} THEN "running" ELSE "exited"

StartDebugger ==
    /\ Does("start_dbg", "start_gdb")
    /\ dbg' = [dbg EXCEPT !.st = Launched("dbg")]
    /\ UNCHANGED <<gdb, orphans, leftover, mock, session, page, closed>>

StartGdb ==
    /\ Does("start_gdb", "idle")
    /\ gdb' = [gdb EXCEPT !.st = Launched("gdb")]
    /\ page' = session
    /\ session' = Null
    /\ UNCHANGED <<dbg, orphans, leftover, mock, closed>>

(* ttyd is not there: its object stays in the field.                       *)
DebuggerDoesNotStart ==
    /\ step = "start_dbg"
    /\ Goto("idle") /\ Fault
    /\ dbg' = [dbg EXCEPT !.st = "unstarted"]
    /\ session' = Null
    /\ UNCHANGED <<gdb, orphans, leftover, mock, page, closed>>

GdbDoesNotStart ==
    /\ step = "start_gdb"
    /\ Goto("idle") /\ Fault
    /\ gdb' = [gdb EXCEPT !.st = "unstarted"]
    /\ session' = Null
    /\ UNCHANGED <<dbg, orphans, leftover, mock, page, closed>>

(* gdb is made to source a file that may not be writable: Configure throws *)
(* before there is a process object.                                       *)
GdbIsNotConfigured ==
    /\ step = "start_gdb"
    /\ Goto("idle") /\ Fault
    /\ session' = Null
    /\ UNCHANGED <<gdb, dbg, orphans, leftover, mock, page, closed>>

-----------------------------------------------------------------------------
(* The children, and the end of the application.                           *)

DebuggerDies ==
    /\ \/ /\ Running("gdb", gdb) # {}
          /\ gdb' = [gdb EXCEPT !.st = "exited"]
          /\ UNCHANGED <<dbg, leftover>>
       \/ /\ Running("dbg", dbg) # {}
          /\ dbg' = [dbg EXCEPT !.st = "exited"]
          /\ UNCHANGED <<gdb, leftover>>
       \/ \E c \in leftover : leftover' = leftover \ {c} /\ UNCHANGED <<gdb, dbg>>
    /\ UNCHANGED <<requestVars, orphans, mock, session, page, closed>>

DebugCrash ==
    /\ leftover' = leftover \cup orphans \cup Referenced
    /\ gdb' = Null /\ dbg' = Null /\ orphans' = {}
    /\ session' = Null /\ page' = Null /\ closed' = FALSE
    /\ UNCHANGED mock

DebugInit ==
    /\ gdb = Null /\ dbg = Null
    /\ orphans = {} /\ leftover = {}
    /\ mock = [s \in Script |-> Null]
    /\ session = Null /\ page = Null /\ closed = FALSE

DebugNext(nodeUp) ==
    \/ Dump(nodeUp) \/ WriteMockTx \/ Close
    \/ StopGdb \/ StopGdbThrows \/ StopDebugger \/ StopDebuggerThrows
    \/ MakeBoth \/ StartDebugger \/ StartGdb
    \/ DebuggerDoesNotStart \/ GdbDoesNotStart \/ GdbIsNotConfigured
    \/ DebuggerDies

-----------------------------------------------------------------------------
(* Properties.                                                             *)

DebugTypeOK ==
    /\ gdb \in Field \cup {Null} /\ dbg \in Field \cup {Null}
    /\ orphans \subseteq Ttyd /\ leftover \subseteq Ttyd
    /\ mock \in [Script -> Tx \cup {Null}]
    /\ session \in Session \cup {Null}
    /\ page \in Session \cup {Null}
    /\ closed \in BOOLEAN

(* Whichever children have failed to start, could not be stopped or have   *)
(* exited: no ttyd of this run of the application is without a field that  *)
(* refers to it, and once Close has returned none runs.                    *)
NoneIsForgotten ==
    /\ orphans = {}
    /\ closed => Referenced = {}

(* A page of a session shows no other session, and its debugger reads the  *)
(* transaction asked for, also when sessions share a script.  The          *)
(* exceptions: a ttyd of an earlier run of the application still has the   *)
(* port; gdb could not be started after the debugger was, so that the next *)
(* Stop throws before it gets to the debugger.                             *)
FramesShowAsked ==
    page # Null /\ leftover = {} /\ ~CannotStop(gdb) =>
        \A tool \in Tool : \A c \in Listening(tool) :
            c.of = page /\ mock[c.of.script] = c.of.tx
=============================================================================
