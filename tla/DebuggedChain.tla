---------------------------- MODULE DebuggedChain ----------------------------
(***************************************************************************)
(* The two users of CommandProcess together: a chain whose files are made  *)
(* and found again, and the debugger, which takes the transactions it      *)
(* shows from the chain's node and outlives both it and the application.   *)
(***************************************************************************)
EXTENDS ChainFiles, Debugger

allVars == <<requestVars, fileVars, debugVars>>

OnFiles == FilesNext /\ UNCHANGED debugVars
OnDebugger == DebugNext(node = "running") /\ UNCHANGED fileVars

AppIsKilled == Fault /\ Goto("idle") /\ FilesCrash /\ DebugCrash

(* OnAppExit knows of the chains' processes only.                          *)
AppExits == Goto("idle") /\ UNCHANGED faults /\ FilesExit /\ DebugCrash

DebuggedInit == step = "idle" /\ faults = 0 /\ FilesInit /\ DebugInit
DebuggedNext == OnFiles \/ OnDebugger \/ AppIsKilled \/ AppExits
DebuggedSpec == DebuggedInit /\ [][DebuggedNext]_allVars

(* One type invariant for both.                                            *)
DebuggedTypeOK == faults \in 0..MaxFaults /\ FilesTypeOK /\ DebugTypeOK
=============================================================================
