---------------------------- MODULE CommandProcess ----------------------------
(***************************************************************************)
(* One child process as Tippy.Ctrl/CommandProcess sees it, and the request *)
(* that works on it: what ChainFiles and Debugger share.                   *)
(*                                                                         *)
(* Requests come one at a time here; ProcessManager is about those that    *)
(* overlap.                                                                *)
(***************************************************************************)
EXTENDS Naturals

CONSTANTS
    MaxFaults,  \* bound on the faults of a behaviour
    Null        \* C#'s null

ASSUME MaxFaultsAssumption == MaxFaults \in Nat

VARIABLES
    step,       \* of the request in progress, or "idle"
    faults      \* faults so far

requestVars == <<step, faults>>

(* The field: it is null; its process object was made but could not be     *)
(* started; the process runs; it has exited and the field still refers to  *)
(* it.                                                                     *)
ChildState == {"none", "unstarted", "running", "exited"}

(* Kill throws InvalidOperationException if there is no process behind the *)
(* object, before the field is cleared.                                    *)
StopThrows(c) == c = "unstarted"
Killed(c) == IF StopThrows(c) THEN c ELSE "none"

Goto(next) == step' = next

(* A request at this step goes on as intended, and no fault happens.       *)
Does(this, next) == step = this /\ Goto(next) /\ UNCHANGED faults

Fault == faults < MaxFaults /\ faults' = faults + 1
=============================================================================
