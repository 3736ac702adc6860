------------------------------ MODULE ChainFiles ------------------------------
(***************************************************************************)
(* The files in the working directory of one chain: what NodeProcess makes *)
(* of a project's settings when the chain starts for the first time, and   *)
(* what later starts, edits and resets find of it.                         *)
(*                                                                         *)
(* The genesis of a chain is what its spec said when ckb init ran.  Only   *)
(* the Start page loads the contracts of a project; a start by the Restart *)
(* page or by start_chain makes a ProcessInfo without them.                *)
(***************************************************************************)
EXTENDS CommandProcess

CONSTANTS
    Lock,       \* lock args a project can be given
    Chosen      \* contracts selected when the project was created

VARIABLES
    lockArg,    \* of the project's row
    info,       \* ProcessInfo of the chain being started or listed, or Null
    conf,       \* the lock arg in ckb.toml, Null if there is no such file
    spec,       \* specs/dev.toml, Null if there is no such file
    cells,      \* files in specs/cells, Null if there is no such directory
    data,       \* the genesis the node's data was built on, Null for no data
    indexed,    \* the genesis of what the indexer has indexed
    node,       \* the node's process
    origin      \* history: who initialised the chain, or what went wrong then

fileVars == <<lockArg, info, conf, spec, cells, data, indexed, node, origin>>
disk == <<conf, spec, cells, data, indexed>>

Genesis == [lock : Lock, cells : SUBSET Chosen]
Info == [lock : Lock, contracts : {Chosen, Null}]

ASSUME FilesNullAssumption ==
    /\ Null \notin Lock /\ Null \notin Genesis /\ Null \notin Info
    /\ \A some \in SUBSET Chosen : some # Null

(* Mutant: the list is taken to be there.                                  *)
ContractsOfUnchecked(i) == i.contracts

(* List<Contracts> is null if the query did not include it.                *)
ContractsOf(i) == IF i.contracts = Null THEN {} ELSE i.contracts

-----------------------------------------------------------------------------
(* ProcessManager.Start, ProcessGroup.Start, CommandProcess.Start.         *)

(* The Start page, or start_chain; and Restart, once its Stop has returned. *)
(* A node nobody stopped still has its port.                               *)
BeginStart ==
    \E contracts \in {Chosen, Null} :
        /\ \/ Does("idle", "init")
           \/ Does("start_again", "init") /\ contracts = Null
        /\ info = Null
        /\ node # "running"
        /\ info' = [lock |-> lockArg, contracts |-> contracts]
        /\ UNCHANGED <<lockArg, disk, node, origin>>

PortTaken ==
    /\ node = "running"
    /\ Does("start_again", "idle")
    /\ UNCHANGED fileVars

(* The exception of a start leaves no group behind.                        *)
StartThrows == Goto("idle") /\ info' = Null

FoundInitialised ==
    /\ conf # Null
    /\ Does("init", "update")
    /\ UNCHANGED fileVars

(* ckb init writes the spec it is given, and ckb.toml.                     *)
InitChain ==
    /\ conf = Null
    /\ Does("init", "copy")
    /\ conf' = info.lock
    /\ spec' = [lock |-> info.lock, cells |-> ContractsOf(info)]
    /\ origin' = IF origin = "spoilt" THEN origin
                 ELSE IF info.contracts = Null THEN "bare" ELSE "page"
    /\ UNCHANGED <<lockArg, info, cells, data, indexed, node>>

(* Its exit code is not looked at: contracts are copied all the same.      *)
InitFails ==
    /\ step = "init" /\ conf = Null
    /\ Goto("copy") /\ Fault
    /\ origin' = "spoilt"
    /\ UNCHANGED <<lockArg, info, disk, node>>

InitDoesNotStart ==
    /\ step = "init" /\ conf = Null
    /\ StartThrows /\ Fault
    /\ UNCHANGED <<lockArg, disk, node, origin>>

(* Mutant: nothing is copied.                                              *)
CopyNothing ==
    /\ Does("copy", "update")
    /\ cells' = IF cells = Null THEN {} ELSE cells
    /\ UNCHANGED <<lockArg, info, conf, spec, data, indexed, node, origin>>

(* CopyTheConstractFiles looks for the directory only.                     *)
CopyContracts ==
    /\ Does("copy", "update")
    /\ cells' = IF cells = Null THEN ContractsOf(info) ELSE cells
    /\ UNCHANGED <<lockArg, info, conf, spec, data, indexed, node, origin>>

(* A file is gone or cannot be copied: the exception is swallowed.         *)
CopyFails ==
    /\ step = "copy" /\ cells = Null
    /\ \E some \in SUBSET ContractsOf(info) :
          some # ContractsOf(info) /\ cells' = some
    /\ Goto("update") /\ Fault
    /\ origin' = "spoilt"
    /\ UNCHANGED <<lockArg, info, conf, spec, data, indexed, node>>

UpdateConfiguration ==
    /\ Does("update", "run")
    /\ conf' = IF conf = Null THEN Null ELSE info.lock
    /\ UNCHANGED <<lockArg, info, spec, cells, data, indexed, node, origin>>

(* ckb.toml cannot be rewritten: the exception is swallowed.               *)
UpdateFails ==
    /\ step = "update"
    /\ Goto("run") /\ Fault
    /\ UNCHANGED fileVars

(* ckb run exits if the directory was not initialised, or if it has to     *)
(* build the genesis, or to compare it with that of its data, and cannot.  *)
NodeAccepts ==
    /\ conf # Null
    /\ spec.cells = {} \/ (cells # Null /\ spec.cells \subseteq cells)
    /\ data \in {Null, spec}

RunNode ==
    /\ Does("run", "index")
    /\ node' = IF NodeAccepts THEN "running" ELSE "exited"
    /\ data' = IF NodeAccepts THEN spec ELSE data
    /\ UNCHANGED <<lockArg, info, conf, spec, cells, indexed, origin>>

(* The node's executable does not start, or the indexer's does not and the *)
(* node is nobody's child.                                                 *)
RunFails ==
    /\ step \in {"run", "index"}
    /\ StartThrows /\ Fault
    /\ UNCHANGED <<lockArg, disk, node, origin>>

RunIndexer ==
    /\ Does("index", "idle")
    /\ indexed' = IF node = "running" THEN data ELSE indexed
    /\ UNCHANGED <<lockArg, info, conf, spec, cells, data, node, origin>>

-----------------------------------------------------------------------------
(* Stop, ResetData, Edit, and what happens to the node by itself.          *)

(* Stop of the listed group, by a request that goes on to next.            *)
StopChain(next) ==
    /\ Does("idle", next)
    /\ node' = IF info # Null THEN Killed(node) ELSE node
    /\ info' = Null
    /\ UNCHANGED <<lockArg, disk, origin>>

(* File.Exists is false for a directory.                                   *)
FileExists(kind) == kind = "file"

ResetIndexer ==
    /\ Does("reset_indexer", "reset_node")
    /\ indexed' = IF indexed # Null /\ FileExists("directory") THEN Null ELSE indexed
    /\ UNCHANGED <<lockArg, info, conf, spec, cells, data, node, origin>>

(* Mutant: only the second test is the right one.                          *)
ResetNodeOnly ==
    /\ Does("reset_node", "idle")
    /\ data' = Null
    /\ UNCHANGED <<lockArg, info, conf, spec, cells, indexed, node, origin>>

ResetNode ==
    /\ Does("reset_node", "idle")
    /\ data' = IF data # Null /\ FileExists("directory") THEN Null ELSE data
    /\ UNCHANGED <<lockArg, info, conf, spec, cells, indexed, node, origin>>

SaveEdit ==
    /\ Does("save", "idle")
    /\ lockArg' \in Lock
    /\ UNCHANGED <<info, disk, node, origin>>

NodeDies ==
    /\ node = "running"
    /\ node' = "exited"
    /\ UNCHANGED <<requestVars, lockArg, info, disk, origin>>

(* The application is killed; the node may go on.                          *)
FilesCrash ==
    /\ info' = Null
    /\ origin' = IF step = "copy" /\ cells = Null THEN "spoilt" ELSE origin
    /\ UNCHANGED <<lockArg, disk, node>>

(* It ends by itself: OnAppExit stops the listed chain first.              *)
FilesExit ==
    /\ node' = IF info # Null /\ step = "idle" THEN Killed(node) ELSE node
    /\ info' = Null
    /\ origin' = IF step = "copy" /\ cells = Null THEN "spoilt" ELSE origin
    /\ UNCHANGED <<lockArg, disk>>

FilesInit ==
    /\ lockArg \in Lock
    /\ info = Null /\ conf = Null /\ spec = Null /\ cells = Null
    /\ data = Null /\ indexed = Null
    /\ node = "none"
    /\ origin = "none"

StartFiles ==
    \/ BeginStart \/ PortTaken \/ FoundInitialised \/ InitChain \/ InitFails \/ InitDoesNotStart
    \/ CopyContracts \/ CopyFails \/ UpdateConfiguration \/ UpdateFails
    \/ RunNode \/ RunFails \/ RunIndexer

FilesNext ==
    \/ StartFiles
    \/ \E next \in {"idle", "start_again", "reset_indexer", "save"} : StopChain(next)
    \/ ResetIndexer \/ ResetNode \/ SaveEdit \/ NodeDies

-----------------------------------------------------------------------------
(* Properties.                                                             *)

(* Types; a spec never names the contracts of a list that is null.         *)
FilesTypeOK ==
    /\ spec # Null => spec.cells # Null
    /\ lockArg \in Lock
    /\ info \in Info \cup {Null}
    /\ conf \in Lock \cup {Null}
    /\ spec \in Genesis \cup {Null}
    /\ cells \in (SUBSET Chosen) \cup {Null}
    /\ data \in Genesis \cup {Null}
    /\ indexed \in Genesis \cup {Null}
    /\ node \in ChildState
    /\ origin \in {"none", "page", "bare", "spoilt"}

(* A chain that the Start page has initialised has the contracts chosen    *)
(* for it, in its genesis and in its directory, whatever starts, edits,    *)
(* resets and faults come later.  The exceptions: the application is       *)
(* killed, or a file is refused, between ckb init and the end of the copy, *)
(* and a ckb init that failed has had its contracts copied before.         *)
GenesisHasContracts ==
    origin = "page" /\ step # "copy" => spec.cells = Chosen /\ cells = Chosen

(* The node's data is of the genesis in the spec, which is what the node   *)
(* tests when it starts, and the indexer's is of the same chain: an edit,  *)
(* a reset or a failed start does not change one and leave the others.     *)
FilesAgree ==
    /\ data # Null => data = spec
    /\ indexed # Null => indexed = data
=============================================================================
