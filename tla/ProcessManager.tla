---------------------------- MODULE ProcessManager ----------------------------
(***************************************************************************)
(* The controller that owns the child processes of every chain:            *)
(* Tippy.Ctrl/ProcessManager (a static list of process groups, no lock),   *)
(* ProcessGroup (node, miner and indexer of one chain), CommandProcess     *)
(* (one child process), and the request handlers that call them.           *)
(*                                                                         *)
(* ASP.NET serves each request on a thread of its own, and every request   *)
(* reads its Project row once and works on that snapshot, so a request is  *)
(* a sequence of steps that interleave with the steps of other requests,   *)
(* with the child processes binding their ports or dying, and with the     *)
(* application ending and being run again.                                 *)
(***************************************************************************)
EXTENDS Naturals, SequencesExt

CONSTANTS
    Project,      \* ids of the projects the database starts with
    DevChain,     \* those whose Chain is ChainType.Dev
    Thread,       \* request threads of the web server
    Group,        \* ProcessGroup objects, each with its child processes
    Port,         \* TCP ports
    Cfg,          \* port settings a project can be given
    MaxFaults,    \* bound on the application's ends and other faults
    Null          \* C#'s null: no row, no group, no request

ASSUME ConstantsAssumption ==
    /\ DevChain \subseteq Project
    /\ Cfg \subseteq [node : Port, indexer : Port]
    /\ MaxFaults \in Nat

VARIABLES
    row,      \* the project's row in the database: its ports, or Null if deleted
    groups,   \* ProcessManager.processGroups
    info,     \* a group's ProcessInfo, the snapshot it was built from
    proc,     \* each child process of each group
    pc, req,  \* the step and the request of each thread
    leaked,   \* groups the application lost its last reference to, see Leak
    faults    \* faults so far

vars == <<row, groups, info, proc, pc, req, leaked, faults>>

(* The node listens on its RPC and network ports, which a setting treats   *)
(* as one; the indexer listens on the third port.  A miner listens on none *)
Role == {"node", "indexer", "miner"}

(* A child process: the field is null, the process was started, it listens *)
(* on its port, it has exited while the field still refers to it.          *)
PState == {"null", "started", "up", "exited"}

Op == {"start", "stop", "restart", "reset", "delete", "edit",
       "startMiner", "stopMiner"}

StopSteps == {"find", "check_miner", "kill_miner", "check_indexer", "kill_indexer",
              "check_node", "kill_node", "remove"}
StartSteps == {"lookup", "ports", "node", "indexer", "add"}
Step == {"idle", "reset", "save", "find_miner", "launch_miner", "find_unmine"}
            \cup StopSteps \cup StartSteps

Info == [p : Project, cfg : Cfg]
Request == [op : Op, p : Project, cfg : Cfg, g : Group \cup {Null}]

ASSUME NullAssumption ==
    Null \notin Group /\ Null \notin Cfg /\ Null \notin Info /\ Null \notin Request

Registered == Range(groups)
Alive(g, r) == proc[g][r] \in {"started", "up"}
SomeAlive(g) == \E r \in Role : Alive(g, r)

(* ProcessGroup.IsRunning: the node's CommandProcess says so.              *)
IsRunning(g) == Alive(g, "node")

(* Ports with a listener, as LocalPort.PortsInUse reports them.            *)
PortsInUse ==
    UNION {{info[g].cfg[r] : r \in {x \in {"node", "indexer"} : proc[g][x] = "up"}} : g \in Group}

(* ProcessManager.GroupFor: List.Find, the first group of the project.     *)
GroupFor(p) ==
    LET OfProject(g) == info[g].p = p
        i == SelectInSeq(groups, OfProject) IN
    IF i = 0 THEN Null ELSE groups[i]

-----------------------------------------------------------------------------
(* Control flow of a request.                                              *)

Goto(t, step) == pc' = [pc EXCEPT ![t] = step]

(* The handler returns, or an exception ends it.                           *)
Finish(t) == Goto(t, "idle") /\ req' = [req EXCEPT ![t] = Null]

Hold(t, g) == req' = [req EXCEPT ![t].g = g]

(* What the handler does once ProcessManager.Stop(project) has returned.   *)
AfterStop(t) ==
    LET o == req[t].op IN
    \/ o = "stop" /\ Finish(t)
    \/ o = "restart" /\ Goto(t, "lookup") /\ Hold(t, Null)
    \/ o \in {"reset", "delete"} /\ Goto(t, "reset") /\ Hold(t, Null)
    \/ o = "edit" /\ Goto(t, "save") /\ Hold(t, Null)

(* Mutants: Edit saves the row, Reset removes the data, of a running chain. *)
EntryOfEditWithoutStop ==
    [o \in Op |-> CASE o = "start" -> "lookup"
                    [] o = "startMiner" -> "find_miner"
                    [] o = "stopMiner" -> "find_unmine"
                    [] o = "edit" -> "save"
                    [] OTHER -> "find"]
EntryOfResetWithoutStop ==
    [o \in Op |-> CASE o = "start" -> "lookup"
                    [] o = "startMiner" -> "find_miner"
                    [] o = "stopMiner" -> "find_unmine"
                    [] o = "reset" -> "reset"
                    [] OTHER -> "find"]

EntryOf ==
    [o \in Op |-> CASE o = "start" -> "lookup"
                    [] o = "startMiner" -> "find_miner"
                    [] o = "stopMiner" -> "find_unmine"
                    [] OTHER -> "find"]

(* A request arrives: the handler loads the row and works on that copy.    *)
(* Edit writes the submitted ports into its copy before anything else.     *)
Begin(t) ==
    \E o \in Op, p \in Project, c \in Cfg :
        /\ pc[t] = "idle"
        /\ row[p] # Null
        /\ o # "edit" => c = row[p]
        /\ Goto(t, EntryOf[o])
        /\ req' = [req EXCEPT ![t] = [op |-> o, p |-> p, cfg |-> c, g |-> Null]]
        /\ UNCHANGED <<row, groups, info, proc, leaked, faults>>

Holds(t, g) == pc[t] # "idle" /\ req[t].g = g

(* A group whose object is garbage and whose processes are gone.           *)
Fresh(g) ==
    /\ g \notin Registered
    /\ \A t \in Thread : ~Holds(t, g)
    /\ ~SomeAlive(g)

-----------------------------------------------------------------------------
(* ProcessManager.Start and ProcessGroup.Start.                            *)

(* Mutant: Start does not look whether the project runs.                   *)
StartLookupUnchecked(t) ==
    /\ pc[t] = "lookup"
    /\ Goto(t, "ports")
    /\ UNCHANGED <<row, groups, info, proc, req, leaked, faults>>

StartLookup(t) ==
    /\ pc[t] = "lookup"
    /\ \/ GroupFor(req[t].p) # Null /\ Finish(t)
       \/ GroupFor(req[t].p) = Null /\ Goto(t, "ports") /\ UNCHANGED req
    /\ UNCHANGED <<row, groups, info, proc, leaked, faults>>

(* Throws InvalidOperationException if a port has a listener.              *)
StartCheckPorts(t) ==
    LET conflict == {req[t].cfg[r] : r \in {"node", "indexer"}} \cap PortsInUse IN
    /\ pc[t] = "ports"
    /\ \/ conflict # {} /\ Finish(t)
       \/ conflict = {} /\ Goto(t, "node") /\ UNCHANGED req
    /\ UNCHANGED <<row, groups, info, proc, leaked, faults>>

(* Mutant: the group is added before its children are started.             *)
StartNodeListed(t) ==
    \E g \in Group :
        /\ pc[t] = "node"
        /\ Fresh(g)
        /\ info' = [info EXCEPT ![g] = [p |-> req[t].p, cfg |-> req[t].cfg]]
        /\ proc' = [proc EXCEPT ![g] = [r \in Role |-> IF r = "node" THEN "started" ELSE "null"]]
        /\ groups' = Append(groups, g)
        /\ leaked' = leaked \ {g}
        /\ Hold(t, g)
        /\ Goto(t, "indexer")
        /\ UNCHANGED <<row, faults>>

StartNode(t) ==
    \E g \in Group :
        /\ pc[t] = "node"
        /\ Fresh(g)
        /\ info' = [info EXCEPT ![g] = [p |-> req[t].p, cfg |-> req[t].cfg]]
        /\ proc' = [proc EXCEPT ![g] = [r \in Role |-> IF r = "node" THEN "started" ELSE "null"]]
        /\ leaked' = leaked \ {g}
        /\ Hold(t, g)
        /\ Goto(t, "indexer")
        /\ UNCHANGED <<row, groups, faults>>

(* A second later; the group is not in the list yet.                       *)
StartIndexer(t) ==
    /\ pc[t] = "indexer"
    /\ proc' = [proc EXCEPT ![req[t].g]["indexer"] = "started"]
    /\ Goto(t, "add")
    /\ UNCHANGED <<row, groups, info, req, leaked, faults>>

(* An executable cannot be started: the exception ends the request, and    *)
(* nothing refers to the group any more, nor to its node if it is up.      *)
StartFails(t) ==
    /\ pc[t] \in {"node", "indexer"}
    /\ faults < MaxFaults
    /\ faults' = faults + 1
    /\ leaked' = IF pc[t] = "indexer" THEN leaked \cup {req[t].g} ELSE leaked
    /\ Finish(t)
    /\ UNCHANGED <<row, groups, info, proc>>

(* Mutant: what a lookup finds is added, and not the new group.            *)
StartAddLookedUp(t) ==
    /\ pc[t] = "add"
    /\ groups' = Append(groups, GroupFor(req[t].p))
    /\ Finish(t)
    /\ UNCHANGED <<row, info, proc, leaked, faults>>

StartAdd(t) ==
    /\ pc[t] = "add"
    /\ groups' = Append(groups, req[t].g)
    /\ Finish(t)
    /\ UNCHANGED <<row, info, proc, leaked, faults>>

(* Two overlapping List.Add calls: both take the same slot of the list, so *)
(* one group is overwritten (List is not safe for concurrent writers).     *)
StartAddOverwritten(t, u) ==
    /\ t # u /\ pc[t] = "add" /\ pc[u] = "add"
    /\ faults < MaxFaults
    /\ faults' = faults + 1
    /\ groups' = Append(groups, req[u].g)
    /\ leaked' = leaked \cup {req[t].g}
    /\ pc' = [pc EXCEPT ![t] = "idle", ![u] = "idle"]
    /\ req' = [req EXCEPT ![t] = Null, ![u] = Null]
    /\ UNCHANGED <<row, info, proc>>

-----------------------------------------------------------------------------
(* ProcessManager.Stop(project), ProcessGroup.Stop and StopMiner,          *)
(* CommandProcess.Stop.                                                    *)

(* Mutant: Stop leaves the miner alone.                                    *)
StopFindKeepMiner(t) ==
    LET g == GroupFor(req[t].p) IN
    /\ pc[t] = "find"
    /\ \/ g = Null /\ AfterStop(t)
       \/ g # Null /\ Goto(t, "check_indexer") /\ Hold(t, g)
    /\ UNCHANGED <<row, groups, info, proc, leaked, faults>>

StopFind(t) ==
    LET g == GroupFor(req[t].p) IN
    /\ pc[t] = "find"
    /\ \/ g = Null /\ AfterStop(t)
       \/ g # Null /\ Goto(t, "check_miner") /\ Hold(t, g)
    /\ UNCHANGED <<row, groups, info, proc, leaked, faults>>

(* Mutant: Stop leaves the node alone.                                     *)
StoppedKeepNode(t, r) ==
    \/ r = "miner" /\ req[t].op = "stopMiner" /\ Finish(t)
    \/ r = "miner" /\ req[t].op # "stopMiner" /\ Goto(t, "check_indexer") /\ UNCHANGED req
    \/ r \in {"indexer", "node"} /\ Goto(t, "remove") /\ UNCHANGED req

(* The step after the process of a role has been stopped.                  *)
Stopped(t, r) ==
    \/ r = "miner" /\ req[t].op = "stopMiner" /\ Finish(t)
    \/ r = "miner" /\ req[t].op # "stopMiner" /\ Goto(t, "check_indexer") /\ UNCHANGED req
    \/ r = "indexer" /\ Goto(t, "check_node") /\ UNCHANGED req
    \/ r = "node" /\ Goto(t, "remove") /\ UNCHANGED req

CheckStep == [miner |-> "check_miner", indexer |-> "check_indexer", node |-> "check_node"]
KillStep == [miner |-> "kill_miner", indexer |-> "kill_indexer", node |-> "kill_node"]

(* CommandProcess.Stop tests its field ...                                 *)
StopCheck(t, r) ==
    /\ pc[t] = CheckStep[r]
    /\ \/ proc[req[t].g][r] = "null" /\ Stopped(t, r)
       \/ proc[req[t].g][r] # "null" /\ Goto(t, KillStep[r]) /\ UNCHANGED req
    /\ UNCHANGED <<row, groups, info, proc, leaked, faults>>

(* ... then kills the process, waits for its exit and clears the field.    *)
StopKill(t, r) ==
    /\ pc[t] = KillStep[r]
    /\ proc[req[t].g][r] # "null"
    /\ proc' = [proc EXCEPT ![req[t].g][r] = "null"]
    /\ Stopped(t, r)
    /\ UNCHANGED <<row, groups, info, leaked, faults>>

(* Mutant: the exception is swallowed, and the group removed.              *)
StopKillNullSwallowed(t, r) ==
    /\ pc[t] = KillStep[r]
    /\ proc[req[t].g][r] = "null"
    /\ Goto(t, "remove")
    /\ UNCHANGED <<row, groups, info, proc, req, leaked, faults>>

(* Another request cleared the field in between: NullReferenceException.   *)
StopKillNull(t, r) ==
    /\ pc[t] = KillStep[r]
    /\ proc[req[t].g][r] = "null"
    /\ Finish(t)
    /\ UNCHANGED <<row, groups, info, proc, leaked, faults>>

(* Once nothing refers to the group its snapshot is gone with it.          *)
StopRemove(t) ==
    LET g == req[t].g
        garbage == ~SomeAlive(g) /\ \A u \in Thread \ {t} : ~Holds(u, g) IN
    /\ pc[t] = "remove"
    /\ groups' = RemoveFirst(groups, g)
    /\ info' = IF garbage THEN [info EXCEPT ![g] = Null] ELSE info
    /\ AfterStop(t)
    /\ UNCHANGED <<row, proc, leaked, faults>>

-----------------------------------------------------------------------------
(* ResetData, and the database writes that follow a Stop.                  *)

(* ProcessGroup.ResetData: the files it works on are not part of this      *)
(* module's state.                                                         *)
ResetData(t) ==
    /\ pc[t] = "reset"
    /\ \/ req[t].op = "reset" /\ Finish(t)
       \/ req[t].op = "delete" /\ Goto(t, "save") /\ UNCHANGED req
    /\ UNCHANGED <<row, groups, info, proc, leaked, faults>>

(* SaveChangesAsync of Edit and Delete; on a row that is gone it throws.   *)
SaveRow(t) ==
    LET p == req[t].p IN
    /\ pc[t] = "save"
    /\ row' = [row EXCEPT ![p] = IF @ # Null /\ req[t].op = "edit" THEN req[t].cfg ELSE Null]
    /\ Finish(t)
    /\ UNCHANGED <<groups, info, proc, leaked, faults>>

-----------------------------------------------------------------------------
(* ProcessManager.StartMiner in Default mode and StopMiner.                *)

(* Mutant: the type of the chain is not looked at.                         *)
StartMinerFindAnyChain(t) ==
    LET g == GroupFor(req[t].p)
        can == g # Null /\ IsRunning(g) IN
    /\ pc[t] = "find_miner"
    /\ \/ ~can /\ Finish(t)
       \/ can /\ Goto(t, "launch_miner") /\ Hold(t, g)
    /\ UNCHANGED <<row, groups, info, proc, leaked, faults>>

StartMinerFind(t) ==
    LET g == GroupFor(req[t].p)
        can == g # Null /\ req[t].p \in DevChain /\ IsRunning(g) IN
    /\ pc[t] = "find_miner"
    /\ \/ ~can /\ Finish(t)
       \/ can /\ Goto(t, "launch_miner") /\ Hold(t, g)
    /\ UNCHANGED <<row, groups, info, proc, leaked, faults>>

(* CommandProcess.Start: stops the previous miner, starts a new one.       *)
LaunchMiner(t) ==
    /\ pc[t] = "launch_miner"
    /\ proc' = [proc EXCEPT ![req[t].g]["miner"] = "up"]
    /\ Finish(t)
    /\ UNCHANGED <<row, groups, info, leaked, faults>>

StopMinerFind(t) ==
    LET g == GroupFor(req[t].p) IN
    /\ pc[t] = "find_unmine"
    /\ \/ g = Null /\ Finish(t)
       \/ g # Null /\ Goto(t, "check_miner") /\ Hold(t, g)
    /\ UNCHANGED <<row, groups, info, proc, leaked, faults>>

-----------------------------------------------------------------------------
(* The child processes, and the end of the application.                    *)

(* A node or an indexer opens its port, or exits because it is taken.      *)
Bind(g, r) ==
    /\ proc[g][r] = "started"
    /\ proc' = [proc EXCEPT ![g][r] = IF info[g].cfg[r] \in PortsInUse THEN "exited" ELSE "up"]
    /\ UNCHANGED <<row, groups, info, pc, req, leaked, faults>>

Die(g, r) ==
    /\ Alive(g, r)
    /\ proc' = [proc EXCEPT ![g][r] = IF g \in leaked THEN "null" ELSE "exited"]
    /\ UNCHANGED <<row, groups, info, pc, req, leaked, faults>>

(* The application ends and is run again: the list is empty, no request is *)
(* in progress, and only the children that live are left of the groups.    *)
Leak(survivors) ==
    /\ faults < MaxFaults
    /\ faults' = faults + 1
    /\ leaked' = survivors
    /\ groups' = <<>>
    /\ info' = [g \in Group |-> IF g \in survivors THEN info[g] ELSE Null]
    /\ proc' = [g \in Group |-> [r \in Role |->
                   IF g \in survivors /\ Alive(g, r) THEN proc[g][r] ELSE "null"]]
    /\ pc' = [t \in Thread |-> "idle"]
    /\ req' = [t \in Thread |-> Null]
    /\ UNCHANGED row

(* Nothing of the application runs on a crash.                             *)
Crash == Leak({g \in Group : SomeAlive(g)})

(* ProcessExit runs ProcessManager.Stop(), which stops every listed group. *)
AppExit == Leak({g \in Group \ Registered : SomeAlive(g)})

-----------------------------------------------------------------------------
Init ==
    /\ row \in [Project -> Cfg]
    /\ groups = <<>>
    /\ info = [g \in Group |-> Null]
    /\ proc = [g \in Group |-> [r \in Role |-> "null"]]
    /\ pc = [t \in Thread |-> "idle"]
    /\ req = [t \in Thread |-> Null]
    /\ leaked = {}
    /\ faults = 0

StartStep(t) ==
    \/ StartLookup(t) \/ StartCheckPorts(t) \/ StartNode(t) \/ StartIndexer(t)
    \/ StartAdd(t)

StopStep(t) ==
    \/ StopFind(t)
    \/ \E r \in Role : StopCheck(t, r) \/ StopKill(t, r) \/ StopKillNull(t, r)
    \/ StopRemove(t)

(* A step of a request in progress that does not depend on a fault.        *)
Continue(t) ==
    \/ StartStep(t) \/ StopStep(t) \/ ResetData(t) \/ SaveRow(t)
    \/ StartMinerFind(t) \/ LaunchMiner(t) \/ StopMinerFind(t)

Next ==
    \/ \E t \in Thread : Begin(t) \/ Continue(t) \/ StartFails(t)
    \/ \E t, u \in Thread : StartAddOverwritten(t, u)
    \/ \E g \in Group : \/ \E r \in {"node", "indexer"} : Bind(g, r)
                        \/ \E r \in Role : Die(g, r)
    \/ Crash \/ AppExit

Spec == Init /\ [][Next]_vars

(* Threads keep running and nothing blocks for good: there is no lock, and *)
(* the only wait is for the exit of a process that has been killed.        *)
FairSpec == Spec /\ \A t \in Thread : WF_vars(Continue(t))
-----------------------------------------------------------------------------
(* Properties.                                                             *)

TypeOK ==
    /\ row \in [Project -> Cfg \cup {Null}]
    /\ groups \in Seq(Group)
    /\ info \in [Group -> Info \cup {Null}]
    /\ proc \in [Group -> [Role -> PState]]
    /\ pc \in [Thread -> Step]
    /\ req \in [Thread -> Request \cup {Null}]
    /\ leaked \subseteq Group
    /\ faults \in 0..MaxFaults

Starting(t, g) == pc[t] \in {"indexer", "add"} /\ req[t].g = g
Stopping(t, g) ==
    /\ pc[t] \in StopSteps \ {"find"}
    /\ req[t].g = g
    /\ req[t].op # "stopMiner"

(* A page or RPC that sees a chain as running may call its node: the chain *)
(* was listed only after both children were started, and while one is      *)
(* already stopped, some request is in the middle of stopping the chain.   *)
RegisteredIsStarted ==
    \A g \in Registered : \A r \in {"node", "indexer"} :
        proc[g][r] = "null" => \E t \in Thread : Stopping(t, g)

(* Whatever requests overlap, a live node or indexer can still be stopped: *)
(* its group is in the list or in the hands of the request starting it.    *)
(* The exceptions are the four faults that leak it.                        *)
NoLostChild ==
    \A g \in Group : \A r \in {"node", "indexer"} :
        Alive(g, r) => \/ g \in Registered \cup leaked
                       \/ \E t \in Thread : Starting(t, g)

(* However many requests stop one chain at once, its group leaves the list *)
(* only when its node and its indexer are gone, so that a Start that no    *)
(* longer finds the group does not run beside the old node.                *)
LeavesListDown ==
    [][\A g \in Registered :
          g \notin Range(groups') /\ faults' = faults
              => proc'[g]["node"] = "null" /\ proc'[g]["indexer"] = "null"]_vars

(* A project never has two groups, which the tests of Start are there for: *)
(* as long as requests come one at a time, and not when two overlap.       *)
UniqueGroup ==
    \A i, j \in DOMAIN groups : info[groups[i]].p = info[groups[j]].p => i = j

(* One request at a time: a listed chain's project exists, and has the     *)
(* ports its node was started with (the pages address the node by the row, *)
(* the miner by the group).                                                *)
RowAgrees == \A g \in Registered : row[info[g].p] = info[g].cfg

(* One request at a time: no child process, the miner included, outlives   *)
(* the Stop of its chain, except the leaked ones.                          *)
NoOrphan ==
    \A g \in Group :
        SomeAlive(g) => \/ g \in Registered \cup leaked
                        \/ \E t \in Thread : Starting(t, g)

(* One request at a time: Reset runs on a chain that is not running, which *)
(* is what the Debug.Assert of ProcessGroup.ResetData means to say.        *)
ResetWhileStopped ==
    \A t \in Thread : pc[t] = "reset" =>
        \A g \in Group \ leaked : SomeAlive(g) => info[g].p # req[t].p

(* Ports of a setting that no other live group is going to take.           *)
Uncontested(p, c) ==
    \A g \in Group : SomeAlive(g) /\ info[g].p # p =>
        {info[g].cfg["node"], info[g].cfg["indexer"]} \cap {c["node"], c["indexer"]} = {}

(* A restart that has stopped the chain and started the children of the    *)
(* group it is going to list.                                              *)
Restarted(t, p) ==
    pc[t] = "add" /\ req[t].op = "restart" /\ req[t].p = p /\ GroupFor(p) = Null

(* One request at a time: Restart, which first stops the chain, starts it  *)
(* anew, whether it was listed before, with its children running or not, or *)
(* was not; and what it has started is listed.  The exceptions are another *)
(* chain that wants the ports, and a fault.                                *)
RestartComesBack ==
    \A t \in Thread, p \in Project, n \in 0..MaxFaults :
        /\ (/\ pc[t] = "find" /\ req[t].op = "restart" /\ req[t].p = p
            /\ Uncontested(p, req[t].cfg)
            /\ leaked = {} /\ faults = n)
               ~> (Restarted(t, p) \/ faults > n)
        /\ (Restarted(t, p) /\ faults = n)
               ~> ((pc[t] = "idle" /\ GroupFor(p) # Null) \/ faults > n)

(* With several requests: when none is in progress, a chain that is not    *)
(* listed has no live child process.                                       *)
StoppedMeansDown ==
    (\A t \in Thread : pc[t] = "idle") =>
        \A g \in Group \ (Registered \cup leaked) : ~SomeAlive(g)
-----------------------------------------------------------------------------
(* What the module implements.                                             *)

(* Leaked groups are nobody's: their children are not counted as a chain's. *)
UpChains == {info[g].p : g \in Registered}
LiveChildren(p) ==
    {r \in Role : \E g \in Group \ leaked : Alive(g, r) /\ info[g].p = p}

Promise == INSTANCE Chains WITH
    settings <- row, up <- UpChains, live <- [p \in Project |-> LiveChildren(p)]

(* One request at a time: whatever a request is in the middle of, the list *)
(* of groups, the children and the rows together behave like chains that   *)
(* are up or down.  No chain gets a second node, none goes down with a     *)
(* child alive, and no row changes under a chain.                          *)
ImplementsChains == Promise!ChainsSpec
=============================================================================
