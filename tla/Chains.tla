-------------------------------- MODULE Chains --------------------------------
(***************************************************************************)
(* What Tippy promises of the chains it controls, without the list of      *)
(* groups, the processes and the steps of requests: a chain is up or down, *)
(* and some of its node, indexer and miner live.                           *)
(*                                                                         *)
(* A chain comes up after its children have been started, where there was  *)
(* none before; it goes down when none is left; only a chain of type Dev   *)
(* that is up gets a miner; and the row of a project changes only when     *)
(* nothing of its chain lives.  ProcessManager implements this module as   *)
(* long as requests come one at a time.                                    *)
(***************************************************************************)
CONSTANTS
    Project,    \* ids of projects
    DevChain,   \* those whose chain is of type Dev
    Cfg,        \* settings a project can have
    Null        \* the settings of a project that is gone

VARIABLES
    settings,   \* of each project
    up,         \* projects whose chain is up
    live        \* the children of each chain that live

chainVars == <<settings, up, live>>

Child == {"node", "indexer", "miner"}

ChainsInit ==
    /\ settings \in [Project -> Cfg]
    /\ up = {}
    /\ live = [p \in Project |-> {}]

(* No child is left of an earlier run when the node starts.                *)
NodeStarts(p) ==
    /\ p \notin up /\ live[p] = {} /\ settings[p] # Null
    /\ live' = [live EXCEPT ![p] = {"node"}]
    /\ UNCHANGED <<settings, up>>

IndexerStarts(p) ==
    /\ p \notin up
    /\ live' = [live EXCEPT ![p] = @ \cup {"indexer"}]
    /\ UNCHANGED <<settings, up>>

GoesUp(p) ==
    /\ p \notin up
    /\ up' = up \cup {p}
    /\ UNCHANGED <<settings, live>>

MinerStarts(p) ==
    /\ p \in up /\ p \in DevChain
    /\ live' = [live EXCEPT ![p] = @ \cup {"miner"}]
    /\ UNCHANGED <<settings, up>>

(* A child exits by itself or is killed.                                   *)
ChildEnds(p, r) ==
    /\ live' = [live EXCEPT ![p] = @ \ {r}]
    /\ UNCHANGED <<settings, up>>

GoesDown(p) ==
    /\ p \in up /\ live[p] = {}
    /\ up' = up \ {p}
    /\ UNCHANGED <<settings, live>>

(* The row is changed or deleted.                                          *)
Changes(p) ==
    /\ p \notin up /\ live[p] = {}
    /\ \E c \in Cfg \cup {Null} : settings' = [settings EXCEPT ![p] = c]
    /\ UNCHANGED <<up, live>>

(* A start fails half-way: its node is nobody's child any more.            *)
Loses(p) ==
    /\ p \notin up
    /\ live' = [live EXCEPT ![p] = {}]
    /\ UNCHANGED <<settings, up>>

(* The application ends and is run again.                                  *)
Ends ==
    /\ up' = {}
    /\ live' = [p \in Project |-> {}]
    /\ UNCHANGED settings

ChainsNext ==
    \/ \E p \in Project :
          \/ NodeStarts(p) \/ IndexerStarts(p) \/ GoesUp(p) \/ MinerStarts(p)
          \/ GoesDown(p) \/ Changes(p) \/ Loses(p)
          \/ \E r \in Child : ChildEnds(p, r)
    \/ Ends

ChainsSpec == ChainsInit /\ [][ChainsNext]_chainVars
=============================================================================
