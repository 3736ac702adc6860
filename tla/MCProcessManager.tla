--------------------------- MODULE MCProcessManager ---------------------------
(* Instances of ProcessManager for TLC.                                    *)
EXTENDS ProcessManager, TLC

CONSTANTS p1, p2, t1, t2, g1, g2

(* Two settings, the second one's indexer port is the first one's node     *)
(* port.                                                                   *)
MCPort == 1..3
OneCfg == {[node |-> 1, indexer |-> 2]}
ClashingCfg == OneCfg \cup {[node |-> 3, indexer |-> 1]}

Symmetry == Permutations(Group) \cup Permutations(Thread)
=============================================================================
