--------------------------- MODULE MCDebuggedChain ---------------------------
(* An instance of DebuggedChain for TLC.                                   *)
EXTENDS DebuggedChain, TLC

CONSTANTS l1, l2, c1, c2, x1, x2, s1, s2

Symmetry ==
    Permutations({l1, l2}) \cup Permutations({c1, c2}) \cup Permutations({x1, x2})
        \cup Permutations({s1, s2})
=============================================================================
