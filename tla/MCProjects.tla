------------------------------ MODULE MCProjects ------------------------------
(* Instances of Projects for TLC.                                          *)
EXTENDS Projects, TLC

CONSTANTS t1, t2, tx

(* The setting that is offered to the second project.                      *)
Typed == {[rpc |-> 8117, net |-> 8118, indexer |-> 8119]}

Symmetry == Permutations(Thread)
=============================================================================
