--------------------------- MODULE MCAdvancedMining ---------------------------
(* Instances of AdvancedMining for TLC.                                    *)
EXTENDS AdvancedMining, TLC

CONSTANTS x, c1, k1, k2, m1, m2

(* One row, that keeps x from being committed.                             *)
CommitOfX == {<<x, "commit">>}

(* Bounds the states: either users deny something and one block is asked   *)
(* for, or nothing is denied and one mining may follow another.  Handlers  *)
(* change none of these, so that it takes no step from them.               *)
OneDenied == asked' > 1 => denylist' = {} /\ deny' \in {Null, {}}

MCSpec == Init /\ [][Next /\ OneDenied]_vars /\ Fairness
=============================================================================
