--------------------------- MODULE MCRefreshClient ---------------------------
(* Values of the constants of RefreshClient for model checking.            *)
EXTENDS RefreshClient, TLC

CONSTANTS u1, c1

OneClient == [u \in User |-> c1]
Symmetric == Permutations(Op)
==============================================================================
