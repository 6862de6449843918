--------------------------- MODULE MCRefreshTokens ---------------------------
(* Values of the constants of RefreshTokens for model checking.            *)
EXTENDS RefreshTokens, TLC

CONSTANTS u1, u2, c1, c2

OneClient == [u \in User |-> c1]
TwoClients == (u1 :> c1) @@ (u2 :> c2)
Symmetric == Permutations(Slot) \cup Permutations(Op)
==============================================================================
