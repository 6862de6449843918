--------------------------- MODULE MCAccountTokens ---------------------------
(* Values of the constants of AccountTokens for model checking.            *)
EXTENDS AccountTokens, TLC

CONSTANTS u1, u2, c1, c2

OfFirst == [u \in User |-> c1]
Symmetric == Permutations(Slot) \cup Permutations(Password)
==============================================================================
