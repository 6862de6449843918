------------------------------ MODULE MCTenants ------------------------------
(* Tenants for model checking: requests, emails and permissions are          *)
(* interchangeable.                                                          *)
EXTENDS Tenants, TLC

Symmetric == Permutations(Slot) \cup Permutations(Email)
                 \cup Permutations(Management)
=============================================================================
