---------------------------- MODULE MCLoginGuard ----------------------------
(* LoginGuard for model checking: requests and accounts are interchangeable. *)
EXTENDS LoginGuard, TLC

Symmetric == Permutations(Writer) \cup Permutations(Account)
=============================================================================
