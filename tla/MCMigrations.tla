--------------------------- MODULE MCMigrations ---------------------------
(* Values of the constants of Migrations for model checking.               *)
EXTENDS Migrations

CONSTANTS c1, c2, t1

Builds == [p \in Proc |-> IF p = c2 THEN Newest - 1 ELSE Newest]
==============================================================================
