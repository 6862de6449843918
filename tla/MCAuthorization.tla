--------------------------- MODULE MCAuthorization ---------------------------
(* Values of the constants of Authorization for model checking.  The       *)
(* second client has a catalog of its own with the same name in it.        *)
EXTENDS Authorization, TLC

CONSTANTS c1, c2, u1, a1, r1, r2, read1, all1, read2

Owners == [x \in Principal \cup Role \cup Permission |->
             IF x \in {r2, read2} THEN c2 ELSE c1]
Names == [q \in Permission |->
            IF q = all1 THEN <<"users", "*">> ELSE <<"users", "read">>]
Writing == {<<"users", "write">>}
Lists == {{<<"*">>}, {<<"users", "read">>}, {<<"users", "*", "own">>}}
Symmetric == Permutations(Slot)
==============================================================================
