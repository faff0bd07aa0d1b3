------------------------- MODULE MCIndexCoordinator -------------------------
(* Two roots, one with two files and one with a single file. *)
EXTENDS IndexCoordinator

CONSTANTS r1, r2, f1, f2, f3

MCRootOf == [f \in File |-> IF f = f3 THEN r2 ELSE r1]
=============================================================================
