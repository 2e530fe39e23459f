---------------------------- MODULE MCArchiveRun ----------------------------
(* Small instances of ArchiveRun: two tables with one row each. *)
EXTENDS ArchiveRunProperties, TLC

CONSTANTS p1, p2, t1, t2, r1, r2

MCTableOf == (r1 :> t1) @@ (r2 :> t2)

\* A table and its row change places with the others.
Swap == (t1 :> t2) @@ (t2 :> t1) @@ (r1 :> r2) @@ (r2 :> r1)

Symmetry == Permutations(Run) \cup {f @@ Swap : f \in Permutations(Run)}
=============================================================================
