---------------------------- MODULE MCGeneration ----------------------------
(* Attempts are told apart by nothing; the runs with symmetry check safety *)
(* only.                                                                   *)
EXTENDS Generation, TLC

CONSTANT ann

Costs == [m \in Requesters |-> IF m = ann THEN 1 ELSE 2]

Interchangeable == Permutations(Attempts)
=============================================================================
