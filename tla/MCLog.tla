-------------------------------- MODULE MCLog --------------------------------
(* Model-checking instances of Log. *)
EXTENDS Log, TLC

CONSTANTS p1, p2, b1, b2, b3

TwoProcs == {p1, p2}
ThreeBlocks == {b1, b2, b3}
TwoValues == {0, 1}

ProcSymmetry == Permutations(Procs)

=============================================================================
