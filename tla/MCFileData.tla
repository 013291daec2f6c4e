----------------------------- MODULE MCFileData -----------------------------
(* Model-checking instance of FileData: a file that is open twice, another  *)
(* file, and two processes that share the three open files.                 *)
EXTENDS FileData, TLC

CONSTANTS p1, p2

TwoProcs == {p1, p2}
Symmetry == Permutations(TwoProcs)

TwoInodes == {1, 2}
ThreeFiles == {1, 2, 3}
OneTwice == [f \in ThreeFiles |-> IF f = 3 THEN 2 ELSE 1]
ShortAndLong == {1, 3}

=============================================================================
