-------------------------------- MODULE MCPipe --------------------------------
(* Model-checking instances of Pipe. *)
EXTENDS Pipe, TLC

CONSTANTS p1, p2, p3

TwoReaders == {p1, p2}
TwoWriters == {p2, p3}
TwoBytes == {0, 1}
ShortAndLong == {1, 3}
=============================================================================
