-------------------------------- MODULE MCProc --------------------------------
(* Model-checking instances of Proc. *)
EXTENDS Proc

LiveKills == 2 .. MaxPid
OneTick == {1}
=============================================================================
