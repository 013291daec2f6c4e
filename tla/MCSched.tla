------------------------------- MODULE MCSched -------------------------------
(* Model-checking instances of Sched. *)
EXTENDS Sched

CONSTANTS c1, c2

TwoCpus == {c1, c2}

=============================================================================
