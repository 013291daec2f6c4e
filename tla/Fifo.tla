-------------------------------- MODULE Fifo --------------------------------
(***************************************************************************)
(* What a pipe promises about its bytes: they come out once each, in the   *)
(* order in which they went in, and at most Size of them are inside.       *)
(***************************************************************************)
EXTENDS Naturals, Sequences

CONSTANTS Bytes, Size

VARIABLES
    queue,          \* the bytes inside
    got             \* the byte taken out last

Init == queue = <<>> /\ got \in Bytes

Put(b) == Len(queue) < Size /\ queue' = Append(queue, b) /\ UNCHANGED got

Get == queue # <<>> /\ got' = Head(queue) /\ queue' = Tail(queue)

Next == (\E b \in Bytes : Put(b)) \/ Get

Spec == Init /\ [][Next]_<<queue, got>>

=============================================================================
