----------------------------- MODULE AtomicDisk -----------------------------
(***************************************************************************)
(* What the logging layer of log.c promises the file system: the blocks    *)
(* written between begin_op and end_op reach the disk together with those  *)
(* of the operations that ran at the same time, all or nothing, whenever   *)
(* the machine crashes.                                                    *)
(***************************************************************************)
CONSTANTS Procs, Blocks, Values

VARIABLES
    memory,     \* the contents that running operations read and write
    durable,    \* the contents that survive a crash
    active      \* processes inside an operation

vars == <<memory, durable, active>>

Init == /\ durable \in [Blocks -> Values]
        /\ memory = durable
        /\ active = {}

Begin(p) == /\ p \notin active
            /\ active' = active \cup {p}
            /\ UNCHANGED <<memory, durable>>

Write(p, b) == /\ p \in active
               /\ \E v \in Values : memory' = [memory EXCEPT ![b] = v]
               /\ UNCHANGED <<durable, active>>

End(p) == /\ p \in active
          /\ active' = active \ {p}
          /\ UNCHANGED <<memory, durable>>

Commit == /\ active = {}
          /\ durable' = memory
          /\ UNCHANGED <<memory, active>>

Crash == /\ memory' = durable
         /\ active' = {}
         /\ UNCHANGED durable

Next == \/ \E p \in Procs : \/ Begin(p) \/ End(p)
                            \/ \E b \in Blocks : Write(p, b)
        \/ Commit \/ Crash

Spec == Init /\ [][Next]_vars

=============================================================================
