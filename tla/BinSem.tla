------------------------------- MODULE BinSem -------------------------------
(***************************************************************************)
(* What one binary semaphore of uthread.c promises its callers: a flag s   *)
(* and a first-in first-out queue of the threads that sleep in bsem_down.  *)
(* bsem_up hands the semaphore directly to the longest waiter: s stays 0   *)
(* and the waiter returns from bsem_down as the new holder.                *)
(*                                                                         *)
(* Both operations run with SIGALRM switched off (alarm(0) ... alarm or    *)
(* sigsend), so each one is a single step for every other thread.          *)
(***************************************************************************)
EXTENDS Naturals, Sequences

CONSTANT Threads

VARIABLES
    s,      \* 1 when the semaphore is free, 0 when it is taken
    queue   \* the threads asleep in bsem_down, longest waiter first

Waiting(t) == \E i \in 1..Len(queue) : queue[i] = t

Init == s = 1 /\ queue = <<>>

Take == s = 1 /\ s' = 0 /\ UNCHANGED queue

Wait(t) == s = 0 /\ queue' = Append(queue, t) /\ UNCHANGED s

(* bsem_down, called by a thread that is not itself asleep in it *)
Down(t) == ~Waiting(t) /\ (Take \/ Wait(t))

UpFree == s = 1 /\ queue = <<>> /\ UNCHANGED <<s, queue>>

Release == s = 0 /\ queue = <<>> /\ s' = 1 /\ UNCHANGED queue

HandOff == queue # <<>> /\ queue' = Tail(queue) /\ UNCHANGED s

(* bsem_up *)
Up == UpFree \/ Release \/ HandOff

Next == (\E t \in Threads : Down(t)) \/ Up

Spec == Init /\ [][Next]_<<s, queue>>

=============================================================================
