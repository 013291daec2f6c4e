----------------------------- MODULE CountingSem -----------------------------
(***************************************************************************)
(* The abstract counting semaphore that struct counting_semaphore of       *)
(* uthread.h is meant to be: down waits until the count is positive and    *)
(* takes one unit, up adds one unit, and both take effect at one instant   *)
(* between the call and the return.                                        *)
(***************************************************************************)
EXTENDS Integers

CONSTANTS Threads, InitVal

VARIABLES
    count,  \* the units available
    call    \* what each thread is doing: outside, in a call, or returning

Init == count = InitVal /\ call = [t \in Threads |-> "outside"]

CallDown(t) == /\ call[t] = "outside"
               /\ call' = [call EXCEPT ![t] = "down"]
               /\ UNCHANGED count

Down(t) == /\ call[t] = "down"
           /\ count > 0
           /\ count' = count - 1
           /\ call' = [call EXCEPT ![t] = "returning"]

CallUp(t) == /\ call[t] = "outside"
             /\ call' = [call EXCEPT ![t] = "up"]
             /\ UNCHANGED count

Up(t) == /\ call[t] = "up"
         /\ count' = count + 1
         /\ call' = [call EXCEPT ![t] = "returning"]

Return(t) == /\ call[t] = "returning"
             /\ call' = [call EXCEPT ![t] = "outside"]
             /\ UNCHANGED count

Next == \E t \in Threads :
            CallDown(t) \/ Down(t) \/ CallUp(t) \/ Up(t) \/ Return(t)

Spec == Init /\ [][Next]_<<count, call>>

(* A thread that waits in down gets a unit if units keep becoming          *)
(* available; up and the way out of a call never wait.                     *)
Fairness == \A t \in Threads : /\ SF_<<count, call>>(Down(t))
                               /\ WF_<<count, call>>(Up(t))
                               /\ WF_<<count, call>>(Return(t))

FairSpec == Spec /\ Fairness

=============================================================================
