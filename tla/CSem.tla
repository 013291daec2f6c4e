-------------------------------- MODULE CSem --------------------------------
(***************************************************************************)
(* The counting semaphore of uthread.c: down() and up() as the threads of  *)
(* one process run them, built from two binary semaphores.  s1 guards val; *)
(* s2 is the gate that down() has to pass and is open only while val > 0.  *)
(*                                                                         *)
(* A step is one call of bsem_down or bsem_up, or one access to val: the   *)
(* timer signal may switch threads between any two of them.  A thread that *)
(* sleeps in bsem_down has its pc at the statement after the call and is   *)
(* in the queue of the semaphore until bsem_up takes it out.               *)
(***************************************************************************)
EXTENDS Integers, Sequences

CONSTANTS
    Threads,    \* the user-level threads that share the semaphore
    InitVal,    \* the argument of csem_alloc
    MaxVal      \* bound: no thread calls up() once val has reached it

ASSUME InitValAssumption == InitVal \in Nat
ASSUME MaxValAssumption == MaxVal \in Nat

VARIABLES
    val,        \* sem->val
    s1, q1,     \* bsemtable[sem->s1]: its s and the threads in its list
    s2, q2,     \* bsemtable[sem->s2]
    pc          \* the next statement of each thread

vars == <<val, s1, q1, s2, q2, pc>>

S1 == INSTANCE BinSem WITH s <- s1, queue <- q1
S2 == INSTANCE BinSem WITH s <- s2, queue <- q2

DownLabels == {"d_s2", "d_s1", "d_dec", "d_if", "d_up2", "d_up1"}
UpLabels == {"u_s1", "u_inc", "u_if", "u_up2", "u_up1"}
Labels == {"idle"} \cup DownLabels \cup UpLabels

Asleep(t) == S1!Waiting(t) \/ S2!Waiting(t)

(* The calling thread is awake, at statement from, and goes on to to. *)
Goto(t, from, to) == /\ pc[t] = from
                     /\ ~Asleep(t)
                     /\ pc' = [pc EXCEPT ![t] = to]

(* csem_alloc: both semaphores are allocated free; for init_val < 1 the    *)
(* allocating thread closes the gate.                                      *)
Init == /\ val = InitVal
        /\ s1 = 1 /\ q1 = <<>>
        /\ s2 = (IF InitVal < 1 THEN 0 ELSE 1) /\ q2 = <<>>
        /\ pc = [t \in Threads |-> "idle"]

-----------------------------------------------------------------------------
(* down(sem) *)

CallDown(t) == /\ Goto(t, "idle", "d_s2")
               /\ UNCHANGED <<val, s1, q1, s2, q2>>

DownGate(t) == /\ Goto(t, "d_s2", "d_s1")
               /\ S2!Down(t)
               /\ UNCHANGED <<val, s1, q1>>

DownLock(t) == /\ Goto(t, "d_s1", "d_dec")
               /\ S1!Down(t)
               /\ UNCHANGED <<val, s2, q2>>

DownDec(t) == /\ Goto(t, "d_dec", "d_if")
              /\ val' = val - 1
              /\ UNCHANGED <<s1, q1, s2, q2>>

(* Mutant: down() never reopens the gate for the next waiter. *)
DownTest_NoReopen(t) == /\ Goto(t, "d_if", "d_up1")
                        /\ UNCHANGED <<val, s1, q1, s2, q2>>

DownTest(t) == /\ Goto(t, "d_if", IF val > 0 THEN "d_up2" ELSE "d_up1")
               /\ UNCHANGED <<val, s1, q1, s2, q2>>

DownReopen(t) == /\ Goto(t, "d_up2", "d_up1")
                 /\ S2!Up
                 /\ UNCHANGED <<val, s1, q1>>

DownUnlock(t) == /\ Goto(t, "d_up1", "idle")
                 /\ S1!Up
                 /\ UNCHANGED <<val, s2, q2>>

-----------------------------------------------------------------------------
(* up(sem) *)

CallUp(t) == /\ val < MaxVal
             /\ Goto(t, "idle", "u_s1")
             /\ UNCHANGED <<val, s1, q1, s2, q2>>

UpLock(t) == /\ Goto(t, "u_s1", "u_inc")
             /\ S1!Down(t)
             /\ UNCHANGED <<val, s2, q2>>

UpInc(t) == /\ Goto(t, "u_inc", "u_if")
            /\ val' = val + 1
            /\ UNCHANGED <<s1, q1, s2, q2>>

(* Mutant: up() tests for val = 0, as if before the increment. *)
UpTest_Stale(t) == /\ Goto(t, "u_if", IF val = 0 THEN "u_up2" ELSE "u_up1")
                   /\ UNCHANGED <<val, s1, q1, s2, q2>>

UpTest(t) == /\ Goto(t, "u_if", IF val = 1 THEN "u_up2" ELSE "u_up1")
             /\ UNCHANGED <<val, s1, q1, s2, q2>>

UpOpen(t) == /\ Goto(t, "u_up2", "u_up1")
             /\ S2!Up
             /\ UNCHANGED <<val, s1, q1>>

UpUnlock(t) == /\ Goto(t, "u_up1", "idle")
               /\ S1!Up
               /\ UNCHANGED <<val, s2, q2>>

-----------------------------------------------------------------------------
(* The statements of a call that is under way; starting a call is up to    *)
(* the program that uses the library.                                      *)
Down(t) == \/ DownGate(t) \/ DownLock(t) \/ DownDec(t)
           \/ DownTest(t) \/ DownReopen(t) \/ DownUnlock(t)

Up(t) == UpLock(t) \/ UpInc(t) \/ UpTest(t) \/ UpOpen(t) \/ UpUnlock(t)

Next == \E t \in Threads : CallDown(t) \/ CallUp(t) \/ Down(t) \/ Up(t)

Spec == Init /\ [][Next]_vars

(* The threads of the program start no more calls from some point on.      *)
Settled == <>[][~\E t \in Threads : CallDown(t) \/ CallUp(t)]_vars

(* uthread_schedule is round robin and preempts with SIGALRM, but bsem_down *)
(* and bsem_up turn the alarm off and on again, which starts a new quantum: *)
(* a thread that calls down() and up() over and over may keep the processor *)
(* for good.  Once the threads have settled, each of them that is awake     *)
(* inside a call runs on, since whoever computes is preempted.              *)
Fairness == Settled => \A t \in Threads : WF_vars(Down(t) \/ Up(t))

FairSpec == Spec /\ Fairness

-----------------------------------------------------------------------------
(* Properties *)

(* The states that the C types allow.  val is an int and is not bounded    *)
(* below by its type.                                                      *)
TypeOK == /\ val \in Int
          /\ s1 \in {0, 1} /\ q1 \in Seq(Threads)
          /\ s2 \in {0, 1} /\ q2 \in Seq(Threads)
          /\ pc \in [Threads -> Labels]

(* The thread is between its bsem_down(s1) and its bsem_up(s1), awake. *)
InLock(t) == /\ pc[t] \in {"d_dec", "d_if", "d_up2", "d_up1",
                          "u_inc", "u_if", "u_up2", "u_up1"}
             /\ ~S1!Waiting(t)

(* val is only ever read and written by one thread at a time, although     *)
(* bsem_up passes s1 on without ever setting it to 1.                      *)
ValIsLocked == \A t, u \in Threads : InLock(t) /\ InLock(u) => t = u

(* down() never takes a unit that is not there: the gate s2 lets a thread  *)
(* reach val-- only while val > 0, even when other threads run up() and    *)
(* down() between the gate and the decrement.                              *)
NeverOverdrawn == val >= 0

(* down() and up() never call bsem_up on a free semaphore: the early       *)
(* return of bsem_up, which leaves the alarm off and so ends preemption,   *)
(* is never taken on behalf of a counting semaphore.                       *)
NoRedundantUp == \A t \in Threads :
    /\ pc[t] \in {"d_up1", "u_up1"} => s1 = 0
    /\ pc[t] \in {"d_up2", "u_up2"} => s2 = 0

(* A thread waits at the gate only for lack of units: once nobody is awake *)
(* inside a call, the gate is open exactly when units are left, and the    *)
(* threads asleep are asleep because val = 0.                              *)
NoUnitForgotten ==
    (\A t \in Threads : pc[t] = "idle" \/ Asleep(t))
        => /\ s1 = 1
           /\ s2 = 1 <=> val > 0
           /\ q2 # <<>> => val = 0

-----------------------------------------------------------------------------
(* The inductive invariant behind the properties *)

NoDuplicates(q) == \A i, j \in 1..Len(q) : q[i] = q[j] => i = j

(* A thread in a queue has called bsem_down, and is there once. *)
QueuesInv ==
    /\ \A t \in Threads : S1!Waiting(t) => pc[t] \in {"d_dec", "u_inc"}
    /\ \A t \in Threads : S2!Waiting(t) => pc[t] = "d_s1"
    /\ NoDuplicates(q1) /\ NoDuplicates(q2)

(* s1 is taken exactly when some thread is inside, and then by one only. *)
LockInv ==
    /\ s1 = 1 => q1 = <<>>
    /\ s1 = 0 => \E t \in Threads : InLock(t)
    /\ \A t \in Threads : InLock(t) => s1 = 0
    /\ ValIsLocked

(* The thread is entitled to the unit it came through the gate for, or     *)
(* has yet to open the gate for the next one.                              *)
HasToken(t) ==
    \/ pc[t] = "d_s1" /\ ~S2!Waiting(t)
    \/ pc[t] \in {"d_dec", "d_up2", "u_up2"}
    \/ pc[t] = "d_if" /\ val > 0
    \/ pc[t] = "u_if" /\ val = 1

GateInv ==
    /\ s2 = 1 => q2 = <<>> /\ val > 0
    /\ \A t \in Threads : HasToken(t) => s2 = 0 /\ val > 0
    /\ \A t, u \in Threads : HasToken(t) /\ HasToken(u) => t = u
    /\ val > 0 /\ s2 = 0 => \E t \in Threads : HasToken(t)
    /\ val >= 0

(* The inductive invariant of down() and up(): while val > 0 there is one  *)
(* token, either the open gate or one thread on its way from the gate to   *)
(* val--, or on its way to open the gate.  The properties above are not    *)
(* inductive without it.                                                   *)
IInv == TypeOK /\ QueuesInv /\ LockInv /\ GateInv

-----------------------------------------------------------------------------
(* The abstract semaphore: val is the count, and a call takes effect when  *)
(* it changes val.                                                         *)

AbstractCall(t) ==
    CASE pc[t] = "idle" -> "outside"
      [] pc[t] \in {"d_s2", "d_s1", "d_dec"} -> "down"
      [] pc[t] \in {"u_s1", "u_inc"} -> "up"
      [] OTHER -> "returning"

Abstract == INSTANCE CountingSem
                WITH count <- val, call <- [t \in Threads |-> AbstractCall(t)]

(* down() and up() implement a counting semaphore: each call takes effect  *)
(* in one step, down() only with a unit available.  When the threads start *)
(* no more calls, the calls under way complete: a unit that is left goes   *)
(* to a thread that waits in down(), and up() does not block for good.     *)
(* While some thread keeps calling, the others are promised nothing: each  *)
(* call starts a new quantum (uthread.c:406, 426, 437).                    *)
IsCountingSemaphore == Abstract!Spec /\ (Settled => Abstract!Fairness)

=============================================================================
