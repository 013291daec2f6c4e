------------------------------- MODULE UThread -------------------------------
(***************************************************************************)
(* The user-level thread library of uthread.c: the thread table, the       *)
(* round-robin scheduler that runs as the SIGALRM handler, create, exit,   *)
(* join, sleep, and the binary semaphores with their waiting rings.        *)
(*                                                                         *)
(* All threads share one process.  A library call starts with alarm(0),    *)
(* which cancels the running alarm and a pending SIGALRM, and ends with    *)
(* alarm(UTHREAD_QUANTA) or with sigsend(self, SIGALRM), which enters the  *)
(* scheduler on the way back from that system call.  Between the two no    *)
(* other thread can run, so a call is one step; the scheduler's scan over  *)
(* the table takes one step per slot because time passes while it spins.   *)
(* Threads call the library in any order the guards below allow.           *)
(***************************************************************************)
EXTENDS Integers, Sequences, FiniteSets

CONSTANTS
    MAX_UTHREADS,   \* slots of u_table
    Sems,           \* descriptors of the semaphores the program allocated
    MallocFails,    \* malloc of a stack may fail
    UTHREAD_QUANTA, \* ticks a thread runs before SIGALRM
    MaxTid,         \* bound: threads created over a run
    MaxTime         \* bound: sleepers wake by this time; the model's clock
                    \* stays there once it is reached

Assumptions ==
    /\ MAX_UTHREADS \in Nat \ {0} /\ UTHREAD_QUANTA \in Nat \ {0}
    /\ MallocFails \in BOOLEAN /\ MaxTid \in Nat /\ MaxTime \in Nat

VARIABLES
    state, tid, wakeup,     \* fields of u_table[slot]
    joining,                \* joiningList[0 .. numOfJoining-1] of a slot
    stack,                  \* slots with t_stack # 0
    nexttid, numOfThreads,
    current,                \* slot of the running thread
    mode,                   \* "user", "scan" (in the scheduler's while loop)
                            \* or "exited" (exit() was called)
    ut,                     \* slot the scheduler looks at
    alarm,                  \* ticks until the alarm expires, 0 if it is off
    pending,                \* SIGALRM is pending
    now,                    \* uptime()
    bsem                    \* bsemtable

tableVars == <<tid, joining, nexttid, numOfThreads>>
vars == <<state, tid, wakeup, joining, stack, nexttid, numOfThreads,
          current, mode, ut, alarm, pending, now, bsem>>

Slots == 0 .. MAX_UTHREADS - 1
NoThread == -1

Live(i) == state[i] # "UNUSED"
NextSlot(i) == (i + 1) % MAX_UTHREADS
InUser == mode = "user"

-----------------------------------------------------------------------------
AlarmOff == alarm' = 0 /\ pending' = FALSE
AlarmOn == alarm' = UTHREAD_QUANTA /\ pending' = FALSE

(* Mutant: the scan starts at the beginning of the table every time. *)
EnterSchedule_FromStart(st) ==
    /\ state' = IF st[current] = "RUNNING"
                THEN [st EXCEPT ![current] = "RUNNABLE"]
                ELSE st
    /\ mode' = "scan"
    /\ ut' = 0
    /\ AlarmOff
    /\ UNCHANGED current

(* The head of uthread_schedule, entered when SIGALRM is delivered: st is  *)
(* the thread table as the caller leaves it.                               *)
EnterSchedule(st) ==
    /\ state' = IF st[current] = "RUNNING"
                THEN [st EXCEPT ![current] = "RUNNABLE"]
                ELSE st
    /\ mode' = "scan"
    /\ ut' = NextSlot(current)
    /\ AlarmOff
    /\ UNCHANGED current

(* A call that returns with alarm(UTHREAD_QUANTA): a new quantum starts. *)
ReturnWithAlarm == AlarmOn /\ UNCHANGED <<mode, ut, current>>

(* Mutant: wakeup = 0 is not excluded. *)
Expired_NoZeroTest(i) == state[i] = "SLEEPING" /\ wakeup[i] <= now

Expired(i) == state[i] = "SLEEPING" /\ wakeup[i] > 0 /\ wakeup[i] <= now

(* The loop ends at slot ut, which becomes the current thread. *)
Dispatch ==
    /\ mode = "scan"
    /\ state[ut] = "RUNNABLE" \/ Expired(ut)
    /\ state' = [state EXCEPT ![ut] = "RUNNING"]
    /\ wakeup' = IF Expired(ut) THEN [wakeup EXCEPT ![ut] = 0] ELSE wakeup
    /\ current' = ut
    /\ mode' = "user"
    /\ AlarmOn
    /\ UNCHANGED <<tableVars, stack, ut, now, bsem>>

(* Mutant: the stack of the thread that has just exited is freed at once. *)
Skip_FreesCurrent ==
    /\ mode = "scan"
    /\ state[ut] # "RUNNABLE" /\ ~Expired(ut)
    /\ stack' = IF ~Live(ut) /\ tid[ut] # 1 THEN stack \ {ut} ELSE stack
    /\ ut' = NextSlot(ut)
    /\ UNCHANGED <<state, wakeup, tableVars, current, mode, alarm, pending,
                   now, bsem>>

(* The loop passes slot ut and frees the stack of a thread that is gone,   *)
(* unless the scheduler itself runs on that stack.                         *)
Skip ==
    /\ mode = "scan"
    /\ state[ut] # "RUNNABLE" /\ ~Expired(ut)
    /\ stack' = IF ~Live(ut) /\ tid[ut] # tid[current] /\ tid[ut] # 1
                THEN stack \ {ut} ELSE stack
    /\ ut' = NextSlot(ut)
    /\ UNCHANGED <<state, wakeup, tableVars, current, mode, alarm, pending,
                   now, bsem>>

(* SIGALRM reaches the running thread. *)
Preempt ==
    /\ InUser /\ pending
    /\ EnterSchedule(state)
    /\ UNCHANGED <<wakeup, tableVars, stack, now, bsem>>

(* A timer tick of the kernel: the clock and the process's alarm advance.  *)
Tick ==
    /\ mode # "exited"
    /\ now < MaxTime \/ alarm > 0
    /\ now' = IF now < MaxTime THEN now + 1 ELSE now
    /\ alarm' = IF alarm > 0 THEN alarm - 1 ELSE 0
    /\ pending' = (pending \/ alarm = 1)
    /\ UNCHANGED <<state, wakeup, tableVars, stack, current, mode, ut, bsem>>

-----------------------------------------------------------------------------
(* uthread_create *)

FirstUnused(i) == ~Live(i) /\ \A j \in 0 .. i - 1 : Live(j)

(* The fields set at label found, before the stack is looked at. *)
Claim(i) == /\ numOfThreads' = numOfThreads + 1
            /\ tid' = [tid EXCEPT ![i] = nexttid]
            /\ nexttid' = nexttid + 1
            /\ joining' = [joining EXCEPT ![i] = <<>>]

Create ==
    /\ InUser /\ nexttid <= MaxTid
    /\ \E i \in Slots :
          /\ FirstUnused(i)
          /\ Claim(i)
          /\ stack' = stack \cup {i}
          /\ state' = [state EXCEPT ![i] = "RUNNABLE"]
    /\ ReturnWithAlarm
    /\ UNCHANGED <<wakeup, now, bsem>>

(* malloc fails: the slot stays unused, numOfThreads stays incremented. *)
CreateNoMemory ==
    /\ MallocFails
    /\ InUser /\ nexttid <= MaxTid
    /\ \E i \in Slots \ stack : FirstUnused(i) /\ Claim(i)
    /\ EnterSchedule(state)
    /\ UNCHANGED <<wakeup, stack, now, bsem>>

(* The table is full: the call returns with the alarm still off. *)
CreateNoSlot ==
    /\ InUser
    /\ \A i \in Slots : Live(i)
    /\ AlarmOff
    /\ UNCHANGED <<state, wakeup, tableVars, stack, current, mode, ut, now,
                   bsem>>

-----------------------------------------------------------------------------
(* uthread_exit: the last thread ends the process, any other one makes the *)
(* threads that join it runnable and leaves its slot.                      *)

Joiners(i) == {joining[i][k] : k \in 1 .. Len(joining[i])}

ExitProcess ==
    /\ InUser /\ numOfThreads - 1 <= 0
    /\ numOfThreads' = numOfThreads - 1
    /\ stack' = {}
    /\ mode' = "exited"
    /\ AlarmOff
    /\ UNCHANGED <<state, tid, wakeup, joining, nexttid, current, ut, now,
                   bsem>>

ExitThread ==
    /\ InUser /\ numOfThreads - 1 > 0
    /\ numOfThreads' = numOfThreads - 1
    /\ EnterSchedule([i \in Slots |->
                        IF i = current THEN "UNUSED"
                        ELSE IF i \in Joiners(current) THEN "RUNNABLE"
                        ELSE state[i]])
    /\ UNCHANGED <<tid, wakeup, joining, stack, nexttid, now, bsem>>

-----------------------------------------------------------------------------
(* uthread_join *)

JoinWait(n) ==
    /\ InUser
    /\ \E i \in Slots :
          /\ tid[i] = n /\ Live(i)
          /\ \A j \in 0 .. i - 1 : ~(tid[j] = n /\ Live(j))
          /\ joining' = [joining EXCEPT ![i] = Append(@, current)]
    /\ EnterSchedule([state EXCEPT ![current] = "SLEEPING"])
    /\ UNCHANGED <<tid, wakeup, stack, nexttid, numOfThreads, now, bsem>>

JoinNoThread(n) ==
    /\ InUser
    /\ \A i \in Slots : ~(tid[i] = n /\ Live(i))
    /\ ReturnWithAlarm
    /\ UNCHANGED <<state, wakeup, tableVars, stack, now, bsem>>

-----------------------------------------------------------------------------
(* uthread_sleep *)

(* ticks > 0.  Programs do not call uthread_sleep(0), which bsem_down uses *)
(* to wait for bsem_up.                                                    *)
Sleep(ticks) ==
    /\ InUser /\ now + ticks <= MaxTime
    /\ wakeup' = [wakeup EXCEPT ![current] = ticks + now]
    /\ EnterSchedule([state EXCEPT ![current] = "SLEEPING"])
    /\ UNCHANGED <<tableVars, stack, now, bsem>>

(* ticks < 0 returns -1, through the scheduler. *)
SleepNegative ==
    /\ InUser
    /\ EnterSchedule(state)
    /\ UNCHANGED <<wakeup, tableVars, stack, now, bsem>>

-----------------------------------------------------------------------------
(* bsem_down and bsem_up on the ring list[toOut .. insert-1] *)

FreeSem == [s |-> 1, insert |-> 0, toOut |-> 0, numOfWatingThreads |-> 0,
            list |-> [k \in Slots |-> NoThread]]

BsemTake(d) ==
    /\ InUser /\ bsem[d].s = 1
    /\ bsem' = [bsem EXCEPT ![d].s = 0]
    /\ ReturnWithAlarm
    /\ UNCHANGED <<state, wakeup, tableVars, stack, now>>

BsemWait(d) ==
    /\ InUser /\ bsem[d].s = 0
    /\ bsem' = [bsem EXCEPT ![d].list[bsem[d].insert] = current,
                            ![d].insert = NextSlot(@),
                            ![d].numOfWatingThreads = @ + 1]
    /\ wakeup' = [wakeup EXCEPT ![current] = 0]
    /\ EnterSchedule([state EXCEPT ![current] = "SLEEPING"])
    /\ UNCHANGED <<tableVars, stack, now>>

(* The early return of bsem_up leaves the alarm off. *)
BsemUpFree(d) ==
    /\ InUser /\ bsem[d].numOfWatingThreads = 0 /\ bsem[d].s = 1
    /\ AlarmOff
    /\ UNCHANGED <<state, wakeup, tableVars, stack, current, mode, ut, now,
                   bsem>>

BsemRelease(d) ==
    /\ InUser /\ bsem[d].numOfWatingThreads = 0 /\ bsem[d].s = 0
    /\ bsem' = [bsem EXCEPT ![d].s = 1]
    /\ ReturnWithAlarm
    /\ UNCHANGED <<state, wakeup, tableVars, stack, now>>

(* Mutant: bsem_up sets s to 1 although it wakes a waiter. *)
BsemHandOff_AlsoFree(d) ==
    /\ InUser /\ bsem[d].numOfWatingThreads > 0
    /\ bsem' = [bsem EXCEPT ![d].list[bsem[d].toOut] = NoThread,
                            ![d].toOut = NextSlot(@),
                            ![d].numOfWatingThreads = @ - 1,
                            ![d].s = 1]
    /\ state' = [state EXCEPT ![bsem[d].list[bsem[d].toOut]] = "RUNNABLE"]
    /\ ReturnWithAlarm
    /\ UNCHANGED <<wakeup, tableVars, stack, now>>

BsemHandOff(d) ==
    /\ InUser /\ bsem[d].numOfWatingThreads > 0
    /\ bsem' = [bsem EXCEPT ![d].list[bsem[d].toOut] = NoThread,
                            ![d].toOut = NextSlot(@),
                            ![d].numOfWatingThreads = @ - 1]
    /\ state' = [state EXCEPT ![bsem[d].list[bsem[d].toOut]] = "RUNNABLE"]
    /\ ReturnWithAlarm
    /\ UNCHANGED <<wakeup, tableVars, stack, now>>

-----------------------------------------------------------------------------
(* uthread_init: the main thread is in slot 0, on the stack of the         *)
(* process, and has just been sent its first SIGALRM.                      *)
Init ==
    /\ state = [i \in Slots |-> IF i = 0 THEN "RUNNABLE" ELSE "UNUSED"]
    /\ tid = [i \in Slots |-> IF i = 0 THEN 1 ELSE 0]
    /\ wakeup = [i \in Slots |-> 0]
    /\ joining = [i \in Slots |-> <<>>]
    /\ stack = {}
    /\ nexttid = 2
    /\ numOfThreads = 1
    /\ current = 0
    /\ mode = "scan"
    /\ ut = NextSlot(0)
    /\ alarm = 0 /\ pending = FALSE
    /\ now = 0
    /\ bsem = [d \in Sems |-> FreeSem]

Schedule == Dispatch \/ Skip

Call == \/ Create \/ CreateNoMemory \/ CreateNoSlot
        \/ ExitProcess \/ ExitThread
        \/ \E n \in 1 .. MaxTid : JoinWait(n) \/ JoinNoThread(n)
        \/ \E ticks \in 1 .. MaxTime : Sleep(ticks)
        \/ SleepNegative
        \/ \E d \in Sems : \/ BsemTake(d) \/ BsemWait(d) \/ BsemUpFree(d)
                           \/ BsemRelease(d) \/ BsemHandOff(d)

Next == Schedule \/ Preempt \/ Tick \/ Call

Spec == Init /\ [][Next]_vars

(* The scheduler's loop runs on, time passes, and a pending SIGALRM is     *)
(* delivered; nothing makes a thread call the library.                     *)
Fairness == WF_vars(Schedule) /\ WF_vars(Preempt) /\ WF_vars(Tick)

FairSpec == Spec /\ Fairness

-----------------------------------------------------------------------------
(* Properties *)

(* What a thread that sleeps may be waiting for. *)
InRing(d, i) == \E k \in Slots : bsem[d].list[k] = i
Reasons(i) == {<<"sem", d>> : d \in {d \in Sems : InRing(d, i)}}
              \cup {<<"join", j>> : j \in {j \in Slots :
                                            Live(j) /\ i \in Joiners(j)}}
              \cup {<<"time", k>> : k \in {k \in {wakeup[i]} : k > 0}}

(* A thread sleeps exactly when one waker still has it on record: one      *)
(* semaphore's ring, one live thread's joining list, or the clock.  So no  *)
(* sleeper is forgotten, and bsem_up and uthread_exit, which set the state *)
(* of the thread they find to T_RUNNABLE without looking at it, never hit  *)
(* a thread that is not waiting for them.  The stack that the running code *)
(* stands on is never freed or given away, also when the scheduler runs on *)
(* the stack of a thread that has exited; and the thread that ends the     *)
(* process is the last one alive.                                          *)
ThreadTableConsistent ==
    /\ \A i \in Slots :
          Cardinality(Reasons(i)) = (IF state[i] = "SLEEPING" THEN 1 ELSE 0)
    /\ IF mode = "exited"
       THEN \A i \in Slots \ {current} : ~Live(i)
       ELSE \A i \in Slots : (Live(i) \/ i = current) /\ tid[i] # 1 => i \in stack

(* uthread_join(tid) returns 0 only after that thread has exited. *)
JoinWaitsForExit ==
    [][\A i, j \in Slots :
          Live(i) /\ j \in Joiners(i) /\ state[j] = "SLEEPING"
              => (state'[j] = "SLEEPING" \/ state'[i] = "UNUSED")]_vars

(* The waiting ring of a semaphore as the queue it stands for. *)
RingQueue(b) == [k \in 1 .. b.numOfWatingThreads |->
                    b.list[(b.toOut + k - 1) % MAX_UTHREADS]]

Abstract(d) == INSTANCE BinSem WITH Threads <- Slots, s <- bsem[d].s,
                                    queue <- RingQueue(bsem[d])

(* bsem_down and bsem_up implement a binary semaphore with first-in        *)
(* first-out hand-off, across every wrap-around of insert and toOut.       *)
RingIsBinSem ==
    /\ \A d \in Sems : Abstract(d)!Init
    /\ [][\A d \in Sems : \/ Abstract(d)!Next
                          \/ UNCHANGED <<bsem[d].s, RingQueue(bsem[d])>>]_vars

(* The calls that return to their caller without passing the scheduler:    *)
(* each starts a new quantum, or leaves the alarm off.                     *)
StayingCall == \/ Create \/ CreateNoSlot
               \/ \E n \in 1 .. MaxTid : JoinNoThread(n)
               \/ \E d \in Sems : \/ BsemTake(d) \/ BsemUpFree(d)
                                  \/ BsemRelease(d) \/ BsemHandOff(d)

(* A call has returned with the alarm off: there is no preemption until    *)
(* the running thread makes another call.                                  *)
AlarmLost == InUser /\ alarm = 0 /\ ~pending

(* A runnable thread gets to run, and a thread in uthread_sleep(ticks)     *)
(* returns from it, unless running threads keep restarting their quantum   *)
(* by calling the library again and again, or one goes on after a call     *)
(* that has lost the alarm.                                                *)
ThreadsProgress ==
    \/ []<><<StayingCall>>_vars \/ <>[]AlarmLost
    \/ \A i \in Slots : /\ state[i] = "RUNNABLE" ~> state[i] = "RUNNING"
                        /\ wakeup[i] > 0 ~> state[i] = "RUNNING"

=============================================================================
