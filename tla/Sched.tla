-------------------------------- MODULE Sched --------------------------------
(***************************************************************************)
(* Spinlocks, the per-CPU scheduler, sleep and wakeup, at the level of the *)
(* single statements that several CPUs interleave (spinlock.c, proc.c),    *)
(* with the timer interrupt that preempts a process, and with the sleep    *)
(* locks of sleeplock.c as the code that sleeps and wakes.                 *)
(*                                                                         *)
(* A context is what a CPU can execute: the kernel stack of a process, or  *)
(* the scheduler of a CPU, which is named by the CPU.  swtch changes the   *)
(* context a CPU is on.  acquire is two steps, pushcli and the xchg that   *)
(* succeeds; release with its popcli is one.                               *)
(***************************************************************************)
EXTENDS Integers, FiniteSets

CONSTANTS
    CPUs,
    BootCpu,        \* the CPU whose timer interrupt advances the clock
    NPROC           \* number of processes; all of them are in use

ASSUME CpuAssumption == BootCpu \in CPUs
ASSUME NprocAssumption == NPROC \in Nat \ {0} /\ CPUs \cap (1 .. NPROC) = {}

Procs == 1 .. NPROC
Contexts == Procs \cup CPUs
None == 0

VARIABLES
    lock,           \* the CPU that holds ptable.lock ("pt") and the
                    \* spinlock of the sleep lock ("lk"), or None
    locked,         \* sleeplock.locked
    state, chan,    \* of each process
    proc,           \* cpu->proc
    on,             \* context each CPU executes
    next,           \* loop variable of scheduler()
    ncli, intena, iflag,    \* of each CPU; iflag is FL_IF
    pc,             \* next statement of each context
    spinning,       \* the context is in acquire, past pushcli
    ret,            \* where an interrupt handler returns to, "none" outside
    intenaSaved,    \* the local variable intena of sched()
    panicked

cpuVars == <<ncli, intena, iflag>>
procVars == <<state, chan, locked>>
vars == <<lock, locked, state, chan, proc, on, next, ncli, intena, iflag, pc,
          spinning, ret, intenaSaved, panicked>>

At(c, label) == ~panicked /\ pc[on[c]] = label
Goto(c, label) == pc' = [pc EXCEPT ![on[c]] = label]

-----------------------------------------------------------------------------
(* acquire and release: the places they are called from, with the lock and *)
(* the statement that follows.                                             *)

Call(l, then) == [lk |-> l, then |-> then]

Acquires == [as_acq |-> Call("lk", "as_test"),      \* acquiresleep
             sl_acq |-> Call("pt", "sl_rel"),       \* sleep
             sl_reacq |-> Call("lk", "as_test"),
             rs_acq |-> Call("lk", "rs_clear"),     \* releasesleep
             wk_acq |-> Call("pt", "wk_scan"),      \* wakeup
             i_acq |-> Call("pt", "i_rel"),         \* updateAlarms, wakeup
             y_acq |-> Call("pt", "y_state"),       \* yield
             s_acq |-> Call("pt", "s_scan")]        \* scheduler

Releases == [as_rel |-> Call("lk", "crit"),
             sl_rel |-> Call("lk", "sl_state"),
             sl_relpt |-> Call("pt", "sl_reacq"),
             wk_rel |-> Call("pt", "rs_rel"),
             rs_rel |-> Call("lk", "user"),
             i_rel |-> Call("pt", "i_done"),
             y_rel |-> Call("pt", "iret"),
             s_rel |-> Call("pt", "s_sti"),
             forkret |-> Call("pt", "iret")]

(* acquire: pushcli, and the check that this CPU does not hold the lock. *)
Pushcli(c) ==
    /\ ~panicked /\ pc[on[c]] \in DOMAIN Acquires /\ ~spinning[on[c]]
    /\ iflag' = [iflag EXCEPT ![c] = FALSE]
    /\ intena' = IF ncli[c] = 0 THEN [intena EXCEPT ![c] = iflag[c]] ELSE intena
    /\ ncli' = [ncli EXCEPT ![c] = @ + 1]
    /\ panicked' = (lock[Acquires[pc[on[c]]].lk] = c)
    /\ spinning' = [spinning EXCEPT ![on[c]] = TRUE]
    /\ UNCHANGED <<lock, procVars, proc, on, next, pc, ret, intenaSaved>>

(* acquire: the xchg that finds the lock free. *)
Xchg(c) ==
    /\ ~panicked /\ spinning[on[c]]
    /\ LET call == Acquires[pc[on[c]]]
       IN  /\ lock[call.lk] = None
           /\ lock' = [lock EXCEPT ![call.lk] = c]
           /\ Goto(c, call.then)
    /\ spinning' = [spinning EXCEPT ![on[c]] = FALSE]
    /\ UNCHANGED <<procVars, proc, on, next, cpuVars, ret, intenaSaved, panicked>>

Popcli(c) ==
    /\ ncli' = [ncli EXCEPT ![c] = @ - 1]
    /\ iflag' = IF ncli[c] = 1 /\ intena[c] THEN [iflag EXCEPT ![c] = TRUE]
                ELSE iflag
    /\ UNCHANGED intena

(* release, with its check that this CPU holds the lock, and popcli's.  *)
Release(c) ==
    /\ ~panicked /\ pc[on[c]] \in DOMAIN Releases
    /\ LET call == Releases[pc[on[c]]]
       IN  /\ panicked' = (lock[call.lk] # c \/ iflag[c] \/ ncli[c] < 1)
           /\ lock' = [lock EXCEPT ![call.lk] = None]
           /\ Goto(c, call.then)
    /\ Popcli(c)
    /\ UNCHANGED <<procVars, proc, on, next, spinning, ret, intenaSaved>>

-----------------------------------------------------------------------------
(* sleeplock.c *)

(* A process in user mode makes a system call that locks the sleep lock. *)
AcquireSleep(c) ==
    /\ At(c, "user")
    /\ Goto(c, "as_acq")
    /\ UNCHANGED <<lock, procVars, proc, on, next, cpuVars, spinning, ret,
                   intenaSaved, panicked>>

AsTest(c) ==
    /\ At(c, "as_test")
    /\ Goto(c, IF locked THEN "sl_acq" ELSE "as_set")
    /\ UNCHANGED <<lock, procVars, proc, on, next, cpuVars, spinning, ret,
                   intenaSaved, panicked>>

AsSet(c) ==
    /\ At(c, "as_set")
    /\ locked' = TRUE
    /\ Goto(c, "as_rel")
    /\ UNCHANGED <<lock, state, chan, proc, on, next, cpuVars, spinning, ret,
                   intenaSaved, panicked>>

(* It is done with what the sleep lock protects. *)
ReleaseSleep(c) ==
    /\ At(c, "crit")
    /\ Goto(c, "rs_acq")
    /\ UNCHANGED <<lock, procVars, proc, on, next, cpuVars, spinning, ret,
                   intenaSaved, panicked>>

RsClear(c) ==
    /\ At(c, "rs_clear")
    /\ locked' = FALSE
    /\ Goto(c, "wk_acq")
    /\ UNCHANGED <<lock, state, chan, proc, on, next, cpuVars, spinning, ret,
                   intenaSaved, panicked>>

(* wakeup1 *)
Wakeup1(c) ==
    /\ At(c, "wk_scan")
    /\ state' = [p \in Procs |-> IF state[p] = "SLEEPING" /\ chan[p] = "lk"
                                 THEN "RUNNABLE" ELSE state[p]]
    /\ Goto(c, "wk_rel")
    /\ UNCHANGED <<lock, chan, locked, proc, on, next, cpuVars, spinning, ret,
                   intenaSaved, panicked>>

-----------------------------------------------------------------------------
(* sleep, yield and sched *)

(* Mutant: the channel is not recorded. *)
SlState_NoChan(c) ==
    /\ At(c, "sl_state")
    /\ state' = [state EXCEPT ![proc[c]] = "SLEEPING"]
    /\ Goto(c, "sl_sched")
    /\ UNCHANGED <<lock, chan, locked, proc, on, next, cpuVars, spinning, ret,
                   intenaSaved, panicked>>

SlState(c) ==
    /\ At(c, "sl_state")
    /\ chan' = [chan EXCEPT ![proc[c]] = "lk"]
    /\ state' = [state EXCEPT ![proc[c]] = "SLEEPING"]
    /\ Goto(c, "sl_sched")
    /\ UNCHANGED <<lock, locked, proc, on, next, cpuVars, spinning, ret,
                   intenaSaved, panicked>>

SlTidy(c) ==
    /\ At(c, "sl_tidy")
    /\ chan' = [chan EXCEPT ![proc[c]] = "none"]
    /\ Goto(c, "sl_relpt")
    /\ UNCHANGED <<lock, state, locked, proc, on, next, cpuVars, spinning, ret,
                   intenaSaved, panicked>>

YState(c) ==
    /\ At(c, "y_state")
    /\ state' = [state EXCEPT ![proc[c]] = "RUNNABLE"]
    /\ Goto(c, "y_sched")
    /\ UNCHANGED <<lock, chan, locked, proc, on, next, cpuVars, spinning, ret,
                   intenaSaved, panicked>>

(* sched: its four checks, then swtch to the scheduler of this CPU. *)
Sched(c) ==
    /\ ~panicked /\ pc[on[c]] \in {"sl_sched", "y_sched"}
    /\ panicked' = \/ lock["pt"] # c \/ ncli[c] # 1
                   \/ state[proc[c]] = "RUNNING" \/ iflag[c]
    /\ intenaSaved' = [intenaSaved EXCEPT ![proc[c]] = intena[c]]
    /\ on' = [on EXCEPT ![c] = c]
    /\ Goto(c, IF pc[on[c]] = "sl_sched" THEN "sl_resume" ELSE "y_resume")
    /\ UNCHANGED <<lock, procVars, proc, next, cpuVars, spinning, ret>>

(* Mutant: sched does not restore intena. *)
SchedReturn_KeepsIntena(c) ==
    /\ ~panicked /\ pc[on[c]] \in {"sl_resume", "y_resume"}
    /\ Goto(c, IF pc[on[c]] = "sl_resume" THEN "sl_tidy" ELSE "y_rel")
    /\ UNCHANGED <<lock, procVars, proc, on, next, cpuVars, spinning, ret,
                   intenaSaved, panicked>>

(* sched: swtch has returned, perhaps on another CPU. *)
SchedReturn(c) ==
    /\ ~panicked /\ pc[on[c]] \in {"sl_resume", "y_resume"}
    /\ intena' = [intena EXCEPT ![c] = intenaSaved[proc[c]]]
    /\ Goto(c, IF pc[on[c]] = "sl_resume" THEN "sl_tidy" ELSE "y_rel")
    /\ UNCHANGED <<lock, procVars, proc, on, next, ncli, iflag, spinning, ret,
                   intenaSaved, panicked>>

-----------------------------------------------------------------------------
(* scheduler *)

Sti(c) ==
    /\ At(c, "s_sti")
    /\ iflag' = [iflag EXCEPT ![c] = TRUE]
    /\ next' = [next EXCEPT ![c] = 1]
    /\ Goto(c, "s_acq")
    /\ UNCHANGED <<lock, procVars, proc, on, ncli, intena, spinning, ret,
                   intenaSaved, panicked>>

ScanSkip(c) ==
    /\ At(c, "s_scan") /\ next[c] \in Procs
    /\ state[next[c]] # "RUNNABLE"
    /\ next' = [next EXCEPT ![c] = @ + 1]
    /\ UNCHANGED <<lock, procVars, proc, on, cpuVars, pc, spinning, ret,
                   intenaSaved, panicked>>

(* Mutant: the process is not marked as running. *)
ScanRun_NotMarked(c) ==
    /\ At(c, "s_scan") /\ next[c] \in Procs
    /\ state[next[c]] = "RUNNABLE"
    /\ proc' = [proc EXCEPT ![c] = next[c]]
    /\ on' = [on EXCEPT ![c] = next[c]]
    /\ Goto(c, "s_back")
    /\ UNCHANGED <<lock, procVars, next, cpuVars, spinning, ret, intenaSaved,
                   panicked>>

ScanRun(c) ==
    /\ At(c, "s_scan") /\ next[c] \in Procs
    /\ state[next[c]] = "RUNNABLE"
    /\ proc' = [proc EXCEPT ![c] = next[c]]
    /\ state' = [state EXCEPT ![next[c]] = "RUNNING"]
    /\ on' = [on EXCEPT ![c] = next[c]]
    /\ Goto(c, "s_back")
    /\ UNCHANGED <<lock, chan, locked, next, cpuVars, spinning, ret,
                   intenaSaved, panicked>>

ScanBack(c) ==
    /\ At(c, "s_back")
    /\ proc' = [proc EXCEPT ![c] = None]
    /\ next' = [next EXCEPT ![c] = @ + 1]
    /\ Goto(c, "s_scan")
    /\ UNCHANGED <<lock, procVars, on, cpuVars, spinning, ret, intenaSaved,
                   panicked>>

ScanEnd(c) ==
    /\ At(c, "s_scan") /\ next[c] = NPROC + 1
    /\ Goto(c, "s_rel")
    /\ UNCHANGED <<lock, procVars, proc, on, next, cpuVars, spinning, ret,
                   intenaSaved, panicked>>

-----------------------------------------------------------------------------
(* The timer interrupt *)

(* After the clock, a process yields, also one that is in the kernel. *)
AfterTick(c) == IF proc[c] # None /\ state[proc[c]] = "RUNNING" THEN "y_acq"
                ELSE "iret"

(* Interrupts are off in the handler.  updateAlarms and wakeup(&ticks)     *)
(* take ptable.lock, on one CPU only.                                      *)
Interrupt(c) ==
    /\ ~panicked /\ iflag[c] /\ ret[on[c]] = "none"
    /\ iflag' = [iflag EXCEPT ![c] = FALSE]
    /\ ret' = [ret EXCEPT ![on[c]] = pc[on[c]]]
    /\ Goto(c, IF c = BootCpu THEN "i_acq" ELSE "i_done")
    /\ UNCHANGED <<lock, procVars, proc, on, next, ncli, intena, spinning,
                   intenaSaved, panicked>>

TickDone(c) ==
    /\ At(c, "i_done")
    /\ Goto(c, AfterTick(c))
    /\ UNCHANGED <<lock, procVars, proc, on, next, cpuVars, spinning, ret,
                   intenaSaved, panicked>>

Iret(c) ==
    /\ At(c, "iret")
    /\ iflag' = [iflag EXCEPT ![c] = TRUE]
    /\ Goto(c, ret[on[c]])
    /\ ret' = [ret EXCEPT ![on[c]] = "none"]
    /\ UNCHANGED <<lock, procVars, proc, on, next, ncli, intena, spinning,
                   intenaSaved, panicked>>

-----------------------------------------------------------------------------
(* Every process has been forked and returns from forkret to user mode     *)
(* when it is first run; every CPU enters its scheduler (mpmain).          *)
Init ==
    /\ lock = [l \in {"pt", "lk"} |-> None]
    /\ locked = FALSE
    /\ state = [p \in Procs |-> "RUNNABLE"] /\ chan = [p \in Procs |-> "none"]
    /\ proc = [c \in CPUs |-> None] /\ on = [c \in CPUs |-> c]
    /\ next = [c \in CPUs |-> 1]
    /\ ncli = [c \in CPUs |-> 0] /\ intena = [c \in CPUs |-> FALSE]
    /\ iflag = [c \in CPUs |-> FALSE]
    /\ pc = [x \in Contexts |-> IF x \in CPUs THEN "s_sti" ELSE "forkret"]
    /\ spinning = [x \in Contexts |-> FALSE]
    /\ ret = [x \in Contexts |-> IF x \in CPUs THEN "none" ELSE "user"]
    /\ intenaSaved = [p \in Procs |-> FALSE]
    /\ panicked = FALSE

(* The code of a process or scheduler, and of the interrupt handler. *)
Step(c) == \/ Pushcli(c) \/ Xchg(c) \/ Release(c)
           \/ AsTest(c) \/ AsSet(c) \/ ReleaseSleep(c) \/ RsClear(c) \/ Wakeup1(c)
           \/ SlState(c) \/ SlTidy(c) \/ YState(c) \/ Sched(c) \/ SchedReturn(c)
           \/ Sti(c) \/ ScanSkip(c) \/ ScanRun(c) \/ ScanBack(c) \/ ScanEnd(c)
           \/ TickDone(c) \/ Iret(c)

Next == \E c \in CPUs : Step(c) \/ AcquireSleep(c) \/ Interrupt(c)

Spec == Init /\ [][Next]_vars

-----------------------------------------------------------------------------
(* Properties *)

Holds(p) == IF ret[p] = "none"
            THEN pc[p] \in {"as_rel", "crit", "rs_acq", "rs_clear"}
            ELSE ret[p] \in {"crit", "rs_acq"}

(* No two CPUs ever execute on the kernel stack of one process, although   *)
(* yield makes the process RUNNABLE, and wakeup a process that is about to *)
(* sleep, while its CPU is still on that stack; acquiresleep gives the     *)
(* sleep lock to one process at a time; and none of the checks of acquire, *)
(* release, popcli and sched fails, so that a timer interrupt never comes  *)
(* while its CPU holds the ptable.lock that the handler will acquire.      *)
StacksAndLocksExclusive ==
    /\ \A c, d \in CPUs : on[c] = on[d] => c = d
    /\ \A p \in Procs : Holds(p) => locked /\ \A q \in Procs : Holds(q) => q = p
    /\ ~panicked

(* Nobody sleeps for a sleep lock that is free, except while the process   *)
(* that has freed it is on its way to wake the sleepers.                   *)
NoLostWakeup ==
    (\E p \in Procs : state[p] = "SLEEPING") /\ ~locked
        => \E p \in Procs : pc[p] \in {"wk_acq", "wk_scan"}

(* A process runs user code, or code of the kernel that holds no spinlock, *)
(* with interrupts on: sched carries intena over to the CPU on which the   *)
(* process goes on, and sleep gives back the interrupts it found.          *)
InterruptsRestored ==
    \A c \in CPUs :
        on[c] \in Procs /\ ret[on[c]] = "none" /\ ncli[c] = 0 => iflag[c]

=============================================================================
