-------------------------------- MODULE Proc --------------------------------
(***************************************************************************)
(* The life of processes in proc.c: allocproc, fork, exit, wait and kill,  *)
(* and sys_sleep of sysproc.c, on several CPUs.  The first process runs    *)
(* init.c, the others any program.  What is done under ptable.lock is one  *)
(* step.  Sched.tla shows that sleep and wakeup implement the atomic       *)
(* release-and-sleep that is used here.                                    *)
(***************************************************************************)
EXTENDS Integers, FiniteSets

CONSTANTS
    NPROC,          \* slots of ptable
    NCPU,
    MaxPid,         \* bound: processes created over a run
    KillPids,       \* the pids that programs pass to kill
    MemoryFails,    \* kalloc may return 0
    TickMod,        \* 2^32: ticks is a uint
    SleepTicks      \* the arguments that programs pass to sleep()

ASSUME SizesAssumption == NPROC \in Nat \ {0} /\ NCPU \in Nat \ {0} /\ MaxPid \in Nat
ASSUME KillAssumption == KillPids \subseteq Int /\ MemoryFails \in BOOLEAN
ASSUME TicksAssumption == TickMod \in Nat \ {0} /\ SleepTicks \subseteq Nat

Procs == 1 .. NPROC
init == 1           \* initproc
None == 0           \* a null pointer
TicksChan == -1     \* &ticks

VARIABLES
    state, pid, parent, killed, chan,   \* fields of ptable.proc[]
    kstack, pgdir,  \* slots that own a kernel stack, a page directory
    nextpid,
    pc,             \* what each process executes
    np,             \* the slot that fork is setting up
    ticks,
    tickslock,      \* the process in sys_sleep that holds it, or None
    ticks0, n,      \* variables of sys_sleep
    shell,          \* pid of init.c: the shell that init waits for, or None
                    \* when init calls fork next
    panicked

tableVars == <<state, pid, parent, killed, chan>>
memVars == <<kstack, pgdir>>
tickVars == <<ticks, tickslock, ticks0, n>>
vars == <<state, pid, parent, killed, chan, kstack, pgdir, nextpid, pc, np,
          ticks, tickslock, ticks0, n, shell, panicked>>

At(p, label) == ~panicked /\ state[p] = "RUNNING" /\ pc[p] = label
Goto(p, label) == pc' = [pc EXCEPT ![p] = label]

(* wakeup1 on the states st *)
Wakeup1(st, ch) == [p \in Procs |-> IF st[p] = "SLEEPING" /\ chan[p] = ch
                                    THEN "RUNNABLE" ELSE st[p]]

Children(p) == {q \in Procs : parent[q] = p}

-----------------------------------------------------------------------------
(* scheduler and yield *)

Run(p) ==
    /\ ~panicked /\ state[p] = "RUNNABLE"
    /\ Cardinality({q \in Procs : state[q] = "RUNNING"}) < NCPU
    /\ state' = [state EXCEPT ![p] = "RUNNING"]
    /\ UNCHANGED <<pid, parent, killed, chan, memVars, nextpid, pc, np, tickVars,
                   shell, panicked>>

(* The process waits in acquire(&tickslock). *)
Spinning(p) == pc[p] = "sleep_woken" /\ tickslock # None

(* The timer interrupt preempts a process, unless it holds a spinlock or   *)
(* waits for one.                                                          *)
Yield(p) ==
    /\ ~panicked /\ state[p] = "RUNNING" /\ tickslock # p /\ ~Spinning(p)
    /\ state' = [state EXCEPT ![p] = "RUNNABLE"]
    /\ UNCHANGED <<pid, parent, killed, chan, memVars, nextpid, pc, np, tickVars,
                   shell, panicked>>

-----------------------------------------------------------------------------
(* fork *)

(* A system call is made unless the process has been killed. *)
InUser(p) == At(p, "user") /\ ~killed[p]

(* fork returns -1: init.c goes on to call exit. *)
ForkFailed(p) == Goto(p, IF p = init THEN "fork_failed" ELSE "user")

(* allocproc: the first unused slot. *)
ForkAlloc(p) ==
    /\ InUser(p) /\ (p = init => shell = None) /\ nextpid <= MaxPid
    /\ \E q \in Procs :
          /\ state[q] = "UNUSED" /\ \A r \in 1 .. q - 1 : state[r] # "UNUSED"
          /\ state' = [state EXCEPT ![q] = "EMBRYO"]
          /\ pid' = [pid EXCEPT ![q] = nextpid]
          /\ np' = [np EXCEPT ![p] = q]
    /\ nextpid' = nextpid + 1
    /\ Goto(p, "fork_stack")
    /\ UNCHANGED <<parent, killed, chan, memVars, tickVars, shell, panicked>>

(* allocproc: all slots are in use. *)
ForkNoSlot(p) ==
    /\ InUser(p) /\ (p = init => shell = None)
    /\ \A q \in Procs : state[q] # "UNUSED"
    /\ ForkFailed(p)
    /\ UNCHANGED <<tableVars, memVars, nextpid, np, tickVars, shell, panicked>>

(* allocproc: the kernel stack. *)
ForkStack(p) ==
    /\ At(p, "fork_stack")
    /\ kstack' = kstack \cup {np[p]}
    /\ Goto(p, "fork_copy")
    /\ UNCHANGED <<tableVars, pgdir, nextpid, np, tickVars, shell, panicked>>

ForkNoStack(p) ==
    /\ At(p, "fork_stack") /\ MemoryFails
    /\ state' = [state EXCEPT ![np[p]] = "UNUSED"]
    /\ np' = [np EXCEPT ![p] = None]
    /\ ForkFailed(p)
    /\ UNCHANGED <<pid, parent, killed, chan, memVars, nextpid, tickVars, shell, panicked>>

(* copyuvm, and the fields copied from the parent. *)
ForkCopy(p) ==
    /\ At(p, "fork_copy")
    /\ pgdir' = pgdir \cup {np[p]}
    /\ parent' = [parent EXCEPT ![np[p]] = p]
    /\ Goto(p, "fork_run")
    /\ UNCHANGED <<state, pid, killed, chan, kstack, nextpid, np, tickVars,
                   shell, panicked>>

ForkNoMemory(p) ==
    /\ At(p, "fork_copy") /\ MemoryFails
    /\ kstack' = kstack \ {np[p]}
    /\ state' = [state EXCEPT ![np[p]] = "UNUSED"]
    /\ np' = [np EXCEPT ![p] = None]
    /\ ForkFailed(p)
    /\ UNCHANGED <<pid, parent, killed, chan, pgdir, nextpid, tickVars, shell, panicked>>

ForkRun(p) ==
    /\ At(p, "fork_run")
    /\ state' = [state EXCEPT ![np[p]] = "RUNNABLE"]
    /\ np' = [np EXCEPT ![p] = None]
    /\ pc' = [pc EXCEPT ![p] = "user", ![np[p]] = "user"]
    /\ shell' = IF p = init THEN pid[np[p]] ELSE shell
    /\ UNCHANGED <<pid, parent, killed, chan, memVars, nextpid, tickVars, panicked>>

-----------------------------------------------------------------------------
(* exit *)

(* A process calls exit(), init only when its fork has failed, or trap()   *)
(* finds it killed; it closes its files first.                             *)
CallExit(p) ==
    /\ \/ At(p, "user") /\ (killed[p] \/ p # init)
       \/ At(p, "fork_failed")
    /\ panicked' = (p = init)
    /\ Goto(p, "exit")
    /\ UNCHANGED <<tableVars, memVars, nextpid, np, tickVars, shell>>

(* Mutant: the parent, which may be in wait, is not woken. *)
Exit_NoParentWakeup(p) ==
    /\ At(p, "exit")
    /\ parent' = [q \in Procs |-> IF q \in Children(p) THEN init ELSE parent[q]]
    /\ state' = [IF \E q \in Children(p) : state[q] = "ZOMBIE"
                 THEN Wakeup1(state, init) ELSE state
                    EXCEPT ![p] = "ZOMBIE"]
    /\ UNCHANGED <<pid, killed, chan, memVars, nextpid, pc, np, tickVars, shell, panicked>>

(* Mutant: the children keep their parent. *)
Exit_NoReparent(p) ==
    /\ At(p, "exit")
    /\ state' = [Wakeup1(state, parent[p]) EXCEPT ![p] = "ZOMBIE"]
    /\ UNCHANGED <<pid, parent, killed, chan, memVars, nextpid, pc, np, tickVars,
                   shell, panicked>>

(* exit under ptable.lock: wake the parent, pass the children to init. *)
Exit(p) ==
    /\ At(p, "exit")
    /\ parent' = [q \in Procs |-> IF q \in Children(p) THEN init ELSE parent[q]]
    /\ LET st == Wakeup1(state, parent[p])
           adopted == IF \E q \in Children(p) : state[q] = "ZOMBIE"
                      THEN Wakeup1(st, init) ELSE st
       IN  state' = [adopted EXCEPT ![p] = "ZOMBIE"]
    /\ UNCHANGED <<pid, killed, chan, memVars, nextpid, pc, np, tickVars, shell, panicked>>

-----------------------------------------------------------------------------
(* wait *)

CallWait(p) ==
    /\ InUser(p) /\ (p = init => shell # None)
    /\ Goto(p, "wait")
    /\ UNCHANGED <<tableVars, memVars, nextpid, np, tickVars, shell, panicked>>

Zombies(p) == {q \in Children(p) : state[q] = "ZOMBIE"}

(* The first child that has exited is freed. *)
WaitReap(p) ==
    /\ At(p, "wait")
    /\ \E q \in Zombies(p) :
          /\ \A r \in Zombies(p) : q <= r
          /\ kstack' = kstack \ {q} /\ pgdir' = pgdir \ {q}
          /\ pid' = [pid EXCEPT ![q] = 0]
          /\ parent' = [parent EXCEPT ![q] = None]
          /\ killed' = [killed EXCEPT ![q] = FALSE]
          /\ state' = [state EXCEPT ![q] = "UNUSED"]
          /\ pc' = [pc EXCEPT ![p] = "user", ![q] = "none"]
          /\ shell' = IF p = init /\ pid[q] = shell THEN None ELSE shell
    /\ chan' = [chan EXCEPT ![p] = None]
    /\ UNCHANGED <<nextpid, np, tickVars, panicked>>

(* No children, or killed: return -1. *)
WaitFail(p) ==
    /\ At(p, "wait") /\ Zombies(p) = {}
    /\ Children(p) = {} \/ killed[p]
    /\ chan' = [chan EXCEPT ![p] = None]
    /\ Goto(p, "user")
    /\ shell' = IF p = init THEN None ELSE shell
    /\ UNCHANGED <<state, pid, parent, killed, memVars, nextpid, np, tickVars,
                   panicked>>

(* sleep(proc, &ptable.lock), then scan again. *)
WaitSleep(p) ==
    /\ At(p, "wait") /\ Zombies(p) = {}
    /\ Children(p) # {} /\ ~killed[p]
    /\ chan' = [chan EXCEPT ![p] = p]
    /\ state' = [state EXCEPT ![p] = "SLEEPING"]
    /\ UNCHANGED <<pid, parent, killed, memVars, nextpid, pc, np, tickVars,
                   shell, panicked>>

-----------------------------------------------------------------------------
(* kill *)

(* Mutant: a process that sleeps is not woken. *)
Kill_NoWake(p, k) ==
    /\ InUser(p)
    /\ \/ \E q \in Procs :
            /\ pid[q] = k /\ \A r \in 1 .. q - 1 : pid[r] # k
            /\ killed' = [killed EXCEPT ![q] = TRUE]
       \/ (\A q \in Procs : pid[q] # k) /\ UNCHANGED killed
    /\ UNCHANGED <<state, pid, parent, chan, memVars, nextpid, pc, np, tickVars,
                   shell, panicked>>

(* The first slot with that pid, whatever its state. *)
Kill(p, k) ==
    /\ InUser(p)
    /\ \/ \E q \in Procs :
            /\ pid[q] = k /\ \A r \in 1 .. q - 1 : pid[r] # k
            /\ killed' = [killed EXCEPT ![q] = TRUE]
            /\ state' = IF state[q] = "SLEEPING"
                        THEN [state EXCEPT ![q] = "RUNNABLE"] ELSE state
       \/ (\A q \in Procs : pid[q] # k) /\ UNCHANGED <<killed, state>>
    /\ UNCHANGED <<pid, parent, chan, memVars, nextpid, pc, np, tickVars, shell, panicked>>

-----------------------------------------------------------------------------
(* sys_sleep and the clock *)

CallSleep(p, k) ==
    /\ InUser(p) /\ tickslock = None
    /\ tickslock' = p
    /\ ticks0' = [ticks0 EXCEPT ![p] = ticks]
    /\ n' = [n EXCEPT ![p] = k]
    /\ Goto(p, "sleep_test")
    /\ UNCHANGED <<tableVars, memVars, nextpid, np, ticks, shell, panicked>>

Elapsed(p) == (ticks - ticks0[p]) % TickMod

(* Done, or killed. *)
SleepReturn(p) ==
    /\ At(p, "sleep_test")
    /\ Elapsed(p) >= n[p] \/ killed[p]
    /\ tickslock' = None
    /\ ticks0' = [ticks0 EXCEPT ![p] = 0] /\ n' = [n EXCEPT ![p] = 0]
    /\ Goto(p, "user")
    /\ UNCHANGED <<tableVars, memVars, nextpid, np, ticks, shell, panicked>>

SleepAgain(p) ==
    /\ At(p, "sleep_test")
    /\ Elapsed(p) < n[p] /\ ~killed[p]
    /\ Goto(p, "sleep_go")
    /\ UNCHANGED <<tableVars, memVars, nextpid, np, tickVars, shell, panicked>>

(* sleep(&ticks, &tickslock); kill may have come since the test. *)
SleepGo(p) ==
    /\ At(p, "sleep_go")
    /\ tickslock' = None
    /\ chan' = [chan EXCEPT ![p] = TicksChan]
    /\ state' = [state EXCEPT ![p] = "SLEEPING"]
    /\ Goto(p, "sleep_woken")
    /\ UNCHANGED <<pid, parent, killed, memVars, nextpid, np, ticks, ticks0, n,
                   shell, panicked>>

SleepWoken(p) ==
    /\ At(p, "sleep_woken") /\ tickslock = None
    /\ tickslock' = p
    /\ chan' = [chan EXCEPT ![p] = None]
    /\ Goto(p, "sleep_test")
    /\ UNCHANGED <<state, pid, parent, killed, memVars, nextpid, np, ticks, ticks0,
                   n, shell, panicked>>

(* The timer interrupt of the first CPU. *)
Tick ==
    /\ ~panicked /\ tickslock = None
    /\ ticks' = (ticks + 1) % TickMod
    /\ state' = Wakeup1(state, TicksChan)
    /\ UNCHANGED <<pid, parent, killed, chan, memVars, nextpid, pc, np, tickslock,
                   ticks0, n, shell, panicked>>

-----------------------------------------------------------------------------
(* userinit *)
Init ==
    /\ state = [p \in Procs |-> IF p = init THEN "RUNNABLE" ELSE "UNUSED"]
    /\ pid = [p \in Procs |-> IF p = init THEN 1 ELSE 0]
    /\ parent = [p \in Procs |-> None]
    /\ killed = [p \in Procs |-> FALSE]
    /\ chan = [p \in Procs |-> None]
    /\ kstack = {init} /\ pgdir = {init}
    /\ nextpid = 2
    /\ pc = [p \in Procs |-> IF p = init THEN "user" ELSE "none"]
    /\ np = [p \in Procs |-> None]
    /\ ticks = 0 /\ tickslock = None
    /\ ticks0 = [p \in Procs |-> 0] /\ n = [p \in Procs |-> 0]
    /\ shell = None /\ panicked = FALSE

(* What a process does without being asked once it is inside a call. *)
Progress(p) == \/ ForkStack(p) \/ ForkNoStack(p) \/ ForkCopy(p) \/ ForkNoMemory(p)
               \/ ForkRun(p) \/ Exit(p)
               \/ WaitReap(p) \/ WaitFail(p) \/ WaitSleep(p)
               \/ SleepReturn(p) \/ SleepAgain(p) \/ SleepGo(p) \/ SleepWoken(p)

(* init.c calls fork and wait, and exit if fork fails. *)
Next == \/ Tick
        \/ \E p \in Procs :
              \/ Run(p) \/ Yield(p) \/ Progress(p)
              \/ ForkAlloc(p) \/ ForkNoSlot(p) \/ CallExit(p) \/ CallWait(p)
        \/ \E p \in Procs \ {init} :
              \/ \E k \in KillPids : Kill(p, k)
              \/ \E k \in SleepTicks : CallSleep(p, k)

Spec == Init /\ [][Next]_vars

(* The system calls of init.c, one after the other *)
InitCalls == ForkAlloc(init) \/ ForkNoSlot(init) \/ CallWait(init) \/ CallExit(init)

(* The clock ticks and preempts, the scheduler goes round the table and    *)
(* processes run on in the kernel, a killed process traps into the kernel  *)
(* at the next tick if not before, and init.c makes its calls.             *)
Fairness == /\ WF_vars(Tick)
            /\ \A p \in Procs :
                  /\ WF_vars(Yield(p)) /\ SF_vars(Run(p))
                  /\ SF_vars(\/ Progress(p) \/ (killed[p] /\ CallExit(p))
                             \/ (p = init /\ InitCalls))

FairSpec == Spec /\ Fairness

-----------------------------------------------------------------------------
(* Properties *)

Started(p) == state[p] \notin {"UNUSED", "EMBRYO"}

(* Every process but init has a parent that can still wait for it, also    *)
(* when parent and child exit together; a process sleeps in wait only      *)
(* while it has children, none of them has exited and it has not been      *)
(* killed: no exit, adoption or kill goes unnoticed.                       *)
FamiliesIntact ==
    /\ \A p \in Procs \ {init} :
          Started(p) => parent[p] # None /\ Started(parent[p])
                                         /\ state[parent[p]] # "ZOMBIE"
    /\ \A p \in Procs : state[p] = "SLEEPING" /\ chan[p] = p
          => Children(p) # {} /\ Zombies(p) = {} /\ ~killed[p]

(* A process that is killed exits, unless the kernel panics first: in user *)
(* code, in fork, in wait and in sys_sleep, also when the kill comes from  *)
(* another CPU after sys_sleep has tested for it and before it sleeps, as  *)
(* then the next tick wakes it.  (A process that is killed between that    *)
(* test and sleep in piperead, pipewrite or consoleread stays asleep.)     *)
KilledExits == \A p \in Procs :
    killed[p] /\ Started(p) ~> state[p] \in {"ZOMBIE", "UNUSED"} \/ panicked

(* init calls fork and MaxPid processes have been created. *)
OutOfPids == shell = None /\ nextpid > MaxPid

(* A child of init that has exited is freed, adopted ones included, by the *)
(* loop of init.c, in which wait and fork take turns.  The alternative is  *)
(* the panic that follows when init's fork fails (init.c:25-28), and, in   *)
(* an instance, its bound on pids.                                         *)
OrphansReaped == \A p \in Procs :
    state[p] = "ZOMBIE" /\ parent[p] = init
        ~> state[p] = "UNUSED" \/ panicked \/ OutOfPids

=============================================================================
