----------------------------- MODULE SchedProofs ----------------------------
(***************************************************************************)
(* Spinlocks, scheduler, sleep and wakeup are correct for any number of    *)
(* CPUs and processes: StacksAndLocksExclusive, NoLostWakeup and           *)
(* InterruptsRestored are invariants of Sched.                             *)
(*                                                                         *)
(* The next statement of the context that a CPU executes says which        *)
(* spinlocks the CPU holds and how deep its pushcli calls are nested.      *)
(* ptable.lock passes with swtch from a process to the scheduler and back, *)
(* so a process that is RUNNABLE and still on its stack is on its way to   *)
(* the scheduler with ptable.lock held, and no other CPU can pick it.      *)
(***************************************************************************)
EXTENDS Sched, TLAPS

(* The null pointer is not a CPU. *)
Constants == None \notin CPUs

(* The interrupt handler, and forkret, return with iret. *)
Handler == {"i_acq", "i_rel", "i_done", "y_acq", "y_state", "y_sched",
            "y_resume", "y_rel", "iret", "forkret"}

SchedLabels == {"s_sti", "s_acq", "s_scan", "s_back", "s_rel",
                "i_acq", "i_rel", "i_done", "iret"}

ProcLabels == Handler \cup
    {"user", "as_acq", "as_test", "as_set", "as_rel", "crit", "rs_acq",
     "rs_clear", "rs_rel", "wk_acq", "wk_scan", "wk_rel", "sl_acq", "sl_rel",
     "sl_state", "sl_sched", "sl_resume", "sl_tidy", "sl_relpt", "sl_reacq"}

(* The statements that are executed with ptable.lock, with the spinlock of *)
(* the sleep lock; those at which a process is not on any CPU.             *)
WithPt == {"sl_rel", "sl_state", "sl_sched", "sl_resume", "sl_tidy", "sl_relpt",
           "wk_scan", "wk_rel", "i_rel", "y_state", "y_sched", "y_resume",
           "y_rel", "forkret", "s_scan", "s_back", "s_rel"}
WithLk == {"as_test", "as_set", "as_rel", "sl_acq", "sl_rel", "rs_clear",
           "wk_acq", "wk_scan", "wk_rel", "rs_rel"}
Parked == {"sl_resume", "y_resume", "forkret"}

TypeOK ==
    /\ lock \in [{"pt", "lk"} -> CPUs \cup {None}]
    /\ locked \in BOOLEAN
    /\ state \in [Procs -> {"RUNNABLE", "RUNNING", "SLEEPING"}]
    /\ chan \in [Procs -> {"none", "lk"}]
    /\ proc \in [CPUs -> Procs \cup {None}]
    /\ on \in [CPUs -> Contexts]
    /\ next \in [CPUs -> Nat]
    /\ ncli \in [CPUs -> Nat]
    /\ intena \in [CPUs -> BOOLEAN] /\ iflag \in [CPUs -> BOOLEAN]
    /\ pc \in [Contexts -> SchedLabels \cup ProcLabels]
    /\ spinning \in [Contexts -> BOOLEAN]
    /\ ret \in [Contexts -> {"none", "user", "as_acq", "crit", "rs_acq", "sl_reacq",
                             "s_acq", "s_sti"}]
    /\ intenaSaved \in [Procs -> BOOLEAN]
    /\ panicked = FALSE

(* Which CPU is on which stack, and where the others stand. *)
StackInv ==
    /\ \A c \in CPUs : on[c] \in Procs \cup {c}
    /\ \A c, d \in CPUs : on[c] = on[d] => c = d
    /\ \A c \in CPUs : on[c] # c => proc[c] = on[c] /\ pc[c] = "s_back"
    /\ \A c \in CPUs : on[c] = c /\ pc[c] # "s_back" => proc[c] = None
    /\ \A p \in Procs : (\A c \in CPUs : on[c] # p) => pc[p] \in Parked

(* What the statement a context is at says about it. *)
LabelInv ==
    /\ \A c \in CPUs : pc[c] \in SchedLabels
    /\ \A p \in Procs : pc[p] \in ProcLabels
    /\ \A x \in Contexts : spinning[x] => pc[x] \in DOMAIN Acquires
    /\ \A x \in Contexts : pc[x] \in Handler <=> ret[x] # "none"
    /\ \A c \in CPUs : ret[c] \in {"none", "s_acq", "s_sti"}
    /\ \A p \in Procs : ret[p] \in {"none", "user", "as_acq", "crit", "rs_acq", "sl_reacq"}

One(b) == IF b THEN 1 ELSE 0
Depth(x) == One(spinning[x]) + One(pc[x] \in WithPt) + One(pc[x] \in WithLk)

(* Spinlocks and interrupts. *)
LockInv ==
    /\ \A c \in CPUs : lock["pt"] = c <=> pc[on[c]] \in WithPt
    /\ \A c \in CPUs : lock["lk"] = c <=> pc[on[c]] \in WithLk
    /\ \A c \in CPUs : ncli[c] = Depth(on[c])
    /\ \A c \in CPUs : ncli[c] > 0 => ~iflag[c]

IntenaInv ==
    /\ \A c \in CPUs : on[c] \in Procs /\ ret[on[c]] = "none" /\ pc[on[c]] # "sl_resume"
                         => IF ncli[c] = 0 THEN iflag[c] ELSE intena[c]
    /\ \A p \in Procs : pc[p] = "sl_resume" => intenaSaved[p]

(* The states of processes, and who sleeps. *)
StateInv ==
    /\ \A c \in CPUs : on[c] \in Procs =>
          state[on[c]] = CASE pc[on[c]] = "y_sched" -> "RUNNABLE"
                           [] pc[on[c]] = "sl_sched" -> "SLEEPING"
                           [] OTHER -> "RUNNING"
    /\ \A p \in Procs : state[p] = "SLEEPING" => chan[p] = "lk"

(* The sleep lock. *)
SleepLockInv ==
    /\ \A p, q \in Procs : Holds(p) => locked /\ (Holds(q) => q = p)
    /\ \A p \in Procs : pc[p] = "as_set" => ~locked
    /\ \A p \in Procs : pc[p] \in {"sl_acq", "sl_rel"} => locked
    /\ \A p \in Procs : state[p] = "SLEEPING" \/ pc[p] = "sl_state"
          => locked \/ \E q \in Procs : pc[q] \in {"wk_acq", "wk_scan"}

(* The part about stacks, labels, locks and interrupts. *)
KernelInv == StackInv /\ LabelInv /\ LockInv /\ IntenaInv

IInv == TypeOK /\ KernelInv /\ StateInv /\ SleepLockInv

(* The invariant under the name that the lemmas state it with: a lemma     *)
(* that is only cited stays folded when a later proof expands IInv.        *)
Inv == IInv

-----------------------------------------------------------------------------
(* Lemmas *)

(* Processes and CPUs are different contexts. *)
LEMMA Disjoint == Procs \cap CPUs = {} /\ None \notin Procs /\ Contexts = Procs \cup CPUs
  BY NprocAssumption DEF Procs, Contexts, None

(* The calls of acquire: the lock is not among those the caller holds, and *)
(* is among those it goes on with.                                         *)
LEMMA AcquireCalls ==
    ASSUME NEW l \in DOMAIN Acquires
    PROVE  LET k == Acquires[l].lk
               t == Acquires[l].then
           IN  /\ k \in {"pt", "lk"}
               /\ l \in SchedLabels => t \in SchedLabels
               /\ l \in ProcLabels => t \in ProcLabels
               /\ t \notin DOMAIN Acquires \/ t = "wk_acq"
               /\ t \notin Parked \cup {"s_back"} /\ l \notin Parked \cup {"s_back"}
               /\ l \in Handler <=> t \in Handler
               /\ l \notin IF k = "pt" THEN WithPt ELSE WithLk
               /\ t \in WithPt <=> (l \in WithPt \/ k = "pt")
               /\ t \in WithLk <=> (l \in WithLk \/ k = "lk")
  <1>1. l \in {"as_acq", "sl_acq", "sl_reacq", "rs_acq", "wk_acq", "i_acq", "y_acq", "s_acq"}
    BY Zenon DEF Acquires
  <1> QED
    BY <1>1 DEF Acquires, Call, SchedLabels, ProcLabels, Handler, WithPt, WithLk, Parked

(* The calls of release, the other way round. *)
LEMMA ReleaseCalls ==
    ASSUME NEW l \in DOMAIN Releases
    PROVE  LET k == Releases[l].lk
               t == Releases[l].then
           IN  /\ k \in {"pt", "lk"}
               /\ l \in SchedLabels => t \in SchedLabels
               /\ l \in ProcLabels => t \in ProcLabels
               /\ l \notin DOMAIN Acquires
               /\ t \notin Parked \cup {"s_back"} /\ l \notin {"sl_resume", "s_back"}
               /\ l \in Handler <=> t \in Handler
               /\ l \in IF k = "pt" THEN WithPt ELSE WithLk
               /\ t \in WithPt <=> (l \in WithPt /\ k # "pt")
               /\ t \in WithLk <=> (l \in WithLk /\ k # "lk")
  <1>1. l \in {"as_rel", "sl_rel", "sl_relpt", "wk_rel", "rs_rel", "i_rel", "y_rel", "s_rel",
               "forkret"}
    BY Zenon DEF Releases
  <1> QED
    BY <1>1 DEF Releases, Acquires, Call, SchedLabels, ProcLabels, Handler, WithPt, WithLk, Parked

(* A context goes from one statement to another that is executed with the  *)
(* same locks.                                                             *)
LEMMA MoveKeeps ==
    ASSUME Constants, Inv, NEW c \in CPUs, NEW m,
           pc' = [pc EXCEPT ![on[c]] = m],
           UNCHANGED <<lock, proc, on, ncli, intena, iflag, spinning, ret, intenaSaved>>,
           m \in IF on[c] \in CPUs THEN SchedLabels ELSE ProcLabels,
           pc[on[c]] \notin DOMAIN Acquires,
           pc[on[c]] # "s_back", m # "s_back",
           pc[on[c]] # "sl_resume", m # "sl_resume",
           pc[on[c]] \in WithPt <=> m \in WithPt,
           pc[on[c]] \in WithLk <=> m \in WithLk,
           pc[on[c]] \in Handler <=> m \in Handler
    PROVE  KernelInv' /\ pc' \in [Contexts -> SchedLabels \cup ProcLabels]
  <1> TypeOK /\ StackInv /\ LabelInv /\ LockInv /\ IntenaInv
    BY Zenon DEF Inv, IInv, KernelInv
  <1> USE Disjoint
  <1>1. on[c] \in Contexts /\ (on[c] \in Procs \/ on[c] = c)
    BY Zenon DEF TypeOK, StackInv
  <1>2. pc' \in [Contexts -> SchedLabels \cup ProcLabels]
    BY <1>1, Zenon DEF TypeOK
  <1>3. \A x \in Contexts : pc'[x] = IF x = on[c] THEN m ELSE pc[x]
    BY <1>1, Zenon DEF TypeOK
  <1>4. \A d \in CPUs : on[d] = on[c] => d = c
    BY Zenon DEF StackInv
  <1>5. StackInv'
    BY <1>1, <1>3, Zenon DEF TypeOK, StackInv
  <1>6. LabelInv'
    BY <1>1, <1>3 DEF TypeOK, LabelInv
  <1>7. LockInv'
    <2>1. \A d \in CPUs : /\ pc'[on[d]] \in WithPt <=> pc[on[d]] \in WithPt
                          /\ pc'[on[d]] \in WithLk <=> pc[on[d]] \in WithLk
      BY <1>3, Zenon DEF TypeOK
    <2> QED
      BY <2>1 DEF LockInv, Depth
  <1>8. IntenaInv'
    BY <1>1, <1>3, Zenon DEF TypeOK, IntenaInv
  <1> QED
    BY <1>2, <1>5, <1>6, <1>7, <1>8, Zenon DEF KernelInv

(* A process that runs. *)
LEMMA RunningProcess ==
    ASSUME Inv, NEW c \in CPUs, pc[on[c]] \notin SchedLabels
    PROVE  /\ on[c] \in Procs /\ on[c] \notin CPUs /\ on[c] \in Contexts
           /\ proc[c] = on[c] /\ on[c] # c
           /\ \A d \in CPUs : on[d] = on[c] => d = c
  <1> TypeOK /\ StackInv /\ LabelInv /\ LockInv /\ IntenaInv
    BY Zenon DEF Inv, IInv, KernelInv
  <1>1. on[c] \in Procs \cup {c} /\ (on[c] # c => proc[c] = on[c])
    BY Zenon DEF StackInv
  <1>2. on[c] # c
    BY Zenon DEF LabelInv
  <1>3. \A d \in CPUs : on[d] = on[c] => d = c
    BY Zenon DEF StackInv
  <1> QED
    BY <1>1, <1>2, <1>3, Disjoint, Zenon

-----------------------------------------------------------------------------
(* One lemma for each action: it keeps the inductive invariant. *)

LEMMA AcquireSleepKeeps ==
    ASSUME Constants, Inv, NEW c \in CPUs, AcquireSleep(c)
    PROVE  Inv'
  <1> /\ TypeOK /\ StackInv /\ LabelInv /\ LockInv /\ IntenaInv
      /\ StateInv /\ SleepLockInv
    BY Zenon DEF Inv, IInv, KernelInv
  <1> SUFFICES IInv'
    BY Zenon DEF Inv
  <1> DEFINE m == "as_acq"
  <1>1. pc[on[c]] = "user" /\ pc' = [pc EXCEPT ![on[c]] = m]
    BY Zenon DEF AcquireSleep, At, Goto
  <1>2. /\ on[c] \in Procs /\ on[c] \notin CPUs /\ on[c] \in Contexts
        /\ proc[c] = on[c] /\ \A d \in CPUs : on[d] = on[c] => d = c
    BY <1>1, RunningProcess, Zenon DEF SchedLabels
  <1>3. KernelInv' /\ pc' \in [Contexts -> SchedLabels \cup ProcLabels]
    BY <1>1, <1>2, MoveKeeps, Zenon DEF AcquireSleep, cpuVars, Acquires, WithPt, WithLk, Handler, ProcLabels
  <1>4. TypeOK'
    BY <1>2, <1>3, Zenon DEF TypeOK, AcquireSleep, cpuVars, procVars
  <1>5. \A x \in Contexts : pc'[x] = IF x = on[c] THEN m ELSE pc[x]
    BY <1>1, <1>2, Zenon DEF TypeOK
  <1>6. StateInv'
    BY <1>1, <1>2, <1>5, Disjoint, Zenon DEF TypeOK, LockInv, StateInv, AcquireSleep, procVars, WithPt
  <1>7. SleepLockInv'
    BY <1>1, <1>2, <1>5, Disjoint
       DEF TypeOK, StackInv, LabelInv, LockInv, StateInv, SleepLockInv,
           Holds, Handler, WithPt, WithLk, Parked, AcquireSleep, procVars
  <1> QED
    BY <1>3, <1>4, <1>6, <1>7, Zenon DEF IInv

LEMMA AsTestKeeps ==
    ASSUME Constants, Inv, NEW c \in CPUs, AsTest(c)
    PROVE  Inv'
  <1> /\ TypeOK /\ StackInv /\ LabelInv /\ LockInv /\ IntenaInv
      /\ StateInv /\ SleepLockInv
    BY Zenon DEF Inv, IInv, KernelInv
  <1> SUFFICES IInv'
    BY Zenon DEF Inv
  <1> DEFINE m == IF locked THEN "sl_acq" ELSE "as_set"
  <1>1. pc[on[c]] = "as_test" /\ pc' = [pc EXCEPT ![on[c]] = m]
    BY Zenon DEF AsTest, At, Goto
  <1>2. /\ on[c] \in Procs /\ on[c] \notin CPUs /\ on[c] \in Contexts
        /\ proc[c] = on[c] /\ \A d \in CPUs : on[d] = on[c] => d = c
    BY <1>1, RunningProcess, Zenon DEF SchedLabels
  <1>3. KernelInv' /\ pc' \in [Contexts -> SchedLabels \cup ProcLabels]
    BY <1>1, <1>2, MoveKeeps, Zenon DEF AsTest, cpuVars, Acquires, WithPt, WithLk, Handler, ProcLabels
  <1>4. TypeOK'
    BY <1>2, <1>3, Zenon DEF TypeOK, AsTest, cpuVars, procVars
  <1>5. \A x \in Contexts : pc'[x] = IF x = on[c] THEN m ELSE pc[x]
    BY <1>1, <1>2, Zenon DEF TypeOK
  <1>6. StateInv'
    BY <1>1, <1>2, <1>5, Disjoint, Zenon DEF TypeOK, LockInv, StateInv, AsTest, procVars, WithPt
  <1>7. SleepLockInv'
    BY <1>1, <1>2, <1>5, Disjoint, SMTT(30)
       DEF TypeOK, StackInv, LabelInv, LockInv, StateInv, SleepLockInv,
           Holds, Handler, WithPt, WithLk, Parked, AsTest, procVars
  <1> QED
    BY <1>3, <1>4, <1>6, <1>7, Zenon DEF IInv

LEMMA AsSetKeeps ==
    ASSUME Constants, Inv, NEW c \in CPUs, AsSet(c)
    PROVE  Inv'
  <1> /\ TypeOK /\ StackInv /\ LabelInv /\ LockInv /\ IntenaInv
      /\ StateInv /\ SleepLockInv
    BY Zenon DEF Inv, IInv, KernelInv
  <1> SUFFICES IInv'
    BY Zenon DEF Inv
  <1> DEFINE m == "as_rel"
  <1>1. pc[on[c]] = "as_set" /\ pc' = [pc EXCEPT ![on[c]] = m]
    BY Zenon DEF AsSet, At, Goto
  <1>2. /\ on[c] \in Procs /\ on[c] \notin CPUs /\ on[c] \in Contexts
        /\ proc[c] = on[c] /\ \A d \in CPUs : on[d] = on[c] => d = c
    BY <1>1, RunningProcess, Zenon DEF SchedLabels
  <1>3. KernelInv' /\ pc' \in [Contexts -> SchedLabels \cup ProcLabels]
    BY <1>1, <1>2, MoveKeeps, Zenon DEF AsSet, cpuVars, Acquires, WithPt, WithLk, Handler, ProcLabels
  <1>4. TypeOK'
    BY <1>2, <1>3, Zenon DEF TypeOK, AsSet, cpuVars, procVars
  <1>5. \A x \in Contexts : pc'[x] = IF x = on[c] THEN m ELSE pc[x]
    BY <1>1, <1>2, Zenon DEF TypeOK
  <1>6. StateInv'
    BY <1>1, <1>2, <1>5, Disjoint, Zenon DEF TypeOK, LockInv, StateInv, AsSet, procVars, WithPt
  <1>7. SleepLockInv'
    BY <1>1, <1>2, <1>5, Disjoint, SMTT(30)
       DEF TypeOK, StackInv, LabelInv, LockInv, StateInv, SleepLockInv,
           Holds, Handler, WithPt, WithLk, Parked, AsSet, procVars
  <1> QED
    BY <1>3, <1>4, <1>6, <1>7, Zenon DEF IInv

LEMMA ReleaseSleepKeeps ==
    ASSUME Constants, Inv, NEW c \in CPUs, ReleaseSleep(c)
    PROVE  Inv'
  <1> /\ TypeOK /\ StackInv /\ LabelInv /\ LockInv /\ IntenaInv
      /\ StateInv /\ SleepLockInv
    BY Zenon DEF Inv, IInv, KernelInv
  <1> SUFFICES IInv'
    BY Zenon DEF Inv
  <1> DEFINE m == "rs_acq"
  <1>1. pc[on[c]] = "crit" /\ pc' = [pc EXCEPT ![on[c]] = m]
    BY Zenon DEF ReleaseSleep, At, Goto
  <1>2. /\ on[c] \in Procs /\ on[c] \notin CPUs /\ on[c] \in Contexts
        /\ proc[c] = on[c] /\ \A d \in CPUs : on[d] = on[c] => d = c
    BY <1>1, RunningProcess, Zenon DEF SchedLabels
  <1>3. KernelInv' /\ pc' \in [Contexts -> SchedLabels \cup ProcLabels]
    BY <1>1, <1>2, MoveKeeps, Zenon DEF ReleaseSleep, cpuVars, Acquires, WithPt, WithLk, Handler, ProcLabels
  <1>4. TypeOK'
    BY <1>2, <1>3, Zenon DEF TypeOK, ReleaseSleep, cpuVars, procVars
  <1>5. \A x \in Contexts : pc'[x] = IF x = on[c] THEN m ELSE pc[x]
    BY <1>1, <1>2, Zenon DEF TypeOK
  <1>6. StateInv'
    BY <1>1, <1>2, <1>5, Disjoint, Zenon DEF TypeOK, LockInv, StateInv, ReleaseSleep, procVars, WithPt
  <1>7. SleepLockInv'
    BY <1>1, <1>2, <1>5, Disjoint
       DEF TypeOK, StackInv, LabelInv, LockInv, StateInv, SleepLockInv,
           Holds, Handler, WithPt, WithLk, Parked, ReleaseSleep, procVars
  <1> QED
    BY <1>3, <1>4, <1>6, <1>7, Zenon DEF IInv

LEMMA RsClearKeeps ==
    ASSUME Constants, Inv, NEW c \in CPUs, RsClear(c)
    PROVE  Inv'
  <1> /\ TypeOK /\ StackInv /\ LabelInv /\ LockInv /\ IntenaInv
      /\ StateInv /\ SleepLockInv
    BY Zenon DEF Inv, IInv, KernelInv
  <1> SUFFICES IInv'
    BY Zenon DEF Inv
  <1> DEFINE m == "wk_acq"
  <1>1. pc[on[c]] = "rs_clear" /\ pc' = [pc EXCEPT ![on[c]] = m]
    BY Zenon DEF RsClear, At, Goto
  <1>2. /\ on[c] \in Procs /\ on[c] \notin CPUs /\ on[c] \in Contexts
        /\ proc[c] = on[c] /\ \A d \in CPUs : on[d] = on[c] => d = c
    BY <1>1, RunningProcess, Zenon DEF SchedLabels
  <1>3. KernelInv' /\ pc' \in [Contexts -> SchedLabels \cup ProcLabels]
    BY <1>1, <1>2, MoveKeeps, Zenon DEF RsClear, cpuVars, Acquires, WithPt, WithLk, Handler, ProcLabels
  <1>4. TypeOK'
    BY <1>2, <1>3, Zenon DEF TypeOK, RsClear, cpuVars, procVars
  <1>5. \A x \in Contexts : pc'[x] = IF x = on[c] THEN m ELSE pc[x]
    BY <1>1, <1>2, Zenon DEF TypeOK
  <1>6. StateInv'
    BY <1>1, <1>2, <1>5, Disjoint, Zenon DEF TypeOK, LockInv, StateInv, RsClear, procVars, WithPt
  <1>7. SleepLockInv'
    BY <1>1, <1>2, <1>5, Disjoint, SMTT(30)
       DEF TypeOK, StackInv, LabelInv, LockInv, StateInv, SleepLockInv,
           Holds, Handler, WithPt, WithLk, Parked, RsClear, procVars
  <1> QED
    BY <1>3, <1>4, <1>6, <1>7, Zenon DEF IInv

LEMMA Wakeup1Keeps ==
    ASSUME Constants, Inv, NEW c \in CPUs, Wakeup1(c)
    PROVE  Inv'
  <1> /\ TypeOK /\ StackInv /\ LabelInv /\ LockInv /\ IntenaInv
      /\ StateInv /\ SleepLockInv
    BY Zenon DEF Inv, IInv, KernelInv
  <1> SUFFICES IInv'
    BY Zenon DEF Inv
  <1> DEFINE m == "wk_rel"
  <1>1. pc[on[c]] = "wk_scan" /\ pc' = [pc EXCEPT ![on[c]] = m]
    BY Zenon DEF Wakeup1, At, Goto
  <1>2. /\ on[c] \in Procs /\ on[c] \notin CPUs /\ on[c] \in Contexts
        /\ proc[c] = on[c] /\ \A d \in CPUs : on[d] = on[c] => d = c
    BY <1>1, RunningProcess, Zenon DEF SchedLabels
  <1>3. KernelInv' /\ pc' \in [Contexts -> SchedLabels \cup ProcLabels]
    BY <1>1, <1>2, MoveKeeps, Zenon DEF Wakeup1, cpuVars, Acquires, WithPt, WithLk, Handler, ProcLabels
  <1>4. TypeOK'
    BY <1>2, <1>3, Zenon DEF TypeOK, Wakeup1, cpuVars, procVars
  <1>5. \A x \in Contexts : pc'[x] = IF x = on[c] THEN m ELSE pc[x]
    BY <1>1, <1>2, Zenon DEF TypeOK
  <1>6. StateInv'
    BY <1>1, <1>2, <1>5, Disjoint DEF TypeOK, LockInv, StateInv, Wakeup1, procVars, WithPt
  <1>7. SleepLockInv'
    BY <1>1, <1>2, <1>5, Disjoint, SMTT(30)
       DEF TypeOK, StackInv, LabelInv, LockInv, StateInv, SleepLockInv,
           Holds, Handler, WithPt, WithLk, Parked, Wakeup1, procVars
  <1> QED
    BY <1>3, <1>4, <1>6, <1>7, Zenon DEF IInv

LEMMA SlStateKeeps ==
    ASSUME Constants, Inv, NEW c \in CPUs, SlState(c)
    PROVE  Inv'
  <1> /\ TypeOK /\ StackInv /\ LabelInv /\ LockInv /\ IntenaInv
      /\ StateInv /\ SleepLockInv
    BY Zenon DEF Inv, IInv, KernelInv
  <1> SUFFICES IInv'
    BY Zenon DEF Inv
  <1> DEFINE m == "sl_sched"
  <1>1. pc[on[c]] = "sl_state" /\ pc' = [pc EXCEPT ![on[c]] = m]
    BY Zenon DEF SlState, At, Goto
  <1>2. /\ on[c] \in Procs /\ on[c] \notin CPUs /\ on[c] \in Contexts
        /\ proc[c] = on[c] /\ \A d \in CPUs : on[d] = on[c] => d = c
    BY <1>1, RunningProcess, Zenon DEF SchedLabels
  <1>3. KernelInv' /\ pc' \in [Contexts -> SchedLabels \cup ProcLabels]
    BY <1>1, <1>2, MoveKeeps, Zenon DEF SlState, cpuVars, Acquires, WithPt, WithLk, Handler, ProcLabels
  <1>4. TypeOK'
    BY <1>2, <1>3, Zenon DEF TypeOK, SlState, cpuVars, procVars
  <1>5. \A x \in Contexts : pc'[x] = IF x = on[c] THEN m ELSE pc[x]
    BY <1>1, <1>2, Zenon DEF TypeOK
  <1>6. StateInv'
    BY <1>1, <1>2, <1>5, Disjoint DEF TypeOK, LockInv, StateInv, SlState, procVars, WithPt
  <1>7. SleepLockInv'
    BY <1>1, <1>2, <1>5, Disjoint
       DEF TypeOK, StackInv, LabelInv, LockInv, StateInv, SleepLockInv,
           Holds, Handler, WithPt, WithLk, Parked, SlState, procVars
  <1> QED
    BY <1>3, <1>4, <1>6, <1>7, Zenon DEF IInv

LEMMA SlTidyKeeps ==
    ASSUME Constants, Inv, NEW c \in CPUs, SlTidy(c)
    PROVE  Inv'
  <1> /\ TypeOK /\ StackInv /\ LabelInv /\ LockInv /\ IntenaInv
      /\ StateInv /\ SleepLockInv
    BY Zenon DEF Inv, IInv, KernelInv
  <1> SUFFICES IInv'
    BY Zenon DEF Inv
  <1> DEFINE m == "sl_relpt"
  <1>1. pc[on[c]] = "sl_tidy" /\ pc' = [pc EXCEPT ![on[c]] = m]
    BY Zenon DEF SlTidy, At, Goto
  <1>2. /\ on[c] \in Procs /\ on[c] \notin CPUs /\ on[c] \in Contexts
        /\ proc[c] = on[c] /\ \A d \in CPUs : on[d] = on[c] => d = c
    BY <1>1, RunningProcess, Zenon DEF SchedLabels
  <1>3. KernelInv' /\ pc' \in [Contexts -> SchedLabels \cup ProcLabels]
    BY <1>1, <1>2, MoveKeeps, Zenon DEF SlTidy, cpuVars, Acquires, WithPt, WithLk, Handler, ProcLabels
  <1>4. TypeOK'
    BY <1>2, <1>3, Zenon DEF TypeOK, SlTidy, cpuVars, procVars
  <1>5. \A x \in Contexts : pc'[x] = IF x = on[c] THEN m ELSE pc[x]
    BY <1>1, <1>2, Zenon DEF TypeOK
  <1>6. StateInv'
    BY <1>1, <1>2, <1>5, Disjoint DEF TypeOK, LockInv, StateInv, SlTidy, procVars, WithPt
  <1>7. SleepLockInv'
    BY <1>1, <1>2, <1>5, Disjoint
       DEF TypeOK, StackInv, LabelInv, LockInv, StateInv, SleepLockInv,
           Holds, Handler, WithPt, WithLk, Parked, SlTidy, procVars
  <1> QED
    BY <1>3, <1>4, <1>6, <1>7, Zenon DEF IInv

LEMMA YStateKeeps ==
    ASSUME Constants, Inv, NEW c \in CPUs, YState(c)
    PROVE  Inv'
  <1> /\ TypeOK /\ StackInv /\ LabelInv /\ LockInv /\ IntenaInv
      /\ StateInv /\ SleepLockInv
    BY Zenon DEF Inv, IInv, KernelInv
  <1> SUFFICES IInv'
    BY Zenon DEF Inv
  <1> DEFINE m == "y_sched"
  <1>1. pc[on[c]] = "y_state" /\ pc' = [pc EXCEPT ![on[c]] = m]
    BY Zenon DEF YState, At, Goto
  <1>2. /\ on[c] \in Procs /\ on[c] \notin CPUs /\ on[c] \in Contexts
        /\ proc[c] = on[c] /\ \A d \in CPUs : on[d] = on[c] => d = c
    BY <1>1, RunningProcess, Zenon DEF SchedLabels
  <1>3. KernelInv' /\ pc' \in [Contexts -> SchedLabels \cup ProcLabels]
    BY <1>1, <1>2, MoveKeeps, Zenon DEF YState, cpuVars, Acquires, WithPt, WithLk, Handler, ProcLabels
  <1>4. TypeOK'
    BY <1>2, <1>3, Zenon DEF TypeOK, YState, cpuVars, procVars
  <1>5. \A x \in Contexts : pc'[x] = IF x = on[c] THEN m ELSE pc[x]
    BY <1>1, <1>2, Zenon DEF TypeOK
  <1>6. StateInv'
    BY <1>1, <1>2, <1>5, Disjoint DEF TypeOK, LockInv, StateInv, YState, procVars, WithPt
  <1>7. SleepLockInv'
    BY <1>1, <1>2, <1>5, Disjoint
       DEF TypeOK, StackInv, LabelInv, LockInv, StateInv, SleepLockInv,
           Holds, Handler, WithPt, WithLk, Parked, YState, procVars
  <1> QED
    BY <1>3, <1>4, <1>6, <1>7, Zenon DEF IInv

(* The scheduler's context. *)
LEMMA RunningScheduler ==
    ASSUME Inv, NEW c \in CPUs, pc[on[c]] \notin ProcLabels
    PROVE  on[c] = c /\ c \in Contexts /\ c \notin Procs
  BY Disjoint, Zenon DEF Inv, IInv, KernelInv, StackInv, LabelInv

LEMMA ScanEndKeeps ==
    ASSUME Constants, Inv, NEW c \in CPUs, ScanEnd(c)
    PROVE  Inv'
  <1> /\ TypeOK /\ StackInv /\ LabelInv /\ LockInv /\ IntenaInv
      /\ StateInv /\ SleepLockInv
    BY Zenon DEF Inv, IInv, KernelInv
  <1> SUFFICES IInv'
    BY Zenon DEF Inv
  <1>1. pc[on[c]] = "s_scan" /\ pc' = [pc EXCEPT ![on[c]] = "s_rel"]
    BY Zenon DEF ScanEnd, At, Goto
  <1>2. on[c] = c /\ c \in Contexts /\ c \notin Procs
    BY <1>1, RunningScheduler, Zenon DEF ProcLabels, Handler
  <1>3. KernelInv' /\ pc' \in [Contexts -> SchedLabels \cup ProcLabels]
    BY <1>1, <1>2, MoveKeeps, Zenon DEF ScanEnd, cpuVars, Acquires, WithPt, WithLk, Handler, SchedLabels
  <1>4. TypeOK'
    BY <1>2, <1>3, Zenon DEF TypeOK, ScanEnd, cpuVars, procVars
  <1>5. \A x \in Procs : pc'[x] = pc[x]
    BY <1>1, <1>2, Disjoint, Zenon DEF TypeOK
  <1>6. StateInv'
    BY <1>5, Zenon DEF TypeOK, StateInv, ScanEnd, procVars
  <1>7. SleepLockInv'
    BY <1>5, Zenon DEF SleepLockInv, Holds, ScanEnd, procVars
  <1> QED
    BY <1>3, <1>4, <1>6, <1>7, Zenon DEF IInv

LEMMA ScanSkipKeeps ==
    ASSUME Constants, Inv, NEW c \in CPUs, ScanSkip(c)
    PROVE  Inv'
  <1> /\ TypeOK /\ StackInv /\ LabelInv /\ LockInv /\ IntenaInv
      /\ StateInv /\ SleepLockInv
    BY Zenon DEF Inv, IInv, KernelInv
  <1> SUFFICES IInv'
    BY Zenon DEF Inv
  <1>1. TypeOK'
    BY SMTT(30) DEF TypeOK, ScanSkip, cpuVars, procVars
  <1>2. KernelInv'
    BY DEF KernelInv, StackInv, LabelInv, LockInv, Depth, IntenaInv, ScanSkip, cpuVars
  <1>3. StateInv' /\ SleepLockInv'
    BY Zenon DEF StateInv, SleepLockInv, Holds, ScanSkip, procVars
  <1> QED
    BY <1>1, <1>2, <1>3, Zenon DEF IInv

LEMMA ScanBackKeeps ==
    ASSUME Constants, Inv, NEW c \in CPUs, ScanBack(c)
    PROVE  Inv'
  <1> /\ TypeOK /\ StackInv /\ LabelInv /\ LockInv /\ IntenaInv
      /\ StateInv /\ SleepLockInv
    BY Zenon DEF Inv, IInv, KernelInv
  <1> SUFFICES IInv'
    BY Zenon DEF Inv
  <1>1. pc[on[c]] = "s_back" /\ pc' = [pc EXCEPT ![on[c]] = "s_scan"]
    BY Zenon DEF ScanBack, At, Goto
  <1>2. on[c] = c /\ c \in Contexts /\ c \notin Procs
    BY <1>1, RunningScheduler, Zenon DEF ProcLabels, Handler
  <1>3. TypeOK'
    BY <1>1, <1>2 DEF TypeOK, ScanBack, cpuVars, procVars, SchedLabels
  <1>4. \A x \in Contexts : pc'[x] = IF x = c THEN "s_scan" ELSE pc[x]
    BY <1>1, <1>2 DEF TypeOK
  <1>5. \A d \in CPUs : /\ pc'[on[d]] \in WithPt <=> pc[on[d]] \in WithPt
                        /\ pc'[on[d]] \in WithLk <=> pc[on[d]] \in WithLk
    BY <1>1, <1>2, <1>4, Zenon DEF TypeOK, WithPt, WithLk
  <1>6. StackInv'
    BY <1>2, <1>4, Disjoint, SMTT(30) DEF TypeOK, StackInv, ScanBack
  <1>7. LabelInv'
    BY <1>1, <1>2, <1>4, Disjoint, SMTT(30) DEF TypeOK, LabelInv, ScanBack, SchedLabels, Handler, Acquires
  <1>8. LockInv'
    BY <1>5 DEF LockInv, Depth, ScanBack, cpuVars
  <1>9. IntenaInv'
    BY <1>2, <1>4, Disjoint, Zenon DEF TypeOK, IntenaInv, ScanBack, cpuVars
  <1>10. /\ \A p \in Procs : pc'[p] = pc[p] /\ ret'[p] = ret[p]
         /\ UNCHANGED <<locked, state, chan, on>>
    BY <1>2, <1>4, Disjoint, Zenon DEF ScanBack, procVars
  <1>11. StateInv'
    BY <1>10, Zenon DEF StateInv
  <1>12. SleepLockInv'
    BY <1>10, ZenonT(30) DEF SleepLockInv, Holds
  <1> QED
    BY <1>3, <1>6, <1>7, <1>8, <1>9, <1>11, <1>12, Zenon DEF IInv, KernelInv

LEMMA StiKeeps ==
    ASSUME Constants, Inv, NEW c \in CPUs, Sti(c)
    PROVE  Inv'
  <1> /\ TypeOK /\ StackInv /\ LabelInv /\ LockInv /\ IntenaInv
      /\ StateInv /\ SleepLockInv
    BY Zenon DEF Inv, IInv, KernelInv
  <1> SUFFICES IInv'
    BY Zenon DEF Inv
  <1>1. pc[on[c]] = "s_sti" /\ pc' = [pc EXCEPT ![on[c]] = "s_acq"]
    BY Zenon DEF Sti, At, Goto
  <1>2. on[c] = c /\ c \in Contexts /\ c \notin Procs
    BY <1>1, RunningScheduler, Zenon DEF ProcLabels, Handler
  <1>3. TypeOK'
    BY <1>1, <1>2, Zenon DEF TypeOK, Sti, procVars, SchedLabels
  <1>4. \A x \in Contexts : pc'[x] = IF x = c THEN "s_acq" ELSE pc[x]
    BY <1>1, <1>2, Zenon DEF TypeOK
  <1>5. \A d \in CPUs : /\ pc'[on[d]] \in WithPt <=> pc[on[d]] \in WithPt
                        /\ pc'[on[d]] \in WithLk <=> pc[on[d]] \in WithLk
    BY <1>1, <1>2, <1>4, Zenon DEF TypeOK, WithPt, WithLk
  <1>6. StackInv'
    BY <1>1, <1>2, <1>4, Disjoint DEF TypeOK, StackInv, Sti
  <1>7. LabelInv'
    BY <1>1, <1>2, <1>4, Disjoint, SMTT(30) DEF TypeOK, LabelInv, Sti, SchedLabels, Handler, Acquires
  <1>8. LockInv'
    <2>1. ~spinning[c] /\ pc[c] \notin WithPt /\ pc[c] \notin WithLk
      BY <1>1, <1>2, Zenon DEF LabelInv, WithPt, WithLk, Acquires
    <2>2. ncli[c] = 0
      BY <1>2, <2>1 DEF LockInv, Depth, One
    <2>3. /\ \A d \in CPUs : d # c => iflag'[d] = iflag[d]
          /\ lock' = lock /\ on' = on /\ ncli' = ncli /\ spinning' = spinning
      BY Zenon DEF TypeOK, Sti
    <2>4. \A d \in CPUs : Depth(on[d])' = Depth(on[d])
      BY <1>5, <2>3 DEF Depth
    <2>5. \A d \in CPUs : ncli'[d] > 0 => ~iflag'[d]
      BY <2>2, <2>3 DEF LockInv
    <2> QED
      BY <1>5, <2>3, <2>4, <2>5 DEF LockInv
  <1>9. IntenaInv'
    BY <1>2, <1>4, Disjoint DEF TypeOK, IntenaInv, Sti
  <1>10. /\ \A p \in Procs : pc'[p] = pc[p] /\ ret'[p] = ret[p]
         /\ UNCHANGED <<locked, state, chan, on>>
    BY <1>2, <1>4, Disjoint, Zenon DEF Sti, procVars
  <1>11. StateInv'
    BY <1>10, Zenon DEF StateInv
  <1>12. SleepLockInv'
    BY <1>10, ZenonT(30) DEF SleepLockInv, Holds
  <1> QED
    BY <1>3, <1>6, <1>7, <1>8, <1>9, <1>11, <1>12, Zenon DEF IInv, KernelInv

LEMMA TickDoneKeeps ==
    ASSUME Constants, Inv, NEW c \in CPUs, TickDone(c)
    PROVE  Inv'
  <1> /\ TypeOK /\ StackInv /\ LabelInv /\ LockInv /\ IntenaInv
      /\ StateInv /\ SleepLockInv
    BY Zenon DEF Inv, IInv, KernelInv
  <1> SUFFICES IInv'
    BY Zenon DEF Inv
  <1> DEFINE m == AfterTick(c)
  <1>1. pc[on[c]] = "i_done" /\ pc' = [pc EXCEPT ![on[c]] = m]
    BY Zenon DEF TickDone, At, Goto
  <1>2. /\ on[c] \in Contexts /\ (on[c] \in Procs \/ on[c] = c)
        /\ \A d \in CPUs : on[d] = on[c] => d = c
    BY Disjoint, Zenon DEF StackInv
  <1>3. m \in {"y_acq", "iret"} /\ (on[c] \in CPUs => m = "iret")
    BY <1>1, <1>2, Disjoint, Zenon DEF StackInv, AfterTick
  <1> HIDE DEF m
  <1>4. KernelInv' /\ pc' \in [Contexts -> SchedLabels \cup ProcLabels]
    BY <1>1, <1>3, MoveKeeps, Zenon
       DEF TickDone, cpuVars, Acquires, WithPt, WithLk, Handler, SchedLabels, ProcLabels
  <1>5. TypeOK'
    BY <1>4, Zenon DEF TypeOK, TickDone, cpuVars, procVars
  <1>6. \A x \in Contexts : pc'[x] = IF x = on[c] THEN m ELSE pc[x]
    BY <1>1, <1>2 DEF TypeOK
  <1>7. StateInv'
    BY <1>1, <1>2, <1>3, <1>6, Disjoint, Zenon DEF TypeOK, StateInv, TickDone, procVars
  <1>8. SleepLockInv'
    BY <1>1, <1>2, <1>3, <1>6, Disjoint
       DEF TypeOK, LabelInv, SleepLockInv, Holds, Handler, TickDone, procVars
  <1> QED
    BY <1>4, <1>5, <1>7, <1>8, Zenon DEF IInv

(* The context that a CPU executes. *)
LEMMA RunningContext ==
    ASSUME Inv, NEW c \in CPUs
    PROVE  /\ on[c] \in Contexts /\ (on[c] \in Procs \/ on[c] = c)
           /\ \A d \in CPUs : on[d] = on[c] => d = c
           /\ on[c] \in Procs => pc[on[c]] \in ProcLabels
           /\ on[c] \in CPUs => pc[on[c]] \in SchedLabels
  BY Disjoint, Zenon DEF Inv, IInv, TypeOK, KernelInv, StackInv, LabelInv

LEMMA PushcliKeeps ==
    ASSUME Constants, Inv, NEW c \in CPUs, Pushcli(c)
    PROVE  Inv'
  <1> /\ TypeOK /\ StackInv /\ LabelInv /\ LockInv /\ IntenaInv
      /\ StateInv /\ SleepLockInv
    BY Zenon DEF Inv, IInv, KernelInv
  <1> SUFFICES IInv'
    BY Zenon DEF Inv
  <1> USE DEF Pushcli
  <1> DEFINE l == pc[on[c]]
  <1>0. l \in DOMAIN Acquires /\ ~spinning[on[c]] /\ pc' = pc
    BY Zenon
  <1>1. /\ on[c] \in Contexts /\ (on[c] \in Procs \/ on[c] = c)
        /\ \A d \in CPUs : on[d] = on[c] => d = c
    BY RunningContext, Zenon
  <1>2. /\ Acquires[l].lk \in {"pt", "lk"}
        /\ l \notin IF Acquires[l].lk = "pt" THEN WithPt ELSE WithLk
        /\ l \notin Parked \cup {"s_back"}
    BY <1>0, AcquireCalls, Zenon
  <1>3. ~panicked'
    BY <1>2, Zenon DEF LockInv
  <1>4. TypeOK'
    <2>1. ncli' \in [CPUs -> Nat] /\ panicked' = FALSE
      BY <1>3 DEF TypeOK
    <2>2. intena' \in [CPUs -> BOOLEAN] /\ iflag' \in [CPUs -> BOOLEAN]
      BY Zenon DEF TypeOK
    <2>3. spinning' \in [Contexts -> BOOLEAN]
      BY Zenon DEF TypeOK
    <2> QED
      BY <2>1, <2>2, <2>3, Zenon DEF TypeOK, procVars
  <1>5. StackInv'
    BY Zenon DEF StackInv
  <1>6. LabelInv'
    BY <1>0, <1>1, Zenon DEF TypeOK, LabelInv
  <1>7. LockInv'
    <2>1. ASSUME NEW d \in CPUs
          PROVE  ncli'[d] = Depth(on[d])' /\ (ncli'[d] > 0 => ~iflag'[d])
      <3>1. CASE d = c
        <4>1. ncli'[c] = ncli[c] + 1 /\ iflag'[c] = FALSE
          BY Zenon DEF TypeOK
        <4>2. Depth(on[c])' = Depth(on[c]) + 1
          BY <1>0, <1>1 DEF TypeOK, Depth, One
        <4> QED
          BY <3>1, <4>1, <4>2, Zenon DEF LockInv
      <3>2. CASE d # c
        <4>1. ncli'[d] = ncli[d] /\ iflag'[d] = iflag[d]
          BY <3>2, Zenon DEF TypeOK
        <4>2. on[d] # on[c] /\ on[d] \in Contexts
          BY <1>1, <3>2, Zenon DEF TypeOK
        <4>3. Depth(on[d])' = Depth(on[d])
          BY <4>2, Zenon DEF TypeOK, Depth
        <4> QED
          BY <4>1, <4>3, Zenon DEF LockInv
      <3> QED
        BY <3>1, <3>2, Zenon
    <2> QED
      BY <2>1, Zenon DEF LockInv
  <1>8. IntenaInv'
    <2>1. \A d \in CPUs : d # c => ncli'[d] = ncli[d] /\ iflag'[d] = iflag[d] /\ intena'[d] = intena[d]
      BY Zenon DEF TypeOK
    <2>2. ncli'[c] # 0 /\ (ncli[c] = 0 => intena'[c] = iflag[c]) /\ (ncli[c] # 0 => intena'[c] = intena[c])
      BY DEF TypeOK
    <2> QED
      BY <2>1, <2>2, SMTT(30) DEF IntenaInv
  <1>9. StateInv' /\ SleepLockInv'
    BY ZenonT(30) DEF StateInv, SleepLockInv, Holds, procVars
  <1> QED
    BY <1>4, <1>5, <1>6, <1>7, <1>8, <1>9, Zenon DEF IInv, KernelInv

LEMMA XchgKeeps ==
    ASSUME Constants, Inv, NEW c \in CPUs, Xchg(c)
    PROVE  Inv'
  <1> /\ TypeOK /\ StackInv /\ LabelInv /\ LockInv /\ IntenaInv
      /\ StateInv /\ SleepLockInv
    BY Zenon DEF Inv, IInv, KernelInv
  <1> SUFFICES IInv'
    BY Zenon DEF Inv
  <1> DEFINE l == pc[on[c]]
             k == Acquires[l].lk
             t == Acquires[l].then
  <1>0. /\ spinning[on[c]] /\ lock[k] = None /\ lock' = [lock EXCEPT ![k] = c]
        /\ pc' = [pc EXCEPT ![on[c]] = t] /\ spinning' = [spinning EXCEPT ![on[c]] = FALSE]
        /\ UNCHANGED <<locked, state, chan, proc, on, next, ncli, intena, iflag, ret, intenaSaved,
                       panicked>>
    BY Zenon DEF Xchg, Goto, procVars, cpuVars
  <1>1. /\ on[c] \in Contexts /\ (on[c] \in Procs \/ on[c] = c)
        /\ \A d \in CPUs : on[d] = on[c] => d = c
        /\ on[c] \in Procs => l \in ProcLabels
        /\ on[c] \in CPUs => l \in SchedLabels
    BY RunningContext, Zenon
  <1>2. l \in DOMAIN Acquires
    BY <1>0, <1>1, Zenon DEF LabelInv
  <1>3. /\ k \in {"pt", "lk"}
        /\ l \in SchedLabels => t \in SchedLabels
        /\ l \in ProcLabels => t \in ProcLabels
        /\ t \notin Parked \cup {"s_back"} /\ l \notin Parked \cup {"s_back"}
        /\ l \in Handler <=> t \in Handler
        /\ l \notin IF k = "pt" THEN WithPt ELSE WithLk
        /\ t \in WithPt <=> (l \in WithPt \/ k = "pt")
        /\ t \in WithLk <=> (l \in WithLk \/ k = "lk")
    BY <1>2, AcquireCalls, Zenon
  <1>4. <<l, t>> \in {<<"as_acq", "as_test">>, <<"sl_acq", "sl_rel">>, <<"sl_reacq", "as_test">>,
                      <<"rs_acq", "rs_clear">>, <<"wk_acq", "wk_scan">>, <<"i_acq", "i_rel">>,
                      <<"y_acq", "y_state">>, <<"s_acq", "s_scan">>}
    BY <1>2 DEF Acquires, Call
  <1> HIDE DEF l, k, t
  <1>5. l = pc[on[c]] /\ \A x \in Contexts : pc'[x] = IF x = on[c] THEN t ELSE pc[x]
    BY <1>0, <1>1, Zenon DEF TypeOK, l
  <1>6. TypeOK'
    <2>1. pc' \in [Contexts -> SchedLabels \cup ProcLabels]
      BY <1>0, <1>1, <1>3, Zenon DEF TypeOK
    <2>2. lock' \in [{"pt", "lk"} -> CPUs \cup {None}]
      BY <1>0, <1>3, Zenon DEF TypeOK
    <2>3. spinning' \in [Contexts -> BOOLEAN]
      BY <1>0, Zenon DEF TypeOK
    <2> QED
      BY <1>0, <2>1, <2>2, <2>3, Zenon DEF TypeOK
  <1>7. StackInv'
    BY <1>0, <1>1, <1>3, <1>5, Disjoint DEF TypeOK, StackInv
  <1>8. LabelInv'
    BY <1>0, <1>1, <1>3, <1>5, Disjoint, Zenon DEF TypeOK, LabelInv
  <1>9. LockInv'
    <2>1. \A d \in CPUs : d # c => on[d] # on[c] /\ on[d] \in Contexts /\ pc'[on[d]] = pc[on[d]]
      BY <1>1, <1>5, Zenon DEF TypeOK
    <2>2. pc'[on[c]] = t /\ spinning'[on[c]] = FALSE
      BY <1>0, <1>1, <1>5, Zenon DEF TypeOK
    <2>4. \A d \in CPUs : lock'["pt"] = d <=> pc'[on[d]] \in WithPt
      <3>1. CASE k = "pt"
        <4>1. lock'["pt"] = c /\ pc'[on[c]] \in WithPt
          BY <1>0, <1>3, <2>2, <3>1, Zenon DEF TypeOK
        <4>2. \A d \in CPUs : d # c => pc'[on[d]] \notin WithPt
          BY <1>0, <2>1, <3>1, Zenon DEF LockInv, Constants
        <4> QED
          BY <4>1, <4>2, Zenon
      <3>2. CASE k # "pt"
        <4>1. lock'["pt"] = lock["pt"]
          BY <1>0, <3>2, Zenon DEF TypeOK
        <4>2. pc'[on[c]] \in WithPt <=> pc[on[c]] \in WithPt
          BY <1>3, <1>5, <2>2, <3>2, Zenon
        <4> QED
          BY <2>1, <4>1, <4>2, Zenon DEF LockInv
      <3> QED
        BY <3>1, <3>2, Zenon
    <2>5. \A d \in CPUs : lock'["lk"] = d <=> pc'[on[d]] \in WithLk
      <3>1. CASE k = "lk"
        <4>1. lock'["lk"] = c /\ pc'[on[c]] \in WithLk
          BY <1>0, <1>3, <2>2, <3>1, Zenon DEF TypeOK
        <4>2. \A d \in CPUs : d # c => pc'[on[d]] \notin WithLk
          BY <1>0, <2>1, <3>1, Zenon DEF LockInv, Constants
        <4> QED
          BY <4>1, <4>2, Zenon
      <3>2. CASE k # "lk"
        <4>1. lock'["lk"] = lock["lk"]
          BY <1>0, <3>2, Zenon DEF TypeOK
        <4>2. pc'[on[c]] \in WithLk <=> pc[on[c]] \in WithLk
          BY <1>3, <1>5, <2>2, <3>2, Zenon
        <4> QED
          BY <2>1, <4>1, <4>2, Zenon DEF LockInv
      <3> QED
        BY <3>1, <3>2, Zenon
    <2>6. Depth(on[c])' = Depth(on[c])
      BY <1>0, <1>3, <1>5, <2>2 DEF Depth, One
    <2>7. \A d \in CPUs : d # c => Depth(on[d])' = Depth(on[d])
      BY <1>0, <2>1, Zenon DEF TypeOK, Depth
    <2> QED
      BY <1>0, <2>4, <2>5, <2>6, <2>7 DEF LockInv
  <1>10. IntenaInv'
    BY <1>0, <1>1, <1>3, <1>5, Disjoint, ZenonT(30) DEF TypeOK, IntenaInv, Parked
  <1>11. StateInv'
    BY <1>0, <1>1, <1>4, <1>5, Disjoint, Zenon DEF TypeOK, StateInv
  <1>12. SleepLockInv'
    BY <1>0, <1>1, <1>4, <1>5, Disjoint, SMTT(30)
       DEF TypeOK, LabelInv, SleepLockInv, Holds, Handler
  <1> QED
    BY <1>6, <1>7, <1>8, <1>9, <1>10, <1>11, <1>12, Zenon DEF IInv, KernelInv

LEMMA ReleaseKeeps ==
    ASSUME Constants, Inv, NEW c \in CPUs, Release(c)
    PROVE  Inv'
  <1> /\ TypeOK /\ StackInv /\ LabelInv /\ LockInv /\ IntenaInv
      /\ StateInv /\ SleepLockInv
    BY Zenon DEF Inv, IInv, KernelInv
  <1> SUFFICES IInv'
    BY Zenon DEF Inv
  <1> DEFINE l == pc[on[c]]
             k == Releases[l].lk
             t == Releases[l].then
  <1>0. /\ l \in DOMAIN Releases /\ panicked' = (lock[k] # c \/ iflag[c] \/ ncli[c] < 1)
        /\ lock' = [lock EXCEPT ![k] = None]
        /\ pc' = [pc EXCEPT ![on[c]] = t] /\ ncli' = [ncli EXCEPT ![c] = @ - 1]
        /\ iflag' = IF ncli[c] = 1 /\ intena[c] THEN [iflag EXCEPT ![c] = TRUE] ELSE iflag
        /\ UNCHANGED <<locked, state, chan, proc, on, next, intena, ret, intenaSaved, spinning>>
    BY Zenon DEF Release, Goto, procVars, Popcli
  <1>1. /\ on[c] \in Contexts /\ (on[c] \in Procs \/ on[c] = c)
        /\ \A d \in CPUs : on[d] = on[c] => d = c
        /\ on[c] \in Procs => l \in ProcLabels
        /\ on[c] \in CPUs => l \in SchedLabels
    BY RunningContext, Zenon
  <1>3. /\ k \in {"pt", "lk"}
        /\ l \in SchedLabels => t \in SchedLabels
        /\ l \in ProcLabels => t \in ProcLabels
        /\ l \notin DOMAIN Acquires
        /\ t \notin Parked \cup {"s_back"} /\ l \notin {"sl_resume", "s_back"}
        /\ l \in Handler <=> t \in Handler
        /\ l \in IF k = "pt" THEN WithPt ELSE WithLk
        /\ t \in WithPt <=> (l \in WithPt /\ k # "pt")
        /\ t \in WithLk <=> (l \in WithLk /\ k # "lk")
    BY <1>0, ReleaseCalls, Zenon
  <1>4. <<l, t>> \in {<<"as_rel", "crit">>, <<"sl_rel", "sl_state">>, <<"sl_relpt", "sl_reacq">>,
                      <<"wk_rel", "rs_rel">>, <<"rs_rel", "user">>, <<"i_rel", "i_done">>,
                      <<"y_rel", "iret">>, <<"s_rel", "s_sti">>, <<"forkret", "iret">>}
    <2>1. l \in {"as_rel", "sl_rel", "sl_relpt", "wk_rel", "rs_rel", "i_rel", "y_rel", "s_rel",
                 "forkret"}
      BY <1>0, Zenon DEF Releases
    <2> QED
      BY <2>1 DEF Releases, Call
  <1> HIDE DEF l, k, t
  <1>5. l = pc[on[c]] /\ \A x \in Contexts : pc'[x] = IF x = on[c] THEN t ELSE pc[x]
    BY <1>0, <1>1, Zenon DEF TypeOK, l
  <1>2. /\ lock[k] = c /\ ~iflag[c] /\ ncli[c] = Depth(on[c]) /\ ncli[c] \in Nat \ {0}
        /\ ~spinning[on[c]]
    <2>1. lock[k] = c
      BY <1>3, <1>5, Zenon DEF LockInv
    <2>2. ncli[c] = Depth(on[c]) /\ ncli[c] \in Nat
      BY Zenon DEF TypeOK, LockInv
    <2>3. Depth(on[c]) \in Nat \ {0}
      BY <1>3, <1>5 DEF Depth, One
    <2>4. ~spinning[on[c]]
      BY <1>1, <1>3, <1>5, Zenon DEF LabelInv
    <2>5. ~iflag[c]
      BY <2>2, <2>3 DEF LockInv
    <2> QED
      BY <2>1, <2>2, <2>3, <2>4, <2>5, Zenon
  <1>6. TypeOK'
    <2>1. pc' \in [Contexts -> SchedLabels \cup ProcLabels]
      BY <1>0, <1>1, <1>3, Zenon DEF TypeOK
    <2>2. lock' \in [{"pt", "lk"} -> CPUs \cup {None}]
      BY <1>0, <1>3, Zenon DEF TypeOK
    <2>3. ncli' \in [CPUs -> Nat] /\ panicked' = FALSE
      BY <1>0, <1>2 DEF TypeOK
    <2>4. iflag' \in [CPUs -> BOOLEAN]
      BY <1>0, Zenon DEF TypeOK
    <2> QED
      BY <1>0, <2>1, <2>2, <2>3, <2>4, Zenon DEF TypeOK
  <1>7. StackInv'
    BY <1>0, <1>1, <1>3, <1>5, Disjoint DEF TypeOK, StackInv
  <1>8. LabelInv'
    BY <1>0, <1>1, <1>3, <1>5, Disjoint, Zenon DEF TypeOK, LabelInv
  <1>13. \A d \in CPUs : d # c => /\ on[d] # on[c] /\ on[d] \in Contexts /\ pc'[on[d]] = pc[on[d]]
                                  /\ ncli'[d] = ncli[d] /\ iflag'[d] = iflag[d]
    BY <1>0, <1>1, <1>5, Zenon DEF TypeOK
  <1>14. /\ pc'[on[c]] = t /\ ncli'[c] = ncli[c] - 1
         /\ ncli'[c] = 0 /\ intena[c] => iflag'[c]
         /\ ncli'[c] > 0 => ~iflag'[c]
    BY <1>0, <1>1, <1>2, <1>5, SMTT(30) DEF TypeOK
  <1>9. LockInv'
    <2>4. \A d \in CPUs : lock'["pt"] = d <=> pc'[on[d]] \in WithPt
      <3>1. CASE k = "pt"
        <4>1. lock'["pt"] = None /\ pc'[on[c]] \notin WithPt
          BY <1>0, <1>3, <1>14, <3>1, Zenon DEF TypeOK
        <4>2. \A d \in CPUs : d # c => pc'[on[d]] \notin WithPt
          BY <1>2, <1>13, <3>1, Zenon DEF LockInv
        <4> QED
          BY <4>1, <4>2, Zenon DEF Constants
      <3>2. CASE k # "pt"
        <4>1. lock'["pt"] = lock["pt"]
          BY <1>0, <3>2, Zenon DEF TypeOK
        <4>2. pc'[on[c]] \in WithPt <=> pc[on[c]] \in WithPt
          BY <1>3, <1>5, <1>14, <3>2, Zenon
        <4> QED
          BY <1>13, <4>1, <4>2, Zenon DEF LockInv
      <3> QED
        BY <3>1, <3>2, Zenon
    <2>5. \A d \in CPUs : lock'["lk"] = d <=> pc'[on[d]] \in WithLk
      <3>1. CASE k = "lk"
        <4>1. lock'["lk"] = None /\ pc'[on[c]] \notin WithLk
          BY <1>0, <1>3, <1>14, <3>1, Zenon DEF TypeOK
        <4>2. \A d \in CPUs : d # c => pc'[on[d]] \notin WithLk
          BY <1>2, <1>13, <3>1, Zenon DEF LockInv
        <4> QED
          BY <4>1, <4>2, Zenon DEF Constants
      <3>2. CASE k # "lk"
        <4>1. lock'["lk"] = lock["lk"]
          BY <1>0, <3>2, Zenon DEF TypeOK
        <4>2. pc'[on[c]] \in WithLk <=> pc[on[c]] \in WithLk
          BY <1>3, <1>5, <1>14, <3>2, Zenon
        <4> QED
          BY <1>13, <4>1, <4>2, Zenon DEF LockInv
      <3> QED
        BY <3>1, <3>2, Zenon
    <2>6. Depth(on[c])' = Depth(on[c]) - 1
      BY <1>0, <1>3, <1>5, <1>14 DEF Depth, One
    <2>7. \A d \in CPUs : d # c => Depth(on[d])' = Depth(on[d])
      BY <1>0, <1>13, Zenon DEF TypeOK, Depth
    <2> QED
      BY <1>0, <1>2, <1>13, <1>14, <2>4, <2>5, <2>6, <2>7, SMTT(30) DEF LockInv
  <1>10. IntenaInv'
    BY <1>0, <1>1, <1>2, <1>3, <1>5, <1>13, <1>14, Disjoint DEF TypeOK, IntenaInv, Parked
  <1>11. StateInv'
    BY <1>0, <1>1, <1>4, <1>5, Disjoint, Zenon DEF TypeOK, StateInv
  <1>12. SleepLockInv'
    BY <1>0, <1>1, <1>4, <1>5, Disjoint
       DEF TypeOK, LabelInv, SleepLockInv, Holds, Handler
  <1> QED
    BY <1>6, <1>7, <1>8, <1>9, <1>10, <1>11, <1>12, Zenon DEF IInv, KernelInv

LEMMA SchedKeeps ==
    ASSUME Constants, Inv, NEW c \in CPUs, Sched(c)
    PROVE  Inv'
  <1> /\ TypeOK /\ StackInv /\ LabelInv /\ LockInv /\ IntenaInv
      /\ StateInv /\ SleepLockInv
    BY Zenon DEF Inv, IInv, KernelInv
  <1> SUFFICES IInv'
    BY Zenon DEF Inv
  <1> DEFINE l == pc[on[c]]
             t == IF l = "sl_sched" THEN "sl_resume" ELSE "y_resume"
  <1>0. /\ l \in {"sl_sched", "y_sched"}
        /\ panicked' = (\/ lock["pt"] # c \/ ncli[c] # 1 \/ state[proc[c]] = "RUNNING" \/ iflag[c])
        /\ intenaSaved' = [intenaSaved EXCEPT ![proc[c]] = intena[c]]
        /\ on' = [on EXCEPT ![c] = c] /\ pc' = [pc EXCEPT ![on[c]] = t]
        /\ UNCHANGED <<lock, locked, state, chan, proc, next, ncli, intena, iflag, spinning, ret>>
    BY Zenon DEF Sched, Goto, procVars, cpuVars
  <1>1. /\ on[c] \in Procs /\ on[c] \notin CPUs /\ on[c] \in Contexts
        /\ proc[c] = on[c] /\ on[c] # c
        /\ \A d \in CPUs : on[d] = on[c] => d = c
    BY <1>0, RunningProcess, Zenon DEF SchedLabels
  <1>2. pc[c] = "s_back" /\ ~spinning[c] /\ ~spinning[on[c]]
    <2>1. pc[c] = "s_back"
      BY <1>1, Zenon DEF StackInv
    <2> QED
      BY <1>0, <1>1, <2>1, Disjoint, Zenon DEF LabelInv, Acquires
  <1>3. lock["pt"] = c /\ ncli[c] = 1 /\ state[proc[c]] # "RUNNING" /\ ~iflag[c]
    <2>1. lock["pt"] = c
      BY <1>0, Zenon DEF LockInv, WithPt
    <2>2. Depth(on[c]) = 1
      BY <1>0, <1>2 DEF Depth, One, WithPt, WithLk
    <2>3. ncli[c] = 1 /\ ~iflag[c]
      BY <2>2 DEF LockInv
    <2>4. state[proc[c]] # "RUNNING"
      BY <1>0, <1>1, Zenon DEF StateInv
    <2> QED
      BY <2>1, <2>3, <2>4, Zenon
  <1>4. \A x \in Contexts : pc'[x] = IF x = on[c] THEN t ELSE pc[x]
    BY <1>0, <1>1, Zenon DEF TypeOK
  <1>5. \A d \in CPUs : on'[d] = IF d = c THEN c ELSE on[d]
    BY <1>0, Zenon DEF TypeOK
  <1>6. t \in {"sl_resume", "y_resume"} /\ (t = "sl_resume" <=> l = "sl_sched")
    BY Zenon
  <1> HIDE DEF t
  <1>7. TypeOK'
    <2>1. pc' \in [Contexts -> SchedLabels \cup ProcLabels]
      BY <1>0, <1>1, <1>6, Zenon DEF TypeOK, ProcLabels, Handler
    <2>2. panicked' = FALSE
      BY <1>0, <1>3, Zenon
    <2>3. intenaSaved' \in [Procs -> BOOLEAN]
      BY <1>0, <1>1, Zenon DEF TypeOK
    <2>4. on' \in [CPUs -> Contexts]
      BY <1>0, Disjoint, Zenon DEF TypeOK
    <2> QED
      BY <1>0, <2>1, <2>2, <2>3, <2>4, Zenon DEF TypeOK
  <1>8. StackInv'
    <2>1. \A d \in CPUs : on'[d] \in Procs \cup {d}
      BY <1>5, Zenon DEF StackInv
    <2>2. \A d, e \in CPUs : on'[d] = on'[e] => d = e
      <3>1. /\ \A d \in CPUs : d # c => on'[d] = on[d] /\ on[d] # c
            /\ on'[c] = c
        BY <1>5, Disjoint, Zenon DEF StackInv
      <3> QED
        BY <3>1, Zenon DEF StackInv
    <2>6. /\ \A d \in CPUs : d # c => on'[d] = on[d]
          /\ \A d \in CPUs : pc'[d] = pc[d]
          /\ on'[c] = c /\ pc'[c] = "s_back" /\ proc' = proc
      BY <1>0, <1>1, <1>2, <1>4, <1>5, Disjoint, Zenon
    <2>3. \A d \in CPUs : on'[d] # d => proc'[d] = on'[d] /\ pc'[d] = "s_back"
      BY <2>6, Zenon DEF StackInv
    <2>4. \A d \in CPUs : on'[d] = d /\ pc'[d] # "s_back" => proc'[d] = None
      BY <2>6, Zenon DEF StackInv
    <2>5. ASSUME NEW p \in Procs, \A d \in CPUs : on'[d] # p
          PROVE  pc'[p] \in Parked
      <3>1. CASE p = on[c]
        BY <1>1, <1>4, <1>6, <3>1, Zenon DEF Parked
      <3>2. CASE p # on[c]
        BY <1>4, <1>5, <2>5, <3>2, Disjoint, Zenon DEF StackInv
      <3> QED
        BY <3>1, <3>2, Zenon
    <2> QED
      BY <2>1, <2>2, <2>3, <2>4, <2>5, Zenon DEF StackInv
  <1>9. LabelInv'
    BY <1>0, <1>1, <1>2, <1>4, <1>6, Disjoint
       DEF TypeOK, LabelInv, ProcLabels, Handler
  <1>10. LockInv'
    <2>1. \A d \in CPUs : d # c => on'[d] = on[d] /\ on[d] # on[c] /\ on[d] \in Contexts
                                   /\ pc'[on[d]] = pc[on[d]]
      BY <1>1, <1>4, <1>5, Zenon DEF TypeOK
    <2>2. on'[c] = c /\ pc'[c] = "s_back"
      BY <1>1, <1>2, <1>4, <1>5, Disjoint, Zenon
    <2>3. Depth(c)' = 1
      BY <1>0, <1>2, <2>2 DEF Depth, One, WithPt, WithLk
    <2>4. \A d \in CPUs : d # c => Depth(on[d])' = Depth(on[d])
      BY <1>0, <2>1, Zenon DEF Depth
    <2>5. \A d \in CPUs : (ncli[d] = Depth(on[d]))'
      <3>1. (ncli[c] = Depth(on[c]))'
        BY <1>0, <1>3, <2>2, <2>3, Zenon DEF Depth
      <3>2. \A d \in CPUs : d # c => (ncli[d] = Depth(on[d]))'
        BY <1>0, <2>1, SMTT(30) DEF LockInv, Depth
      <3> QED
        BY <3>1, <3>2, Zenon
    <2>6. \A d \in CPUs : lock'["pt"] = d <=> pc'[on'[d]] \in WithPt
      <3>1. lock'["pt"] = c /\ pc'[on'[c]] \in WithPt
        BY <1>0, <1>3, <2>2, Zenon DEF WithPt
      <3>2. \A d \in CPUs : d # c => (lock["pt"] = d <=> pc'[on'[d]] \in WithPt)
        <4> SUFFICES ASSUME NEW d \in CPUs, d # c
                     PROVE  lock["pt"] = d <=> pc'[on'[d]] \in WithPt
          BY Zenon
        <4>1. pc'[on'[d]] = pc[on[d]]
          BY <2>1, Zenon
        <4> QED
          BY <4>1, Zenon DEF LockInv
      <3> QED
        BY <1>0, <3>1, <3>2, Zenon
    <2>7. \A d \in CPUs : lock'["lk"] = d <=> pc'[on'[d]] \in WithLk
      <3>1. lock["lk"] # c /\ pc'[on'[c]] \notin WithLk
        BY <1>0, <2>2, Zenon DEF LockInv, WithLk
      <3>2. \A d \in CPUs : d # c => (lock["lk"] = d <=> pc'[on'[d]] \in WithLk)
        <4> SUFFICES ASSUME NEW d \in CPUs, d # c
                     PROVE  lock["lk"] = d <=> pc'[on'[d]] \in WithLk
          BY Zenon
        <4>1. pc'[on'[d]] = pc[on[d]]
          BY <2>1, Zenon
        <4> QED
          BY <4>1, Zenon DEF LockInv
      <3> QED
        BY <1>0, <3>1, <3>2, Zenon
    <2> QED
      BY <1>0, <2>5, <2>6, <2>7, Zenon DEF LockInv, Depth
  <1>11. IntenaInv'
    <2>1. ASSUME NEW p \in Procs, pc'[p] = "sl_resume"
          PROVE  intenaSaved'[p]
      <3>1. CASE p = on[c]
        <4>1. l = "sl_sched" /\ ret[on[c]] = "none"
          BY <1>1, <1>4, <1>6, <2>1, <3>1, Zenon DEF LabelInv, Handler
        <4>2. intena[c]
          BY <1>1, <1>3, <4>1, Zenon DEF IntenaInv
        <4> QED
          BY <1>0, <1>1, <3>1, <4>2, Zenon DEF TypeOK
      <3>2. CASE p # on[c]
        BY <1>0, <1>1, <1>4, <2>1, <3>2, Disjoint, SMTT(30) DEF TypeOK, IntenaInv
      <3> QED
        BY <3>1, <3>2, Zenon
    <2>2. ASSUME NEW d \in CPUs, on'[d] \in Procs, ret'[on'[d]] = "none", pc'[on'[d]] # "sl_resume"
          PROVE  IF ncli'[d] = 0 THEN iflag'[d] ELSE intena'[d]
      BY <1>0, <1>1, <1>4, <1>5, <2>2, Disjoint DEF IntenaInv
    <2> QED
      BY <2>1, <2>2, Zenon DEF IntenaInv
  <1>12. StateInv'
    BY <1>0, <1>1, <1>4, <1>5, Disjoint, SMTT(30) DEF TypeOK, StateInv
  <1>13. SleepLockInv'
    BY <1>0, <1>1, <1>4, <1>6, Disjoint, SMTT(30)
       DEF TypeOK, LabelInv, SleepLockInv, Holds, Handler
  <1> QED
    BY <1>7, <1>8, <1>9, <1>10, <1>11, <1>12, <1>13, Zenon DEF IInv, KernelInv

LEMMA SchedReturnKeeps ==
    ASSUME Constants, Inv, NEW c \in CPUs, SchedReturn(c)
    PROVE  Inv'
  <1> /\ TypeOK /\ StackInv /\ LabelInv /\ LockInv /\ IntenaInv
      /\ StateInv /\ SleepLockInv
    BY Zenon DEF Inv, IInv, KernelInv
  <1> SUFFICES IInv'
    BY Zenon DEF Inv
  <1> DEFINE l == pc[on[c]]
             t == IF l = "sl_resume" THEN "sl_tidy" ELSE "y_rel"
  <1>0. /\ l \in {"sl_resume", "y_resume"}
        /\ intena' = [intena EXCEPT ![c] = intenaSaved[proc[c]]]
        /\ pc' = [pc EXCEPT ![on[c]] = t]
        /\ UNCHANGED <<lock, locked, state, chan, proc, on, next, ncli, iflag, spinning, ret,
                       intenaSaved, panicked>>
    BY Zenon DEF SchedReturn, Goto, procVars
  <1>1. /\ on[c] \in Procs /\ on[c] \notin CPUs /\ on[c] \in Contexts
        /\ proc[c] = on[c] /\ on[c] # c
        /\ \A d \in CPUs : on[d] = on[c] => d = c
    BY <1>0, RunningProcess, Zenon DEF SchedLabels
  <1>2. \A x \in Contexts : pc'[x] = IF x = on[c] THEN t ELSE pc[x]
    BY <1>0, <1>1, Zenon DEF TypeOK
  <1>3. <<l, t>> \in {<<"sl_resume", "sl_tidy">>, <<"y_resume", "y_rel">>}
    BY <1>0, Zenon
  <1> HIDE DEF t
  <1>4. TypeOK'
    BY <1>0, <1>1, <1>3, Zenon DEF TypeOK, ProcLabels, Handler
  <1>5. StackInv'
    BY <1>0, <1>1, <1>2, Disjoint DEF TypeOK, StackInv
  <1>6. LabelInv'
    <2>1. \A d \in CPUs : pc'[d] \in SchedLabels
      BY <1>1, <1>2, Disjoint, Zenon DEF LabelInv
    <2>2. \A p \in Procs : pc'[p] \in ProcLabels
      BY <1>2, <1>3, Disjoint, Zenon DEF LabelInv, ProcLabels, Handler
    <2>3. \A x \in Contexts : spinning[x] => pc'[x] \in DOMAIN Acquires
      BY <1>0, <1>2, ZenonT(30) DEF LabelInv, Acquires
    <2>4. \A x \in Contexts : pc'[x] \in Handler <=> pc[x] \in Handler
      BY <1>2, <1>3, Zenon DEF Handler
    <2> QED
      BY <1>0, <2>1, <2>2, <2>3, <2>4, Zenon DEF LabelInv
  <1>7. LockInv'
    <2>1. \A d \in CPUs : /\ pc'[on[d]] \in WithPt <=> pc[on[d]] \in WithPt
                          /\ pc'[on[d]] \in WithLk <=> pc[on[d]] \in WithLk
      BY <1>2, <1>3, Zenon DEF TypeOK, WithPt, WithLk
    <2>2. lock' = lock /\ on' = on /\ ncli' = ncli /\ spinning' = spinning /\ iflag' = iflag
      BY <1>0, Zenon
    <2>3. \A d \in CPUs : Depth(on[d])' = Depth(on[d])
      BY <2>1, <2>2 DEF Depth
    <2> QED
      BY <2>1, <2>2, <2>3 DEF LockInv
  <1>8. IntenaInv'
    <2>1. l = "sl_resume" => intenaSaved[proc[c]]
      BY <1>1, Zenon DEF IntenaInv
    <2>2. ncli[c] # 0
      <3>1. Depth(on[c]) # 0
        BY <1>0 DEF Depth, One, WithPt
      <3> QED
        BY <3>1, Zenon DEF LockInv
    <2>3. l = "y_resume" => ret[on[c]] # "none"
      BY <1>1, Zenon DEF LabelInv, Handler
    <2>4. intena'[c] = intenaSaved[proc[c]] /\ \A d \in CPUs : d # c => intena'[d] = intena[d]
      BY <1>0 DEF TypeOK
    <2>5. ASSUME NEW d \in CPUs, on[d] \in Procs, ret[on[d]] = "none", pc'[on[d]] # "sl_resume"
          PROVE  IF ncli[d] = 0 THEN iflag[d] ELSE intena'[d]
      <3>1. CASE d = c
        BY <1>0, <2>1, <2>2, <2>3, <2>4, <2>5, <3>1, Zenon
      <3>2. CASE d # c
        <4>1. pc'[on[d]] = pc[on[d]]
          BY <1>1, <1>2, <2>5, <3>2, Disjoint, Zenon
        <4> QED
          BY <2>4, <2>5, <3>2, <4>1, Zenon DEF IntenaInv
      <3> QED
        BY <3>1, <3>2, Zenon
    <2>6. \A p \in Procs : pc'[p] = "sl_resume" => intenaSaved[p]
      BY <1>2, <1>3, Disjoint, Zenon DEF IntenaInv
    <2> QED
      BY <1>0, <2>5, <2>6, Zenon DEF IntenaInv
  <1>9. StateInv'
    BY <1>0, <1>1, <1>2, <1>3, Disjoint, Zenon DEF TypeOK, StateInv
  <1>10. SleepLockInv'
    BY <1>0, <1>1, <1>2, <1>3, Disjoint
       DEF TypeOK, LabelInv, SleepLockInv, Holds, Handler
  <1> QED
    BY <1>4, <1>5, <1>6, <1>7, <1>8, <1>9, <1>10, Zenon DEF IInv, KernelInv

(* The scheduler holds ptable.lock, so the RUNNABLE process it picks has   *)
(* left its stack.                                                         *)
LEMMA ScanRunKeeps ==
    ASSUME Constants, Inv, NEW c \in CPUs, ScanRun(c)
    PROVE  Inv'
  <1> /\ TypeOK /\ StackInv /\ LabelInv /\ LockInv /\ IntenaInv
      /\ StateInv /\ SleepLockInv
    BY Zenon DEF Inv, IInv, KernelInv
  <1> SUFFICES IInv'
    BY Zenon DEF Inv
  <1> PICK p \in Procs : p = next[c]
    BY Zenon DEF ScanRun
  <1>0. /\ pc[on[c]] = "s_scan" /\ state[p] = "RUNNABLE"
        /\ proc' = [proc EXCEPT ![c] = p]
        /\ state' = [state EXCEPT ![p] = "RUNNING"]
        /\ on' = [on EXCEPT ![c] = p]
        /\ pc' = [pc EXCEPT ![on[c]] = "s_back"]
        /\ UNCHANGED <<lock, chan, locked, next, ncli, intena, iflag, spinning, ret,
                       intenaSaved, panicked>>
    BY Zenon DEF ScanRun, At, Goto, cpuVars
  <1>1. on[c] = c /\ c \in Contexts /\ c \notin Procs
    BY <1>0, RunningScheduler, Zenon DEF ProcLabels, Handler
  <1>2. lock["pt"] = c
    BY <1>0, Zenon DEF LockInv, WithPt
  <1>3. \A d \in CPUs : on[d] # p
    <2> SUFFICES ASSUME NEW d \in CPUs, on[d] = p PROVE FALSE
      BY Zenon
    <2>1. pc[on[d]] = "y_sched"
      BY <1>0, Zenon DEF StateInv
    <2>2. lock["pt"] = d
      BY <2>1, Zenon DEF LockInv, WithPt
    <2> QED
      BY <1>0, <1>1, <1>2, <2>2, Zenon
  <1>4. pc[p] \in Parked /\ p \in Contexts /\ p # c /\ p \notin CPUs
    BY <1>0, <1>1, <1>3, Disjoint, Zenon DEF StackInv
  <1>5. ~spinning[p] /\ ~spinning[c]
    BY <1>0, <1>1, <1>4 DEF LabelInv, Acquires, Parked
  <1>6. \A x \in Contexts : pc'[x] = IF x = c THEN "s_back" ELSE pc[x]
    BY <1>0, <1>1, Zenon DEF TypeOK
  <1>7. \A d \in CPUs : on'[d] = IF d = c THEN p ELSE on[d]
    BY <1>0, Zenon DEF TypeOK
  <1>8. \A q \in Procs : state'[q] = IF q = p THEN "RUNNING" ELSE state[q]
    BY <1>0, Zenon DEF TypeOK
  <1>9. TypeOK'
    BY <1>0, <1>1, <1>4, Zenon DEF TypeOK, SchedLabels
  <1>10. StackInv'
    <2>1. \A d \in CPUs : on'[d] \in Procs \cup {d}
      BY <1>0, <1>7 DEF StackInv
    <2>2. \A d, e \in CPUs : on'[d] = on'[e] => d = e
      <3>1. \A d \in CPUs : d # c => on'[d] = on[d] /\ on[d] # p
        BY <1>3, <1>7, Zenon
      <3>2. on'[c] = p
        BY <1>7, Zenon
      <3>3. ASSUME NEW d \in CPUs, NEW e \in CPUs, on'[d] = on'[e], d # e  PROVE FALSE
        <4>1. CASE d = c
          BY <3>1, <3>2, <3>3, <4>1, Zenon
        <4>2. CASE e = c
          <5>1. on'[d] = p
            BY <3>2, <3>3, <4>2, Zenon
          <5>2. on'[d] = on[d] /\ on[d] # p
            BY <3>1, <3>3, <4>2, Zenon
          <5> QED
            BY <5>1, <5>2, Zenon
        <4>3. CASE d # c /\ e # c
          <5>1. on[d] = on[e]
            BY <3>1, <3>3, <4>3, Zenon
          <5> QED
            BY <3>3, <5>1, Zenon DEF StackInv
        <4> QED
          BY <4>1, <4>2, <4>3, Zenon
      <3> QED
        BY <3>3, Zenon
    <2>6. /\ \A d \in CPUs : d # c => on'[d] = on[d] /\ proc'[d] = proc[d] /\ pc'[d] = pc[d]
          /\ on'[c] = p /\ proc'[c] = p /\ pc'[c] = "s_back"
      <3>1. \A d \in CPUs : d # c => on'[d] = on[d] /\ pc'[d] = pc[d]
        BY <1>6, <1>7, Disjoint, Zenon
      <3>2. \A d \in CPUs : d # c => proc'[d] = proc[d]
        BY <1>0, Zenon DEF TypeOK
      <3>3. proc'[c] = p
        BY <1>0, Zenon DEF TypeOK
      <3>4. on'[c] = p /\ pc'[c] = "s_back"
        BY <1>1, <1>6, <1>7, Zenon
      <3> QED
        BY <3>1, <3>2, <3>3, <3>4, Zenon
    <2>3. \A d \in CPUs : on'[d] # d => proc'[d] = on'[d] /\ pc'[d] = "s_back"
      BY <2>6, Zenon DEF StackInv
    <2>4. \A d \in CPUs : on'[d] = d /\ pc'[d] # "s_back" => proc'[d] = None
      BY <2>6, Zenon DEF StackInv
    <2>5. ASSUME NEW q \in Procs, \A d \in CPUs : on'[d] # q
          PROVE  pc'[q] \in Parked
      <3>1. q # p /\ q # c
        BY <1>1, <1>7, <2>5, Zenon
      <3>2. ASSUME NEW d \in CPUs, on[d] = q  PROVE FALSE
        <4>1. d # c
          BY <1>1, <3>2, Zenon
        <4> QED
          BY <1>7, <2>5, <3>2, <4>1, Zenon
      <3> QED
        BY <1>6, <3>1, <3>2, Disjoint, Zenon DEF StackInv
    <2> QED
      BY <2>1, <2>2, <2>3, <2>4, <2>5, Zenon DEF StackInv
  <1>11. LabelInv'
    BY <1>0, <1>1, <1>5, <1>6, Disjoint
       DEF TypeOK, LabelInv, SchedLabels, Handler
  <1>12. LockInv'
    <2>1. \A d \in CPUs : d # c => on'[d] = on[d] /\ on[d] # c /\ on[d] \in Contexts
                                   /\ pc'[on[d]] = pc[on[d]]
      BY <1>1, <1>6, <1>7 DEF TypeOK, StackInv
    <2>2. on'[c] = p /\ pc'[p] = pc[p]
      BY <1>4, <1>6, <1>7, Zenon
    <2>3. Depth(p)' = 1
      <3>1. ~spinning'[p] /\ pc'[p] \in WithPt /\ pc'[p] \notin WithLk
        BY <1>0, <1>4, <1>5, <2>2, Zenon DEF WithPt, WithLk, Parked
      <3> QED
        BY <3>1 DEF Depth, One
    <2>4. \A d \in CPUs : d # c => Depth(on[d])' = Depth(on[d])
      BY <1>0, <2>1, Zenon DEF Depth
    <2>5. ncli[c] = 1
      <3>1. Depth(c) = 1
        BY <1>0, <1>1, <1>5 DEF Depth, One, WithPt, WithLk
      <3> QED
        BY <1>1, <3>1, Zenon DEF LockInv
    <2>6. \A d \in CPUs : (ncli[d] = Depth(on[d]))'
      <3>1. (ncli[c] = Depth(on[c]))'
        BY <1>0, <2>2, <2>3, <2>5, Zenon DEF Depth
      <3>2. \A d \in CPUs : d # c => (ncli[d] = Depth(on[d]))'
        BY <1>0, <2>1, SMTT(30) DEF LockInv, Depth
      <3> QED
        BY <3>1, <3>2, Zenon
    <2>7. \A d \in CPUs : lock'["pt"] = d <=> pc'[on'[d]] \in WithPt
      <3>1. lock'["pt"] = c /\ pc'[on'[c]] \in WithPt
        BY <1>0, <1>2, <1>4, <2>2, Zenon DEF WithPt, Parked
      <3>2. \A d \in CPUs : d # c => (lock["pt"] = d <=> pc'[on'[d]] \in WithPt)
        <4> SUFFICES ASSUME NEW d \in CPUs, d # c
                     PROVE  lock["pt"] = d <=> pc'[on'[d]] \in WithPt
          BY Zenon
        <4>1. pc'[on'[d]] = pc[on[d]]
          BY <2>1, Zenon
        <4> QED
          BY <4>1, Zenon DEF LockInv
      <3> QED
        BY <1>0, <3>1, <3>2, Zenon
    <2>8. \A d \in CPUs : lock'["lk"] = d <=> pc'[on'[d]] \in WithLk
      <3>1. lock["lk"] # c /\ pc'[on'[c]] \notin WithLk
        BY <1>0, <1>4, <2>2, Zenon DEF LockInv, WithLk, Parked
      <3>2. \A d \in CPUs : d # c => (lock["lk"] = d <=> pc'[on'[d]] \in WithLk)
        <4> SUFFICES ASSUME NEW d \in CPUs, d # c
                     PROVE  lock["lk"] = d <=> pc'[on'[d]] \in WithLk
          BY Zenon
        <4>1. pc'[on'[d]] = pc[on[d]]
          BY <2>1, Zenon
        <4> QED
          BY <4>1, Zenon DEF LockInv
      <3> QED
        BY <1>0, <3>1, <3>2, Zenon
    <2> QED
      BY <1>0, <2>6, <2>7, <2>8, Zenon DEF LockInv, Depth
  <1>13. IntenaInv'
    <2>1. pc[p] # "sl_resume" => ret[p] # "none"
      BY <1>4, Zenon DEF LabelInv, Parked, Handler
    <2> QED
      BY <1>0, <1>1, <1>4, <1>6, <1>7, <2>1, Disjoint DEF TypeOK, StackInv, IntenaInv
  <1>14. StateInv'
    <2>1. ASSUME NEW d \in CPUs, on'[d] \in Procs
          PROVE  state'[on'[d]] = CASE pc'[on'[d]] = "y_sched" -> "RUNNABLE"
                                    [] pc'[on'[d]] = "sl_sched" -> "SLEEPING"
                                    [] OTHER -> "RUNNING"
      <3>1. CASE d = c
        BY <1>0, <1>4, <1>6, <1>7, <1>8, <3>1 DEF Parked
      <3>2. CASE d # c
        <4>1. on'[d] = on[d] /\ on[d] # p /\ on[d] # c /\ on[d] \in Procs
          BY <1>1, <1>3, <1>7, <2>1, <3>2, Zenon
        <4>2. state'[on[d]] = state[on[d]] /\ pc'[on[d]] = pc[on[d]]
          BY <1>6, <1>8, <4>1, Disjoint, Zenon
        <4> QED
          BY <4>1, <4>2, ZenonT(30) DEF StateInv
      <3> QED
        BY <3>1, <3>2, Zenon
    <2> QED
      BY <1>0, <1>8, <2>1 DEF StateInv
  <1>15. SleepLockInv'
    <2>1. \A q \in Procs : pc'[q] = pc[q] /\ ret'[q] = ret[q]
      BY <1>0, <1>1, <1>6, Disjoint, Zenon
    <2> QED
      BY <1>0, <1>8, <2>1 DEF SleepLockInv, Holds
  <1> QED
    BY <1>9, <1>10, <1>11, <1>12, <1>13, <1>14, <1>15, Zenon DEF IInv, KernelInv

(* Interrupts are on only where no spinlock is held or awaited. *)
LEMMA InterruptKeeps ==
    ASSUME Constants, Inv, NEW c \in CPUs, Interrupt(c)
    PROVE  Inv'
  <1> /\ TypeOK /\ StackInv /\ LabelInv /\ LockInv /\ IntenaInv
      /\ StateInv /\ SleepLockInv
    BY Zenon DEF Inv, IInv, KernelInv
  <1> SUFFICES IInv'
    BY Zenon DEF Inv
  <1> DEFINE l == pc[on[c]]
             t == IF c = BootCpu THEN "i_acq" ELSE "i_done"
  <1>0. /\ iflag[c] /\ ret[on[c]] = "none"
        /\ iflag' = [iflag EXCEPT ![c] = FALSE]
        /\ ret' = [ret EXCEPT ![on[c]] = l]
        /\ pc' = [pc EXCEPT ![on[c]] = t]
        /\ UNCHANGED <<lock, locked, state, chan, proc, on, next, ncli, intena, spinning,
                       intenaSaved, panicked>>
    BY Zenon DEF Interrupt, Goto, procVars
  <1>1. /\ on[c] \in Contexts /\ (on[c] \in Procs \/ on[c] = c)
        /\ \A d \in CPUs : on[d] = on[c] => d = c
        /\ on[c] \in Procs => l \in ProcLabels
        /\ on[c] \in CPUs => l \in SchedLabels
    BY RunningContext, Zenon
  <1>2. ncli[c] = 0 /\ ~spinning[on[c]] /\ l \notin WithPt /\ l \notin WithLk
    <2>1. ncli[c] = 0 /\ Depth(on[c]) = 0
      BY <1>0 DEF TypeOK, LockInv
    <2> QED
      BY <2>1, SMTT(30) DEF Depth, One
  <1>3. l \notin Handler
    BY <1>0, <1>1, Zenon DEF LabelInv
  <1>4. /\ on[c] \in Procs => l \in {"user", "as_acq", "crit", "rs_acq", "sl_reacq"}
        /\ on[c] \in CPUs => l \in {"s_acq", "s_sti"}
    BY <1>1, <1>2, <1>3, Zenon DEF ProcLabels, SchedLabels, Handler, WithPt, WithLk
  <1>5. t \in {"i_acq", "i_done"}
    BY Zenon
  <1> HIDE DEF t
  <1>6. \A x \in Contexts : /\ pc'[x] = IF x = on[c] THEN t ELSE pc[x]
                            /\ ret'[x] = IF x = on[c] THEN l ELSE ret[x]
    BY <1>0, <1>1, Zenon DEF TypeOK
  <1>7. \A d \in CPUs : iflag'[d] = IF d = c THEN FALSE ELSE iflag[d]
    BY <1>0, Zenon DEF TypeOK
  <1>8. TypeOK'
    <2>1. pc' \in [Contexts -> SchedLabels \cup ProcLabels]
      BY <1>0, <1>1, <1>5, Zenon DEF TypeOK, SchedLabels
    <2>2. ret' \in [Contexts -> {"none", "user", "as_acq", "crit", "rs_acq", "sl_reacq",
                                 "s_acq", "s_sti"}]
      BY <1>0, <1>1, <1>4, Zenon DEF TypeOK
    <2> QED
      BY <1>0, <2>1, <2>2, Zenon DEF TypeOK
  <1>9. StackInv'
    <2>1. \A d \in CPUs : pc'[d] = "s_back" <=> pc[d] = "s_back"
      BY <1>1, <1>4, <1>5, <1>6, Disjoint, Zenon
    <2>2. \A p \in Procs : (\A d \in CPUs : on[d] # p) => pc'[p] = pc[p]
      BY <1>6, Disjoint, Zenon
    <2> QED
      BY <1>0, <2>1, <2>2 DEF StackInv
  <1>10. LabelInv'
    <2>1. \A d \in CPUs : pc'[d] \in SchedLabels /\ ret'[d] \in {"none", "s_acq", "s_sti"}
      BY <1>1, <1>4, <1>5, <1>6, Disjoint, Zenon DEF LabelInv, SchedLabels
    <2>2. \A p \in Procs : /\ pc'[p] \in ProcLabels
                           /\ ret'[p] \in {"none", "user", "as_acq", "crit", "rs_acq", "sl_reacq"}
      BY <1>1, <1>4, <1>5, <1>6, Disjoint DEF LabelInv, ProcLabels, Handler
    <2>3. \A x \in Contexts : spinning'[x] => pc'[x] \in DOMAIN Acquires
      BY <1>0, <1>2, <1>6, ZenonT(30) DEF LabelInv
    <2>4. \A x \in Contexts : pc'[x] \in Handler <=> ret'[x] # "none"
      <3> SUFFICES ASSUME NEW x \in Contexts PROVE pc'[x] \in Handler <=> ret'[x] # "none"
        OBVIOUS
      <3>1. CASE x = on[c]
        <4>1. l # "none" /\ t \in Handler
          BY <1>1, <1>4, <1>5, Zenon DEF Handler
        <4> QED
          BY <1>6, <3>1, <4>1, Zenon
      <3>2. CASE x # on[c]
        BY <1>6, <3>2, Zenon DEF LabelInv
      <3> QED
        BY <3>1, <3>2, Zenon
    <2> QED
      BY <2>1, <2>2, <2>3, <2>4, Zenon DEF LabelInv
  <1>11. LockInv'
    <2>1. \A d \in CPUs : /\ pc'[on[d]] \in WithPt <=> pc[on[d]] \in WithPt
                          /\ pc'[on[d]] \in WithLk <=> pc[on[d]] \in WithLk
      BY <1>2, <1>5, <1>6, ZenonT(30) DEF TypeOK, WithPt, WithLk
    <2>2. \A d \in CPUs : (ncli[d] = Depth(on[d]))'
      BY <1>0, <2>1 DEF LockInv, Depth
    <2>3. \A d \in CPUs : ncli'[d] > 0 => ~iflag'[d]
      BY <1>0, <1>7, Zenon DEF LockInv
    <2> QED
      BY <1>0, <2>1, <2>2, <2>3, Zenon DEF LockInv
  <1>12. IntenaInv'
    <2>1. ASSUME NEW d \in CPUs, on[d] \in Procs, ret'[on[d]] = "none", pc'[on[d]] # "sl_resume"
          PROVE  IF ncli[d] = 0 THEN iflag'[d] ELSE intena[d]
      <3>1. on[d] # on[c]
        BY <1>1, <1>4, <1>6, <2>1, Disjoint, Zenon
      <3>2. /\ iflag'[d] = iflag[d]
            /\ pc'[on[d]] = pc[on[d]] /\ ret'[on[d]] = ret[on[d]]
        BY <1>1, <1>6, <1>7, <2>1, <3>1, Disjoint, Zenon
      <3> QED
        BY <2>1, <3>2, Zenon DEF IntenaInv
    <2>2. \A p \in Procs : pc'[p] = "sl_resume" => intenaSaved[p]
      BY <1>5, <1>6, Disjoint, Zenon DEF IntenaInv
    <2> QED
      BY <1>0, <2>1, <2>2, Zenon DEF IntenaInv
  <1>13. StateInv'
    BY <1>0, <1>1, <1>4, <1>5, <1>6, Disjoint, ZenonT(30) DEF TypeOK, StateInv
  <1>14. SleepLockInv'
    <2>1. \A p \in Procs : Holds(p)' <=> Holds(p)
      BY <1>0, <1>4, <1>6, Disjoint DEF Holds
    <2>2. \A p \in Procs : \A m \in {"as_set", "sl_acq", "sl_rel", "sl_state", "wk_acq", "wk_scan"} :
             pc'[p] = m <=> pc[p] = m
      BY <1>4, <1>5, <1>6, Disjoint, Zenon
    <2> QED
      BY <1>0, <2>1, <2>2, Zenon DEF SleepLockInv
  <1> QED
    BY <1>8, <1>9, <1>10, <1>11, <1>12, <1>13, <1>14, Zenon DEF IInv, KernelInv

LEMMA IretKeeps ==
    ASSUME Constants, Inv, NEW c \in CPUs, Iret(c)
    PROVE  Inv'
  <1> /\ TypeOK /\ StackInv /\ LabelInv /\ LockInv /\ IntenaInv
      /\ StateInv /\ SleepLockInv
    BY Zenon DEF Inv, IInv, KernelInv
  <1> SUFFICES IInv'
    BY Zenon DEF Inv
  <1> DEFINE t == ret[on[c]]
  <1>0. /\ pc[on[c]] = "iret"
        /\ iflag' = [iflag EXCEPT ![c] = TRUE]
        /\ ret' = [ret EXCEPT ![on[c]] = "none"]
        /\ pc' = [pc EXCEPT ![on[c]] = t]
        /\ UNCHANGED <<lock, locked, state, chan, proc, on, next, ncli, intena, spinning,
                       intenaSaved, panicked>>
    BY Zenon DEF Iret, At, Goto, procVars
  <1>1. /\ on[c] \in Contexts /\ (on[c] \in Procs \/ on[c] = c)
        /\ \A d \in CPUs : on[d] = on[c] => d = c
    BY RunningContext, Zenon
  <1>2. ncli[c] = 0 /\ ~spinning[on[c]]
    <2>1. ~spinning[on[c]]
      BY <1>0, <1>1, Zenon DEF LabelInv, Acquires
    <2>2. Depth(on[c]) = 0
      BY <1>0, <2>1 DEF Depth, One, WithPt, WithLk
    <2> QED
      BY <2>1, <2>2, Zenon DEF LockInv
  <1>3. t # "none"
    BY <1>0, <1>1, Zenon DEF LabelInv, Handler
  <1>4. /\ on[c] \in Procs => t \in {"user", "as_acq", "crit", "rs_acq", "sl_reacq"}
        /\ on[c] \in CPUs => t \in {"s_acq", "s_sti"}
    BY <1>1, <1>3, Zenon DEF LabelInv
  <1> HIDE DEF t
  <1>5. t \in {"user", "as_acq", "crit", "rs_acq", "sl_reacq", "s_acq", "s_sti"}
    BY <1>1, <1>4, Zenon
  <1>6. \A x \in Contexts : /\ pc'[x] = IF x = on[c] THEN t ELSE pc[x]
                            /\ ret'[x] = IF x = on[c] THEN "none" ELSE ret[x]
    BY <1>0, <1>1, SMTT(30) DEF TypeOK
  <1>7. \A d \in CPUs : iflag'[d] = IF d = c THEN TRUE ELSE iflag[d]
    BY <1>0 DEF TypeOK
  <1>8. TypeOK'
    <2>1. pc' \in [Contexts -> SchedLabels \cup ProcLabels]
      BY <1>0, <1>1, <1>5, Zenon DEF TypeOK, SchedLabels, ProcLabels
    <2>2. ret' \in [Contexts -> {"none", "user", "as_acq", "crit", "rs_acq", "sl_reacq",
                                 "s_acq", "s_sti"}]
      BY <1>0, <1>1, ZenonT(30) DEF TypeOK
    <2> QED
      BY <1>0, <2>1, <2>2, Zenon DEF TypeOK
  <1>9. StackInv'
    <2>1. \A d \in CPUs : pc'[d] = "s_back" <=> pc[d] = "s_back"
      BY <1>0, <1>1, <1>5, <1>6, Disjoint, Zenon
    <2>2. \A p \in Procs : (\A d \in CPUs : on[d] # p) => pc'[p] = pc[p]
      BY <1>6, Disjoint, Zenon
    <2> QED
      BY <1>0, <2>1, <2>2 DEF StackInv
  <1>10. LabelInv'
    <2>1. \A d \in CPUs : pc'[d] \in SchedLabels /\ ret'[d] \in {"none", "s_acq", "s_sti"}
      BY <1>1, <1>4, <1>6, Disjoint, ZenonT(30) DEF LabelInv, SchedLabels
    <2>2. \A p \in Procs : /\ pc'[p] \in ProcLabels
                           /\ ret'[p] \in {"none", "user", "as_acq", "crit", "rs_acq", "sl_reacq"}
      BY <1>1, <1>4, <1>6, Disjoint DEF LabelInv, ProcLabels
    <2>3. \A x \in Contexts : spinning'[x] => pc'[x] \in DOMAIN Acquires
      BY <1>0, <1>2, <1>6 DEF LabelInv
    <2>4. \A x \in Contexts : pc'[x] \in Handler <=> ret'[x] # "none"
      BY <1>5, <1>6, Zenon DEF LabelInv, Handler
    <2> QED
      BY <2>1, <2>2, <2>3, <2>4, Zenon DEF LabelInv
  <1>11. LockInv'
    <2>1. \A d \in CPUs : /\ pc'[on[d]] \in WithPt <=> pc[on[d]] \in WithPt
                          /\ pc'[on[d]] \in WithLk <=> pc[on[d]] \in WithLk
      BY <1>0, <1>5, <1>6, ZenonT(30) DEF TypeOK, WithPt, WithLk
    <2>2. \A d \in CPUs : (ncli[d] = Depth(on[d]))'
      BY <1>0, <2>1, SMTT(30) DEF LockInv, Depth
    <2>3. \A d \in CPUs : ncli'[d] > 0 => ~iflag'[d]
      <3>1. \A d \in CPUs : d # c => iflag'[d] = iflag[d] /\ ncli'[d] = ncli[d]
        BY <1>0, <1>7, Zenon
      <3>2. ~(ncli'[c] > 0)
        BY <1>0, <1>2
      <3> QED
        BY <3>1, <3>2, Zenon DEF LockInv
    <2> QED
      BY <1>0, <2>1, <2>2, <2>3, Zenon DEF LockInv
  <1>12. IntenaInv'
    <2>1. ASSUME NEW d \in CPUs, on[d] \in Procs, ret'[on[d]] = "none", pc'[on[d]] # "sl_resume"
          PROVE  IF ncli[d] = 0 THEN iflag'[d] ELSE intena[d]
      <3>1. CASE d = c
        BY <1>2, <1>7, <3>1, Zenon
      <3>2. CASE d # c
        BY <1>1, <1>6, <1>7, <2>1, <3>2, Disjoint, Zenon DEF IntenaInv
      <3> QED
        BY <3>1, <3>2, Zenon
    <2>2. \A p \in Procs : pc'[p] = "sl_resume" => intenaSaved[p]
      BY <1>5, <1>6, Disjoint, Zenon DEF IntenaInv
    <2> QED
      BY <1>0, <2>1, <2>2, Zenon DEF IntenaInv
  <1>13. StateInv'
    BY <1>0, <1>1, <1>5, <1>6, Disjoint, Zenon DEF TypeOK, StateInv
  <1>14. SleepLockInv'
    <2>1. \A p \in Procs : Holds(p)' <=> Holds(p)
      <3> SUFFICES ASSUME NEW p \in Procs PROVE Holds(p)' <=> Holds(p)
        BY Zenon
      <3>1. CASE p = on[c]
        BY <1>3, <1>4, <1>6, <3>1, Disjoint, Zenon DEF Holds, t
      <3>2. CASE p # on[c]
        BY <1>6, <3>2, Disjoint, Zenon DEF Holds
      <3> QED
        BY <3>1, <3>2, Zenon
    <2>2. \A p \in Procs : \A m \in {"as_set", "sl_acq", "sl_rel", "sl_state", "wk_acq", "wk_scan"} :
             pc'[p] = m <=> pc[p] = m
      BY <1>0, <1>5, <1>6, Disjoint
    <2> QED
      BY <1>0, <2>1, <2>2, Zenon DEF SleepLockInv
  <1> QED
    BY <1>8, <1>9, <1>10, <1>11, <1>12, <1>13, <1>14, Zenon DEF IInv, KernelInv

-----------------------------------------------------------------------------
(* The inductive invariant and the theorems *)

(* At the start every CPU is in its scheduler, with interrupts off, and    *)
(* every process is parked in forkret.                                     *)
LEMMA Start ==
    ASSUME Constants, Init
    PROVE  Inv
  <1> SUFFICES IInv
    BY Zenon DEF Inv
  <1> USE DEF Init
  <1>1. TypeOK
    BY Disjoint, Zenon DEF TypeOK, SchedLabels, ProcLabels, Handler
  <1>2. StackInv
    BY Disjoint, Zenon DEF StackInv, Parked
  <1>3. LabelInv
    BY Disjoint, Zenon DEF LabelInv, SchedLabels, ProcLabels, Handler
  <1>4. LockInv
    <2>1. \A c \in CPUs : on[c] = c /\ c \in Contexts /\ pc[c] = "s_sti" /\ ~spinning[c]
      BY Disjoint, Zenon
    <2>2. \A c \in CPUs : Depth(on[c]) = 0
      BY <2>1 DEF Depth, One, WithPt, WithLk
    <2> QED
      BY <2>1, <2>2, Zenon DEF Constants, LockInv, WithPt, WithLk
  <1>5. IntenaInv
    BY Disjoint, Zenon DEF IntenaInv
  <1>6. StateInv
    BY Disjoint, Zenon DEF StateInv
  <1>7. SleepLockInv
    BY Disjoint, Zenon DEF SleepLockInv, Holds
  <1> QED
    BY <1>1, <1>2, <1>3, <1>4, <1>5, <1>6, <1>7, Zenon DEF IInv, KernelInv

LEMMA StepKeeps ==
    ASSUME Constants, Inv, [Next]_vars
    PROVE  Inv'
  <1>1. CASE UNCHANGED vars
    BY <1>1 DEF Inv, vars, procVars, cpuVars, IInv, TypeOK, KernelInv, StackInv, LabelInv,
                LockInv, IntenaInv, StateInv, SleepLockInv, Depth, Holds
  <1>2. ASSUME NEW c \in CPUs, Step(c) \/ AcquireSleep(c) \/ Interrupt(c)
        PROVE  Inv'
    BY Zenon, <1>2, PushcliKeeps, XchgKeeps, ReleaseKeeps, AsTestKeeps, AsSetKeeps,
       ReleaseSleepKeeps, RsClearKeeps, Wakeup1Keeps, SlStateKeeps, SlTidyKeeps,
       YStateKeeps, SchedKeeps, SchedReturnKeeps, StiKeeps, ScanSkipKeeps,
       ScanRunKeeps, ScanBackKeeps, ScanEndKeeps, TickDoneKeeps, IretKeeps,
       AcquireSleepKeeps, InterruptKeeps
       DEF Step
  <1> QED
    BY <1>1, <1>2, ZenonT(30) DEF Next

LEMMA Invariance == Constants /\ Spec => []Inv
  <1> SUFFICES ASSUME Constants PROVE Spec => []Inv
    BY Zenon
  <1>1. Init => Inv
    BY Start, Zenon
  <1>2. Inv /\ [Next]_vars => Inv'
    BY StepKeeps, Zenon
  <1> QED
    BY <1>1, <1>2, PTL DEF Spec

(* No two CPUs are ever on one stack, at most one process holds the sleep  *)
(* lock, and none of the panics of acquire, release, sched and popcli      *)
(* happens, however many CPUs and processes there are.                     *)
THEOREM ExclusiveStacks == Constants /\ Spec => []StacksAndLocksExclusive
  <1>1. Inv => StacksAndLocksExclusive
    BY Zenon DEF Inv, IInv, TypeOK, KernelInv, StackInv, SleepLockInv, StacksAndLocksExclusive
  <1> QED
    BY <1>1, Invariance, PTL

(* sleep takes ptable.lock before it releases the lock of its caller, so   *)
(* no wakeup falls between the test of the caller and the sleep: whenever  *)
(* a process sleeps for a free sleep lock, some process is on its way to   *)
(* wake it.                                                                *)
THEOREM WakeupsKept == Constants /\ Spec => []NoLostWakeup
  <1>1. Inv => NoLostWakeup
    BY Zenon DEF Inv, IInv, SleepLockInv, NoLostWakeup
  <1> QED
    BY <1>1, Invariance, PTL

(* The saved intena travels with a process from the CPU on which it calls  *)
(* sched to the one on which it goes on, so a process never runs without   *)
(* spinlocks and with interrupts off.                                      *)
THEOREM IntenaTravels == Constants /\ Spec => []InterruptsRestored
  <1>1. Inv => InterruptsRestored
    <2> SUFFICES ASSUME Inv, NEW c \in CPUs,
                        on[c] \in Procs, ret[on[c]] = "none", ncli[c] = 0
                 PROVE  iflag[c]
      BY Zenon DEF InterruptsRestored
    <2>1. pc[on[c]] # "sl_resume"
      <3>1. Depth(on[c]) = 0
        BY Zenon DEF Inv, IInv, KernelInv, LockInv
      <3> QED
        BY <3>1 DEF Depth, One, WithPt
    <2> QED
      BY <2>1, Zenon DEF Inv, IInv, KernelInv, IntenaInv
  <1> QED
    BY <1>1, Invariance, PTL

=============================================================================
