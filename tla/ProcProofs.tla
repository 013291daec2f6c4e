----------------------------- MODULE ProcProofs -----------------------------
(***************************************************************************)
(* Families stay intact for any number of process slots and CPUs: whatever *)
(* the order of fork, exit, wait and kill, a started process other than    *)
(* init has a parent that can still wait for it, and a process sleeps in   *)
(* wait only with a reason.                                                *)
(*                                                                         *)
(* The invariant adds who owns a slot that fork is setting up: exactly one *)
(* process inside fork, which nobody can make exit before it has returned. *)
(* A slot gets its parent only when that is done, an unused slot has none, *)
(* and init never exits (exit panics instead), so there is always somebody *)
(* to adopt the children of a process that does.                           *)
(***************************************************************************)
EXTENDS Proc, TLAPS

States == {"UNUSED", "EMBRYO", "SLEEPING", "RUNNABLE", "RUNNING", "ZOMBIE"}
Forking == {"fork_stack", "fork_copy", "fork_run"}
Calls == {"none", "user", "exit", "fork_failed", "wait", "sleep_test", "sleep_go", "sleep_woken"}
            \cup Forking

TypeOK ==
    /\ state \in [Procs -> States] /\ pc \in [Procs -> Calls]
    /\ parent \in [Procs -> Procs \cup {None}] /\ np \in [Procs -> Procs \cup {None}]
    /\ killed \in [Procs -> BOOLEAN]
    /\ chan \in [Procs -> Procs \cup {None, TicksChan}]

(* init has no parent and never exits. *)
InitInv ==
    /\ parent[init] = None
    /\ state[init] \in {"SLEEPING", "RUNNABLE", "RUNNING"}
    /\ ~panicked => pc[init] # "exit"

(* A slot that fork sets up is the forker's alone, and becomes its child   *)
(* with the copy of its memory.                                            *)
ForkInv ==
    /\ \A p \in Procs : pc[p] \in Forking =>
          /\ state[p] \in {"RUNNABLE", "RUNNING"}
          /\ np[p] \in Procs /\ state[np[p]] = "EMBRYO"
          /\ parent[np[p]] = IF pc[p] = "fork_run" THEN p ELSE None
    /\ \A p, q \in Procs :
          pc[p] \in Forking /\ pc[q] \in Forking /\ np[p] = np[q] => p = q

ParentInv ==
    \A p \in Procs : parent[p] # p /\ (state[p] = "UNUSED" => parent[p] = None)

IInv == TypeOK /\ InitInv /\ ForkInv /\ ParentInv /\ FamiliesIntact

-----------------------------------------------------------------------------

LEMMA InitIsProc == init \in Procs
  BY SizesAssumption DEF init, Procs

(* A process is preempted or runs again. *)
LEMMA DispatchKeeps ==
    ASSUME IInv, NEW p \in Procs, Run(p) \/ Yield(p)
    PROVE  IInv'
  <1>1. /\ ~panicked /\ state[p] \in {"RUNNABLE", "RUNNING"} /\ state'[p] \in {"RUNNABLE", "RUNNING"}
        /\ \A q \in Procs : q # p => state'[q] = state[q]
        /\ state' \in [Procs -> States]
        /\ UNCHANGED <<parent, killed, chan, pc, np, panicked>>
    BY Zenon DEF Run, Yield, IInv, TypeOK, States
  <1>2. TypeOK'
    BY <1>1, Zenon DEF IInv, TypeOK
  <1>3. InitInv' /\ ParentInv'
    BY <1>1, InitIsProc, Zenon DEF IInv, InitInv, ParentInv
  <1>4. ForkInv'
    BY <1>1, Zenon DEF IInv, ForkInv
  <1>5. FamiliesIntact'
    BY <1>1 DEF IInv, TypeOK, FamiliesIntact, Started, Children, Zombies, None
  <1> QED
    BY <1>2, <1>3, <1>4, <1>5, Zenon DEF IInv

(* A running process goes on, outside fork. *)
LEMMA GoesOn ==
    ASSUME IInv, NEW p \in Procs, NEW l \in Calls \ Forking,
           ~panicked, state[p] = "RUNNING", pc[p] \notin Forking,
           pc' = [pc EXCEPT ![p] = l], l = "exit" /\ ~panicked' => p # init,
           chan' \in {chan, [chan EXCEPT ![p] = None]},
           UNCHANGED <<state, parent, killed, np>>
    PROVE  IInv'
  <1>1. /\ pc'[p] = l /\ \A q \in Procs : q # p => pc'[q] = pc[q] /\ chan'[q] = chan[q]
        /\ pc' \in [Procs -> Calls] /\ chan' \in [Procs -> Procs \cup {None, TicksChan}]
    BY Zenon DEF IInv, TypeOK
  <1>2. TypeOK' /\ ParentInv'
    BY <1>1, Zenon DEF IInv, TypeOK, ParentInv
  <1>3. InitInv'
    BY <1>1, InitIsProc, Zenon DEF IInv, InitInv
  <1>4. ForkInv'
    BY <1>1 DEF IInv, ForkInv
  <1>5. FamiliesIntact'
    BY <1>1 DEF IInv, FamiliesIntact, Started, Children, Zombies
  <1> QED
    BY <1>2, <1>3, <1>4, <1>5, Zenon DEF IInv

LEMMA CallsKeep ==
    ASSUME IInv, NEW p \in Procs,
           ForkNoSlot(p) \/ CallExit(p) \/ CallWait(p) \/ WaitFail(p) \/ SleepReturn(p) \/ SleepAgain(p)
              \/ SleepWoken(p) \/ \E k \in SleepTicks : CallSleep(p, k)
    PROVE  IInv'
  <1> USE DEF Calls, Forking, At, InUser, Goto, tableVars
  <1>1. CASE CallExit(p)
    BY <1>1, GoesOn, Zenon DEF CallExit
  <1>2. CASE CallWait(p)
    BY <1>2, GoesOn, Zenon DEF CallWait
  <1>3. CASE WaitFail(p)
    BY <1>3, GoesOn, Zenon DEF WaitFail
  <1>4. CASE SleepReturn(p)
    BY <1>4, GoesOn, Zenon DEF SleepReturn
  <1>5. CASE SleepAgain(p)
    BY <1>5, GoesOn, Zenon DEF SleepAgain
  <1>6. CASE SleepWoken(p)
    BY <1>6, GoesOn, Zenon DEF SleepWoken
  <1>7. CASE \E k \in SleepTicks : CallSleep(p, k)
    BY <1>7, GoesOn, Zenon DEF CallSleep
  <1>8. CASE ForkNoSlot(p)
    <2>1. PICK l \in {"user", "fork_failed"} : pc' = [pc EXCEPT ![p] = l]
      BY <1>8, Zenon DEF ForkNoSlot, ForkFailed
    <2> QED
      BY <1>8, <2>1, GoesOn, Zenon DEF ForkNoSlot
  <1> QED
    BY <1>1, <1>2, <1>3, <1>4, <1>5, <1>6, <1>7, <1>8, Zenon

(* allocproc takes a slot that nobody uses. *)
LEMMA ForkAllocKeeps ==
    ASSUME IInv, NEW p \in Procs, ForkAlloc(p)
    PROVE  IInv'
  <1>1. PICK q \in Procs : /\ state[q] = "UNUSED" /\ state' = [state EXCEPT ![q] = "EMBRYO"]
                           /\ np' = [np EXCEPT ![p] = q]
    BY Zenon DEF ForkAlloc
  <1>2. /\ state[p] = "RUNNING" /\ pc[p] = "user" /\ pc' = [pc EXCEPT ![p] = "fork_stack"]
        /\ UNCHANGED <<parent, killed, chan, panicked>>
    BY Zenon DEF ForkAlloc, InUser, At, Goto
  <1>3. /\ state'[q] = "EMBRYO" /\ np'[p] = q /\ pc'[p] = "fork_stack"
        /\ \A r \in Procs : r # q => state'[r] = state[r]
        /\ \A r \in Procs : r # p => np'[r] = np[r] /\ pc'[r] = pc[r]
    BY <1>1, <1>2, Zenon DEF IInv, TypeOK
  <1>4. TypeOK'
    BY <1>1, <1>2, Zenon DEF IInv, TypeOK, States, Calls, Forking
  <1>5. InitInv' /\ ParentInv'
    BY <1>1, <1>2, <1>3, InitIsProc DEF IInv, InitInv, ParentInv
  <1>6. ForkInv'
    BY <1>1, <1>2, <1>3 DEF IInv, ForkInv, ParentInv, Forking
  <1>7. FamiliesIntact'
    BY <1>1, <1>2, <1>3 DEF IInv, TypeOK, FamiliesIntact, Started, Children, Zombies, None
  <1> QED
    BY <1>4, <1>5, <1>6, <1>7, Zenon DEF IInv

(* Inside fork the forker alone changes its slot. *)
LEMMA ForkStackKeeps ==
    ASSUME IInv, NEW p \in Procs, ForkStack(p)
    PROVE  IInv'
  <1>1. /\ state[p] = "RUNNING" /\ pc[p] = "fork_stack" /\ pc' = [pc EXCEPT ![p] = "fork_copy"]
        /\ UNCHANGED <<state, parent, killed, chan, np, panicked>>
    BY Zenon DEF ForkStack, At, Goto, tableVars
  <1>2. pc'[p] = "fork_copy" /\ \A r \in Procs : r # p => pc'[r] = pc[r]
    BY <1>1, Zenon DEF IInv, TypeOK
  <1>3. TypeOK' /\ ParentInv'
    BY <1>1, Zenon DEF IInv, TypeOK, ParentInv, Calls, Forking
  <1>4. InitInv'
    BY <1>1, <1>2, InitIsProc, Zenon DEF IInv, InitInv
  <1>5. ForkInv'
    BY <1>1, <1>2 DEF IInv, ForkInv, Forking
  <1>6. FamiliesIntact'
    BY <1>1, Zenon DEF IInv, FamiliesIntact, Started, Children, Zombies
  <1> QED
    BY <1>3, <1>4, <1>5, <1>6, Zenon DEF IInv

(* Without memory the slot is given back; it had no parent yet. *)
LEMMA ForkFailsKeeps ==
    ASSUME IInv, NEW p \in Procs, ForkNoStack(p) \/ ForkNoMemory(p)
    PROVE  IInv'
  <1>1. PICK l \in {"user", "fork_failed"} :
        /\ state[p] = "RUNNING" /\ pc[p] \in {"fork_stack", "fork_copy"}
        /\ pc' = [pc EXCEPT ![p] = l] /\ np' = [np EXCEPT ![p] = None]
        /\ state' = [state EXCEPT ![np[p]] = "UNUSED"]
        /\ UNCHANGED <<parent, killed, chan, panicked>>
    BY Zenon DEF ForkNoStack, ForkNoMemory, ForkFailed, At, Goto
  <1>2. np[p] \in Procs /\ state[np[p]] = "EMBRYO" /\ parent[np[p]] = None
    BY <1>1, Zenon DEF IInv, ForkInv, Forking
  <1>3. PICK q \in Procs : q = np[p]
    BY <1>2, Zenon
  <1>4. /\ state'[q] = "UNUSED" /\ pc'[p] = l
        /\ \A r \in Procs : r # q => state'[r] = state[r]
        /\ \A r \in Procs : r # p => np'[r] = np[r] /\ pc'[r] = pc[r]
    BY <1>1, <1>3, Zenon DEF IInv, TypeOK
  <1>5. TypeOK'
    BY <1>1, <1>2, Zenon DEF IInv, TypeOK, States, Calls
  <1>6. InitInv' /\ ParentInv'
    BY <1>1, <1>2, <1>3, <1>4, InitIsProc DEF IInv, InitInv, ParentInv
  <1>7. ForkInv'
    <2>1. ASSUME NEW r \in Procs, pc'[r] \in Forking
          PROVE  r # p /\ pc'[r] = pc[r] /\ np'[r] = np[r] /\ np[r] # q
      BY <1>1, <1>3, <1>4, <2>1, Zenon DEF IInv, ForkInv, Forking
    <2> QED
      BY <1>1, <1>2, <1>3, <1>4, <2>1 DEF IInv, ForkInv
  <1>8. FamiliesIntact'
    BY <1>1, <1>2, <1>3, <1>4 DEF IInv, TypeOK, FamiliesIntact, Started, Children, Zombies, None
  <1> QED
    BY <1>5, <1>6, <1>7, <1>8, Zenon DEF IInv

(* The slot becomes a child. *)
LEMMA ForkCopyKeeps ==
    ASSUME IInv, NEW p \in Procs, ForkCopy(p)
    PROVE  IInv'
  <1>1. /\ state[p] = "RUNNING" /\ pc[p] = "fork_copy" /\ pc' = [pc EXCEPT ![p] = "fork_run"]
        /\ parent' = [parent EXCEPT ![np[p]] = p]
        /\ UNCHANGED <<state, killed, chan, np, panicked>>
    BY Zenon DEF ForkCopy, At, Goto
  <1>2. np[p] \in Procs /\ state[np[p]] = "EMBRYO" /\ parent[np[p]] = None
    BY <1>1, Zenon DEF IInv, ForkInv, Forking
  <1>3. PICK q \in Procs : q = np[p]
    BY <1>2, Zenon
  <1>4. /\ parent'[q] = p /\ pc'[p] = "fork_run"
        /\ \A r \in Procs : r # q => parent'[r] = parent[r]
        /\ \A r \in Procs : r # p => pc'[r] = pc[r]
    BY <1>1, <1>3, Zenon DEF IInv, TypeOK
  <1>5. TypeOK'
    BY <1>1, <1>2, Zenon DEF IInv, TypeOK, Calls, Forking
  <1>6. InitInv' /\ ParentInv'
    BY <1>1, <1>2, <1>3, <1>4, InitIsProc DEF IInv, InitInv, ParentInv
  <1>7. ForkInv'
    <2>1. ASSUME NEW r \in Procs, pc'[r] \in Forking, r # p
          PROVE  pc'[r] = pc[r] /\ np[r] # q
      BY <1>1, <1>3, <1>4, <2>1 DEF IInv, ForkInv, Forking
    <2> QED
      BY <1>1, <1>2, <1>3, <1>4, <2>1 DEF IInv, ForkInv, Forking
  <1>8. ASSUME NEW r \in Procs \ {init}, Started(r)'
        PROVE  (parent[r] # None /\ Started(parent[r]) /\ state[parent[r]] # "ZOMBIE")'
    <2>1. Started(r) /\ r # q /\ UNCHANGED state
      BY <1>1, <1>2, <1>3, <1>8, Zenon DEF Started
    <2>2. parent'[r] = parent[r]
      BY <1>4, <2>1, Zenon
    <2> QED
      BY <2>1, <2>2, Zenon DEF IInv, FamiliesIntact, Started
  <1>9. ASSUME NEW r \in Procs, state'[r] = "SLEEPING", chan'[r] = r
        PROVE  (Children(r) # {} /\ Zombies(r) = {} /\ ~killed[r])'
    <2>1. r # p /\ state[r] = "SLEEPING" /\ chan[r] = r /\ UNCHANGED <<state, killed>>
      BY <1>1, <1>9, Zenon
    <2>2. Children(r)' = Children(r)
      BY <1>2, <1>3, <1>4, <2>1 DEF Children, None, Procs
    <2> QED
      BY <2>1, <2>2, Zenon DEF IInv, FamiliesIntact, Zombies
  <1> QED
    BY <1>5, <1>6, <1>7, <1>8, <1>9, Zenon DEF IInv, FamiliesIntact

(* The child starts, with its forker as parent. *)
LEMMA ForkRunKeeps ==
    ASSUME IInv, NEW p \in Procs, ForkRun(p)
    PROVE  IInv'
  <1>1. /\ state[p] = "RUNNING" /\ pc[p] = "fork_run"
        /\ pc' = [pc EXCEPT ![p] = "user", ![np[p]] = "user"] /\ np' = [np EXCEPT ![p] = None]
        /\ state' = [state EXCEPT ![np[p]] = "RUNNABLE"]
        /\ UNCHANGED <<parent, killed, chan, panicked>>
    BY Zenon DEF ForkRun, At
  <1>2. np[p] \in Procs /\ state[np[p]] = "EMBRYO" /\ parent[np[p]] = p
    BY <1>1, Zenon DEF IInv, ForkInv, Forking
  <1>3. PICK q \in Procs : q = np[p]
    BY <1>2, Zenon
  <1>4. /\ state'[q] = "RUNNABLE" /\ pc'[p] = "user" /\ pc'[q] = "user" /\ p # q
        /\ \A r \in Procs : r # q => state'[r] = state[r]
        /\ \A r \in Procs : r # p => np'[r] = np[r]
        /\ \A r \in Procs \ {p, q} : pc'[r] = pc[r]
    BY <1>1, <1>2, <1>3, Zenon DEF IInv, TypeOK
  <1>5. TypeOK'
    BY <1>1, <1>2, Zenon DEF IInv, TypeOK, States, Calls
  <1>6. UNCHANGED <<parent, killed, chan, panicked>> /\ state[q] = "EMBRYO" /\ parent[q] = p
        /\ state[p] = "RUNNING" /\ pc[p] = "fork_run" /\ np[p] = q
    BY <1>1, <1>2, <1>3, Zenon
  <1>10. InitInv' /\ ParentInv'
    BY <1>4, <1>6, InitIsProc DEF IInv, InitInv, ParentInv
  <1>7. ForkInv'
    <2>1. ASSUME NEW r \in Procs, pc'[r] \in Forking
          PROVE  r \notin {p, q} /\ pc'[r] = pc[r] /\ np'[r] = np[r] /\ np[r] # q
      BY <1>4, <1>6, <2>1 DEF IInv, ForkInv, Forking
    <2> QED
      BY <1>4, <1>6, <2>1 DEF IInv, ForkInv
  <1>8. ASSUME NEW r \in Procs \ {init}, Started(r)'
        PROVE  (parent[r] # None /\ Started(parent[r]) /\ state[parent[r]] # "ZOMBIE")'
    <2>1. CASE r = q
      BY <1>4, <1>6, <2>1 DEF Started, None, Procs
    <2>2. CASE r # q
      <3>1. Started(r)
        BY <1>4, <1>8, <2>2, Zenon DEF Started
      <3>2. parent[r] \in Procs /\ Started(parent[r]) /\ state[parent[r]] # "ZOMBIE"
        BY <3>1, Zenon DEF IInv, TypeOK, FamiliesIntact
      <3>3. parent[r] # q /\ parent[r] # None
        BY <1>6, <3>2 DEF Started, None, Procs
      <3> QED
        BY <1>4, <1>6, <3>2, <3>3, Zenon DEF Started
    <2> QED
      BY <2>1, <2>2, Zenon
  <1>9. ASSUME NEW r \in Procs, state'[r] = "SLEEPING", chan'[r] = r
        PROVE  (Children(r) # {} /\ Zombies(r) = {} /\ ~killed[r])'
    <2>1. state[r] = "SLEEPING" /\ chan[r] = r /\ UNCHANGED killed
      BY <1>4, <1>6, <1>9, Zenon
    <2>2. Children(r)' = Children(r) /\ Zombies(r)' \subseteq Zombies(r)
      BY <1>4, <1>6, Zenon DEF Children, Zombies
    <2> QED
      BY <2>1, <2>2, Zenon DEF IInv, FamiliesIntact
  <1> QED
    BY <1>5, <1>7, <1>8, <1>9, <1>10, Zenon DEF IInv, FamiliesIntact

(* exit: the parent is woken, init adopts the children and is woken for    *)
(* those that have exited before.                                          *)
LEMMA ExitKeeps ==
    ASSUME IInv, NEW p \in Procs, Exit(p)
    PROVE  IInv'
  <1>1. /\ ~panicked /\ state[p] = "RUNNING" /\ pc[p] = "exit" /\ p # init
        /\ UNCHANGED <<killed, chan, pc, np, panicked>>
    BY Zenon DEF Exit, At, IInv, InitInv
  <1>2. /\ parent' \in [Procs -> Procs \cup {None}]
        /\ \A q \in Procs : parent'[q] = IF parent[q] = p THEN init ELSE parent[q]
    BY InitIsProc, Zenon DEF Exit, Children, IInv, TypeOK
  <1>3. parent[p] \in Procs /\ parent[p] # p
    BY <1>1, Zenon DEF IInv, TypeOK, ParentInv, FamiliesIntact, Started
  <1>4. /\ state' \in [Procs -> States] /\ state'[p] = "ZOMBIE"
        /\ \A q \in Procs \ {p} :
              state'[q] = state[q] \/ (state[q] = "SLEEPING" /\ state'[q] = "RUNNABLE")
        /\ \A q \in Procs \ {p} : state[q] = "SLEEPING" /\ chan[q] = parent[p]
              => state'[q] = "RUNNABLE"
        /\ (\E r \in Procs : parent[r] = p /\ state[r] = "ZOMBIE")
              => \A q \in Procs \ {p} : state[q] = "SLEEPING" /\ chan[q] = init
                    => state'[q] = "RUNNABLE"
    BY Zenon DEF Exit, Children, Wakeup1, IInv, TypeOK, States
  <1>5. TypeOK'
    BY <1>1, <1>2, <1>4, Zenon DEF IInv, TypeOK
  <1>6. InitInv'
    <2>1. parent'[init] = None
      BY <1>2, InitIsProc DEF IInv, InitInv, None, Procs
    <2>2. state'[init] \in {"SLEEPING", "RUNNABLE", "RUNNING"}
      BY <1>1, <1>4, InitIsProc, Zenon DEF IInv, InitInv
    <2> QED
      BY <1>1, <2>1, <2>2, Zenon DEF IInv, InitInv
  <1>7. ParentInv'
    <2>1. \A q \in Procs : state'[q] = "UNUSED" => parent'[q] = None
      BY <1>1, <1>2, <1>4 DEF IInv, ParentInv, None, Procs
    <2>2. ASSUME NEW q \in Procs, parent'[q] = q PROVE FALSE
      BY <1>2, <2>2 DEF IInv, ParentInv, InitInv, init, None, Procs
    <2> QED
      BY <2>1, <2>2, Zenon DEF ParentInv
  <1>8. ForkInv'
    <2>1. ASSUME NEW r \in Procs, pc[r] \in Forking
          PROVE  r # p /\ np[r] \in Procs \ {p} /\ parent[np[r]] # p
      BY <1>1, <2>1 DEF IInv, ForkInv, Forking, None, Procs
    <2> QED
      BY <1>1, <1>2, <1>4, <2>1 DEF IInv, ForkInv
  <1>9. ASSUME NEW q \in Procs \ {init}, Started(q)'
        PROVE  (parent[q] # None /\ Started(parent[q]) /\ state[parent[q]] # "ZOMBIE")'
    <2>1. Started(q) /\ parent[q] \in Procs /\ Started(parent[q]) /\ state[parent[q]] # "ZOMBIE"
      BY <1>1, <1>4, <1>9, Zenon DEF IInv, TypeOK, FamiliesIntact, Started
    <2>2. CASE parent[q] = p
      BY <1>1, <1>2, <1>4, <2>2, InitIsProc DEF IInv, InitInv, Started, init, None
    <2>3. CASE parent[q] # p
      BY <1>2, <1>4, <2>1, <2>3 DEF Started, None, Procs
    <2> QED
      BY <2>2, <2>3, Zenon
  <1>10. ASSUME NEW q \in Procs, state'[q] = "SLEEPING", chan'[q] = q
         PROVE  (Children(q) # {} /\ Zombies(q) = {} /\ ~killed[q])'
    <2>1. q # p /\ state[q] = "SLEEPING" /\ chan[q] = q /\ q # parent[p]
      BY <1>1, <1>4, <1>10, Zenon
    <2>2. Children(q) # {} /\ Zombies(q) = {} /\ ~killed[q]
      BY <2>1, Zenon DEF IInv, FamiliesIntact
    <2>3. Children(q)' # {}
      BY <1>2, <2>1, <2>2, Zenon DEF Children
    <2>4. ASSUME NEW r \in Procs, parent'[r] = q, state'[r] = "ZOMBIE" PROVE FALSE
      <3>1. CASE parent[r] = p
        BY <1>1, <1>2, <1>3, <1>4, <1>10, <2>1, <2>4, <3>1
      <3>2. CASE parent[r] # p
        BY <1>1, <1>2, <1>4, <2>1, <2>2, <2>4, <3>2 DEF Zombies, Children
      <3> QED
        BY <3>1, <3>2, Zenon
    <2> QED
      BY <1>1, <2>2, <2>3, <2>4, Zenon DEF Zombies, Children
  <1> QED
    BY <1>5, <1>6, <1>7, <1>8, <1>9, <1>10, Zenon DEF IInv, FamiliesIntact

(* A child that has exited has no children left. *)
LEMMA WaitReapKeeps ==
    ASSUME IInv, NEW p \in Procs, WaitReap(p)
    PROVE  IInv'
  <1>1. PICK q \in Zombies(p) :
           /\ parent' = [parent EXCEPT ![q] = None] /\ killed' = [killed EXCEPT ![q] = FALSE]
           /\ state' = [state EXCEPT ![q] = "UNUSED"]
           /\ pc' = [pc EXCEPT ![p] = "user", ![q] = "none"]
    BY Zenon DEF WaitReap
  <1>2. /\ state[p] = "RUNNING" /\ pc[p] = "wait" /\ chan' = [chan EXCEPT ![p] = None]
        /\ UNCHANGED <<np, panicked>>
    BY Zenon DEF WaitReap, At
  <1>3. q \in Procs /\ state[q] = "ZOMBIE" /\ parent[q] = p /\ q # p
    BY <1>2, Zenon DEF Zombies, Children
  <1>4. /\ state'[q] = "UNUSED" /\ parent'[q] = None
        /\ pc'[p] = "user" /\ pc'[q] = "none" /\ chan'[p] = None
        /\ \A r \in Procs : r # q => /\ state'[r] = state[r] /\ parent'[r] = parent[r]
                                     /\ killed'[r] = killed[r]
        /\ \A r \in Procs : r # p => chan'[r] = chan[r]
        /\ \A r \in Procs \ {p, q} : pc'[r] = pc[r]
    BY <1>1, <1>2, <1>3, Zenon DEF IInv, TypeOK
  <1>5. TypeOK'
    BY <1>1, <1>2, <1>3, Zenon DEF IInv, TypeOK, States, Calls
  <1>6. InitInv' /\ ParentInv'
    BY <1>2, <1>3, <1>4, InitIsProc DEF IInv, InitInv, ParentInv, None, Procs
  <1>7. ForkInv'
    BY <1>2, <1>3, <1>4 DEF IInv, ForkInv, Forking
  <1>8. ASSUME NEW r \in Procs \ {init}, Started(r)'
        PROVE  (parent[r] # None /\ Started(parent[r]) /\ state[parent[r]] # "ZOMBIE")'
    <2>1. r # q /\ Started(r)
      BY <1>4, <1>8, Zenon DEF Started
    <2>2. parent[r] \in Procs /\ Started(parent[r]) /\ state[parent[r]] # "ZOMBIE"
      BY <2>1, Zenon DEF IInv, TypeOK, FamiliesIntact
    <2>3. parent[r] # q /\ parent[r] # None /\ parent'[r] = parent[r]
      BY <1>3, <1>4, <2>1, <2>2 DEF None, Procs
    <2> QED
      BY <1>4, <2>2, <2>3, Zenon DEF Started
  <1>9. ASSUME NEW r \in Procs, state'[r] = "SLEEPING", chan'[r] = r
        PROVE  (Children(r) # {} /\ Zombies(r) = {} /\ ~killed[r])'
    <2>1. r # q /\ r # p /\ state[r] = "SLEEPING" /\ chan[r] = r /\ killed'[r] = killed[r]
      BY <1>2, <1>3, <1>4, <1>9, Zenon
    <2>2. Children(r)' = Children(r) /\ Zombies(r)' \subseteq Zombies(r)
      BY <1>3, <1>4, <2>1 DEF Children, Zombies, None, Procs
    <2> QED
      BY <2>1, <2>2, Zenon DEF IInv, FamiliesIntact
  <1> QED
    BY <1>5, <1>6, <1>7, <1>8, <1>9, Zenon DEF IInv, FamiliesIntact

(* A process goes to sleep, in wait or on the clock. *)
LEMMA SleepKeeps ==
    ASSUME IInv, NEW p \in Procs, WaitSleep(p) \/ SleepGo(p)
    PROVE  IInv'
  <1>1. /\ ~panicked /\ state[p] = "RUNNING" /\ pc[p] \notin Forking
        /\ state' = [state EXCEPT ![p] = "SLEEPING"]
        /\ \E c \in Procs \cup {TicksChan} :
              /\ chan' = [chan EXCEPT ![p] = c]
              /\ c = p => Children(p) # {} /\ Zombies(p) = {} /\ ~killed[p]
        /\ pc' \in {pc, [pc EXCEPT ![p] = "sleep_woken"]}
        /\ UNCHANGED <<parent, killed, np, panicked>>
    BY DEF WaitSleep, SleepGo, At, Goto, Forking, TicksChan, Procs
  <1>2. /\ state'[p] = "SLEEPING"
        /\ chan'[p] = p => Children(p) # {} /\ Zombies(p) = {} /\ ~killed[p]
        /\ pc'[p] \notin Forking /\ pc'[p] \in {pc[p], "sleep_woken"}
        /\ \A r \in Procs : r # p => /\ state'[r] = state[r] /\ chan'[r] = chan[r]
                                     /\ pc'[r] = pc[r]
    BY <1>1, Zenon DEF IInv, TypeOK, Forking
  <1>3. TypeOK'
    BY <1>1 DEF IInv, TypeOK, States, Calls
  <1>4. InitInv' /\ ParentInv'
    BY <1>1, <1>2, InitIsProc DEF IInv, InitInv, ParentInv
  <1>5. ForkInv'
    BY <1>1, <1>2 DEF IInv, ForkInv
  <1>6. FamiliesIntact'
    BY <1>1, <1>2 DEF IInv, TypeOK, FamiliesIntact, Started, Children, Zombies, None, Procs
  <1> QED
    BY <1>3, <1>4, <1>5, <1>6, Zenon DEF IInv

(* The clock or kill wakes sleepers; kill marks one process. *)
LEMMA WakesKeep ==
    ASSUME IInv, Tick \/ (\E p \in Procs : \E k \in KillPids : Kill(p, k))
    PROVE  IInv'
  <1> DEFINE Woken ==
        /\ ~panicked /\ UNCHANGED <<parent, chan, pc, np, panicked>>
        /\ state' \in [Procs -> States] /\ killed' \in [Procs -> BOOLEAN]
        /\ \A q \in Procs :
              /\ state'[q] = state[q] \/ (state[q] = "SLEEPING" /\ state'[q] = "RUNNABLE")
              /\ killed'[q] # killed[q] => state'[q] # "SLEEPING"
  <1>1. Woken
    <2>1. CASE Tick
      BY <2>1, Zenon DEF Tick, Wakeup1, IInv, TypeOK, States
    <2>2. ASSUME NEW p \in Procs, NEW k \in KillPids, Kill(p, k)
          PROVE  Woken
      <3>1. ~panicked /\ UNCHANGED <<parent, chan, pc, np, panicked>>
        BY <2>2, Zenon DEF Kill, InUser, At
      <3>2. CASE UNCHANGED <<killed, state>>
        BY <3>1, <3>2, Zenon DEF IInv, TypeOK
      <3>3. ASSUME NEW q \in Procs, killed' = [killed EXCEPT ![q] = TRUE],
                   state' = IF state[q] = "SLEEPING" THEN [state EXCEPT ![q] = "RUNNABLE"] ELSE state
            PROVE  Woken
        BY <3>1, <3>3, Zenon DEF IInv, TypeOK, States
      <3> QED
        BY <2>2, <3>2, <3>3, Zenon DEF Kill
    <2> QED
      BY <2>1, <2>2, Zenon
  <1>2. TypeOK'
    BY <1>1, Zenon DEF IInv, TypeOK
  <1>3. InitInv' /\ ParentInv'
    BY <1>1, InitIsProc, Zenon DEF IInv, InitInv, ParentInv
  <1>4. ForkInv'
    BY <1>1 DEF IInv, ForkInv
  <1>5. ASSUME NEW r \in Procs \ {init}, Started(r)'
        PROVE  (parent[r] # None /\ Started(parent[r]) /\ state[parent[r]] # "ZOMBIE")'
    <2>1. Started(r)
      BY <1>1, <1>5, Zenon DEF Started
    <2>2. parent[r] \in Procs /\ Started(parent[r]) /\ state[parent[r]] # "ZOMBIE"
      BY <2>1, Zenon DEF IInv, TypeOK, FamiliesIntact
    <2> QED
      BY <1>1, <2>2 DEF Started, None, Procs
  <1>6. ASSUME NEW r \in Procs, state'[r] = "SLEEPING", chan'[r] = r
        PROVE  (Children(r) # {} /\ Zombies(r) = {} /\ ~killed[r])'
    <2>1. state[r] = "SLEEPING" /\ chan[r] = r /\ killed'[r] = killed[r]
      BY <1>1, <1>6, Zenon
    <2>2. Children(r)' = Children(r) /\ Zombies(r)' \subseteq Zombies(r)
      BY <1>1, Zenon DEF Children, Zombies
    <2> QED
      BY <2>1, <2>2, Zenon DEF IInv, FamiliesIntact
  <1> QED
    BY <1>2, <1>3, <1>4, <1>5, <1>6, Zenon DEF IInv, FamiliesIntact

(* userinit *)
LEMMA Start == ASSUME Init PROVE IInv
  <1>1. TypeOK
    BY InitIsProc, Zenon DEF Init, TypeOK, States, Calls
  <1>2. InitInv /\ ForkInv /\ ParentInv
    BY InitIsProc DEF Init, InitInv, ForkInv, ParentInv, Forking, None, Procs
  <1>3. FamiliesIntact
    BY Zenon DEF Init, FamiliesIntact, Started
  <1> QED
    BY <1>1, <1>2, <1>3, Zenon DEF IInv

LEMMA StepKeeps == ASSUME IInv, [Next]_vars PROVE IInv'
  <1>1. ASSUME NEW p \in Procs, Progress(p) PROVE IInv'
    BY Zenon, <1>1, ForkStackKeeps, ForkFailsKeeps, ForkCopyKeeps, ForkRunKeeps, ExitKeeps,
       WaitReapKeeps, SleepKeeps, CallsKeep DEF Progress
  <1>2. ASSUME NEW p \in Procs, Run(p) \/ Yield(p) \/ ForkAlloc(p) \/ ForkNoSlot(p)
                               \/ CallExit(p) \/ CallWait(p)
        PROVE  IInv'
    BY <1>2, DispatchKeeps, ForkAllocKeeps, CallsKeep, Zenon
  <1>3. CASE Tick \/ \E p \in Procs : \E k \in KillPids : Kill(p, k)
    BY <1>3, WakesKeep, Zenon
  <1>4. ASSUME NEW p \in Procs, \E k \in SleepTicks : CallSleep(p, k) PROVE IInv'
    BY <1>4, CallsKeep, Zenon
  <1>5. CASE UNCHANGED vars
    BY <1>5 DEF vars, IInv, TypeOK, InitInv, ForkInv, ParentInv, FamiliesIntact, Started,
                Children, Zombies
  <1> QED
    BY <1>1, <1>2, <1>3, <1>4, <1>5, Zenon DEF Next

LEMMA Invariance == Spec => []IInv
  <1>1. Init => IInv
    BY Start, Zenon
  <1>2. IInv /\ [Next]_vars => IInv'
    BY StepKeeps, Zenon
  <1> QED
    BY <1>1, <1>2, PTL DEF Spec

(* A process that has started, other than init, always has a parent that   *)
(* has not exited, and nobody sleeps in wait with a child to free, without *)
(* children or after a kill: for any number of slots, CPUs and pids, with  *)
(* fork failing anywhere for lack of memory.                               *)
THEOREM FamiliesStayIntact == Spec => []FamiliesIntact
  <1>1. IInv => FamiliesIntact
    BY Zenon DEF IInv
  <1> QED
    BY <1>1, Invariance, PTL

(* initproc never exits: exit() panics ("init exiting") before its state   *)
(* changes, so whoever exits finds init alive to adopt its children.       *)
THEOREM InitLives == Spec => [](state[init] \in {"SLEEPING", "RUNNABLE", "RUNNING"})
  <1>1. IInv => state[init] \in {"SLEEPING", "RUNNABLE", "RUNNING"}
    BY Zenon DEF IInv, InitInv
  <1> QED
    BY <1>1, Invariance, PTL

(* What fork is setting up belongs to one process that is inside fork, and *)
(* nobody else: two forks never get the same slot, and no exit, wait or    *)
(* kill in between takes it away.                                          *)
THEOREM SlotsOwnedOnce == Spec => []ForkInv
  <1>1. IInv => ForkInv
    BY Zenon DEF IInv
  <1> QED
    BY <1>1, Invariance, PTL

-----------------------------------------------------------------------------
(* Slots, kernel stacks and page directories *)

(* A slot in EMBRYO is being set up, and exactly the processes that have   *)
(* started, and the slots that fork has got so far with, own a kernel      *)
(* stack and a page directory.                                             *)
Owned ==
    /\ kstack \subseteq Procs /\ pgdir \subseteq Procs
    /\ \A q \in Procs : state[q] = "EMBRYO" => \E p \in Procs : pc[p] \in Forking /\ np[p] = q
    /\ \A q \in Procs : q \in kstack <=>
          Started(q) \/ \E p \in Procs : pc[p] \in {"fork_copy", "fork_run"} /\ np[p] = q
    /\ \A q \in Procs : q \in pgdir <=>
          Started(q) \/ \E p \in Procs : pc[p] = "fork_run" /\ np[p] = q

(* A step outside fork that neither starts nor frees a process. *)
LEMMA OwnedQuiet ==
    ASSUME Owned, UNCHANGED <<kstack, pgdir, np>>,
           \A q \in Procs : /\ Started(q)' <=> Started(q)
                            /\ state'[q] = "EMBRYO" => state[q] = "EMBRYO",
           \A q \in Procs : (pc[q] \in Forking \/ pc'[q] \in Forking) => pc'[q] = pc[q]
    PROVE  Owned'
  <1>1. \A q \in Procs : \A l \in Forking : pc'[q] = l <=> pc[q] = l
    BY Zenon
  <1>2. \A q \in Procs : pc'[q] \in Forking <=> pc[q] \in Forking
    BY Zenon
  <1>3. \A q \in Procs : /\ pc'[q] = "fork_run" <=> pc[q] = "fork_run"
                         /\ pc'[q] \in {"fork_copy", "fork_run"} <=> pc[q] \in {"fork_copy", "fork_run"}
    BY <1>1, Zenon DEF Forking
  <1> QED
    BY <1>2, <1>3 DEF Owned

LEMMA OwnedDispatch ==
    ASSUME IInv, Owned, NEW p \in Procs, Run(p) \/ Yield(p) \/ WaitSleep(p) \/ SleepGo(p)
    PROVE  Owned'
  <1>1. /\ UNCHANGED <<kstack, pgdir, np>> /\ state[p] \in {"RUNNABLE", "RUNNING"}
        /\ \E s \in {"RUNNABLE", "RUNNING", "SLEEPING"} : state' = [state EXCEPT ![p] = s]
        /\ pc' = pc \/ (pc[p] = "sleep_go" /\ pc' = [pc EXCEPT ![p] = "sleep_woken"])
    BY Zenon DEF Run, Yield, WaitSleep, SleepGo, memVars, At, Goto
  <1>2. \A q \in Procs : /\ Started(q)' <=> Started(q)
                         /\ state'[q] = "EMBRYO" => state[q] = "EMBRYO"
    BY <1>1, Zenon DEF IInv, TypeOK, Started
  <1>3. \A q \in Procs : (pc[q] \in Forking \/ pc'[q] \in Forking) => pc'[q] = pc[q]
    BY <1>1, Zenon DEF IInv, TypeOK, Forking
  <1> QED
    BY <1>1, <1>2, <1>3, OwnedQuiet, Zenon

LEMMA OwnedCalls ==
    ASSUME IInv, Owned, NEW p \in Procs,
           ForkNoSlot(p) \/ CallExit(p) \/ CallWait(p) \/ WaitFail(p) \/ SleepReturn(p) \/ SleepAgain(p)
              \/ SleepWoken(p) \/ \E k \in SleepTicks : CallSleep(p, k)
    PROVE  Owned'
  <1> DEFINE Moves == /\ UNCHANGED <<kstack, pgdir, np, state>> /\ pc[p] \notin Forking
                      /\ \E l \in Calls \ Forking : pc' = [pc EXCEPT ![p] = l]
  <1>1. Moves
    <2> USE DEF At, InUser, Goto, Calls, Forking, tableVars, memVars
    <2>1. CASE CallExit(p) \/ CallWait(p)
      BY <2>1, Zenon DEF CallExit, CallWait
    <2>2. CASE WaitFail(p) \/ SleepReturn(p)
      BY <2>2, Zenon DEF WaitFail, SleepReturn
    <2>3. CASE SleepAgain(p) \/ SleepWoken(p)
      BY <2>3, Zenon DEF SleepAgain, SleepWoken
    <2>4. CASE \E k \in SleepTicks : CallSleep(p, k)
      BY <2>4, Zenon DEF CallSleep
    <2>5. CASE ForkNoSlot(p)
      BY <2>5, Zenon DEF ForkNoSlot, ForkFailed
    <2> QED
      BY <2>1, <2>2, <2>3, <2>4, <2>5, Zenon
  <1>2. \A q \in Procs : (pc[q] \in Forking \/ pc'[q] \in Forking) => pc'[q] = pc[q]
    BY <1>1, Zenon DEF IInv, TypeOK
  <1> QED
    BY <1>1, <1>2, OwnedQuiet, Zenon DEF Started

LEMMA OwnedWakes ==
    ASSUME IInv, Owned,
           Tick \/ (\E p \in Procs : Exit(p) \/ \E k \in KillPids : Kill(p, k))
    PROVE  Owned'
  <1> DEFINE Wakes == /\ UNCHANGED <<kstack, pgdir, np, pc>>
                      /\ \A q \in Procs : /\ Started(q)' <=> Started(q)
                                          /\ state'[q] = "EMBRYO" => state[q] = "EMBRYO"
  <1>1. CASE Tick
    <2>1. Wakes
      BY <1>1, Zenon DEF Tick, Wakeup1, Started, memVars
    <2> QED
      BY <2>1, OwnedQuiet, Zenon
  <1>2. ASSUME NEW p \in Procs, Exit(p) PROVE Owned'
    <2>1. Wakes
      BY <1>2, Zenon DEF Exit, At, Wakeup1, Started, memVars
    <2> QED
      BY <2>1, OwnedQuiet, Zenon
  <1>3. ASSUME NEW p \in Procs, NEW k \in KillPids, Kill(p, k) PROVE Owned'
    <2>1. Wakes
      BY <1>3 DEF Kill, Started, memVars, IInv, TypeOK
    <2> QED
      BY <2>1, OwnedQuiet, Zenon
  <1> QED
    BY <1>1, <1>2, <1>3, Zenon

LEMMA OwnedForkAlloc ==
    ASSUME IInv, Owned, NEW p \in Procs, ForkAlloc(p)
    PROVE  Owned'
  <1>1. PICK q \in Procs : /\ state[q] = "UNUSED" /\ state' = [state EXCEPT ![q] = "EMBRYO"]
                           /\ np' = [np EXCEPT ![p] = q]
    BY Zenon DEF ForkAlloc
  <1>2. /\ state[p] = "RUNNING" /\ pc[p] = "user" /\ pc' = [pc EXCEPT ![p] = "fork_stack"]
        /\ UNCHANGED <<kstack, pgdir>>
    BY Zenon DEF ForkAlloc, InUser, At, Goto, memVars
  <1>3. /\ state'[q] = "EMBRYO" /\ np'[p] = q /\ pc'[p] = "fork_stack"
        /\ \A r \in Procs : r # q => state'[r] = state[r]
        /\ \A r \in Procs : r # p => np'[r] = np[r] /\ pc'[r] = pc[r]
    BY <1>1, <1>2, Zenon DEF IInv, TypeOK
  <1>4. \A r \in Procs : Started(r)' <=> Started(r)
    BY <1>1, <1>3, Zenon DEF Started
  <1>5. \A r \in Procs, l \in {"fork_copy", "fork_run"} :
           pc'[r] = l <=> (pc[r] = l /\ r # p)
    BY <1>2, <1>3, Zenon
  <1>6. \A r \in Procs : pc'[r] \in Forking <=> (r = p \/ pc[r] \in Forking)
    BY <1>3, Zenon DEF Forking
  <1>7. \A r \in Procs : state'[r] = "EMBRYO" => \E x \in Procs : pc'[x] \in Forking /\ np'[x] = r
    BY <1>2, <1>3, <1>6 DEF Owned, Forking
  <1> QED
    BY <1>2, <1>3, <1>4, <1>5, <1>7 DEF Owned

(* Inside fork: p goes from one label of fork to the next. *)
LEMMA OwnedForkStack ==
    ASSUME IInv, Owned, NEW p \in Procs, ForkStack(p)
    PROVE  Owned'
  <1>1. /\ pc[p] = "fork_stack" /\ pc' = [pc EXCEPT ![p] = "fork_copy"]
        /\ kstack' = kstack \cup {np[p]}
        /\ UNCHANGED <<state, pgdir, np>>
    BY Zenon DEF ForkStack, At, Goto, tableVars
  <1>2. /\ pc'[p] = "fork_copy" /\ \A r \in Procs : r # p => pc'[r] = pc[r]
        /\ np[p] \in Procs
    BY <1>1, Zenon DEF IInv, TypeOK, ForkInv, Forking
  <1>3. \A r \in Procs : /\ pc'[r] = "fork_run" <=> pc[r] = "fork_run"
                         /\ pc'[r] \in Forking <=> pc[r] \in Forking
                         /\ pc'[r] \in {"fork_copy", "fork_run"} <=>
                               (r = p \/ pc[r] \in {"fork_copy", "fork_run"})
    BY <1>1, <1>2, Zenon DEF Forking
  <1> QED
    BY <1>1, <1>2, <1>3 DEF Owned, Started

LEMMA OwnedForkCopy ==
    ASSUME IInv, Owned, NEW p \in Procs, ForkCopy(p)
    PROVE  Owned'
  <1>1. /\ pc[p] = "fork_copy" /\ pc' = [pc EXCEPT ![p] = "fork_run"]
        /\ pgdir' = pgdir \cup {np[p]}
        /\ UNCHANGED <<state, kstack, np>>
    BY Zenon DEF ForkCopy, At, Goto
  <1>2. /\ pc'[p] = "fork_run" /\ \A r \in Procs : r # p => pc'[r] = pc[r]
        /\ np[p] \in Procs
    BY <1>1, Zenon DEF IInv, TypeOK, ForkInv, Forking
  <1>3. \A r \in Procs : /\ pc'[r] = "fork_run" <=> (r = p \/ pc[r] = "fork_run")
                         /\ pc'[r] \in Forking <=> pc[r] \in Forking
                         /\ pc'[r] \in {"fork_copy", "fork_run"} <=>
                               pc[r] \in {"fork_copy", "fork_run"}
    BY <1>1, <1>2, Zenon DEF Forking
  <1> QED
    BY <1>1, <1>2, <1>3 DEF Owned, Started

(* fork ends: the slot q of p is freed, or starts. *)
LEMMA ForkEnds ==
    ASSUME IInv, Owned, NEW p \in Procs, NEW q \in Procs, pc[p] \in Forking, np[p] = q,
           pc'[p] \notin Forking, pc'[q] \notin Forking, state'[q] # "EMBRYO",
           \A r \in Procs : r # q => state'[r] = state[r],
           \A r \in Procs : r # p => np'[r] = np[r],
           \A r \in Procs \ {p, q} : pc'[r] = pc[r]
    PROVE  /\ \A r \in Procs : state'[r] = "EMBRYO" =>
                 \E x \in Procs : pc'[x] \in Forking /\ np'[x] = r
           /\ \A r \in Procs \ {q}, L \in SUBSET Forking :
                 (\E x \in Procs : pc'[x] \in L /\ np'[x] = r) <=>
                 (\E x \in Procs : pc[x] \in L /\ np[x] = r)
           /\ \A x \in Procs : pc'[x] \in Forking => np'[x] # q
  <1>1. pc[q] \notin Forking
    BY Zenon DEF IInv, ForkInv
  <1>2. ASSUME NEW x \in Procs, pc[x] \in Forking, x # p
        PROVE  pc'[x] = pc[x] /\ np'[x] = np[x] /\ np[x] # q
    BY <1>1, <1>2, Zenon DEF IInv, ForkInv
  <1>3. ASSUME NEW x \in Procs, pc'[x] \in Forking
        PROVE  x # p /\ pc'[x] = pc[x] /\ np'[x] = np[x] /\ np[x] # q
    BY <1>2, <1>3, Zenon
  <1>4. ASSUME NEW r \in Procs \ {q}, NEW L \in SUBSET Forking
        PROVE  (\E x \in Procs : pc'[x] \in L /\ np'[x] = r) <=>
               (\E x \in Procs : pc[x] \in L /\ np[x] = r)
    BY <1>2, <1>3, Zenon
  <1>5. ASSUME NEW r \in Procs, state'[r] = "EMBRYO"
        PROVE  \E x \in Procs : pc'[x] \in Forking /\ np'[x] = r
    <2>1. r # q /\ \E x \in Procs : pc[x] \in Forking /\ np[x] = r
      BY <1>5 DEF Owned
    <2> QED
      BY <1>4, <2>1, Zenon
  <1> QED
    BY <1>3, <1>4, <1>5, Zenon

LEMMA OwnedForkFails ==
    ASSUME IInv, Owned, NEW p \in Procs, ForkNoStack(p) \/ ForkNoMemory(p)
    PROVE  Owned'
  <1>1. PICK l \in {"user", "fork_failed"} :
        /\ state[p] = "RUNNING" /\ pc[p] \in {"fork_stack", "fork_copy"}
        /\ pc' = [pc EXCEPT ![p] = l] /\ np' = [np EXCEPT ![p] = None]
        /\ state' = [state EXCEPT ![np[p]] = "UNUSED"]
        /\ kstack' = IF pc[p] = "fork_copy" THEN kstack \ {np[p]} ELSE kstack
        /\ UNCHANGED pgdir
    BY Zenon DEF ForkNoStack, ForkNoMemory, ForkFailed, At, Goto, memVars
  <1>2. PICK q \in Procs : q = np[p] /\ state[q] = "EMBRYO" /\ q # p
    BY <1>1, Zenon DEF IInv, ForkInv, Forking
  <1>3. /\ state'[q] = "UNUSED" /\ pc'[p] = l
        /\ \A r \in Procs : r # q => state'[r] = state[r]
        /\ \A r \in Procs : r # p => np'[r] = np[r] /\ pc'[r] = pc[r]
    BY <1>1, <1>2, Zenon DEF IInv, TypeOK
  <1>4. pc[p] \in Forking /\ pc'[p] \notin Forking /\ pc'[q] \notin Forking
    BY <1>1, <1>2, <1>3, Zenon DEF Forking, IInv, ForkInv
  <1>5. /\ \A r \in Procs : state'[r] = "EMBRYO" =>
              \E x \in Procs : pc'[x] \in Forking /\ np'[x] = r
        /\ \A r \in Procs \ {q}, L \in SUBSET Forking :
              (\E x \in Procs : pc'[x] \in L /\ np'[x] = r) <=>
              (\E x \in Procs : pc[x] \in L /\ np[x] = r)
        /\ \A x \in Procs : pc'[x] \in Forking => np'[x] # q
    BY <1>2, <1>3, <1>4, ForkEnds
  <1>6. \A x \in Procs : pc[x] \in Forking /\ np[x] = q => x = p
    BY <1>2, <1>4, Zenon DEF IInv, ForkInv
  <1>7. q \notin kstack' /\ q \notin pgdir'
    BY <1>1, <1>2, <1>6 DEF Owned, Started, Forking
  <1>8. /\ {"fork_copy", "fork_run"} \in SUBSET Forking /\ {"fork_run"} \in SUBSET Forking
    BY Zenon DEF Forking
  <1>9. \A r \in Procs \ {q} : /\ r \in kstack' <=> r \in kstack
                               /\ r \in pgdir' <=> r \in pgdir
                               /\ Started(r)' <=> Started(r)
    BY <1>1, <1>2, <1>3, Zenon DEF Started
  <1>10. \A r \in Procs \ {q} : r \in kstack' <=>
            Started(r)' \/ \E x \in Procs : pc'[x] \in {"fork_copy", "fork_run"} /\ np'[x] = r
    BY <1>5, <1>8, <1>9, ZenonT(30) DEF Owned
  <1>11. \A r \in Procs \ {q} : r \in pgdir' <=>
            Started(r)' \/ \E x \in Procs : pc'[x] = "fork_run" /\ np'[x] = r
    <2>1. \A r \in Procs \ {q} : (\E x \in Procs : pc'[x] \in {"fork_run"} /\ np'[x] = r) <=>
                                 (\E x \in Procs : pc[x] \in {"fork_run"} /\ np[x] = r)
      BY <1>5, <1>8, Zenon
    <2> QED
      BY <1>9, <2>1 DEF Owned
  <1>12. ~Started(q)' /\ kstack' \subseteq Procs /\ pgdir' \subseteq Procs
    BY <1>1, <1>3, Zenon DEF Started, Owned
  <1> QED
    BY <1>5, <1>7, <1>8, <1>10, <1>11, <1>12 DEF Owned, Forking

LEMMA OwnedForkRun ==
    ASSUME IInv, Owned, NEW p \in Procs, ForkRun(p)
    PROVE  Owned'
  <1>1. /\ state[p] = "RUNNING" /\ pc[p] = "fork_run"
        /\ pc' = [pc EXCEPT ![p] = "user", ![np[p]] = "user"] /\ np' = [np EXCEPT ![p] = None]
        /\ state' = [state EXCEPT ![np[p]] = "RUNNABLE"]
        /\ UNCHANGED <<kstack, pgdir>>
    BY Zenon DEF ForkRun, At, memVars
  <1>2. PICK q \in Procs : q = np[p] /\ state[q] = "EMBRYO" /\ q # p
    BY <1>1, Zenon DEF IInv, ForkInv, Forking
  <1>3. /\ state'[q] = "RUNNABLE" /\ pc'[p] = "user" /\ pc'[q] = "user"
        /\ \A r \in Procs : r # q => state'[r] = state[r]
        /\ \A r \in Procs : r # p => np'[r] = np[r]
        /\ \A r \in Procs \ {p, q} : pc'[r] = pc[r]
    BY <1>1, <1>2, Zenon DEF IInv, TypeOK
  <1>4. pc[p] \in Forking /\ pc'[p] \notin Forking /\ pc'[q] \notin Forking
    BY <1>1, <1>3, Zenon DEF Forking
  <1>5. /\ \A r \in Procs : state'[r] = "EMBRYO" =>
              \E x \in Procs : pc'[x] \in Forking /\ np'[x] = r
        /\ \A r \in Procs \ {q}, L \in SUBSET Forking :
              (\E x \in Procs : pc'[x] \in L /\ np'[x] = r) <=>
              (\E x \in Procs : pc[x] \in L /\ np[x] = r)
    BY <1>2, <1>3, <1>4, ForkEnds
  <1>6. q \in kstack /\ q \in pgdir /\ Started(q)'
    BY <1>1, <1>2, <1>3, Zenon DEF Owned, Started
  <1>7. /\ {"fork_copy", "fork_run"} \in SUBSET Forking /\ {"fork_run"} \in SUBSET Forking
    BY Zenon DEF Forking
  <1>8. \A r \in Procs \ {q} : Started(r)' <=> Started(r)
    BY <1>3, Zenon DEF Started
  <1>9. \A r \in Procs \ {q} : r \in kstack <=>
           Started(r)' \/ \E x \in Procs : pc'[x] \in {"fork_copy", "fork_run"} /\ np'[x] = r
    BY <1>5, <1>7, <1>8, Zenon DEF Owned
  <1>10. \A r \in Procs \ {q} : r \in pgdir <=>
            Started(r)' \/ \E x \in Procs : pc'[x] = "fork_run" /\ np'[x] = r
    <2>1. \A r \in Procs \ {q} : (\E x \in Procs : pc'[x] \in {"fork_run"} /\ np'[x] = r) <=>
                                 (\E x \in Procs : pc[x] \in {"fork_run"} /\ np[x] = r)
      BY <1>5, <1>7, Zenon
    <2> QED
      BY <1>8, <2>1 DEF Owned
  <1>11. UNCHANGED <<kstack, pgdir>>
    BY <1>1, Zenon
  <1> QED
    BY <1>5, <1>6, <1>9, <1>10, <1>11 DEF Owned

LEMMA OwnedWaitReap ==
    ASSUME IInv, Owned, NEW p \in Procs, WaitReap(p)
    PROVE  Owned'
  <1>1. PICK q \in Zombies(p) :
           /\ kstack' = kstack \ {q} /\ pgdir' = pgdir \ {q}
           /\ state' = [state EXCEPT ![q] = "UNUSED"]
           /\ pc' = [pc EXCEPT ![p] = "user", ![q] = "none"]
    BY Zenon DEF WaitReap
  <1>2. state[p] = "RUNNING" /\ pc[p] = "wait" /\ UNCHANGED np
    BY Zenon DEF WaitReap, At
  <1>3. q \in Procs /\ state[q] = "ZOMBIE" /\ q # p
    BY <1>2, Zenon DEF Zombies, Children
  <1>4. /\ state'[q] = "UNUSED" /\ \A r \in Procs : r # q => state'[r] = state[r]
        /\ pc'[p] = "user" /\ pc'[q] = "none" /\ \A r \in Procs \ {p, q} : pc'[r] = pc[r]
    BY <1>1, <1>2, <1>3, Zenon DEF IInv, TypeOK
  <1>5. \A x \in Procs : \A l \in Forking : pc'[x] = l <=> pc[x] = l
    BY <1>2, <1>3, <1>4 DEF IInv, ForkInv, Forking
  <1>6. \A x \in Procs : /\ pc'[x] \in Forking <=> pc[x] \in Forking
                         /\ pc'[x] = "fork_run" <=> pc[x] = "fork_run"
                         /\ pc'[x] \in {"fork_copy", "fork_run"} <=>
                               pc[x] \in {"fork_copy", "fork_run"}
    BY <1>5, Zenon DEF Forking
  <1>7. \A x \in Procs : pc[x] \in Forking => np[x] # q
    BY <1>3, Zenon DEF IInv, ForkInv
  <1>8. \A r \in Procs \ {q} : Started(r)' <=> Started(r)
    BY <1>4, Zenon DEF Started
  <1>9. ~Started(q)'
    BY <1>4, Zenon DEF Started
  <1>10. \A r \in Procs : state'[r] = "EMBRYO" => state[r] = "EMBRYO"
    BY <1>4, Zenon
  <1>11. \A x \in Procs : pc[x] \in {"fork_copy", "fork_run"} => np[x] # q
    BY <1>7, Zenon DEF Forking
  <1>12. kstack' = kstack \ {q} /\ pgdir' = pgdir \ {q} /\ np' = np
    BY <1>1, <1>2, Zenon
  <1>13. \A r \in Procs : r \in kstack' <=>
            Started(r)' \/ \E x \in Procs : pc'[x] \in {"fork_copy", "fork_run"} /\ np'[x] = r
    <2>1. ASSUME NEW r \in Procs \ {q}
          PROVE  r \in kstack' <=>
                 Started(r)' \/ \E x \in Procs : pc'[x] \in {"fork_copy", "fork_run"} /\ np'[x] = r
      BY <1>6, <1>8, <1>12, Zenon DEF Owned
    <2>2. q \notin kstack' /\ ~\E x \in Procs : pc'[x] \in {"fork_copy", "fork_run"} /\ np'[x] = q
      BY <1>6, <1>11, <1>12, Zenon
    <2> QED
      BY <1>9, <2>1, <2>2, Zenon
  <1>14. \A r \in Procs : r \in pgdir' <=>
            Started(r)' \/ \E x \in Procs : pc'[x] = "fork_run" /\ np'[x] = r
    <2>1. ASSUME NEW r \in Procs \ {q}
          PROVE  r \in pgdir' <=> Started(r)' \/ \E x \in Procs : pc'[x] = "fork_run" /\ np'[x] = r
      BY <1>6, <1>8, <1>12, Zenon DEF Owned
    <2>2. q \notin pgdir' /\ ~\E x \in Procs : pc'[x] = "fork_run" /\ np'[x] = q
      BY <1>6, <1>11, <1>12, Zenon
    <2> QED
      BY <1>9, <2>1, <2>2, Zenon
  <1>15. \A r \in Procs : state'[r] = "EMBRYO" => \E x \in Procs : pc'[x] \in Forking /\ np'[x] = r
    BY <1>6, <1>10, <1>12 DEF Owned
  <1>16. kstack' \subseteq Procs /\ pgdir' \subseteq Procs
    BY <1>12, Zenon DEF Owned
  <1> QED
    BY <1>13, <1>14, <1>15, <1>16, Zenon DEF Owned

(* No slot, kernel stack or page directory is lost, used by two processes  *)
(* or freed while it is in use, also when fork fails half-way: an EMBRYO   *)
(* is somebody's fork under way, and exactly the processes that have       *)
(* started, and what a fork has got so far, own memory.                    *)
THEOREM MemoryOwned == Spec => []Owned
  <1>1. Init => Owned
    BY InitIsProc DEF Init, Owned, Started, Forking
  <1>2. IInv /\ Owned /\ [Next]_vars => Owned'
    <2> SUFFICES ASSUME IInv, Owned, [Next]_vars PROVE Owned'
      BY Zenon
    <2>1. ASSUME NEW p \in Procs, Progress(p) PROVE Owned'
      BY Zenon, <2>1, OwnedForkStack, OwnedForkFails, OwnedForkCopy, OwnedForkRun, OwnedWakes,
         OwnedWaitReap, OwnedDispatch, OwnedCalls DEF Progress
    <2>2. ASSUME NEW p \in Procs, Run(p) \/ Yield(p) \/ ForkAlloc(p) \/ ForkNoSlot(p)
                               \/ CallExit(p) \/ CallWait(p)
          PROVE  Owned'
      BY <2>2, OwnedDispatch, OwnedForkAlloc, OwnedCalls, Zenon
    <2>3. CASE Tick \/ \E p \in Procs : \E k \in KillPids : Kill(p, k)
      BY <2>3, OwnedWakes, Zenon
    <2>4. ASSUME NEW p \in Procs, \E k \in SleepTicks : CallSleep(p, k) PROVE Owned'
      BY <2>4, OwnedCalls, Zenon
    <2>5. CASE UNCHANGED vars
      BY <2>5, OwnedQuiet, Zenon DEF vars, Started
    <2> QED
      BY <2>1, <2>2, <2>3, <2>4, <2>5, Zenon DEF Next
  <1> QED
    BY <1>1, <1>2, Invariance, PTL DEF Spec

=============================================================================
