------------------------------ MODULE MCThreads ------------------------------
(* The thread library: its counting semaphores (whose names are those of    *)
(* module CSem), built on an abstract binary semaphore, and the threads and *)
(* binary semaphores themselves, which implement it.  A behaviour is one of *)
(* one of the two, chosen by part, while the other stays in its initial     *)
(* state.                                                                   *)
EXTENDS CSem

CONSTANTS
    t1, t2, t3,
    MAX_UTHREADS, Sems, MallocFails, UTHREAD_QUANTA, MaxTid, MaxTime

VARIABLES
    part,
    state, tid, wakeup, joining, stack, nexttid, numOfThreads, current, mode,
    ut, alarm, pending, now, bsem

ThreeThreads == {t1, t2, t3}

T == INSTANCE UThread

ASSUME UThreadAssumptions == T!Assumptions

uthread == <<state, tid, wakeup, joining, stack, nexttid, numOfThreads, current,
             mode, ut, alarm, pending, now, bsem>>
MCVars == <<part, vars, uthread>>

MCInit == part \in {"csem", "uthread"} /\ Init /\ T!Init

OfCSem(A) == part = "csem" /\ A /\ UNCHANGED <<part, uthread>>
OfUThread(A) == part = "uthread" /\ A /\ UNCHANGED <<part, vars>>

MCNext == OfCSem(Next) \/ OfUThread(T!Next)

(* The fairness of CSem and of UThread.  CSem assumes the first conjunct    *)
(* for the behaviours that settle only; for the others IsCountingSemaphore  *)
(* asks for no liveness, so they do not need a fairness of their own.       *)
MCFairness ==
    /\ \A t \in Threads : WF_MCVars(OfCSem(Down(t) \/ Up(t)))
    /\ WF_MCVars(OfUThread(T!Schedule))
    /\ WF_MCVars(OfUThread(T!Preempt))
    /\ WF_MCVars(OfUThread(T!Tick))

MCSpec == MCInit /\ [][MCNext]_MCVars /\ MCFairness

(* UThread: every sleeper has one waker, and the stack in use is kept. *)
ThreadTableConsistent == T!ThreadTableConsistent

(* UThread: uthread_join returns 0 only after the thread has exited. *)
JoinWaitsForExit == T!JoinWaitsForExit

(* UThread: bsem_down and bsem_up are a first-in first-out semaphore. *)
RingIsBinSem == T!RingIsBinSem

(* UThread: runnable threads run and sleepers wake. *)
ThreadsProgress == part = "uthread" => T!ThreadsProgress

=============================================================================
