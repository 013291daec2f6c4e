-------------------------------- MODULE Pipe --------------------------------
(***************************************************************************)
(* One pipe of pipe.c with any number of processes that read, write and    *)
(* close it and may be killed at any time.  Statements between acquire and *)
(* release of p->lock are single steps; sleep releases the lock and goes   *)
(* to sleep in one step (Sched.tla).  nread and nwrite are uints.          *)
(***************************************************************************)
EXTENDS Integers, Sequences, FiniteSets

CONSTANTS
    Readers, Writers,   \* processes that have the read end, the write end
    PIPESIZE,
    UMod,               \* 2^32, a multiple of PIPESIZE
    Bytes,
    Counts              \* the values of n that calls are made with

ASSUME SizeAssumption ==
    /\ PIPESIZE \in Nat \ {0} /\ UMod \in Nat /\ Counts \subseteq Nat
    /\ UMod % PIPESIZE = 0 /\ UMod > PIPESIZE

Procs == Readers \cup Writers
Nobody == 0
NoChan == "none"

VARIABLES
    lock,               \* the process that holds p->lock, or Nobody
    data, nread, nwrite, readopen, writeopen,
    freed,              \* the page of the pipe was given to kfree
    news,               \* history: what became of bytes put since the last
                        \* wakeup(&p->nread): "none" there are none, "put" their
                        \* writer is under way, "left" it has returned -1
    refs,               \* ends that each process has open
    killed,
    chan,               \* what the process sleeps on
    pc,
    i, count,           \* i and n of pipewrite and piperead
    got                 \* the byte that piperead copied last

ringVars == <<data, nread, nwrite, readopen, writeopen, freed>>
pipeVars == <<ringVars, news>>
callVars == <<i, count>>
vars == <<lock, data, nread, nwrite, readopen, writeopen, freed, news, refs,
          killed, chan, pc, i, count, got>>

At(p, label) == pc[p] = label /\ chan[p] = NoChan
Goto(p, label) == pc' = [pc EXCEPT ![p] = label]

Empty == nread = nwrite

Full == nwrite = (nread + PIPESIZE) % UMod

(* wakeup: sleepers on ch go on by acquiring p->lock. *)
Wakeup(ch) == chan' = [p \in Procs |-> IF chan[p] = ch THEN NoChan ELSE chan[p]]

WakeReaders == Wakeup("nread") /\ news' = "none"

-----------------------------------------------------------------------------
(* Both calls *)

CallWrite(p, k) ==
    /\ At(p, "user") /\ ~killed[p] /\ "w" \in refs[p]
    /\ Goto(p, "w_acquire")
    /\ count' = [count EXCEPT ![p] = k] /\ i' = [i EXCEPT ![p] = 0]
    /\ UNCHANGED <<lock, pipeVars, refs, killed, chan, got>>

CallRead(p, k) ==
    /\ At(p, "user") /\ ~killed[p] /\ "r" \in refs[p]
    /\ Goto(p, "r_acquire")
    /\ count' = [count EXCEPT ![p] = k] /\ i' = [i EXCEPT ![p] = 0]
    /\ UNCHANGED <<lock, pipeVars, refs, killed, chan, got>>

(* Also the reacquisition at the end of sleep. *)
Acquire(p) ==
    /\ lock = Nobody
    /\ \/ At(p, "w_acquire") /\ Goto(p, "w_loop")
       \/ At(p, "r_acquire") /\ Goto(p, "r_loop")
       \/ At(p, "c_acquire") /\ Goto(p, "c_close")
    /\ lock' = p
    /\ UNCHANGED <<pipeVars, refs, killed, chan, callVars, got>>

(* release, and return from the system call. *)
Return(p) == /\ lock' = Nobody
             /\ Goto(p, "user")
             /\ i' = [i EXCEPT ![p] = 0] /\ count' = [count EXCEPT ![p] = 0]

-----------------------------------------------------------------------------
(* pipewrite *)

WritePut(p, b) ==
    /\ At(p, "w_loop") /\ i[p] < count[p] /\ ~Full
    /\ data' = [data EXCEPT ![nwrite % PIPESIZE] = b]
    /\ nwrite' = (nwrite + 1) % UMod
    /\ i' = [i EXCEPT ![p] = @ + 1]
    /\ news' = "put"
    /\ UNCHANGED <<lock, nread, readopen, writeopen, freed, refs, killed, chan,
                   pc, count, got>>

(* Full, and no reader is left or the process is killed: return -1. *)
WriteFail(p) ==
    /\ At(p, "w_loop") /\ i[p] < count[p] /\ Full
    /\ ~readopen \/ killed[p]
    /\ Return(p)
    /\ news' = IF news = "put" THEN "left" ELSE news
    /\ UNCHANGED <<ringVars, refs, killed, chan, got>>

(* Mutant: readers are not woken before the writer sleeps. *)
WriteFull_NoWakeup(p) ==
    /\ At(p, "w_loop") /\ i[p] < count[p] /\ Full
    /\ readopen /\ ~killed[p]
    /\ Goto(p, "w_sleep")
    /\ UNCHANGED <<lock, pipeVars, refs, killed, chan, callVars, got>>

WriteFull(p) ==
    /\ At(p, "w_loop") /\ i[p] < count[p] /\ Full
    /\ readopen /\ ~killed[p]
    /\ WakeReaders
    /\ Goto(p, "w_sleep")
    /\ UNCHANGED <<lock, ringVars, refs, killed, callVars, got>>

(* sleep(&p->nwrite, &p->lock) *)
WriteSleep(p) ==
    /\ At(p, "w_sleep")
    /\ lock' = Nobody
    /\ chan' = [chan EXCEPT ![p] = "nwrite"]
    /\ Goto(p, "w_acquire")
    /\ UNCHANGED <<pipeVars, refs, killed, callVars, got>>

WriteDone(p) ==
    /\ At(p, "w_loop") /\ i[p] = count[p]
    /\ WakeReaders
    /\ Return(p)
    /\ UNCHANGED <<ringVars, refs, killed, got>>

-----------------------------------------------------------------------------
(* piperead *)

ReadEmpty(p) ==
    /\ At(p, "r_loop") /\ Empty /\ writeopen /\ ~killed[p]
    /\ Goto(p, "r_sleep")
    /\ UNCHANGED <<lock, pipeVars, refs, killed, chan, callVars, got>>

ReadFail(p) ==
    /\ At(p, "r_loop") /\ Empty /\ writeopen /\ killed[p]
    /\ Return(p)
    /\ UNCHANGED <<pipeVars, refs, killed, chan, got>>

(* sleep(&p->nread, &p->lock) *)
ReadSleep(p) ==
    /\ At(p, "r_sleep")
    /\ lock' = Nobody
    /\ chan' = [chan EXCEPT ![p] = "nread"]
    /\ Goto(p, "r_acquire")
    /\ UNCHANGED <<pipeVars, refs, killed, callVars, got>>

ReadReady(p) ==
    /\ At(p, "r_loop") /\ (~Empty \/ ~writeopen)
    /\ Goto(p, "r_copy")
    /\ UNCHANGED <<lock, pipeVars, refs, killed, chan, callVars, got>>

(* Mutant: the byte after the next one is copied. *)
ReadCopy_PreIncrement(p) ==
    /\ At(p, "r_copy") /\ i[p] < count[p] /\ ~Empty
    /\ got' = data[(nread + 1) % PIPESIZE]
    /\ nread' = (nread + 1) % UMod
    /\ i' = [i EXCEPT ![p] = @ + 1]
    /\ UNCHANGED <<lock, data, nwrite, readopen, writeopen, freed, news, refs,
                   killed, chan, pc, count>>

ReadCopy(p) ==
    /\ At(p, "r_copy") /\ i[p] < count[p] /\ ~Empty
    /\ got' = data[nread % PIPESIZE]
    /\ nread' = (nread + 1) % UMod
    /\ i' = [i EXCEPT ![p] = @ + 1]
    /\ UNCHANGED <<lock, data, nwrite, readopen, writeopen, freed, news, refs,
                   killed, chan, pc, count>>

ReadDone(p) ==
    /\ At(p, "r_copy") /\ (i[p] = count[p] \/ Empty)
    /\ Wakeup("nwrite")
    /\ Return(p)
    /\ UNCHANGED <<pipeVars, refs, killed, got>>

-----------------------------------------------------------------------------
(* fileclose and pipeclose *)

LastRef(p, end) == \A q \in Procs \ {p} : end \notin refs[q]

(* fileclose of an end that other processes have open too. *)
CloseShared(p, end) ==
    /\ At(p, "user") /\ end \in refs[p] /\ ~LastRef(p, end)
    /\ refs' = [refs EXCEPT ![p] = @ \ {end}]
    /\ UNCHANGED <<lock, pipeVars, killed, chan, pc, callVars, got>>

(* The last fileclose of an end calls pipeclose. *)
CloseLast(p, end) ==
    /\ At(p, "user") /\ end \in refs[p] /\ LastRef(p, end)
    /\ refs' = [refs EXCEPT ![p] = @ \ {end}]
    /\ Goto(p, "c_acquire")
    /\ i' = [i EXCEPT ![p] = IF end = "w" THEN 1 ELSE 0]     \* writable
    /\ UNCHANGED <<lock, pipeVars, killed, chan, count, got>>

(* Mutant: the page is freed with the first end. *)
PipeClose_FreesFirst(p) ==
    /\ At(p, "c_close")
    /\ IF i[p] = 1
       THEN writeopen' = FALSE /\ WakeReaders /\ UNCHANGED readopen
       ELSE readopen' = FALSE /\ Wakeup("nwrite") /\ UNCHANGED <<writeopen, news>>
    /\ freed' = TRUE
    /\ Return(p)
    /\ UNCHANGED <<data, nread, nwrite, refs, killed, got>>

PipeClose(p) ==
    /\ At(p, "c_close")
    /\ IF i[p] = 1
       THEN writeopen' = FALSE /\ WakeReaders /\ UNCHANGED readopen
       ELSE readopen' = FALSE /\ Wakeup("nwrite") /\ UNCHANGED <<writeopen, news>>
    /\ freed' = (~readopen' /\ ~writeopen')
    /\ Return(p)
    /\ UNCHANGED <<data, nread, nwrite, refs, killed, got>>

-----------------------------------------------------------------------------
(* kill(): a process that sleeps is woken. *)
Kill(p) ==
    /\ ~killed[p]
    /\ killed' = [killed EXCEPT ![p] = TRUE]
    /\ chan' = [chan EXCEPT ![p] = NoChan]
    /\ UNCHANGED <<lock, pipeVars, refs, pc, callVars, got>>

(* pipealloc, after fork has shared out the ends. *)
Init ==
    /\ lock = Nobody
    /\ data \in [0 .. PIPESIZE - 1 -> {CHOOSE b \in Bytes : TRUE}]
    /\ nread = 0 /\ nwrite = 0 /\ readopen = TRUE /\ writeopen = TRUE
    /\ freed = FALSE /\ news = "none"
    /\ refs = [p \in Procs |-> (IF p \in Readers THEN {"r"} ELSE {})
                               \cup (IF p \in Writers THEN {"w"} ELSE {})]
    /\ killed = [p \in Procs |-> FALSE]
    /\ chan = [p \in Procs |-> NoChan]
    /\ pc = [p \in Procs |-> "user"]
    /\ i = [p \in Procs |-> 0] /\ count = [p \in Procs |-> 0]
    /\ got = CHOOSE b \in Bytes : TRUE

(* The steps inside a call. *)
Progress(p) == \/ Acquire(p) \/ PipeClose(p)
               \/ (\E b \in Bytes : WritePut(p, b)) \/ WriteFail(p) \/ WriteFull(p)
               \/ WriteSleep(p) \/ WriteDone(p)
               \/ ReadEmpty(p) \/ ReadFail(p) \/ ReadSleep(p) \/ ReadReady(p)
               \/ ReadCopy(p) \/ ReadDone(p)

Close(p) == \E end \in {"r", "w"} : CloseShared(p, end) \/ CloseLast(p, end)

Next == \E p \in Procs :
            \/ Progress(p) \/ Close(p) \/ Kill(p)
            \/ \E k \in Counts : CallWrite(p, k) \/ CallRead(p, k)

Spec == Init /\ [][Next]_vars

-----------------------------------------------------------------------------
(* Properties *)

Reading(p) == pc[p] \in {"r_acquire", "r_loop", "r_sleep", "r_copy"}
Writing(p) == pc[p] \in {"w_acquire", "w_loop", "w_sleep"}
Closing(p) == pc[p] \in {"c_acquire", "c_close"}

Length == (nwrite - nread) % UMod

Contents == [k \in 1 .. Length |-> data[((nread + k - 1) % UMod) % PIPESIZE]]

Abstract == INSTANCE Fifo WITH Size <- PIPESIZE, queue <- Contents

(* The ring buffer is a first-in first-out queue of PIPESIZE bytes, across *)
(* the wrap-around of the ring and that of nread and nwrite, with several  *)
(* readers and writers.                                                    *)
IsFifo == Abstract!Spec

(* When nobody holds p->lock, a reader sleeps only because the pipe is     *)
(* empty and still has a writer, and a writer only because it is full and  *)
(* still has a reader: no put, get or close forgets a sleeper, in both     *)
(* loops and at both ends.  The one exception is what the code does lose:  *)
(* a writer that has put bytes, is killed, finds the pipe full and returns *)
(* -1 wakes nobody (pipe.c:86-88), and until somebody calls                *)
(* wakeup(&p->nread) again a reader may sleep beside those bytes.          *)
SleepersHaveReason ==
    lock = Nobody => \A p \in Procs :
        /\ chan[p] = "nread" => writeopen /\ (Empty \/ news = "left")
        /\ chan[p] = "nwrite" => Full /\ readopen

(* pipeclose frees the page when nobody is in pipewrite, piperead or       *)
(* pipeclose any more.                                                     *)
NoUseAfterFree ==
    freed => \A p \in Procs : ~Reading(p) /\ ~Writing(p) /\ ~Closing(p)

=============================================================================
