-------------------------------- MODULE Log --------------------------------
(***************************************************************************)
(* The redo log of log.c under concurrent file-system operations, crashes  *)
(* at any point and recovery at boot, which itself may be interrupted by a *)
(* crash.                                                                  *)
(*                                                                         *)
(* begin_op, end_op and the append in log_write are critical sections of   *)
(* log.lock and take one step; log_write's size check is made before the   *)
(* lock is taken and is a step of its own.  Every bwrite is one step that  *)
(* writes one disk sector completely.  sleep(&log) and wakeup(&log) are    *)
(* modelled by the set of processes asleep.                                *)
(***************************************************************************)
EXTENDS Integers, Sequences, FiniteSets, Functions

CONSTANTS
    Procs,          \* processes that make file-system calls
    Blocks,         \* home blocks of the file system
    LOGSIZE,        \* size of logheader.block[]
    NLog,           \* sb.nlog: blocks of the log on disk, its header included
    MAXOPBLOCKS,    \* what begin_op reserves for one operation
    OpBlocks,       \* distinct blocks an operation really writes at most:
                    \* more than is reserved, if it is a large write
    Values          \* contents of a block

ASSUME SizesAssumption ==
    /\ LOGSIZE \in Nat /\ NLog \in Nat
    /\ MAXOPBLOCKS \in Nat \ {0} /\ OpBlocks \in Nat
ASSUME ValuesAssumption == 0 \in Values

VARIABLES
    \* the disk
    home,           \* home blocks
    logdata,        \* log blocks 1 .. NLog-1
    header,         \* on-disk logheader: block[0 .. n-1]
    \* kernel memory
    cache,          \* contents of the blocks as bread returns them
    dirty,          \* blocks whose buffer has B_DIRTY
    lh,             \* log.lh: block[0 .. n-1]
    outstanding, committing,
    tail,           \* loop variable of write_log and install_trans
    boot,           \* "up", or how far recover_from_log has got
    panicked,       \* panic() was called
    \* the processes
    pc,
    blk,            \* block the process is about to log
    wrote,          \* distinct blocks its operation has written
    peak            \* history: the most that one operation has written since
                    \* the log was emptied

diskVars == <<home, logdata, header>>
memVars == <<cache, dirty, lh>>
opVars == <<blk, wrote, peak>>
vars == <<home, logdata, header, cache, dirty, lh, outstanding, committing,
          tail, boot, panicked, pc, blk, wrote, peak>>

Running == boot = "up" /\ ~panicked
Goto(p, to) == pc' = [pc EXCEPT ![p] = to]

(* wakeup(&log): every process asleep in begin_op tries again. *)
Wakeup(pcs) == [p \in Procs |-> IF pcs[p] = "asleep" THEN "begin" ELSE pcs[p]]

-----------------------------------------------------------------------------
(* begin_op *)

CallBeginOp(p) ==
    /\ Running /\ pc[p] = "out"
    /\ Goto(p, "begin")
    /\ UNCHANGED <<diskVars, memVars, outstanding, committing, tail, boot,
                   panicked, opVars>>

(* Mutant: an operation may start during a commit. *)
MayBegin_WhileCommitting == Len(lh) + (outstanding + 1) * MAXOPBLOCKS <= LOGSIZE

MayBegin == /\ ~committing
            /\ Len(lh) + (outstanding + 1) * MAXOPBLOCKS <= LOGSIZE

BeginSleep(p) ==
    /\ Running /\ pc[p] = "begin" /\ ~MayBegin
    /\ Goto(p, "asleep")
    /\ UNCHANGED <<diskVars, memVars, outstanding, committing, tail, boot,
                   panicked, opVars>>

BeginOp(p) ==
    /\ Running /\ pc[p] = "begin" /\ MayBegin
    /\ outstanding' = outstanding + 1
    /\ Goto(p, "in")
    /\ UNCHANGED <<diskVars, memVars, committing, tail, boot, panicked, opVars>>

-----------------------------------------------------------------------------
(* An operation modifies a buffer it has locked and calls log_write *)

NoBlock == CHOOSE b \in Blocks : TRUE      \* of no interest

Locked(b) == \E p \in Procs : pc[p] = "append" /\ blk[p] = b

LogFull == Len(lh) >= LOGSIZE \/ Len(lh) >= NLog - 1

(* The operation has b locked, changes it and enters log_write; the panic  *)
(* checks come before the lock.                                            *)
Modify(p, b, v) ==
    /\ Running /\ pc[p] = "in" /\ ~Locked(b)
    /\ Cardinality(wrote[p] \cup {b}) <= OpBlocks
    /\ wrote' = [wrote EXCEPT ![p] = @ \cup {b}]
    /\ peak' = IF Cardinality(wrote'[p]) > peak THEN Cardinality(wrote'[p]) ELSE peak
    /\ cache' = [cache EXCEPT ![b] = v]
    /\ blk' = [blk EXCEPT ![p] = b]
    /\ panicked' = (LogFull \/ outstanding < 1)
    /\ Goto(p, "append")
    /\ UNCHANGED <<diskVars, dirty, lh, outstanding, committing, tail, boot>>

(* Append with absorption; brelse follows. *)
LogWrite(p) ==
    /\ Running /\ pc[p] = "append"
    /\ lh' = IF blk[p] \in Range(lh) THEN lh ELSE Append(lh, blk[p])
    /\ dirty' = dirty \cup {blk[p]}
    /\ blk' = [blk EXCEPT ![p] = NoBlock]
    /\ Goto(p, "in")
    /\ UNCHANGED <<diskVars, cache, outstanding, committing, tail, boot,
                   panicked, wrote, peak>>

-----------------------------------------------------------------------------
(* end_op *)

EndOp(p, last) ==
    /\ Running /\ pc[p] = "in"
    /\ last = (outstanding - 1 = 0)
    /\ outstanding' = outstanding - 1
    /\ panicked' = committing
    /\ wrote' = [wrote EXCEPT ![p] = {}]
    /\ UNCHANGED <<diskVars, memVars, tail, boot, blk, peak>>

(* Other operations are running: wake those that wait for log space. *)
EndOpOther(p) ==
    /\ EndOp(p, FALSE)
    /\ pc' = Wakeup([pc EXCEPT ![p] = "out"])
    /\ UNCHANGED committing

(* The last outstanding operation commits; commit() does nothing when the  *)
(* log is empty.                                                           *)
EndOpLast(p) ==
    /\ EndOp(p, TRUE)
    /\ committing' = TRUE
    /\ Goto(p, IF lh = <<>> THEN "finish" ELSE "write_log")

(* One round of a loop over the entries of the log. *)
LastRound == tail + 1 = Len(lh)
Loop(p, again, done) == /\ tail' = IF LastRound THEN 0 ELSE tail + 1
                        /\ Goto(p, IF LastRound THEN done ELSE again)

(* commit(): copy the modified blocks from the cache to the log. *)
WriteLog(p) ==
    /\ Running /\ pc[p] = "write_log"
    /\ logdata' = [logdata EXCEPT ![tail + 1] = cache[lh[tail + 1]]]
    /\ Loop(p, "write_log", "write_head")
    /\ UNCHANGED <<home, header, memVars, outstanding, committing, boot,
                   panicked, opVars>>

(* The real commit. *)
WriteHead(p) ==
    /\ Running /\ pc[p] = "write_head"
    /\ header' = lh
    /\ Goto(p, "install")
    /\ UNCHANGED <<home, logdata, memVars, outstanding, committing, tail, boot,
                   panicked, opVars>>

(* install_trans copies log block tail to its home block; bwrite clears    *)
(* B_DIRTY.                                                                *)
InstallOne ==
    LET b == lh[tail + 1]
    IN  /\ home' = [home EXCEPT ![b] = logdata[tail + 1]]
        /\ cache' = [cache EXCEPT ![b] = logdata[tail + 1]]
        /\ dirty' = dirty \ {b}

InstallTrans(p) ==
    /\ Running /\ pc[p] = "install"
    /\ InstallOne
    /\ Loop(p, "install", "erase")
    /\ UNCHANGED <<logdata, header, lh, outstanding, committing, boot, panicked,
                   opVars>>

EraseLog == lh' = <<>> /\ header' = <<>>

Erase(p) ==
    /\ Running /\ pc[p] = "erase"
    /\ EraseLog
    /\ peak' = 0
    /\ Goto(p, "finish")
    /\ UNCHANGED <<home, logdata, cache, dirty, outstanding, committing, tail,
                   boot, panicked, blk, wrote>>

(* Mutant: nobody is woken after the commit. *)
Finish_NoWakeup(p) ==
    /\ Running /\ pc[p] = "finish"
    /\ committing' = FALSE
    /\ Goto(p, "out")
    /\ UNCHANGED <<diskVars, memVars, outstanding, tail, boot, panicked, opVars>>

(* end_op after commit() *)
Finish(p) ==
    /\ Running /\ pc[p] = "finish"
    /\ committing' = FALSE
    /\ pc' = Wakeup([pc EXCEPT ![p] = "out"])
    /\ UNCHANGED <<diskVars, memVars, outstanding, tail, boot, panicked, opVars>>

-----------------------------------------------------------------------------
(* Power loss or reset: memory is gone, the disk stays as it is. *)
Crash ==
    /\ panicked' = FALSE
    /\ cache' = home /\ dirty' = {} /\ lh' = <<>>
    /\ outstanding' = 0 /\ committing' = FALSE /\ tail' = 0
    /\ boot' = "read_head"
    /\ pc' = [p \in Procs |-> "out"]
    /\ blk' = [p \in Procs |-> NoBlock]
    /\ wrote' = [p \in Procs |-> {}] /\ peak' = 0
    /\ UNCHANGED diskVars

(* Mutant: recovery clears a committed log without installing it. *)
RecoverReadHead_Discards ==
    /\ boot = "read_head"
    /\ lh' = header
    /\ boot' = "erase"
    /\ UNCHANGED <<diskVars, cache, dirty, outstanding, committing, tail,
                   panicked, pc, opVars>>

(* initlog runs recover_from_log before any process makes a call. *)
RecoverReadHead ==
    /\ boot = "read_head"
    /\ lh' = header
    /\ boot' = IF header = <<>> THEN "erase" ELSE "install"
    /\ UNCHANGED <<diskVars, cache, dirty, outstanding, committing, tail,
                   panicked, pc, opVars>>

RecoverInstall ==
    /\ boot = "install"
    /\ InstallOne
    /\ tail' = IF LastRound THEN 0 ELSE tail + 1
    /\ boot' = IF LastRound THEN "erase" ELSE "install"
    /\ UNCHANGED <<logdata, header, lh, outstanding, committing, panicked, pc,
                   opVars>>

RecoverErase ==
    /\ boot = "erase"
    /\ EraseLog
    /\ boot' = "up"
    /\ UNCHANGED <<home, logdata, cache, dirty, outstanding, committing, tail,
                   panicked, pc, opVars>>

-----------------------------------------------------------------------------
(* mkfs leaves an empty log; the first boot recovers from it. *)
Init ==
    /\ home = [b \in Blocks |-> 0]
    /\ logdata = [i \in 1 .. NLog - 1 |-> 0]
    /\ header = <<>>
    /\ cache = home /\ dirty = {} /\ lh = <<>>
    /\ outstanding = 0 /\ committing = FALSE /\ tail = 0
    /\ boot = "read_head" /\ panicked = FALSE
    /\ pc = [p \in Procs |-> "out"]
    /\ blk = [p \in Procs |-> NoBlock]
    /\ wrote = [p \in Procs |-> {}] /\ peak = 0

Commit(p) == WriteLog(p) \/ WriteHead(p) \/ InstallTrans(p) \/ Erase(p)

Recover == RecoverReadHead \/ RecoverInstall \/ RecoverErase

Progress(p) == \/ BeginSleep(p) \/ BeginOp(p) \/ LogWrite(p)
               \/ EndOpOther(p) \/ EndOpLast(p) \/ Commit(p) \/ Finish(p)

Next == \/ \E p \in Procs : \/ CallBeginOp(p) \/ Progress(p)
                            \/ \E b \in Blocks, v \in Values : Modify(p, b, v)
        \/ Recover \/ Crash

Spec == Init /\ [][Next]_vars

-----------------------------------------------------------------------------
(* Properties *)

(* The contents that recovery would leave on the disk if the machine       *)
(* stopped now.                                                            *)
Recovered == [b \in Blocks |->
                IF \E i \in 1 .. Len(header) : header[i] = b
                THEN logdata[CHOOSE i \in 1 .. Len(header) : header[i] = b]
                ELSE home[b]]

Abstract == INSTANCE AtomicDisk WITH
                memory <- IF boot = "up" THEN cache ELSE Recovered,
                durable <- Recovered,
                active <- {p \in Procs : pc[p] \in {"in", "append"}}

(* The entries that commit() copies fit the log on disk; write_log does not *)
(* check it, and would go on into the blocks after the log.                 *)
LogFits == boot = "up" => Len(lh) <= NLog - 1

(* The log makes groups of operations atomic: whatever the moment of a     *)
(* crash, also after a panic, during commit or during recovery, the disk   *)
(* recovers to the contents of a moment at which no operation was under    *)
(* way, and commit never writes part of an operation.  This holds while    *)
(* LogFits does.                                                           *)
CrashAtomic == Abstract!Spec

(* The log as LogSpace sees it: the entries of log.lh, how far each        *)
(* operation is, and how many blocks it has logged.                        *)
Entries == IF boot = "up" THEN Len(lh) ELSE 0
Where == [p \in Procs |->
            IF pc[p] = "append"
            THEN IF blk[p] \in Range(lh) THEN "absorb" ELSE "append"
            ELSE IF pc[p] = "in" THEN "in" ELSE "out"]
Logged == [p \in Procs |-> Cardinality(wrote[p])]

Space == INSTANCE LogSpace WITH n <- Entries, state <- Where, used <- Logged

(* The log uses its entries as the space accounting of LogSpace says, so   *)
(* what is checked there with the sizes of param.h and mkfs.c holds here:  *)
(* in particular log.outstanding counts the processes between begin_op and *)
(* end_op, and nobody logs a block while a commit is under way.            *)
SpaceAccounting == Space!Spec

(* Whoever sleeps in begin_op has somebody to wake it: an operation that   *)
(* is going to end, or the process that commits.  No wakeup is lost        *)
(* between the test for space and sleep(&log), nor between the last end_op *)
(* and the end of its commit.                                              *)
SleepersHaveWaker ==
    (\E p \in Procs : pc[p] = "asleep") => outstanding > 0 \/ committing

=============================================================================
