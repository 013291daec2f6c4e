------------------------------ MODULE LogSpace ------------------------------
(***************************************************************************)
(* The space accounting of log.c alone: how many entries the log header    *)
(* holds, which begin_op reserves for and log_write uses up.  The contents *)
(* of blocks are left out, so the constants can have their real values.    *)
(* Log.tla implements this specification.                                  *)
(***************************************************************************)
EXTENDS Integers, FiniteSets

CONSTANTS
    Procs,          \* processes that make file-system calls
    LOGSIZE,        \* size of logheader.block[]
    NLog,           \* sb.nlog, which counts the header block
    MAXOPBLOCKS,    \* what begin_op reserves for one operation
    OpBlocks        \* distinct blocks an operation really writes at most:
                    \* more than is reserved, if it is a large write

VARIABLES
    n,              \* log.lh.n
    state,          \* "out", "in" an operation, or in log_write past the checks,
                    \* about to "append" the block or to "absorb" it
    used,           \* distinct blocks the operation has logged
    peak,           \* history: the most that one operation has logged since
                    \* the log was emptied
    committing,
    panicked

vars == <<n, state, used, peak, committing, panicked>>

Inside == {p \in Procs : state[p] # "out"}
outstanding == Cardinality(Inside)

(* Mutant: the blocks already in the log are not counted. *)
MayBegin_ForgetsLogged ==
    ~committing /\ (outstanding + 1) * MAXOPBLOCKS <= LOGSIZE

(* begin_op's tests, negated. *)
MayBegin == ~committing /\ n + (outstanding + 1) * MAXOPBLOCKS <= LOGSIZE

BeginOp(p) ==
    /\ ~panicked /\ state[p] = "out" /\ MayBegin
    /\ state' = [state EXCEPT ![p] = "in"]
    /\ UNCHANGED <<n, used, peak, committing, panicked>>

(* log_write tests the size before it takes log.lock. *)
LogFull == n >= LOGSIZE \/ n >= NLog - 1

(* An operation logs a block; own tells that it has not logged it before,  *)
(* fresh that the log does not hold it either.                             *)
Modify(p, own, fresh) ==
    /\ ~panicked /\ state[p] = "in"
    /\ fresh => own
    /\ IF own THEN used[p] < OpBlocks ELSE used[p] > 0
    /\ ~fresh => n > 0
    /\ used' = [used EXCEPT ![p] = IF own THEN @ + 1 ELSE @]
    /\ peak' = IF used'[p] > peak THEN used'[p] ELSE peak
    /\ state' = [state EXCEPT ![p] = IF fresh THEN "append" ELSE "absorb"]
    /\ panicked' = (LogFull \/ outstanding < 1)
    /\ UNCHANGED <<n, committing>>

(* The critical section of log_write. *)
LogWrite(p) ==
    /\ ~panicked /\ state[p] \in {"append", "absorb"}
    /\ n' = IF state[p] = "append" THEN n + 1 ELSE n
    /\ state' = [state EXCEPT ![p] = "in"]
    /\ UNCHANGED <<used, peak, committing, panicked>>

(* The last operation starts to commit. *)
EndOp(p) ==
    /\ ~panicked /\ state[p] = "in"
    /\ state' = [state EXCEPT ![p] = "out"]
    /\ used' = [used EXCEPT ![p] = 0]
    /\ committing' = (committing \/ Inside = {p})
    /\ panicked' = committing
    /\ UNCHANGED <<n, peak>>

(* commit() has installed the blocks and empties the log. *)
Erase ==
    /\ ~panicked /\ committing /\ n > 0
    /\ n' = 0 /\ peak' = 0
    /\ UNCHANGED <<state, used, committing, panicked>>

(* end_op after commit() *)
Finish ==
    /\ ~panicked /\ committing /\ n = 0
    /\ committing' = FALSE
    /\ UNCHANGED <<n, state, used, peak, panicked>>

(* A reset; recovery leaves an empty log. *)
Restart ==
    /\ n' = 0 /\ peak' = 0 /\ committing' = FALSE /\ panicked' = FALSE
    /\ state' = [p \in Procs |-> "out"]
    /\ used' = [p \in Procs |-> 0]

Init ==
    /\ n = 0 /\ peak = 0 /\ committing = FALSE /\ panicked = FALSE
    /\ state = [p \in Procs |-> "out"]
    /\ used = [p \in Procs |-> 0]

Next == \/ \E p \in Procs : \/ BeginOp(p) \/ LogWrite(p) \/ EndOp(p)
                            \/ \E own, fresh \in BOOLEAN : Modify(p, own, fresh)
        \/ Erase \/ Finish \/ Restart

Spec == Init /\ [][Next]_vars

(* filewrite: what one of its operations may log is max bytes of data, one *)
(* more block when they are not aligned, the inode, the indirect block and *)
(* the bitmap block.                                                       *)
FileWriteBlocks == ((LOGSIZE - 1 - 1 - 2) \div 2) + 1 + 3

-----------------------------------------------------------------------------
(* Properties *)

(* Operations of at most OpBlocks blocks never make log_write panic with   *)
(* "too big a transaction", also when they log a block that is in the log  *)
(* already, nor end_op with "log.committing".                              *)
NoPanic == ~panicked

(* What begin_op reserves suffices, although log_write checks the size     *)
(* before it takes log.lock and several processes may pass the check with  *)
(* the same n.  While no operation of the transaction has logged more than *)
(* MAXOPBLOCKS blocks the entries fit logheader.block[].  While none has   *)
(* logged that many they also fit the log on disk, which is one block      *)
(* shorter, and nothing panics.                                            *)
ReservationSuffices ==
    /\ peak <= MAXOPBLOCKS => n <= LOGSIZE
    /\ peak < MAXOPBLOCKS => NoPanic /\ n <= NLog - 1

=============================================================================
