-------------------------------- MODULE Buf --------------------------------
(***************************************************************************)
(* The buffer cache (bio.c) on top of the disk driver (ide.c, or memide.c, *)
(* which has no queue).  A section under bcache.lock or idelock is a step; *)
(* a process waits for a buffer's sleep lock by its guard.                 *)
(***************************************************************************)
EXTENDS Integers, Sequences

CONSTANTS
    Procs,
    Blocks,         \* block numbers of the disk
    NBUF,           \* number of buffers
    Values,         \* contents of a block
    NoBlock,        \* a buffer that binit has made and nobody has used
    Nobody          \* the holder of a free sleep lock

Bufs == 1..NBUF

VARIABLES
    driver,         \* "ide" or "memide", fixed when the kernel is linked
    lru,            \* the place of a buffer in the list from head.next on
    buf,            \* [block, valid, dirty, refcnt, lock, data] of a buffer
    idequeue,       \* requests, the first of which the disk works on
    disk,           \* contents of the disk
    pc, b,          \* where a process is, and its local variable b
    panicked,       \* bget: no buffers
    last,           \* history: what the holder of a block's lock wrote last
    damaged         \* history: buffers marked valid although a read failed

vars == <<driver, lru, buf, idequeue, disk, pc, b, panicked, last, damaged>>

Goto(p, l) == pc' = [pc EXCEPT ![p] = l]

-----------------------------------------------------------------------------
(* bget *)

Cached(k) == {i \in Bufs : buf[i].block = k}

(* Mutant: a pinned buffer is taken. *)
Recyclable_Pinned == {i \in Bufs : buf[i].refcnt = 0}

Recyclable == {i \in Bufs : buf[i].refcnt = 0 /\ ~buf[i].dirty}

BgetHit(p, k) ==
    /\ ~panicked /\ pc[p] = "idle"
    /\ \E i \in Cached(k) :
        /\ buf' = [buf EXCEPT ![i].refcnt = @ + 1]
        /\ b' = [b EXCEPT ![p] = i]
    /\ Goto(p, "lock")
    /\ UNCHANGED <<driver, lru, idequeue, disk, panicked, last, damaged>>

BgetRecycle(p, k) ==
    /\ ~panicked /\ pc[p] = "idle" /\ Cached(k) = {}
    /\ \E i \in Recyclable :
        /\ \A j \in Recyclable : lru[j] <= lru[i]
        /\ buf' = [buf EXCEPT ![i] = [@ EXCEPT !.block = k, !.valid = FALSE, !.dirty = FALSE,
                                               !.refcnt = 1]]
        /\ b' = [b EXCEPT ![p] = i]
        /\ damaged' = damaged \ {i}
    /\ Goto(p, "lock")
    /\ UNCHANGED <<driver, lru, idequeue, disk, panicked, last>>

BgetPanic(p, k) ==
    /\ ~panicked /\ pc[p] = "idle" /\ Cached(k) = {} /\ Recyclable = {}
    /\ panicked' = TRUE
    /\ UNCHANGED <<driver, lru, buf, idequeue, disk, pc, b, last, damaged>>

(* acquiresleep, and the test of bread *)
Lock(p) ==
    /\ ~panicked /\ pc[p] = "lock" /\ buf[b[p]].lock = Nobody
    /\ buf' = [buf EXCEPT ![b[p]].lock = p]
    /\ Goto(p, IF buf[b[p]].valid THEN "held" ELSE "iderw")
    /\ UNCHANGED <<driver, lru, idequeue, disk, b, panicked, last, damaged>>

-----------------------------------------------------------------------------
(* What the holder of a buffer does with it *)

(* bwrite of new contents *)
Bwrite(p, v) ==
    /\ ~panicked /\ pc[p] = "held"
    /\ buf' = [buf EXCEPT ![b[p]].data = v, ![b[p]].dirty = TRUE]
    /\ last' = [last EXCEPT ![buf[b[p]].block] = v]
    /\ damaged' = damaged \ {b[p]}
    /\ Goto(p, "iderw")
    /\ UNCHANGED <<driver, lru, idequeue, disk, b, panicked>>

(* log_write of new contents: B_DIRTY keeps the buffer until a later bwrite *)
LogWrite(p, v) ==
    /\ ~panicked /\ pc[p] = "held"
    /\ buf' = [buf EXCEPT ![b[p]].data = v, ![b[p]].dirty = TRUE]
    /\ last' = [last EXCEPT ![buf[b[p]].block] = v]
    /\ damaged' = damaged \ {b[p]}
    /\ UNCHANGED <<driver, lru, idequeue, disk, pc, b, panicked>>

ToFront(i) ==
    [j \in Bufs |-> IF j = i THEN 1 ELSE IF lru[j] < lru[i] THEN lru[j] + 1 ELSE lru[j]]

(* brelse: the sleep lock is released first, ... *)
Unlock(p) ==
    /\ ~panicked /\ pc[p] = "held"
    /\ buf' = [buf EXCEPT ![b[p]].lock = Nobody]
    /\ Goto(p, "unref")
    /\ UNCHANGED <<driver, lru, idequeue, disk, b, panicked, last, damaged>>

(* ... the reference is dropped under bcache.lock. *)
Unref(p) ==
    /\ ~panicked /\ pc[p] = "unref"
    /\ buf' = [buf EXCEPT ![b[p]].refcnt = @ - 1]
    /\ lru' = IF buf[b[p]].refcnt = 1 THEN ToFront(b[p]) ELSE lru
    /\ Goto(p, "idle")
    /\ UNCHANGED <<driver, idequeue, disk, b, panicked, last, damaged>>

-----------------------------------------------------------------------------
(* iderw and ideintr.  The disk takes the contents of a block to write from *)
(* the buffer at idestart; its holder sleeps until the request is done, so  *)
(* they are the same at the interrupt.                                      *)

Iderw(p) ==
    /\ ~panicked /\ driver = "ide" /\ pc[p] = "iderw"
    /\ idequeue' = Append(idequeue, b[p])
    /\ Goto(p, "sleep")
    /\ UNCHANGED <<driver, lru, buf, disk, b, panicked, last, damaged>>

(* The contents of a buffer after a transfer, which failed if ok is false *)
Transferred(i, ok) == IF buf[i].dirty \/ ~ok THEN buf[i].data ELSE disk[buf[i].block]

Sleepers(i) == {p \in Procs : pc[p] = "sleep" /\ b[p] = i}

(* Mutant: the flags are set and nobody is woken. *)
Ideintr_NoWakeup(ok) ==
    /\ ~panicked /\ idequeue # <<>>
    /\ buf' = [buf EXCEPT ![Head(idequeue)].valid = TRUE, ![Head(idequeue)].dirty = FALSE]
    /\ idequeue' = Tail(idequeue)
    /\ UNCHANGED <<driver, lru, disk, pc, b, panicked, last, damaged>>

(* The disk has finished, or failed to read (ok is false): the buffer is   *)
(* marked valid in either case.                                            *)
Ideintr(ok) ==
    /\ ~panicked /\ idequeue # <<>>
    /\ LET i == Head(idequeue)
           k == buf[i].block
       IN  /\ ~ok => ~buf[i].dirty
           /\ buf' = [buf EXCEPT ![i] = [@ EXCEPT !.valid = TRUE, !.dirty = FALSE,
                                                  !.data = Transferred(i, ok)]]
           /\ disk' = IF buf[i].dirty THEN [disk EXCEPT ![k] = buf[i].data] ELSE disk
           /\ damaged' = IF ok THEN damaged ELSE damaged \cup {i}
           /\ pc' = [p \in Procs |-> IF p \in Sleepers(i) THEN "held" ELSE pc[p]]
    /\ idequeue' = Tail(idequeue)
    /\ UNCHANGED <<driver, lru, b, panicked, last>>

(* iderw of memide.c *)
IderwMem(p) ==
    /\ ~panicked /\ driver = "memide" /\ pc[p] = "iderw"
    /\ LET i == b[p]
           k == buf[i].block
       IN  /\ disk' = IF buf[i].dirty THEN [disk EXCEPT ![k] = buf[i].data] ELSE disk
           /\ buf' = [buf EXCEPT ![i] = [@ EXCEPT !.valid = TRUE, !.dirty = FALSE,
                                                  !.data = Transferred(i, TRUE)]]
    /\ Goto(p, "held")
    /\ UNCHANGED <<driver, lru, idequeue, b, panicked, last, damaged>>

-----------------------------------------------------------------------------
(* binit; any contents of the disk *)
Init ==
    /\ driver \in {"ide", "memide"}
    /\ lru = [i \in Bufs |-> NBUF + 1 - i]
    /\ \E v \in Values :
        buf = [i \in Bufs |-> [block |-> NoBlock, valid |-> FALSE, dirty |-> FALSE,
                               refcnt |-> 0, lock |-> Nobody, data |-> v]]
    /\ idequeue = <<>>
    /\ disk \in [Blocks -> Values]
    /\ pc = [p \in Procs |-> "idle"]
    /\ b = [p \in Procs |-> 1]
    /\ panicked = FALSE
    /\ last = disk
    /\ damaged = {}

Next == \/ \E p \in Procs :
            \/ \E k \in Blocks : BgetHit(p, k) \/ BgetRecycle(p, k) \/ BgetPanic(p, k)
            \/ \E v \in Values : Bwrite(p, v) \/ LogWrite(p, v)
            \/ Lock(p) \/ Unlock(p) \/ Unref(p) \/ Iderw(p) \/ IderwMem(p)
        \/ \E ok \in BOOLEAN : Ideintr(ok)

Spec == Init /\ [][Next]_vars

-----------------------------------------------------------------------------
(* Properties *)

(* "Only one process at a time can use a buffer" and one buffer is all that *)
(* the cache has of a block (bio.c:1-17): no block is in two buffers, and a *)
(* process that bread has returned a buffer to holds its lock and finds in  *)
(* it what was last written to the block, by whatever process and however   *)
(* often the buffer was recycled since.  A read that failed is excepted.    *)
(* iderw never finds "nothing to do" (ide.c:146).                           *)
ReadsSeeLastWrite ==
    /\ \A k \in Blocks : \A i, j \in Cached(k) : i = j
    /\ \A p \in Procs : pc[p] = "held" =>
        /\ buf[b[p]].lock = p
        /\ b[p] \notin damaged => buf[b[p]].data = last[buf[b[p]].block]
    /\ \A p \in Procs : pc[p] = "iderw" => buf[b[p]].dirty \/ ~buf[b[p]].valid

(* A process that sleeps in iderw has its buffer, once, in the queue of the *)
(* driver (ide.c:153-164), and the queue holds nothing else: ideintr works  *)
(* off the queue and wakes them all.                                        *)
SleepersAreQueued ==
    /\ \A i, j \in 1..Len(idequeue) : idequeue[i] = idequeue[j] => i = j
    /\ \A i \in Bufs : Sleepers(i) # {} <=> \E j \in 1..Len(idequeue) : idequeue[j] = i
    /\ \A p, q \in Procs : pc[p] = "sleep" /\ pc[q] = "sleep" /\ b[p] = b[q] => p = q

=============================================================================
