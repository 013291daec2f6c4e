------------------------------ MODULE BufProofs -----------------------------
(***************************************************************************)
(* The buffer cache is correct for any number of processes, blocks and     *)
(* buffers: ReadsSeeLastWrite and SleepersAreQueued are invariants of Buf. *)
(*                                                                         *)
(* What carries them is that the disk is behind what was written last for  *)
(* those blocks only that a dirty buffer holds, that refcnt counts the     *)
(* processes between bget and the end of brelse, so that bget recycles no  *)
(* buffer somebody has, and that a queued buffer is locked by its sleeper. *)
(***************************************************************************)
EXTENDS Buf, FiniteSetTheorems, TLAPS

(* The constants are what their names say. *)
Constants ==
    /\ IsFiniteSet(Procs) /\ NBUF \in Nat \ {0}
    /\ Nobody \notin Procs /\ NoBlock \notin Blocks

Labels == {"idle", "lock", "held", "iderw", "sleep", "unref"}

BufType ==
    [block : Blocks \cup {NoBlock}, valid : BOOLEAN, dirty : BOOLEAN,
     refcnt : Nat, lock : Procs \cup {Nobody}, data : Values]

TypeOK ==
    /\ lru \in [Bufs -> Int] /\ buf \in [Bufs -> BufType]
    /\ idequeue \in Seq(Bufs) /\ disk \in [Blocks -> Values]
    /\ pc \in [Procs -> Labels] /\ b \in [Procs -> Bufs]
    /\ last \in [Blocks -> Values] /\ damaged \in SUBSET Bufs

Users(i) == {p \in Procs : pc[p] # "idle" /\ b[p] = i}

Holding == {"held", "iderw", "sleep"}

(* References and sleep locks belong to processes inside the cache.  *)
UsersInv ==
    /\ \A i \in Bufs : buf[i].refcnt = Cardinality(Users(i))
    /\ \A p \in Procs : pc[p] # "idle" => buf[b[p]].block \in Blocks
    /\ \A p \in Procs, i \in Bufs :
         buf[i].lock = p <=> pc[p] \in Holding /\ b[p] = i

(* What buffers hold.  *)
DataInv ==
    /\ \A i, j \in Bufs : buf[i].block = buf[j].block /\ buf[i].block \in Blocks => i = j
    /\ \A i \in Bufs : buf[i].valid => buf[i].block \in Blocks
    /\ \A i \in Bufs : buf[i].dirty => buf[i].valid /\ i \notin damaged
    /\ \A i \in Bufs : buf[i].valid /\ i \notin damaged => buf[i].data = last[buf[i].block]
    /\ \A k \in Blocks : disk[k] = last[k] \/ \E i \in Cached(k) : buf[i].dirty
    /\ \A p \in Procs : pc[p] = "held" => buf[b[p]].valid
    /\ \A p \in Procs : pc[p] = "iderw" => buf[b[p]].dirty \/ ~buf[b[p]].valid

IInv == TypeOK /\ UsersInv /\ DataInv /\ SleepersAreQueued

(* What the operations assign to a buffer is of its type.  *)
LEMMA BufAssigned ==
    ASSUME NEW f \in [Bufs -> BufType], NEW i \in Bufs
    PROVE  /\ [f EXCEPT ![i].refcnt = @ + 1] \in [Bufs -> BufType]
           /\ \A c \in Nat : [f EXCEPT ![i].refcnt = c] \in [Bufs -> BufType]
           /\ \A k \in Blocks :
                [f EXCEPT ![i] = [@ EXCEPT !.block = k, !.valid = FALSE, !.dirty = FALSE,
                                           !.refcnt = 1]] \in [Bufs -> BufType]
           /\ \A p \in Procs \cup {Nobody} : [f EXCEPT ![i].lock = p] \in [Bufs -> BufType]
           /\ \A v \in Values :
                /\ [f EXCEPT ![i].data = v, ![i].dirty = TRUE] \in [Bufs -> BufType]
                /\ [f EXCEPT ![i] = [@ EXCEPT !.valid = TRUE, !.dirty = FALSE, !.data = v]]
                      \in [Bufs -> BufType]
  <1> USE DEF BufType
  <1>1. [f EXCEPT ![i].refcnt = @ + 1] \in [Bufs -> BufType]
    OBVIOUS
  <1>2. \A c \in Nat : [f EXCEPT ![i].refcnt = c] \in [Bufs -> BufType]
    OBVIOUS
  <1>3. ASSUME NEW k \in Blocks
        PROVE  [f EXCEPT ![i] = [@ EXCEPT !.block = k, !.valid = FALSE, !.dirty = FALSE,
                                          !.refcnt = 1]] \in [Bufs -> BufType]
    <2>1. [f[i] EXCEPT !.block = k, !.valid = FALSE, !.dirty = FALSE, !.refcnt = 1] \in BufType
      BY Zenon
    <2> QED
      BY <2>1
  <1>4. \A p \in Procs \cup {Nobody} : [f EXCEPT ![i].lock = p] \in [Bufs -> BufType]
    OBVIOUS
  <1>5. ASSUME NEW v \in Values
        PROVE  [f EXCEPT ![i].data = v, ![i].dirty = TRUE] \in [Bufs -> BufType]
    BY ZenonT(30)
  <1>6. ASSUME NEW v \in Values
        PROVE  [f EXCEPT ![i] = [@ EXCEPT !.valid = TRUE, !.dirty = FALSE, !.data = v]]
                 \in [Bufs -> BufType]
    <2>1. [f[i] EXCEPT !.valid = TRUE, !.dirty = FALSE, !.data = v] \in BufType
      BY Zenon
    <2> QED
      BY <2>1
  <1> QED
    BY <1>1, <1>2, <1>3, <1>4, <1>5, <1>6, Zenon DEF BufType

(* A reference is counted when a process enters the cache, ...  *)
LEMMA UserAdded ==
    ASSUME Constants, TypeOK, NEW p \in Procs, NEW i \in Bufs, NEW l \in Labels,
           pc[p] = "idle", l # "idle",
           pc' = [pc EXCEPT ![p] = l], b' = [b EXCEPT ![p] = i]
    PROVE  /\ Cardinality(Users(i)') = Cardinality(Users(i)) + 1
           /\ \A j \in Bufs \ {i} : Users(j)' = Users(j)
  <1>1. IsFiniteSet(Users(i))
    BY FS_Subset DEF Constants, Users
  <1>2. Users(i)' = Users(i) \cup {p} /\ p \notin Users(i)
    BY DEF TypeOK, Users
  <1>3. \A j \in Bufs \ {i} : Users(j)' = Users(j)
    BY DEF TypeOK, Users
  <1> QED
    BY <1>1, <1>2, <1>3, FS_AddElement, ZenonT(30)

(* ... and given up when it leaves.  *)
LEMMA UserRemoved ==
    ASSUME Constants, TypeOK, NEW p \in Procs,
           pc[p] # "idle", pc' = [pc EXCEPT ![p] = "idle"], b' = b
    PROVE  /\ Cardinality(Users(b[p])') = Cardinality(Users(b[p])) - 1
           /\ Cardinality(Users(b[p])') \in Nat
           /\ \A j \in Bufs \ {b[p]} : Users(j)' = Users(j)
  <1>1. IsFiniteSet(Users(b[p]))
    BY FS_Subset DEF Constants, Users
  <1>2. Users(b[p])' = Users(b[p]) \ {p} /\ p \in Users(b[p])
    BY DEF TypeOK, Users
  <1>3. \A j \in Bufs \ {b[p]} : Users(j)' = Users(j)
    BY DEF TypeOK, Users
  <1> QED
    BY <1>1, <1>2, <1>3, FS_RemoveElement, FS_CardinalityType

(* A buffer without references has no users.  *)
LEMMA NoUsers ==
    ASSUME Constants, UsersInv, NEW i \in Bufs, buf[i].refcnt = 0
    PROVE  \A p \in Procs : pc[p] # "idle" => b[p] # i
  <1>1. IsFiniteSet(Users(i))
    BY FS_Subset DEF Constants, Users
  <1>2. Users(i) = {}
    BY <1>1, FS_EmptySet DEF UsersInv
  <1> QED
    BY <1>2 DEF Users

(* Processes that stay inside keep the counts as they are.  *)
LEMMA UsersKept ==
    ASSUME \A p \in Procs : pc'[p] = "idle" <=> pc[p] = "idle", b' = b
    PROVE  \A i \in Bufs : Users(i)' = Users(i)
  BY DEF Users

(* Steps that put nobody to sleep and wake nobody keep the queue right.  *)
LEMMA QueueKept ==
    ASSUME SleepersAreQueued, idequeue' = idequeue,
           \A q \in Procs : pc'[q] = "sleep" <=> pc[q] = "sleep",
           \A q \in Procs : pc[q] = "sleep" => b'[q] = b[q]
    PROVE  SleepersAreQueued'
  <1>1. \A i \in Bufs : Sleepers(i)' = Sleepers(i)
    BY DEF Sleepers
  <1> QED
    BY <1>1 DEF SleepersAreQueued

(* bget finds the block in a buffer.  *)
LEMMA HitKeeps ==
    ASSUME Constants, IInv, NEW p \in Procs, NEW k \in Blocks, BgetHit(p, k)
    PROVE  IInv'
  <1> USE DEF IInv
  <1>1. PICK i \in Cached(k) : /\ buf' = [buf EXCEPT ![i].refcnt = @ + 1]
                               /\ b' = [b EXCEPT ![p] = i]
    BY ZenonT(30) DEF BgetHit
  <1>2. /\ i \in Bufs /\ buf[i].block = k /\ pc[p] = "idle"
        /\ pc' = [pc EXCEPT ![p] = "lock"]
        /\ UNCHANGED <<lru, idequeue, disk, last, damaged>>
    BY DEF BgetHit, Cached, Goto
  <1>3. TypeOK'
    <2>1. buf' \in [Bufs -> BufType]
      BY <1>1, <1>2, BufAssigned, Zenon DEF TypeOK
    <2>2. pc' \in [Procs -> Labels] /\ b' \in [Procs -> Bufs]
      BY <1>1, <1>2 DEF TypeOK, Labels
    <2> QED
      BY <1>1, <1>2, <2>1, <2>2 DEF TypeOK
  <1>4. UsersInv'
    <2>1. Cardinality(Users(i)') = Cardinality(Users(i)) + 1 /\ \A j \in Bufs \ {i} : Users(j)' = Users(j)
      BY <1>1, <1>2, UserAdded, Zenon DEF Labels
    <2> QED
      BY <1>1, <1>2, <2>1 DEF TypeOK, BufType, UsersInv, Holding
  <1>5. DataInv'
    BY <1>1, <1>2 DEF TypeOK, BufType, DataInv, Cached
  <1>6. SleepersAreQueued'
    BY <1>1, <1>2, QueueKept DEF TypeOK
  <1> QED
    BY <1>3, <1>4, <1>5, <1>6

(* bget recycles a buffer that nobody has.  *)
LEMMA RecycleKeeps ==
    ASSUME Constants, IInv, NEW p \in Procs, NEW k \in Blocks, BgetRecycle(p, k)
    PROVE  IInv'
  <1> USE DEF IInv
  <1>1. PICK i \in Recyclable :
           /\ buf' = [buf EXCEPT ![i] = [@ EXCEPT !.block = k, !.valid = FALSE,
                                                  !.dirty = FALSE, !.refcnt = 1]]
           /\ b' = [b EXCEPT ![p] = i] /\ damaged' = damaged \ {i}
    BY Zenon DEF BgetRecycle
  <1>2. /\ i \in Bufs /\ buf[i].refcnt = 0 /\ ~buf[i].dirty
        /\ pc[p] = "idle" /\ Cached(k) = {}
        /\ pc' = [pc EXCEPT ![p] = "lock"]
        /\ UNCHANGED <<lru, idequeue, disk, last>>
    BY DEF BgetRecycle, Recyclable, Goto
  <1>3. \A q \in Procs : pc[q] # "idle" => b[q] # i
    BY <1>2, NoUsers
  <1>4. TypeOK'
    <2>1. buf' \in [Bufs -> BufType]
      BY <1>1, <1>2, BufAssigned, Zenon DEF TypeOK
    <2>2. pc' \in [Procs -> Labels] /\ b' \in [Procs -> Bufs]
      BY <1>1, <1>2 DEF TypeOK, Labels
    <2> QED
      BY <1>1, <1>2, <2>1, <2>2, SMTT(30) DEF TypeOK
  <1>5. UsersInv'
    <2>1. Cardinality(Users(i)') = Cardinality(Users(i)) + 1 /\ \A j \in Bufs \ {i} : Users(j)' = Users(j)
      BY <1>1, <1>2, UserAdded, Zenon DEF Labels
    <2>2. Cardinality(Users(i)) = 0
      BY <1>2 DEF UsersInv
    <2> QED
      BY <1>1, <1>2, <1>3, <2>1, <2>2 DEF TypeOK, BufType, UsersInv, Holding
  <1>6. DataInv'
    <2>1. \A j \in Bufs : j # i => buf'[j] = buf[j]
      BY <1>1 DEF TypeOK
    <2>2. buf'[i].block = k /\ ~buf'[i].valid /\ ~buf'[i].dirty
      BY <1>1, <1>2 DEF TypeOK, BufType
    <2> QED
      BY <1>1, <1>2, <1>3, <2>1, <2>2 DEF Constants, TypeOK, DataInv, Cached
  <1>7. SleepersAreQueued'
    BY <1>1, <1>2, QueueKept DEF TypeOK
  <1> QED
    BY <1>4, <1>5, <1>6, <1>7

(* acquiresleep in bread.  *)
LEMMA LockKeeps ==
    ASSUME Constants, IInv, NEW p \in Procs, Lock(p)
    PROVE  IInv'
  <1> DEFINE i == b[p]
             l == IF buf[i].valid THEN "held" ELSE "iderw"
  <1>1. /\ i \in Bufs /\ pc[p] = "lock" /\ buf[i].lock = Nobody
        /\ buf' = [buf EXCEPT ![i].lock = p] /\ pc' = [pc EXCEPT ![p] = l]
        /\ UNCHANGED <<lru, idequeue, disk, b, last, damaged>>
    BY DEF Lock, Goto, IInv, TypeOK
  <1>2. TypeOK'
    <2>1. buf' \in [Bufs -> BufType]
      BY <1>1, BufAssigned, Zenon DEF IInv, TypeOK
    <2>2. pc' \in [Procs -> Labels]
      BY <1>1 DEF IInv, TypeOK, Labels
    <2> QED
      BY <1>1, <2>1, <2>2, SMTT(30) DEF IInv, TypeOK
  <1>3. /\ buf'[i].lock = p /\ \A j \in Bufs \ {i} : buf'[j].lock = buf[j].lock
        /\ \A j \in Bufs : /\ buf'[j].block = buf[j].block /\ buf'[j].valid = buf[j].valid
                            /\ buf'[j].dirty = buf[j].dirty /\ buf'[j].data = buf[j].data
                            /\ buf'[j].refcnt = buf[j].refcnt
    BY <1>1 DEF IInv, TypeOK, BufType
  <1>4. UsersInv'
    <2>1. \A j \in Bufs : Users(j)' = Users(j)
      BY <1>1, UsersKept DEF IInv, TypeOK
    <2> QED
      BY <1>1, <1>3, <2>1 DEF Constants, IInv, TypeOK, UsersInv, Holding
  <1>5. DataInv'
    BY <1>1, <1>3 DEF IInv, TypeOK, DataInv, Cached
  <1>6. SleepersAreQueued'
    BY <1>1, QueueKept DEF IInv, TypeOK
  <1> QED
    BY <1>2, <1>4, <1>5, <1>6 DEF IInv

(* bwrite and log_write by the holder of the lock.  *)
LEMMA WriteKeeps ==
    ASSUME Constants, IInv, NEW p \in Procs, NEW v \in Values,
           Bwrite(p, v) \/ LogWrite(p, v)
    PROVE  IInv'
  <1> DEFINE i == b[p]
  <1>1. /\ i \in Bufs /\ pc[p] = "held"
        /\ buf' = [buf EXCEPT ![i].data = v, ![i].dirty = TRUE]
        /\ last' = [last EXCEPT ![buf[i].block] = v] /\ damaged' = damaged \ {i}
        /\ pc' = [pc EXCEPT ![p] = "iderw"] \/ pc' = pc
        /\ UNCHANGED <<lru, idequeue, disk, b>>
    BY Zenon DEF Bwrite, LogWrite, Goto, IInv, TypeOK
  <1>2. TypeOK'
    <2>1. buf' \in [Bufs -> BufType]
      BY <1>1, BufAssigned, Zenon DEF IInv, TypeOK
    <2>2. pc' \in [Procs -> Labels]
      BY <1>1, Zenon DEF IInv, TypeOK, Labels
    <2> QED
      BY <1>1, <2>1, <2>2, ZenonT(30) DEF IInv, TypeOK
  <1>3. /\ buf'[i].data = v /\ buf'[i].dirty /\ buf'[i].valid = buf[i].valid
        /\ \A j \in Bufs \ {i} : buf'[j] = buf[j]
        /\ \A j \in Bufs : /\ buf'[j].block = buf[j].block /\ buf'[j].lock = buf[j].lock
                            /\ buf'[j].refcnt = buf[j].refcnt
    BY <1>1 DEF IInv, TypeOK, BufType
  <1>4. UsersInv'
    <2>1. \A j \in Bufs : Users(j)' = Users(j)
      BY <1>1, UsersKept DEF IInv, TypeOK
    <2> QED
      BY <1>1, <1>3, <2>1 DEF IInv, TypeOK, UsersInv, Holding
  <1>5. DataInv'
    <2>1. buf[i].block \in Blocks /\ buf[i].valid
      BY <1>1 DEF IInv, UsersInv, DataInv
    <2>2. \A q \in Procs : pc[q] \in {"held", "iderw"} /\ b[q] = i => q = p
      BY <1>1 DEF IInv, UsersInv, Holding
    <2>3. last'[buf[i].block] = v /\ \A k \in Blocks \ {buf[i].block} : last'[k] = last[k]
      BY <1>1, <2>1 DEF IInv, TypeOK
    <2>4. \A j \in Bufs \ {i} : buf[j].block # buf[i].block
      BY <1>1, <2>1 DEF IInv, DataInv
    <2>5. ASSUME NEW j \in Bufs, buf'[j].valid, j \notin damaged'
          PROVE  buf'[j].data = last'[buf'[j].block]
      <3>1. CASE j = i
        BY <3>1, <1>3, <2>3
      <3>2. CASE j # i
        <4>1. buf'[j] = buf[j] /\ buf[j].valid /\ j \notin damaged
          BY <3>2, <2>5, <1>1, <1>3, Zenon
        <4>2. buf[j].block \in Blocks /\ buf[j].data = last[buf[j].block]
          BY <4>1 DEF IInv, DataInv
        <4> QED
          BY <3>2, <4>1, <4>2, <2>3, <2>4, SMTT(30)
      <3> QED
        BY <3>1, <3>2
    <2>6. ASSUME NEW k \in Blocks
          PROVE  disk'[k] = last'[k] \/ \E j \in Cached(k)' : buf'[j].dirty
      <3>1. CASE k = buf[i].block
        BY <3>1, <1>1, <1>3, Zenon DEF Cached
      <3>2. CASE k # buf[i].block
        <4>1. disk'[k] = disk[k] /\ last'[k] = last[k]
          BY <3>2, <1>1, <2>3
        <4>2. ASSUME NEW j \in Cached(k), buf[j].dirty  PROVE j \in Cached(k)' /\ buf'[j].dirty
          BY <4>2, <3>2, <1>3 DEF Cached
        <4> QED
          BY <4>1, <4>2 DEF IInv, DataInv
      <3> QED
        BY <3>1, <3>2
    <2>7. \A q \in Procs : /\ pc'[q] = "held" => buf'[b'[q]].valid
                           /\ pc'[q] = "iderw" => buf'[b'[q]].dirty \/ ~buf'[b'[q]].valid
      BY <1>1, <1>3, <2>1, <2>2 DEF IInv, TypeOK, DataInv
    <2>8. \A j \in Bufs : /\ buf'[j].valid => buf'[j].block \in Blocks
                          /\ buf'[j].dirty => buf'[j].valid /\ j \notin damaged'
      <3>1. /\ buf'[i].valid => buf'[i].block \in Blocks
            /\ buf'[i].dirty => buf'[i].valid /\ i \notin damaged'
        BY <1>1, <1>3, <2>1, Zenon
      <3>2. ASSUME NEW j \in Bufs, j # i
            PROVE  /\ buf'[j].valid => buf'[j].block \in Blocks
                   /\ buf'[j].dirty => buf'[j].valid /\ j \notin damaged'
        <4>1. buf'[j] = buf[j] /\ (j \in damaged' <=> j \in damaged)
          BY <3>2, <1>1, <1>3, Zenon
        <4> QED
          BY <4>1 DEF IInv, DataInv
      <3> QED
        BY <3>1, <3>2
    <2>9. \A j, k \in Bufs : buf'[j].block = buf'[k].block /\ buf'[j].block \in Blocks => j = k
      BY <1>3 DEF IInv, DataInv
    <2> QED
      BY <2>5, <2>6, <2>7, <2>8, <2>9 DEF DataInv
  <1>6. SleepersAreQueued'
    BY <1>1, QueueKept DEF IInv, TypeOK
  <1> QED
    BY <1>2, <1>4, <1>5, <1>6 DEF IInv

(* brelse releases the lock, ...  *)
LEMMA UnlockKeeps ==
    ASSUME Constants, IInv, NEW p \in Procs, Unlock(p)
    PROVE  IInv'
  <1> DEFINE i == b[p]
  <1>1. /\ i \in Bufs /\ pc[p] = "held"
        /\ buf' = [buf EXCEPT ![i].lock = Nobody] /\ pc' = [pc EXCEPT ![p] = "unref"]
        /\ UNCHANGED <<lru, idequeue, disk, b, last, damaged>>
    BY DEF Unlock, Goto, IInv, TypeOK
  <1>2. TypeOK'
    <2>1. buf' \in [Bufs -> BufType]
      BY <1>1, BufAssigned, Zenon DEF IInv, TypeOK
    <2>2. pc' \in [Procs -> Labels]
      BY <1>1 DEF IInv, TypeOK, Labels
    <2> QED
      BY <1>1, <2>1, <2>2, SMTT(30) DEF IInv, TypeOK
  <1>3. /\ buf'[i].lock = Nobody /\ \A j \in Bufs \ {i} : buf'[j].lock = buf[j].lock
        /\ \A j \in Bufs : /\ buf'[j].block = buf[j].block /\ buf'[j].valid = buf[j].valid
                            /\ buf'[j].dirty = buf[j].dirty /\ buf'[j].data = buf[j].data
                            /\ buf'[j].refcnt = buf[j].refcnt
    BY <1>1 DEF IInv, TypeOK, BufType
  <1>4. UsersInv'
    <2>1. \A j \in Bufs : Users(j)' = Users(j)
      BY <1>1, UsersKept DEF IInv, TypeOK
    <2> QED
      BY <1>1, <1>3, <2>1 DEF Constants, IInv, TypeOK, UsersInv, Holding
  <1>5. DataInv'
    BY <1>1, <1>3 DEF IInv, TypeOK, DataInv, Cached
  <1>6. SleepersAreQueued'
    BY <1>1, QueueKept DEF IInv, TypeOK
  <1> QED
    BY <1>2, <1>4, <1>5, <1>6 DEF IInv

(* ... and then the reference.  *)
LEMMA UnrefKeeps ==
    ASSUME Constants, IInv, NEW p \in Procs, Unref(p)
    PROVE  IInv'
  <1> DEFINE i == b[p]
             c == Cardinality(Users(i)')
  <1>1. /\ i \in Bufs /\ pc[p] = "unref"
        /\ buf' = [buf EXCEPT ![i].refcnt = @ - 1] /\ pc' = [pc EXCEPT ![p] = "idle"]
        /\ lru' = ToFront(i) \/ lru' = lru
        /\ UNCHANGED <<idequeue, disk, b, last, damaged>>
    BY DEF Unref, Goto, IInv, TypeOK
  <1>2. /\ c \in Nat /\ buf[i].refcnt - 1 = c
        /\ \A j \in Bufs \ {i} : Users(j)' = Users(j)
    BY <1>1, UserRemoved, Zenon DEF IInv, UsersInv
  <1>3. TypeOK'
    <2>1. buf' = [buf EXCEPT ![i].refcnt = c]
      BY <1>1, <1>2, Zenon
    <2>2. buf' \in [Bufs -> BufType]
      <3>1. \A x \in Nat : [buf EXCEPT ![i].refcnt = x] \in [Bufs -> BufType]
        BY <1>1, BufAssigned, Zenon DEF IInv, TypeOK
      <3> HIDE DEF c
      <3> QED
        BY <1>2, <2>1, <3>1
    <2>3. pc' \in [Procs -> Labels]
      BY <1>1 DEF IInv, TypeOK, Labels
    <2>4. lru' \in [Bufs -> Int]
      <3>1. CASE lru' = lru
        BY <3>1 DEF IInv, TypeOK
      <3>2. ToFront(i) \in [Bufs -> Int]
        BY <1>1 DEF ToFront, IInv, TypeOK
      <3> QED
        BY <1>1, <3>1, <3>2
    <2> QED
      BY <1>1, <2>2, <2>3, <2>4 DEF IInv, TypeOK
  <1>4. /\ buf'[i].refcnt = c /\ \A j \in Bufs \ {i} : buf'[j].refcnt = buf[j].refcnt
        /\ \A j \in Bufs : /\ buf'[j].block = buf[j].block /\ buf'[j].valid = buf[j].valid
                            /\ buf'[j].dirty = buf[j].dirty /\ buf'[j].data = buf[j].data
                            /\ buf'[j].lock = buf[j].lock
    BY <1>1, <1>2 DEF IInv, TypeOK, BufType
  <1>5. UsersInv'
    BY <1>1, <1>2, <1>4 DEF IInv, TypeOK, UsersInv, Holding
  <1>6. DataInv'
    BY <1>1, <1>4 DEF IInv, TypeOK, DataInv, Cached
  <1>7. SleepersAreQueued'
    BY <1>1, QueueKept DEF IInv, TypeOK
  <1> QED
    BY <1>3, <1>5, <1>6, <1>7 DEF IInv

(* iderw puts the buffer at the end of the queue and its holder to sleep.  *)
LEMMA IderwKeeps ==
    ASSUME Constants, IInv, NEW p \in Procs, Iderw(p)
    PROVE  IInv'
  <1> DEFINE i == b[p]
  <1>1. /\ i \in Bufs /\ pc[p] = "iderw" /\ idequeue \in Seq(Bufs)
        /\ idequeue' = Append(idequeue, i) /\ pc' = [pc EXCEPT ![p] = "sleep"]
        /\ UNCHANGED <<lru, buf, disk, b, last, damaged>>
    BY DEF Iderw, Goto, IInv, TypeOK
  <1>2. TypeOK'
    BY <1>1 DEF IInv, TypeOK, Labels
  <1>3. UsersInv'
    <2>1. \A j \in Bufs : Users(j)' = Users(j)
      BY <1>1, UsersKept DEF IInv, TypeOK
    <2> QED
      BY <1>1, <2>1 DEF IInv, TypeOK, UsersInv, Holding
  <1>4. DataInv'
    BY <1>1 DEF IInv, TypeOK, DataInv, Cached
  <1>5. SleepersAreQueued'
    <2>1. /\ Len(idequeue) \in Nat /\ Len(idequeue') = Len(idequeue) + 1
          /\ idequeue'[Len(idequeue) + 1] = i
          /\ \A j \in 1..Len(idequeue) : idequeue'[j] = idequeue[j]
      BY <1>1
    <2>2. \A q \in Procs : pc[q] = "sleep" => b[q] # i
      BY <1>1 DEF IInv, UsersInv, Holding
    <2>3. \A j \in 1..Len(idequeue) : idequeue[j] # i
      BY <1>1, <2>2, SMTT(30) DEF IInv, SleepersAreQueued, Sleepers
    <2>4. \A j \in Bufs : Sleepers(j)' = IF j = i THEN {p} ELSE Sleepers(j)
      BY <1>1, <2>2 DEF IInv, TypeOK, Sleepers
    <2>5. \A j, k \in 1..Len(idequeue') : idequeue'[j] = idequeue'[k] => j = k
      BY <2>1, <2>3 DEF IInv, SleepersAreQueued
    <2>6. \A j \in Bufs : Sleepers(j)' # {} <=> \E k \in 1..Len(idequeue') : idequeue'[k] = j
      <3>1. ASSUME NEW j \in Bufs, Sleepers(j)' # {}
            PROVE  \E k \in 1..Len(idequeue') : idequeue'[k] = j
        <4>1. CASE j = i
          BY <4>1, <2>1
        <4>2. CASE j # i
          <5>1. PICK k \in 1..Len(idequeue) : idequeue[k] = j
            BY <4>2, <3>1, <2>4 DEF IInv, SleepersAreQueued
          <5> QED
            BY <5>1, <2>1
        <4> QED
          BY <4>1, <4>2
      <3>2. ASSUME NEW j \in Bufs, NEW k \in 1..Len(idequeue'), idequeue'[k] = j
            PROVE  Sleepers(j)' # {}
        <4>1. CASE j = i
          BY <4>1, <2>4
        <4>2. CASE j # i
          <5>1. k \in 1..Len(idequeue) /\ idequeue[k] = j
            BY <4>2, <3>2, <2>1
          <5> QED
            BY <4>2, <5>1, <2>4 DEF IInv, SleepersAreQueued
        <4> QED
          BY <4>1, <4>2
      <3> QED
        BY <3>1, <3>2
    <2>7. \A q, r \in Procs : pc'[q] = "sleep" /\ pc'[r] = "sleep" /\ b'[q] = b'[r] => q = r
      BY <1>1, <2>2 DEF IInv, TypeOK, SleepersAreQueued
    <2> QED
      BY <2>5, <2>6, <2>7 DEF SleepersAreQueued
  <1> QED
    BY <1>2, <1>3, <1>4, <1>5 DEF IInv

(* A transfer between a buffer and the disk, which lets its holder go on.  *)
LEMMA TransferKeeps ==
    ASSUME Constants, IInv, NEW p \in Procs, NEW i \in Bufs, NEW ok \in BOOLEAN,
           b[p] = i, pc[p] \in {"iderw", "sleep"}, ~ok => ~buf[i].dirty,
           buf' = [buf EXCEPT ![i] = [@ EXCEPT !.valid = TRUE, !.dirty = FALSE,
                                               !.data = Transferred(i, ok)]],
           disk' = IF buf[i].dirty THEN [disk EXCEPT ![buf[i].block] = buf[i].data] ELSE disk,
           damaged' = IF ok THEN damaged ELSE damaged \cup {i},
           pc' = [pc EXCEPT ![p] = "held"],
           idequeue' \in Seq(Bufs), UNCHANGED <<lru, b, last>>
    PROVE  TypeOK' /\ UsersInv' /\ DataInv'
  <1> DEFINE k == buf[i].block
             v == Transferred(i, ok)
  <1>1. k \in Blocks /\ buf[i].data \in Values /\ disk[k] \in Values
    BY DEF IInv, UsersInv, TypeOK, BufType
  <1>2. v \in Values
    BY <1>1 DEF Transferred
  <1>3. TypeOK'
    <2>1. buf' \in [Bufs -> BufType]
      BY <1>2, BufAssigned, ZenonT(30) DEF IInv, TypeOK
    <2>2. pc' \in [Procs -> Labels]
      BY DEF IInv, TypeOK, Labels
    <2>3. disk' \in [Blocks -> Values]
      BY <1>1 DEF IInv, TypeOK
    <2> QED
      BY <2>1, <2>2, <2>3, SMTT(30) DEF IInv, TypeOK
  <1>4. /\ buf'[i].valid /\ ~buf'[i].dirty /\ buf'[i].data = v
        /\ \A j \in Bufs \ {i} : buf'[j] = buf[j]
        /\ \A j \in Bufs : /\ buf'[j].block = buf[j].block /\ buf'[j].lock = buf[j].lock
                            /\ buf'[j].refcnt = buf[j].refcnt
    BY <1>2 DEF IInv, TypeOK, BufType
  <1>5. UsersInv'
    <2>1. \A j \in Bufs : Users(j)' = Users(j)
      BY UsersKept DEF IInv, TypeOK
    <2> QED
      BY <1>4, <2>1 DEF IInv, TypeOK, UsersInv, Holding
  <1>6. DataInv'
    <2>1. \A j \in Bufs \ {i} : buf[j].block # k
      BY <1>1 DEF IInv, DataInv
    <2>2. disk'[k] = last[k] /\ \A h \in Blocks \ {k} : disk'[h] = disk[h]
      <3>1. CASE buf[i].dirty
        BY <3>1, <1>1 DEF IInv, DataInv, TypeOK
      <3>2. CASE ~buf[i].dirty
        BY <3>2, <1>1, <2>1 DEF IInv, DataInv, Cached
      <3> QED
        BY <3>1, <3>2
    <2>3. ASSUME i \notin damaged'  PROVE v = last[k]
      <3>1. ok /\ i \notin damaged
        BY <2>3
      <3>2. CASE buf[i].dirty
        BY <3>2 DEF IInv, DataInv, Transferred
      <3>3. CASE ~buf[i].dirty
        BY <3>1, <3>3, <2>2 DEF Transferred
      <3> QED
        BY <3>2, <3>3
    <2>4. \A j \in Bufs \ {i} : j \in damaged' <=> j \in damaged
      OBVIOUS
    <2>5. ASSUME NEW j \in Bufs
          PROVE  /\ buf'[j].valid => buf'[j].block \in Blocks
                 /\ buf'[j].dirty => buf'[j].valid /\ j \notin damaged'
                 /\ buf'[j].valid /\ j \notin damaged' => buf'[j].data = last'[buf'[j].block]
      <3>1. CASE j = i
        BY <3>1, <1>1, <1>4, <2>3
      <3>2. CASE j # i
        BY <3>2, <1>4, <2>4 DEF IInv, DataInv
      <3> QED
        BY <3>1, <3>2
    <2>6. ASSUME NEW h \in Blocks
          PROVE  disk'[h] = last'[h] \/ \E j \in Cached(h)' : buf'[j].dirty
      <3>1. CASE h = k
        BY <3>1, <2>2
      <3>2. CASE h # k
        <4>1. ASSUME NEW j \in Cached(h), buf[j].dirty  PROVE j \in Cached(h)' /\ buf'[j].dirty
          BY <4>1, <3>2, <1>4 DEF Cached
        <4> QED
          BY <3>2, <4>1, <2>2 DEF IInv, DataInv
      <3> QED
        BY <3>1, <3>2
    <2>7. \A q \in Procs : q # p /\ pc[q] \in {"held", "iderw"} => b[q] # i
      BY DEF IInv, UsersInv, Holding
    <2>8. \A q \in Procs : /\ pc'[q] = "held" => buf'[b'[q]].valid
                           /\ pc'[q] = "iderw" => buf'[b'[q]].dirty \/ ~buf'[b'[q]].valid
      BY <1>4, <2>7, SMTT(30) DEF IInv, TypeOK, DataInv
    <2>9. \A j, h \in Bufs : buf'[j].block = buf'[h].block /\ buf'[j].block \in Blocks => j = h
      BY <1>4 DEF IInv, DataInv
    <2> QED
      BY <2>5, <2>6, <2>8, <2>9 DEF DataInv
  <1> QED
    BY <1>3, <1>5, <1>6

(* ideintr finishes the first request and wakes its sleeper.  *)
LEMMA IdeintrKeeps ==
    ASSUME Constants, IInv, NEW ok \in BOOLEAN, Ideintr(ok)
    PROVE  IInv'
  <1> DEFINE i == Head(idequeue)
  <1>1. /\ idequeue \in Seq(Bufs) /\ idequeue # <<>> /\ idequeue' = Tail(idequeue)
        /\ UNCHANGED <<lru, b, last>>
    BY DEF Ideintr, IInv, TypeOK
  <1>2. /\ Len(idequeue) \in Nat /\ Len(idequeue) >= 1 /\ i = idequeue[1] /\ i \in Bufs
        /\ idequeue' \in Seq(Bufs) /\ Len(idequeue') = Len(idequeue) - 1
        /\ \A j \in 1..Len(idequeue') : idequeue'[j] = idequeue[j + 1]
    BY <1>1
  <1>3. PICK p \in Procs : pc[p] = "sleep" /\ b[p] = i
    BY <1>2 DEF IInv, SleepersAreQueued, Sleepers
  <1>4. Sleepers(i) = {p}
    BY <1>3 DEF IInv, SleepersAreQueued, Sleepers
  <1>5. pc' = [pc EXCEPT ![p] = "held"]
    BY <1>4, Zenon DEF Ideintr, IInv, TypeOK
  <1>6. TypeOK' /\ UsersInv' /\ DataInv'
    BY <1>1, <1>2, <1>3, <1>5, TransferKeeps, Zenon DEF Ideintr
  <1>7. SleepersAreQueued'
    <2>1. \A j \in Bufs : Sleepers(j)' = IF j = i THEN {} ELSE Sleepers(j)
      BY <1>1, <1>3, <1>4, <1>5 DEF IInv, TypeOK, Sleepers
    <2>2. \A j \in 1..Len(idequeue') : idequeue'[j] # i
      BY <1>2 DEF IInv, SleepersAreQueued
    <2>3. \A j, k \in 1..Len(idequeue') : idequeue'[j] = idequeue'[k] => j = k
      BY <1>2 DEF IInv, SleepersAreQueued
    <2>4. ASSUME NEW j \in Bufs, Sleepers(j)' # {}
          PROVE  \E k \in 1..Len(idequeue') : idequeue'[k] = j
      <3>1. j # i /\ Sleepers(j) # {}
        BY <2>1, <2>4
      <3>2. PICK k \in 1..Len(idequeue) : idequeue[k] = j
        BY <3>1 DEF IInv, SleepersAreQueued
      <3>3. k - 1 \in 1..Len(idequeue') /\ idequeue'[k - 1] = j
        BY <3>1, <3>2, <1>2
      <3> QED
        BY <3>3
    <2>5. ASSUME NEW j \in Bufs, NEW k \in 1..Len(idequeue'), idequeue'[k] = j
          PROVE  Sleepers(j)' # {}
      <3>1. k + 1 \in 1..Len(idequeue) /\ idequeue[k + 1] = j
        BY <1>2, <2>5
      <3>2. Sleepers(j) # {}
        BY <3>1 DEF IInv, SleepersAreQueued
      <3> QED
        BY <3>2, <2>1, <2>2, <2>5
    <2>6. \A q, r \in Procs : pc'[q] = "sleep" /\ pc'[r] = "sleep" /\ b'[q] = b'[r] => q = r
      BY <1>1, <1>5 DEF IInv, TypeOK, SleepersAreQueued
    <2> QED
      BY <2>3, <2>4, <2>5, <2>6 DEF SleepersAreQueued
  <1> QED
    BY <1>6, <1>7 DEF IInv

(* iderw of the disk in memory.  *)
LEMMA IderwMemKeeps ==
    ASSUME Constants, IInv, NEW p \in Procs, IderwMem(p)
    PROVE  IInv'
  <1>1. /\ b[p] \in Bufs /\ pc[p] = "iderw" /\ pc' = [pc EXCEPT ![p] = "held"]
        /\ idequeue \in Seq(Bufs) /\ UNCHANGED <<lru, idequeue, b, last, damaged>>
    BY SMTT(30) DEF IderwMem, Goto, IInv, TypeOK
  <1>2. TypeOK' /\ UsersInv' /\ DataInv'
    BY <1>1, TransferKeeps, Zenon DEF IderwMem
  <1>3. SleepersAreQueued'
    BY <1>1, QueueKept DEF IInv, TypeOK
  <1> QED
    BY <1>2, <1>3 DEF IInv

(* IInv holds of the cache that binit makes, and every step keeps it.  *)
LEMMA Invariance == Constants /\ Spec => []IInv
  <1> SUFFICES ASSUME Constants PROVE Spec => []IInv
    OBVIOUS
  <1>1. Init => IInv
    <2> SUFFICES ASSUME Init PROVE IInv
      OBVIOUS
    <2>1. PICK v \in Values :
            buf = [i \in Bufs |-> [block |-> NoBlock, valid |-> FALSE, dirty |-> FALSE,
                                   refcnt |-> 0, lock |-> Nobody, data |-> v]]
      BY Zenon DEF Init
    <2>2. TypeOK
      <3>1. buf \in [Bufs -> BufType]
        BY <2>1 DEF Constants, BufType
      <3>2. lru \in [Bufs -> Int] /\ pc \in [Procs -> Labels]
        BY DEF Init, Constants, Bufs, Labels
      <3>3. idequeue \in Seq(Bufs) /\ disk \in [Blocks -> Values] /\ last \in [Blocks -> Values]
        BY DEF Init
      <3>4. b \in [Procs -> Bufs]
        BY DEF Init, Constants, Bufs
      <3> QED
        BY <3>1, <3>2, <3>3, <3>4, Zenon DEF Init, TypeOK
    <2>3. UsersInv
      <3>1. \A i \in Bufs : Users(i) = {}
        BY DEF Init, Users
      <3> QED
        BY <2>1, <3>1, FS_EmptySet, Zenon DEF Init, Constants, UsersInv, Holding
    <2>4. DataInv
      BY <2>1 DEF Init, Constants, DataInv
    <2>5. SleepersAreQueued
      BY DEF Init, SleepersAreQueued, Sleepers
    <2> QED
      BY <2>2, <2>3, <2>4, <2>5 DEF IInv
  <1>2. IInv /\ [Next]_vars => IInv'
    <2> SUFFICES ASSUME IInv, [Next]_vars PROVE IInv'
      OBVIOUS
    <2>1. ASSUME UNCHANGED <<lru, buf, idequeue, disk, pc, b, last, damaged>>  PROVE IInv'
      <3>1. TypeOK'
        BY <2>1 DEF IInv, TypeOK
      <3>2. UsersInv'
        BY <2>1, SMTT(30) DEF IInv, UsersInv, Users
      <3>3. DataInv'
        BY <2>1 DEF IInv, DataInv, Cached
      <3>4. SleepersAreQueued'
        BY <2>1 DEF IInv, SleepersAreQueued, Sleepers
      <3> QED
        BY <3>1, <3>2, <3>3, <3>4 DEF IInv
    <2>2. ASSUME NEW p \in Procs, NEW k \in Blocks, BgetPanic(p, k)  PROVE IInv'
      BY <2>1, <2>2 DEF BgetPanic
    <2>3. CASE UNCHANGED vars
      BY <2>1, <2>3 DEF vars
    <2> QED
      BY <2>2, <2>3, HitKeeps, RecycleKeeps, LockKeeps, WriteKeeps, UnlockKeeps,
         UnrefKeeps, IderwKeeps, IdeintrKeeps, IderwMemKeeps DEF Next
  <1> QED
    BY <1>1, <1>2, PTL DEF Spec

(* Whoever holds a buffer sees what was last written to its block, for any  *)
(* number of processes, blocks and buffers (bio.c:1-17).                    *)
THEOREM CacheCoherent == Constants /\ Spec => []ReadsSeeLastWrite
  <1>1. IInv => ReadsSeeLastWrite
    BY DEF IInv, UsersInv, DataInv, TypeOK, Holding, Cached, ReadsSeeLastWrite
  <1> QED
    BY <1>1, Invariance, PTL

(* Whoever sleeps for the disk is queued for it, once (ide.c:153-164).      *)
THEOREM DiskServesSleepers == Constants /\ Spec => []SleepersAreQueued
  <1>1. IInv => SleepersAreQueued
    BY DEF IInv
  <1> QED
    BY <1>1, Invariance, PTL

=============================================================================
