------------------------------- MODULE FileData -------------------------------
(***************************************************************************)
(* The contents of files: balloc, bfree, bmap, itrunc, readi and writei of  *)
(* fs.c, called by fileread and filewrite of file.c through open files      *)
(* whose offset several processes may share.                                *)
(*                                                                          *)
(* Processes interleave where a buffer is released or the inode is          *)
(* unlocked.  The bitmap is one block.  A file is truncated when nothing    *)
(* refers to it (Inode shows that), and is empty again after that.          *)
(***************************************************************************)
EXTENDS Integers, FiniteSets, Sequences

CONSTANTS Procs,      \* processes; a process writes bytes that name it
          NoProc,     \* owner of a free sleep lock
          Inodes,     \* files on disk
          Files,      \* open files
          InodeOf,    \* the inode of an open file
          NBlocks,    \* data blocks are 1 .. NBlocks
          BSIZE,      \* bytes of a block
          NDIRECT,    \* direct addresses of an inode
          NINDIRECT,  \* addresses in the indirect block
          MaxChunk,   \* max in filewrite: bytes written under one lock
          Counts,     \* byte counts of read and write calls
          MaxCalls    \* bound on the number of calls

Blocks == 1 .. NBlocks
MAXFILE == NDIRECT + NINDIRECT

ASSUME SizesAssumption == /\ BSIZE \in Nat \ {0} /\ NDIRECT \in Nat /\ NINDIRECT \in Nat \ {0}
                          /\ NBlocks \in Nat /\ MaxChunk \in Nat \ {0}
                          /\ Counts \subseteq Nat /\ MaxCalls \in Nat
ASSUME InodeOfAssumption == InodeOf \in [Files -> Inodes]
ASSUME NoProcAssumption == NoProc \notin Procs

VARIABLES bitmap,   \* blocks marked in use
          data,     \* bytes of a block used for data
          addr,     \* addresses in a block used as indirect block
          inode,    \* size and addrs of the inode in memory
          dinode,   \* the same on disk
          lock,     \* owner of the inode's sleep lock
          off,      \* f->off
          l,        \* where a process is, and its local variables
          content,  \* history: the bytes a file should hold
          panic,    \* message of the panic that stopped the kernel, or "none"
          calls     \* calls made so far

vars == <<bitmap, data, addr, inode, dinode, lock, off, l, content, panic, calls>>

Zero == NoProc      \* the byte 0
NoAddrs == [k \in 0 .. NDIRECT |-> 0]
EmptyInode == [size |-> 0, addrs |-> NoAddrs]
Idle == [pc |-> "idle", f |-> CHOOSE f \in Files : TRUE, n |-> 0, i |-> 0, n1 |-> 0,
         off |-> 0, tot |-> 0, blk |-> 0, buf |-> <<>>, ip |-> CHOOSE i \in Inodes : TRUE]

Init == /\ bitmap = {}
        /\ data = [b \in Blocks |-> [k \in 0 .. BSIZE - 1 |-> Zero]]
        /\ addr = [b \in Blocks |-> [k \in 0 .. NINDIRECT - 1 |-> 0]]
        /\ inode = [i \in Inodes |-> EmptyInode]
        /\ dinode = inode
        /\ lock = [i \in Inodes |-> NoProc]
        /\ off = [f \in Files |-> 0]
        /\ l = [p \in Procs |-> Idle]
        /\ content = [i \in Inodes |-> <<>>]
        /\ panic = "none"
        /\ calls = 0

At(p, label) == panic = "none" /\ l[p].pc = label
Become(p, r) == l' = [l EXCEPT ![p] = IF r.pc = "idle" THEN Idle ELSE r]
Panic(message) == /\ panic' = message
                  /\ UNCHANGED <<bitmap, data, addr, inode, dinode, lock, off, l, content, calls>>
Lesser(a, b) == IF a < b THEN a ELSE b

-----------------------------------------------------------------------------
(* bmap: the block of the file that the process is at, if it has one, and   *)
(* the address that is missing otherwise.                                   *)

Bn(r) == r.off \div BSIZE
Direct(r) == Bn(r) < NDIRECT
Indirect(r) == inode[r.ip].addrs[NDIRECT]
LacksIndirect(r) == ~Direct(r) /\ Indirect(r) = 0
BlockAt(r) == IF Direct(r) THEN inode[r.ip].addrs[Bn(r)]
              ELSE IF Indirect(r) = 0 THEN 0
              ELSE addr[Indirect(r)][Bn(r) - NDIRECT]
Mapped(r) == r.tot < r.n1 /\ Bn(r) < MAXFILE /\ BlockAt(r) # 0

(* balloc: the first free block, marked under the lock of the bitmap block. *)
Balloc(p) ==
    LET r == l[p]
        free == Blocks \ bitmap
        b == CHOOSE x \in free : \A y \in free : x <= y
    IN /\ At(p, "read") \/ At(p, "write")
       /\ r.blk = 0 /\ r.tot < r.n1 /\ ~Mapped(r)
       /\ IF Bn(r) >= MAXFILE THEN Panic("bmap: out of range")
          ELSE IF free = {} THEN Panic("balloc: out of blocks")
          ELSE /\ bitmap' = bitmap \cup {b}
               /\ Become(p, [r EXCEPT !.blk = b])
               /\ UNCHANGED <<data, addr, inode, dinode, lock, off, content, panic, calls>>

(* Mutant: the new block keeps the addresses it held before. *)
Zeroed_Not(a, b) == a

Zeroed(a, b) == [a EXCEPT ![b] = [k \in 0 .. NINDIRECT - 1 |-> 0]]

(* bzero, and the address of the new block is stored. *)
Bmap(p) ==
    LET r == l[p]
        b == r.blk
        cleared == Zeroed(addr, b)
        where == IF Direct(r) THEN Bn(r) ELSE NDIRECT
    IN /\ At(p, "read") \/ At(p, "write")
       /\ b # 0
       /\ data' = [data EXCEPT ![b] = [k \in 0 .. BSIZE - 1 |-> Zero]]
       /\ IF Direct(r) \/ LacksIndirect(r)
          THEN /\ inode' = [inode EXCEPT ![r.ip].addrs[where] = b]
               /\ addr' = cleared
          ELSE /\ addr' = [cleared EXCEPT ![Indirect(r)][Bn(r) - NDIRECT] = b]
               /\ UNCHANGED inode
       /\ Become(p, [r EXCEPT !.blk = 0])
       /\ UNCHANGED <<bitmap, dinode, lock, off, content, panic, calls>>

(* Bytes of this block that the loops of readi and writei handle at once.   *)
Piece(r) == Lesser(r.n1 - r.tot, BSIZE - (r.off % BSIZE))

-----------------------------------------------------------------------------
(* filewrite and writei *)

Truncating(i) == \E p \in Procs : l[p].ip = i /\ l[p].pc = "trunc"

Call(p, label, f, n) ==
    /\ At(p, "idle") /\ calls < MaxCalls /\ ~Truncating(InodeOf[f])
    /\ calls' = calls + 1
    /\ Become(p, [Idle EXCEPT !.pc = label, !.f = f, !.n = n, !.ip = InodeOf[f]])
    /\ UNCHANGED <<bitmap, data, addr, inode, dinode, lock, off, content, panic>>

CallWrite(p) == \E f \in Files, n \in Counts : Call(p, "write_lock", f, n)

(* ilock for the next chunk, and writei's tests; a write that does not fit  *)
(* fails and ends the call.                                                 *)
WriteLock(p) ==
    LET r == l[p]
        n1 == Lesser(r.n - r.i, MaxChunk)
        o == off[r.f]
        fits == o <= inode[r.ip].size /\ o + n1 <= MAXFILE * BSIZE
    IN /\ At(p, "write_lock") /\ lock[r.ip] = NoProc
       /\ \/ /\ fits
             /\ lock' = [lock EXCEPT ![r.ip] = p]
             /\ Become(p, [r EXCEPT !.pc = "write", !.n1 = n1, !.off = o, !.tot = 0])
          \/ ~fits /\ Become(p, Idle) /\ UNCHANGED lock
       /\ UNCHANGED <<bitmap, data, addr, inode, dinode, off, content, panic, calls>>

Written(p) ==
    LET r == l[p]
        b == BlockAt(r)
        from == r.off % BSIZE
    IN [data EXCEPT ![b] = [k \in 0 .. BSIZE - 1 |->
            IF k >= from /\ k < from + Piece(r) THEN p ELSE @[k]]]

(* One block's piece of the chunk is copied. *)
WritePiece(p) ==
    LET r == l[p] IN
    /\ At(p, "write") /\ r.blk = 0 /\ Mapped(r)
    /\ data' = Written(p)
    /\ Become(p, [r EXCEPT !.off = @ + Piece(r), !.tot = @ + Piece(r)])
    /\ UNCHANGED <<bitmap, addr, inode, dinode, lock, off, content, panic, calls>>

(* The bytes of s after n bytes p are written at position o. *)
Overwritten(s, o, n, p) == [k \in 1 .. (IF o + n > Len(s) THEN o + n ELSE Len(s)) |->
                              IF k > o /\ k <= o + n THEN p ELSE s[k]]

(* Mutant: the size follows every write, also one inside the file. *)
Grows_Always(r) == r.n1 > 0

Grows(r) == r.n1 > 0 /\ r.off > inode[r.ip].size

(* Size and iupdate if the file has grown, f->off, iunlock, next chunk.     *)
WriteEnd(p) ==
    LET r == l[p]
        grown == [inode[r.ip] EXCEPT !.size = r.off]
    IN /\ At(p, "write") /\ r.blk = 0 /\ r.tot = r.n1
       /\ IF Grows(r)
          THEN /\ inode' = [inode EXCEPT ![r.ip] = grown]
               /\ dinode' = [dinode EXCEPT ![r.ip] = grown]
          ELSE UNCHANGED <<inode, dinode>>
       /\ content' = [content EXCEPT ![r.ip] = Overwritten(@, off[r.f], r.n1, p)]
       /\ off' = [off EXCEPT ![r.f] = @ + r.n1]
       /\ lock' = [lock EXCEPT ![r.ip] = NoProc]
       /\ Become(p, IF r.i + r.n1 = r.n THEN Idle
                    ELSE [r EXCEPT !.pc = "write_lock", !.i = @ + r.n1, !.n1 = 0,
                                   !.off = 0, !.tot = 0])
       /\ UNCHANGED <<bitmap, data, addr, panic, calls>>

-----------------------------------------------------------------------------
(* fileread and readi *)

CallRead(p) == \E f \in Files, n \in Counts : Call(p, "read_lock", f, n)

(* Mutant: the count is cut to the size of the file, not to what is left. *)
ReadCount_Size(n, size, o) == IF n > size THEN size ELSE n

ReadCount(n, size, o) == IF o + n > size THEN size - o ELSE n

ReadLock(p) ==
    LET r == l[p]
        o == off[r.f]
        size == inode[r.ip].size
    IN /\ At(p, "read_lock") /\ lock[r.ip] = NoProc
       /\ IF o > size
          THEN Become(p, Idle) /\ UNCHANGED lock
          ELSE /\ lock' = [lock EXCEPT ![r.ip] = p]
               /\ Become(p, [r EXCEPT !.pc = "read", !.off = o, !.n1 = ReadCount(r.n, size, o)])
       /\ UNCHANGED <<bitmap, data, addr, inode, dinode, off, content, panic, calls>>

ReadPiece(p) ==
    LET r == l[p]
        from == r.off % BSIZE
    IN /\ At(p, "read") /\ r.blk = 0 /\ Mapped(r)
       /\ Become(p, [r EXCEPT !.off = @ + Piece(r), !.tot = @ + Piece(r), !.buf = @ \o
                        [k \in 1 .. Piece(r) |-> data[BlockAt(r)][from + k - 1]]])
       /\ UNCHANGED <<bitmap, data, addr, inode, dinode, lock, off, content, panic, calls>>

ReadEnd(p) ==
    LET r == l[p] IN
    /\ At(p, "read") /\ r.blk = 0 /\ r.tot = r.n1
    /\ off' = [off EXCEPT ![r.f] = @ + r.n1]
    /\ lock' = [lock EXCEPT ![r.ip] = NoProc]
    /\ Become(p, Idle)
    /\ UNCHANGED <<bitmap, data, addr, inode, dinode, content, panic, calls>>

-----------------------------------------------------------------------------
(* Removal: the last iput of an unlinked file calls itrunc.  No lock is     *)
(* held, and no call uses the file.  The name is then used for a new file,  *)
(* which is open with offset 0.                                             *)

CallRemove(p) ==
    \E i \in Inodes :
       /\ At(p, "idle") /\ calls < MaxCalls
       /\ \A q \in Procs : l[q].pc # "idle" => l[q].ip # i
       /\ calls' = calls + 1
       /\ Become(p, [Idle EXCEPT !.pc = "trunc", !.ip = i])
       /\ off' = [f \in Files |-> IF InodeOf[f] = i THEN 0 ELSE off[f]]
       /\ content' = [content EXCEPT ![i] = <<>>]
       /\ UNCHANGED <<bitmap, data, addr, inode, dinode, lock, panic>>

(* bfree(b), and what the caller does after it. *)
Bfree(b, action) == IF b \notin bitmap THEN Panic("freeing free block")
                    ELSE /\ bitmap' = bitmap \ {b}
                         /\ action
                         /\ UNCHANGED <<data, addr, lock, off, content, panic, calls>>

TruncDirect(p) ==
    LET r == l[p] IN
    /\ At(p, "trunc") /\ r.i < NDIRECT
    /\ \/ /\ inode[r.ip].addrs[r.i] # 0
          /\ Bfree(inode[r.ip].addrs[r.i],
                   /\ inode' = [inode EXCEPT ![r.ip].addrs[r.i] = 0]
                   /\ Become(p, [r EXCEPT !.i = @ + 1])
                   /\ UNCHANGED dinode)
       \/ /\ inode[r.ip].addrs[r.i] = 0
          /\ Become(p, [r EXCEPT !.i = @ + 1])
          /\ UNCHANGED <<bitmap, data, addr, inode, dinode, lock, off, content, panic, calls>>

(* The blocks in the indirect block, then the indirect block. *)
TruncIndirect(p) ==
    LET r == l[p]
        j == r.i - NDIRECT
    IN /\ At(p, "trunc") /\ r.i >= NDIRECT /\ Indirect(r) # 0
       /\ \/ /\ j < NINDIRECT /\ addr[Indirect(r)][j] # 0
             /\ Bfree(addr[Indirect(r)][j],
                      Become(p, [r EXCEPT !.i = @ + 1]) /\ UNCHANGED <<inode, dinode>>)
          \/ /\ j < NINDIRECT /\ addr[Indirect(r)][j] = 0
             /\ Become(p, [r EXCEPT !.i = @ + 1])
             /\ UNCHANGED <<bitmap, data, addr, inode, dinode, lock, off, content, panic, calls>>
          \/ /\ j = NINDIRECT
             /\ Bfree(Indirect(r),
                      /\ inode' = [inode EXCEPT ![r.ip].addrs[NDIRECT] = 0]
                      /\ UNCHANGED <<l, dinode>>)

(* size = 0, iupdate. *)
TruncEnd(p) ==
    LET r == l[p] IN
    /\ At(p, "trunc") /\ r.i >= NDIRECT /\ Indirect(r) = 0
    /\ inode' = [inode EXCEPT ![r.ip].size = 0]
    /\ dinode' = [dinode EXCEPT ![r.ip] = inode'[r.ip]]
    /\ Become(p, Idle)
    /\ UNCHANGED <<bitmap, data, addr, lock, off, content, panic, calls>>

(* The file is opened again, by name: offset 0. *)
Reopen(f) == /\ panic = "none" /\ off[f] # 0
             /\ \A p \in Procs : l[p].pc # "idle" => l[p].f # f
             /\ off' = [off EXCEPT ![f] = 0]
             /\ UNCHANGED <<bitmap, data, addr, inode, dinode, lock, l, content, panic, calls>>

-----------------------------------------------------------------------------
Next == \/ \E p \in Procs :
              \/ Balloc(p) \/ Bmap(p)
              \/ CallWrite(p) \/ WriteLock(p) \/ WritePiece(p) \/ WriteEnd(p)
              \/ CallRead(p) \/ ReadLock(p) \/ ReadPiece(p) \/ ReadEnd(p)
              \/ CallRemove(p) \/ TruncDirect(p) \/ TruncIndirect(p) \/ TruncEnd(p)
        \/ \E f \in Files : Reopen(f)

Spec == Init /\ [][Next]_vars

-----------------------------------------------------------------------------
(* Properties *)

(* The places that hold a block address: direct and indirect address of an  *)
(* inode, entries of its indirect block, the local b of balloc's caller.    *)
InodePlaces(i) == {<<i, k>> : k \in 0 .. NDIRECT}
IndirectPlaces(i) == IF inode[i].addrs[NDIRECT] = 0 THEN {}
                     ELSE {<<i, NDIRECT + 1 + j>> : j \in 0 .. NINDIRECT - 1}
HeldAt(w) == IF w[2] <= NDIRECT THEN inode[w[1]].addrs[w[2]]
             ELSE addr[inode[w[1]].addrs[NDIRECT]][w[2] - NDIRECT - 1]
Stable == {i \in Inodes : ~Truncating(i)}
Places == UNION {InodePlaces(i) \cup IndirectPlaces(i) : i \in Stable}
InUse == {w \in Places : HeldAt(w) # 0}
InFlight == {p \in Procs : l[p].blk # 0}

(* A block serves one purpose: no two addresses name the same block, not    *)
(* even while balloc's caller has not stored it yet or another file is      *)
(* being truncated; a block in use is marked, and a marked block is in use  *)
(* when no truncation is under way, so none leaks.  So bfree and bmap do    *)
(* not panic; only a full disk stops the kernel.                            *)
BlocksOwned ==
    LET used == {HeldAt(w) : w \in InUse} \cup {l[p].blk : p \in InFlight}
    IN /\ Cardinality(used) = Cardinality(InUse) + Cardinality(InFlight)
       /\ used \subseteq bitmap
       /\ Stable = Inodes => bitmap = used
       /\ panic \in {"none", "balloc: out of blocks"}

(* Byte k of file i as readi finds it. *)
ByteOf(i, k) == LET r == [Idle EXCEPT !.ip = i, !.off = k]
                IN IF BlockAt(r) = 0 THEN 0 ELSE data[BlockAt(r)][k % BSIZE]

(* Unless a call is in the middle of changing it, a file holds what the     *)
(* completed chunks wrote, each at the offset that the open file had, so    *)
(* writers that share an open file do not overwrite each other, and the     *)
(* inode on disk has the size and the addresses of the one in memory.       *)
ContentAsWritten ==
    \A i \in Stable : lock[i] = NoProc =>
        /\ inode[i].size = Len(content[i])
        /\ \A k \in 1 .. Len(content[i]) : ByteOf(i, k - 1) = content[i][k]
        /\ dinode[i] = inode[i]

(* A read returns the bytes of the file from the offset of the open file    *)
(* on, as many as there are, and never allocates a block.                   *)
ReadsExact ==
    \A p \in Procs : LET r == l[p] IN r.pc = "read" =>
        /\ r.buf = SubSeq(content[r.ip], off[r.f] + 1, off[r.f] + r.tot)
        /\ r.n1 = Lesser(r.n, Len(content[r.ip]) - off[r.f])
        /\ r.blk = 0

=============================================================================
