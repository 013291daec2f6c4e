-------------------------------- MODULE Mkfs --------------------------------
(***************************************************************************)
(* The tool that makes the file system image (mkfs.c).  Sizes are in       *)
(* directory entries, and a block holds BSIZE of them.  Sectors are        *)
(* sequences of values; the inode table and the bitmap are kept apart from *)
(* the sectors that hold them.                                             *)
(***************************************************************************)
EXTENDS Integers, Sequences, FiniteSets

CONSTANTS
    BSIZE,          \* directory entries in a block
    NDIRECT, NINDIRECT,
    NMeta,          \* boot, super, log, inode and bitmap blocks
    FSSIZE,         \* blocks of the image
    NInodes,        \* inodes of the image, counted from 1
    Files           \* what the files on the command line may contain

VARIABLES
    pc,             \* "files" or "done"
    m,              \* the image and the two counters, see Start
    given           \* history: contents of the files given, in order

vars == <<pc, m, given>>

ROOTINO == 1
MAXFILE == NDIRECT + NINDIRECT
Zeroes == [i \in 1..BSIZE |-> 0]

(* After the layout, all sectors are zero. *)
Start == [sect |-> [b \in 0..(FSSIZE - 1) |-> Zeroes],
          indirect |-> [b \in 0..(FSSIZE - 1) |-> [i \in 0..(NINDIRECT - 1) |-> 0]],
          inode |-> [i \in 1..NInodes |-> [type |-> "free", nlink |-> 0, size |-> 0,
                                           addrs |-> [k \in 0..NDIRECT |-> 0]]],
          bitmap |-> {}, freeblock |-> NMeta, freeinode |-> 1]

Ialloc(s, type) ==
    [s EXCEPT !.freeinode = @ + 1,
              !.inode[s.freeinode].type = type, !.inode[s.freeinode].nlink = 1]

(* The block that holds block fbn of a file: the image with it, and x *)
DirectBlock(s, inum, fbn) ==
    LET a == s.inode[inum].addrs[fbn] IN
    IF a # 0 THEN [s |-> s, x |-> a]
    ELSE [s |-> [s EXCEPT !.inode[inum].addrs[fbn] = s.freeblock, !.freeblock = @ + 1],
          x |-> s.freeblock]

(* Mutant: the new block takes the number of the indirect block. *)
BlockFor_NoIncrement(s, inum, fbn) ==
    IF fbn < NDIRECT THEN DirectBlock(s, inum, fbn)
    ELSE LET r == DirectBlock(s, inum, NDIRECT)
             a == r.s.indirect[r.x][fbn - NDIRECT]
         IN  IF a # 0 THEN [s |-> r.s, x |-> a]
             ELSE [s |-> [r.s EXCEPT !.indirect[r.x][fbn - NDIRECT] = r.s.freeblock],
                   x |-> r.s.freeblock]

BlockFor(s, inum, fbn) ==
    IF fbn < NDIRECT THEN DirectBlock(s, inum, fbn)
    ELSE LET r == DirectBlock(s, inum, NDIRECT)
             a == r.s.indirect[r.x][fbn - NDIRECT]
         IN  IF a # 0 THEN [s |-> r.s, x |-> a]
             ELSE [s |-> [r.s EXCEPT !.indirect[r.x][fbn - NDIRECT] = r.s.freeblock,
                                     !.freeblock = @ + 1],
                   x |-> r.s.freeblock]

RECURSIVE Iappend(_, _, _)
Iappend(s, inum, p) ==
    IF p = <<>> THEN s
    ELSE LET off == s.inode[inum].size
             at == off % BSIZE
             n1 == IF Len(p) < BSIZE - at THEN Len(p) ELSE BSIZE - at
             r == BlockFor(s, inum, off \div BSIZE)
             sector == [i \in 1..BSIZE |-> IF i \in (at + 1)..(at + n1) THEN p[i - at] ELSE r.s.sect[r.x][i]]
         IN  Iappend([r.s EXCEPT !.sect[r.x] = sector, !.inode[inum].size = off + n1],
                     inum, SubSeq(p, n1 + 1, Len(p)))

(* The file is read in pieces of a block. *)
RECURSIVE Copy(_, _, _)
Copy(s, inum, data) ==
    IF Len(data) <= BSIZE THEN Iappend(s, inum, data)
    ELSE Copy(Iappend(s, inum, SubSeq(data, 1, BSIZE)), inum, SubSeq(data, BSIZE + 1, Len(data)))

(* Blocks that a file or the root directory of size sz needs *)
ImageBlocks(sz) ==
    LET n == (sz + BSIZE - 1) \div BSIZE IN IF n > NDIRECT THEN n + 1 ELSE n

(* One file of the command line.  Nothing checks that it fits; it does for  *)
(* the file system that the Makefile builds.                                *)
AddFile(data) ==
    /\ pc = "files"
    /\ m.freeinode <= NInodes
    /\ m.freeblock + ImageBlocks(Len(data)) + 2 <= FSSIZE
    /\ m.inode[ROOTINO].size < MAXFILE * BSIZE
    /\ LET s == Ialloc(m, "file") IN
       m' = Copy(Iappend(s, ROOTINO, <<m.freeinode>>), m.freeinode, data)
    /\ given' = Append(given, data)
    /\ UNCHANGED pc

(* The first used blocks are marked. *)
Balloc(used) == 0..(used - 1)

(* The size of the root directory is rounded up, and the bitmap written. *)
Finish ==
    /\ pc = "files" /\ pc' = "done"
    /\ m' = [m EXCEPT !.inode[ROOTINO].size = (@ \div BSIZE + 1) * BSIZE,
                      !.bitmap = Balloc(m.freeblock)]
    /\ UNCHANGED given

Init ==
    /\ pc = "files" /\ given = <<>>
    /\ m = Iappend(Iappend(Ialloc(Start, "dir"), ROOTINO, <<ROOTINO>>), ROOTINO, <<ROOTINO>>)

Next == (\E data \in Files : AddFile(data)) \/ Finish

Spec == Init /\ [][Next]_vars

-----------------------------------------------------------------------------
(* What the kernel finds in the image *)
Bmap(inum, k) ==
    LET ip == m.inode[inum] IN
    IF k < NDIRECT THEN ip.addrs[k]
    ELSE IF ip.addrs[NDIRECT] = 0 THEN 0 ELSE m.indirect[ip.addrs[NDIRECT]][k - NDIRECT]

(* <<inode, position, block>>; position MAXFILE is the indirect block. *)
References ==
    {r \in {<<i, k, IF k = MAXFILE THEN m.inode[i].addrs[NDIRECT] ELSE Bmap(i, k)>> :
              i \in 1..NInodes, k \in 0..MAXFILE} : r[3] # 0}

Contents(inum, n) == [i \in 1..n |-> m.sect[Bmap(inum, (i - 1) \div BSIZE)][((i - 1) % BSIZE) + 1]]

(* The image that mkfs leaves is one the kernel can take over: the bitmap   *)
(* marks the metadata and exactly the blocks that some inode refers to,     *)
(* once each; every file reads as its source, and the root lists it; every  *)
(* block below a size has an address, but for the last of a root directory  *)
(* whose entries fill their blocks exactly (mkfs.c:161).                    *)
ImageConsistent ==
    pc = "done" =>
        LET n == Len(given) + 2
            full == n % BSIZE = 0
        IN  /\ m.bitmap = 0..(NMeta - 1) \cup {r[3] : r \in References}
            /\ \A r, s \in References : r[3] = s[3] => r = s
            /\ \A i \in 1..Len(given) :
                 /\ m.inode[i + 1].size = Len(given[i]) /\ Contents(i + 1, Len(given[i])) = given[i]
                 /\ m.inode[i + 1].type = "file"
            /\ Contents(ROOTINO, n) = <<ROOTINO, ROOTINO>> \o [i \in 1..Len(given) |-> i + 1]
            /\ \A k \in 0..(m.inode[ROOTINO].size \div BSIZE - 1) :
                 Bmap(ROOTINO, k) = 0 <=> full /\ k = n \div BSIZE

=============================================================================
