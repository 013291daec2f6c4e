-------------------------------- MODULE Inode --------------------------------
(***************************************************************************)
(* The inode layer of fs.c with the system calls of sysfile.c and the file  *)
(* table of file.c: inodes on disk, the inode cache with its reference      *)
(* counts and sleep locks, directories, path walks, open files, current     *)
(* directories.                                                             *)
(*                                                                          *)
(* A section that runs under one inode's sleep lock is one step, unless it  *)
(* waits for a second lock; iput is split where it releases icache.lock.    *)
(* A cache entry is named by the inode number it holds: iget gives a number *)
(* one entry as long as it is referenced, and an entry that is not          *)
(* referenced is never read.  File contents and disk blocks are left out    *)
(* here, and so are begin_op and end_op (see Log).                          *)
(***************************************************************************)
EXTENDS Integers, FiniteSets, Sequences

CONSTANTS Procs,      \* processes
          NoProc,     \* owner of a free sleep lock
          NInodes,    \* inodes on disk are 1 .. NInodes (sb.ninodes - 1)
          NINODE,     \* entries of the inode cache
          NFILE,      \* entries of the file table
          NOFILE,     \* descriptors of a process
          Names,      \* directory entry names other than "." and ".."
          Workloads   \* sets of system calls with the paths they are given, one of
                      \* which the processes make; a path is a sequence of names,
                      \* an absolute one starts with "/"

ROOTINO == 1
Inums == 1 .. NInodes
Files == 1 .. NFILE
Fds == 1 .. NOFILE
Dots == {".", ".."}

ASSUME SizesAssumption == /\ NInodes \in Nat \ {0} /\ NINODE \in Nat \ {0}
                          /\ NFILE \in Nat /\ NOFILE \in Nat
ASSUME NoProcAssumption == NoProc \notin Procs
ASSUME NamesAssumption == Names \cap (Dots \cup {"/"}) = {}

VARIABLES dinode,   \* inodes on disk (through the buffer cache)
          dir,      \* content of directories: name |-> inode number, or 0
          icache,   \* the cache entry of an inode number
          file,     \* ftable.file
          ofile,    \* proc->ofile
          cwd,      \* proc->cwd, 0 when the process does not exist
          l,        \* where a process is in its call, and its local variables
          panic,    \* message of the panic that stopped the kernel, or "none"
          ill,      \* history: what happened that later damage comes from
          work      \* the workload

fileVars == <<file, ofile, cwd>>
vars == <<dinode, dir, icache, file, ofile, cwd, l, panic, ill, work>>

NoEntries == [n \in Names \cup Dots |-> 0]
FreeEntry == [ref |-> 0, valid |-> FALSE, type |-> "none", nlink |-> 0, lock |-> NoProc]

(* Locals that hold an inode pointer: ip and dp of the call, nx of namex,   *)
(* put of iput; each is 0 when it does not own a reference.                 *)
Idle == [pc |-> "idle", type |-> "none", path |-> <<>>, new |-> <<>>,
         parent |-> FALSE, name |-> "none", found |-> "idle", lost |-> "idle",
         then |-> "idle", inum |-> 0, ip |-> 0, dp |-> 0, nx |-> 0, put |-> 0]

(* mkfs made the root directory; process 1 and its children start there.    *)
Init == /\ dinode = [i \in Inums |-> IF i = ROOTINO THEN [type |-> "dir", nlink |-> 1]
                                                    ELSE [type |-> "none", nlink |-> 0]]
        /\ dir = [i \in Inums |-> IF i = ROOTINO
                                  THEN [n \in Names \cup Dots |-> IF n \in Dots THEN ROOTINO ELSE 0]
                                  ELSE NoEntries]
        /\ icache = [i \in Inums |-> IF i = ROOTINO
                                     THEN [FreeEntry EXCEPT !.ref = Cardinality(Procs)]
                                     ELSE FreeEntry]
        /\ file = [f \in Files |-> [ref |-> 0, ip |-> 0]]
        /\ ofile = [p \in Procs |-> [d \in Fds |-> 0]]
        /\ cwd = [p \in Procs |-> ROOTINO]
        /\ l = [p \in Procs |-> Idle]
        /\ panic = "none"
        /\ ill = {}
        /\ work \in Workloads

-----------------------------------------------------------------------------
(* Steps of a process *)

At(p, label) == panic = "none" /\ l[p].pc = label
Become(p, r) == l' = [l EXCEPT ![p] = IF r.pc = "idle" THEN Idle ELSE r]
Panic(message) == /\ panic' = message
                  /\ UNCHANGED <<dinode, dir, icache, fileVars, l, ill, work>>

(* iput(i), and go on at label; put_ip is iput(ip) as the end of the call. *)
Put(r, i, label) == [r EXCEPT !.pc = "put", !.put = i, !.then = label]
PutIp(r) == Put([r EXCEPT !.ip = 0], r.ip, "idle")
PutDp(r, label) == Put([r EXCEPT !.dp = 0], r.dp, label)
AfterPut(r) == LET s == [r EXCEPT !.put = 0, !.then = "idle"]
               IN IF r.then = "put_ip" THEN PutIp(s) ELSE [s EXCEPT !.pc = r.then]

(* iget on cache c: the entry of i gets one more reference. *)
NoRoom(c, i) == c[i].ref = 0 /\ Cardinality({j \in Inums : c[j].ref > 0}) >= NINODE
Iget(c, i) == [c EXCEPT ![i].ref = @ + 1]

(* The call of iget(i) and what follows it. *)
Getting(c, i, action) == IF NoRoom(c, i) THEN Panic("iget: no inodes") ELSE action

(* The entry after ilock has read the inode from disk if necessary. *)
Loaded(i) == IF icache[i].valid THEN icache[i]
             ELSE [icache[i] EXCEPT !.valid = TRUE, !.type = dinode[i].type,
                                    !.nlink = dinode[i].nlink]
MayLock(i) == icache[i].lock = NoProc
NoType(i) == ~icache[i].valid /\ dinode[i].type = "none"
(* ilock(i), which waits for the lock, and what the call does with it. *)
Ilock(i, action) == /\ MayLock(i)
                    /\ IF NoType(i) THEN Panic("ilock: no type") ELSE action

(* iupdate: the inode on disk after entry e is written back. *)
OnDisk(e) == [type |-> e.type, nlink |-> e.nlink]

(* dirlookup and dirlink, with the directory locked; names are unique.      *)
Dirlookup(dp, name) == dir[dp][name]
Dirlink(d, dp, name, inum) == [d EXCEPT ![dp][name] = inum]

(* ill after an iget of the inode i that dirlookup found under name: the    *)
(* ".." of a removed directory outlives the parent's link.                  *)
Kept(i) == (\E p \in Procs : cwd[p] = i) \/ (\E f \in Files : file[f].ip = i)
Followed(name, i) == IF name = ".." /\ dinode[i].nlink = 0 /\ ~Kept(i)
                     THEN ill \cup {"orphan"} ELSE ill

-----------------------------------------------------------------------------
(* iput *)

(* Mutant: an inode is freed although others refer to it. *)
LastUnlinked_AnyRef(e) == e.valid /\ e.nlink = 0

LastUnlinked(e) == e.ref = 1 /\ e.valid /\ e.nlink = 0

Dropped(e) == IF e.ref = 1 THEN FreeEntry ELSE [e EXCEPT !.ref = @ - 1]

PutTest(p) ==
    LET i == l[p].put IN
    /\ At(p, "put")
    /\ IF LastUnlinked(icache[i])
       THEN Become(p, [l[p] EXCEPT !.pc = "put_free"]) /\ UNCHANGED icache
       ELSE /\ icache' = [icache EXCEPT ![i] = Dropped(@)]
            /\ Become(p, AfterPut(l[p]))
    /\ UNCHANGED <<dinode, dir, fileVars, panic, ill, work>>

(* itrunc, type = 0, iupdate; neither icache.lock nor the sleep lock held. *)
PutFree(p) ==
    LET i == l[p].put IN
    /\ At(p, "put_free")
    /\ icache' = [icache EXCEPT ![i].type = "none"]
    /\ dinode' = [dinode EXCEPT ![i] = OnDisk(icache'[i])]
    /\ dir' = [dir EXCEPT ![i] = NoEntries]
    /\ Become(p, [l[p] EXCEPT !.pc = "put_done"])
    /\ UNCHANGED <<fileVars, panic, ill, work>>

PutDone(p) ==
    LET i == l[p].put IN
    /\ At(p, "put_done")
    /\ icache' = [icache EXCEPT ![i] = Dropped([@ EXCEPT !.valid = FALSE])]
    /\ Become(p, AfterPut(l[p]))
    /\ UNCHANGED <<dinode, dir, fileVars, panic, ill, work>>

-----------------------------------------------------------------------------
(* namex *)

(* The locals of namex go out of scope. *)
Walked(r) == [r EXCEPT !.path = <<>>, !.parent = FALSE, !.nx = 0,
                       !.found = "idle", !.lost = "idle"]

(* The walk of path starts at the root or at the current directory, and     *)
(* goes on at found, with the inode in ip (in dp if parent), or at lost.    *)
Namex(p, r, path, parent, found, lost) ==
    LET absolute == path # <<>> /\ Head(path) = "/"
        start == IF absolute THEN ROOTINO ELSE cwd[p]
        rest == IF absolute THEN Tail(path) ELSE path
        s == [r EXCEPT !.path = rest, !.parent = parent, !.found = found, !.lost = lost]
    IN Getting(icache, start,
            /\ icache' = Iget(icache, start)
            /\ Become(p, IF rest # <<>> THEN [s EXCEPT !.pc = "walk", !.nx = start]
                         ELSE IF parent THEN Put(Walked(s), start, lost)
                         ELSE [Walked(s) EXCEPT !.pc = found, !.ip = start])
            /\ UNCHANGED <<dinode, dir, fileVars, panic, ill, work>>)

(* skipelem, on a path that is the sequence of its elements. *)
Skipelem(path) == [name |-> Head(path), rest |-> Tail(path)]

(* One element of the path: ilock, the tests, dirlookup, iunlock. *)
Walk(p) ==
    LET r == l[p]
        i == r.nx
        name == Skipelem(r.path).name
        rest == Skipelem(r.path).rest
        next == Dirlookup(i, name)
        cache == [icache EXCEPT ![i] = Loaded(i)]
        Leave(c, s) == icache' = c /\ Become(p, s)
                       /\ UNCHANGED <<dinode, dir, fileVars, panic, work>>
        Lookup ==
          \/ /\ Loaded(i).type # "dir"
             /\ Leave(cache, Put(Walked(r), i, r.lost))
             /\ UNCHANGED ill
          \/ /\ Loaded(i).type = "dir" /\ r.parent /\ rest = <<>>
             /\ Leave(cache, [Walked(r) EXCEPT !.pc = r.found, !.dp = i, !.name = name])
             /\ UNCHANGED ill
          \/ /\ Loaded(i).type = "dir" /\ ~(r.parent /\ rest = <<>>)
             /\ next = 0
             /\ Leave(cache, Put(Walked(r), i, r.lost))
             /\ UNCHANGED ill
          \/ /\ Loaded(i).type = "dir" /\ ~(r.parent /\ rest = <<>>)
             /\ next # 0
             /\ Getting(cache, next,
                  /\ Leave(Iget(cache, next),
                           IF rest = <<>>
                           THEN Put([Walked(r) EXCEPT !.ip = next], i, r.found)
                           ELSE Put([r EXCEPT !.nx = next, !.path = rest], i, "walk"))
                  /\ ill' = Followed(name, next))
    IN At(p, "walk") /\ Ilock(i, Lookup)

-----------------------------------------------------------------------------
(* link *)

CallLink(p) ==
    /\ "link" \in work.calls /\ At(p, "idle") /\ cwd[p] # 0
    /\ \E old, new \in work.paths :
          Namex(p, [Idle EXCEPT !.new = new], old, FALSE, "link_inc", "idle")

Linked(e) == [e EXCEPT !.nlink = @ + 1]

LinkInc(p) ==
    LET i == l[p].ip
        e == Linked(Loaded(i))
        Increment ==
          \/ /\ Loaded(i).type = "dir"
             /\ icache' = [icache EXCEPT ![i] = Loaded(i)]
             /\ Become(p, PutIp(l[p]))
             /\ UNCHANGED <<dinode, dir, fileVars, panic, ill, work>>
          \/ /\ Loaded(i).type # "dir"
             /\ icache' = [icache EXCEPT ![i] = e]
             /\ dinode' = [dinode EXCEPT ![i] = OnDisk(e)]
             /\ Become(p, [l[p] EXCEPT !.pc = "link_parent"])
             /\ UNCHANGED <<dir, fileVars, panic, ill, work>>
    IN At(p, "link_inc") /\ Ilock(i, Increment)

LinkParent(p) ==
    /\ At(p, "link_parent")
    /\ Namex(p, [l[p] EXCEPT !.new = <<>>], l[p].new, TRUE, "link_entry", "link_undo")

(* dirlink(dp, name, ip): dirlookup takes a reference to what it finds.     *)
LinkEntry(p) ==
    LET r == l[p]
        old == Dirlookup(r.dp, r.name)
    IN /\ At(p, "link_entry") /\ MayLock(r.dp)
       /\ \/ /\ old # 0
             /\ Getting(icache, old,
                  /\ icache' = Iget([icache EXCEPT ![r.dp].lock = p], old)
                  /\ ill' = Followed(r.name, old)
                  /\ Become(p, Put([r EXCEPT !.name = "none"], old, "link_exists"))
                  /\ UNCHANGED <<dinode, dir, fileVars, panic, work>>)
          \/ /\ old = 0
             /\ dir' = Dirlink(dir, r.dp, r.name, r.ip)
             /\ ill' = IF icache[r.dp].nlink = 0 THEN ill \cup {"stray"} ELSE ill
             /\ Become(p, PutDp([r EXCEPT !.name = "none"], "put_ip"))
             /\ UNCHANGED <<dinode, icache, fileVars, panic, work>>

LinkExists(p) ==
    /\ At(p, "link_exists")
    /\ icache' = [icache EXCEPT ![l[p].dp].lock = NoProc]
    /\ Become(p, PutDp(l[p], "link_undo"))
    /\ UNCHANGED <<dinode, dir, fileVars, panic, ill, work>>

(* The count goes down under the lock, on disk too; then iunlockput(ip).    *)
DecNlink(p) ==
    LET i == l[p].ip
        e == [Loaded(i) EXCEPT !.nlink = @ - 1, !.lock = NoProc]
    IN /\ icache' = [icache EXCEPT ![i] = e]
       /\ dinode' = [dinode EXCEPT ![i] = OnDisk(e)]
       /\ Become(p, PutIp(l[p]))
       /\ UNCHANGED <<dir, fileVars, panic, ill, work>>

LinkUndo(p) == At(p, "link_undo") /\ MayLock(l[p].ip) /\ DecNlink(p)

-----------------------------------------------------------------------------
(* unlink *)

CallUnlink(p) ==
    /\ "unlink" \in work.calls /\ At(p, "idle") /\ cwd[p] # 0
    /\ \E path \in work.paths : Namex(p, Idle, path, TRUE, "unlink_find", "idle")

(* dp stays locked if the name is found. *)
UnlinkFind(p) ==
    LET r == l[p]
        i == Dirlookup(r.dp, r.name)
    IN /\ At(p, "unlink_find") /\ MayLock(r.dp)
       /\ \/ /\ r.name \in Dots \/ i = 0
             /\ Become(p, PutDp(r, "idle"))
             /\ UNCHANGED <<dinode, dir, icache, fileVars, panic, ill, work>>
          \/ /\ r.name \notin Dots /\ i # 0
             /\ Getting(icache, i,
                  /\ icache' = Iget([icache EXCEPT ![r.dp].lock = p], i)
                  /\ Become(p, [r EXCEPT !.pc = "unlink_entry", !.ip = i])
                  /\ UNCHANGED <<dinode, dir, fileVars, panic, ill, work>>)

Empty(i) == \A n \in Names : dir[i][n] = 0

(* With ip locked as well: the tests, the entry, the parent's count, and    *)
(* dp is unlocked; ip stays locked.                                         *)
UnlinkEntry(p) ==
    LET r == l[p]
        e == Loaded(r.ip)
        d == IF e.type = "dir" THEN [icache[r.dp] EXCEPT !.nlink = @ - 1] ELSE icache[r.dp]
        Remove ==
          \/ /\ e.type = "dir" /\ ~Empty(r.ip)
             /\ icache' = [icache EXCEPT ![r.ip] = e]
             /\ Become(p, Put([r EXCEPT !.ip = 0, !.name = "none"], r.ip, "unlink_bad"))
             /\ UNCHANGED <<dinode, dir, fileVars, panic, ill, work>>
          \/ /\ e.type # "dir" \/ Empty(r.ip)
             /\ dir' = [dir EXCEPT ![r.dp][r.name] = 0]
             /\ dinode' = IF e.type = "dir" THEN [dinode EXCEPT ![r.dp] = OnDisk(d)] ELSE dinode
             /\ icache' = [icache EXCEPT ![r.dp] = [d EXCEPT !.lock = NoProc],
                                         ![r.ip] = [e EXCEPT !.lock = p]]
             /\ Become(p, PutDp([r EXCEPT !.name = "none"], "unlink_dec"))
             /\ UNCHANGED <<fileVars, panic, ill, work>>
    IN /\ At(p, "unlink_entry")
       /\ Ilock(r.ip, IF e.nlink < 1 THEN Panic("unlink: nlink < 1") ELSE Remove)

UnlinkBad(p) ==
    /\ At(p, "unlink_bad")
    /\ icache' = [icache EXCEPT ![l[p].dp].lock = NoProc]
    /\ Become(p, PutDp(l[p], "idle"))
    /\ UNCHANGED <<dinode, dir, fileVars, panic, ill, work>>

UnlinkDec(p) == At(p, "unlink_dec") /\ DecNlink(p)

-----------------------------------------------------------------------------
(* create, for open with O_CREATE ("file"), mkdir ("dir"), mknod ("dev") *)

CallCreate(p, type) ==
    /\ type \in work.calls /\ At(p, "idle") /\ cwd[p] # 0
    /\ \E path \in work.paths :
          Namex(p, [Idle EXCEPT !.type = type], path, TRUE, "create_find", "idle")

(* dp stays locked if the name is not there. *)
CreateFind(p) ==
    LET r == l[p]
        i == Dirlookup(r.dp, r.name)
    IN /\ At(p, "create_find") /\ MayLock(r.dp)
       /\ \/ /\ i # 0
             /\ Getting(icache, i,
                  /\ icache' = Iget(icache, i)
                  /\ ill' = Followed(r.name, i)
                  /\ Become(p, PutDp([r EXCEPT !.ip = i, !.name = "none"], "create_old"))
                  /\ UNCHANGED <<dinode, dir, fileVars, panic, work>>)
          \/ /\ i = 0
             /\ icache' = [icache EXCEPT ![r.dp].lock = p]
             /\ Become(p, [r EXCEPT !.pc = "ialloc", !.inum = 1])
             /\ UNCHANGED <<dinode, dir, fileVars, panic, ill, work>>

(* ip, just locked, is kept locked for open if good, else iunlockput(ip). *)
KeepOrPut(p, good) ==
    LET r == l[p] IN
    /\ icache' = [icache EXCEPT ![r.ip] =
                     [Loaded(r.ip) EXCEPT !.lock = IF good THEN p ELSE NoProc]]
    /\ Become(p, IF good THEN [r EXCEPT !.pc = "open_file"] ELSE PutIp(r))
    /\ UNCHANGED <<dinode, dir, fileVars, panic, ill, work>>

CreateOld(p) ==
    LET r == l[p]
        good == r.type = "file" /\ Loaded(r.ip).type = "file"
    IN At(p, "create_old") /\ Ilock(r.ip, KeepOrPut(p, good))

(* One inode of ialloc's scan, under the lock of its block's buffer. *)
Ialloc(p) ==
    LET r == l[p] IN
    /\ At(p, "ialloc")
    /\ \/ r.inum > NInodes /\ Panic("ialloc: no inodes")
       \/ /\ r.inum <= NInodes /\ dinode[r.inum].type # "none"
          /\ Become(p, [r EXCEPT !.inum = @ + 1])
          /\ UNCHANGED <<dinode, dir, icache, fileVars, panic, ill, work>>
       \/ /\ r.inum <= NInodes /\ dinode[r.inum].type = "none"
          /\ dinode' = [dinode EXCEPT ![r.inum] = [type |-> r.type, nlink |-> 0]]
          /\ ill' = IF icache[r.inum].ref > 0 THEN ill \cup {"reuse"} ELSE ill
          /\ Become(p, [r EXCEPT !.pc = "create_get"])
          /\ UNCHANGED <<dir, icache, fileVars, panic, work>>

(* ialloc's call of iget, after the buffer is released. *)
CreateGet(p) ==
    LET r == l[p] IN
    /\ At(p, "create_get")
    /\ Getting(icache, r.inum,
         /\ icache' = Iget(icache, r.inum)
         /\ Become(p, [r EXCEPT !.pc = "create_init", !.ip = r.inum, !.inum = 0])
         /\ UNCHANGED <<dinode, dir, fileVars, panic, ill, work>>)

(* Mutant: the parent's count ignores the ".." of a new directory. *)
ParentLinks_None(type) == 0

ParentLinks(type) == IF type = "dir" THEN 1 ELSE 0

(* ilock(ip), its count, the dots of a directory, the entry in dp, and dp   *)
(* is unlocked; ip stays locked.                                            *)
CreateInit(p) ==
    LET r == l[p]
        e == [Loaded(r.ip) EXCEPT !.nlink = 1, !.lock = p]
        d == [icache[r.dp] EXCEPT !.nlink = @ + ParentLinks(r.type), !.lock = NoProc]
        dots == IF r.type # "dir" THEN dir
                ELSE Dirlink(Dirlink(dir, r.ip, ".", r.ip), r.ip, "..", r.dp)
        Fill ==
          /\ icache' = [icache EXCEPT ![r.ip] = e, ![r.dp] = d]
          /\ dinode' = [dinode EXCEPT ![r.ip] = OnDisk(e), ![r.dp] = OnDisk(d)]
          /\ dir' = Dirlink(dots, r.dp, r.name, r.ip)
          /\ ill' = IF icache[r.dp].nlink = 0 THEN ill \cup {"stray"} ELSE ill
          /\ Become(p, PutDp([r EXCEPT !.name = "none"],
                             IF r.type = "file" THEN "open_file" ELSE "create_done"))
          /\ UNCHANGED <<fileVars, panic, work>>
    IN /\ At(p, "create_init")
       /\ Ilock(r.ip, IF r.type = "dir" /\ e.type # "dir"
                      THEN Panic("dirlookup not DIR") ELSE Fill)

(* mkdir and mknod: iunlockput(ip). *)
CreateDone(p) ==
    /\ At(p, "create_done")
    /\ icache' = [icache EXCEPT ![l[p].ip].lock = NoProc]
    /\ Become(p, PutIp(l[p]))
    /\ UNCHANGED <<dinode, dir, fileVars, panic, ill, work>>

-----------------------------------------------------------------------------
(* open, close, dup *)

(* open without O_CREATE; type is the mode, which matters for directories.  *)
CallOpen(p, mode) ==
    /\ mode \in work.calls /\ At(p, "idle") /\ cwd[p] # 0
    /\ \E path \in work.paths :
          Namex(p, [Idle EXCEPT !.type = mode], path, FALSE, "open_lock", "idle")

OpenLock(p) ==
    LET r == l[p]
        good == Loaded(r.ip).type # "dir" \/ r.type = "O_RDONLY"
    IN At(p, "open_lock") /\ Ilock(r.ip, KeepOrPut(p, good))

Lowest(S) == CHOOSE x \in S : \A y \in S : x <= y
FreeFiles == {f \in Files : file[f].ref = 0}
FreeFds(p) == {d \in Fds : ofile[p][d] = 0}

(* filealloc, fdalloc, iunlock; the file takes over the reference in ip.    *)
OpenFile(p) ==
    LET f == Lowest(FreeFiles) IN
    /\ At(p, "open_file")
    /\ icache' = [icache EXCEPT ![l[p].ip].lock = NoProc]
    /\ \/ /\ FreeFiles # {} /\ FreeFds(p) # {}
          /\ file' = [file EXCEPT ![f] = [ref |-> 1, ip |-> l[p].ip]]
          /\ ofile' = [ofile EXCEPT ![p][Lowest(FreeFds(p))] = f]
          /\ Become(p, Idle)
       \/ /\ FreeFiles = {} \/ FreeFds(p) = {}
          /\ Become(p, PutIp(l[p]))
          /\ UNCHANGED <<file, ofile>>
    /\ UNCHANGED <<dinode, dir, cwd, panic, ill, work>>

(* fileclose of descriptor d, and go on at label. *)
FileClose(p, d, label) ==
    LET f == ofile[p][d] IN
    /\ ofile' = [ofile EXCEPT ![p][d] = 0]
    /\ \/ /\ file[f].ref > 1
          /\ file' = [file EXCEPT ![f].ref = @ - 1]
          /\ Become(p, [l[p] EXCEPT !.pc = label])
       \/ /\ file[f].ref = 1
          /\ file' = [file EXCEPT ![f] = [ref |-> 0, ip |-> 0]]
          /\ Become(p, Put(l[p], file[f].ip, label))
    /\ UNCHANGED <<dinode, dir, icache, cwd, panic, ill, work>>

CallClose(p) ==
    /\ "close" \in work.calls /\ At(p, "idle")
    /\ \E d \in Fds \ FreeFds(p) : FileClose(p, d, "idle")

(* fdalloc and filedup. *)
CallDup(p) ==
    /\ "dup" \in work.calls /\ At(p, "idle") /\ FreeFds(p) # {}
    /\ \E d \in Fds \ FreeFds(p) :
          /\ ofile' = [ofile EXCEPT ![p][Lowest(FreeFds(p))] = ofile[p][d]]
          /\ file' = [file EXCEPT ![ofile[p][d]].ref = @ + 1]
    /\ UNCHANGED <<dinode, dir, icache, cwd, l, panic, ill, work>>

-----------------------------------------------------------------------------
(* chdir, and what fork and exit do with files and directories *)

CallChdir(p) ==
    /\ "chdir" \in work.calls /\ At(p, "idle") /\ cwd[p] # 0
    /\ \E path \in work.paths : Namex(p, Idle, path, FALSE, "chdir", "idle")

Chdir(p) ==
    LET i == l[p].ip IN
    /\ At(p, "chdir")
    /\ Ilock(i, /\ icache' = [icache EXCEPT ![i] = Loaded(i)]
                /\ IF Loaded(i).type = "dir"
                   THEN /\ cwd' = [cwd EXCEPT ![p] = i]
                        /\ Become(p, Put([l[p] EXCEPT !.ip = 0], cwd[p], "idle"))
                   ELSE Become(p, PutIp(l[p])) /\ UNCHANGED cwd
                /\ UNCHANGED <<dinode, dir, file, ofile, panic, ill, work>>)

(* Mutant: the child shares the directory without a reference of its own. *)
IdupCwd_None(c, i) == c

IdupCwd(c, i) == [c EXCEPT ![i].ref = @ + 1]

CallFork(p, q) ==
    /\ "fork" \in work.calls /\ At(p, "idle") /\ cwd[p] # 0 /\ cwd[q] = 0 /\ At(q, "idle")
    /\ file' = [f \in Files |-> [file[f] EXCEPT !.ref =
                   @ + Cardinality({d \in Fds : ofile[p][d] = f})]]
    /\ ofile' = [ofile EXCEPT ![q] = ofile[p]]
    /\ icache' = IdupCwd(icache, cwd[p])
    /\ cwd' = [cwd EXCEPT ![q] = cwd[p]]
    /\ UNCHANGED <<dinode, dir, l, panic, ill, work>>

(* exit closes one descriptor after the other, then puts the directory.     *)
(* The first process never exits.                                           *)
CallExit(p) ==
    /\ "fork" \in work.calls /\ At(p, "idle") /\ cwd[p] # 0
    /\ \E q \in Procs \ {p} : cwd[q] # 0 /\ l[q].pc # "exit" /\ l[q].then # "exit"
    /\ Become(p, [Idle EXCEPT !.pc = "exit"])
    /\ UNCHANGED <<dinode, dir, icache, fileVars, panic, ill, work>>

Exit(p) ==
    /\ At(p, "exit")
    /\ IF FreeFds(p) # Fds
       THEN FileClose(p, Lowest(Fds \ FreeFds(p)), "exit")
       ELSE /\ cwd' = [cwd EXCEPT ![p] = 0]
            /\ Become(p, Put(l[p], cwd[p], "idle"))
            /\ UNCHANGED <<dinode, dir, icache, file, ofile, panic, ill, work>>

-----------------------------------------------------------------------------
(* The kernel stays stopped after a panic. *)
Halted == panic # "none" /\ UNCHANGED vars

Step(p) ==
    \/ PutTest(p) \/ PutFree(p) \/ PutDone(p) \/ Walk(p)
    \/ CallLink(p) \/ LinkInc(p) \/ LinkParent(p) \/ LinkEntry(p) \/ LinkExists(p)
    \/ LinkUndo(p)
    \/ CallUnlink(p) \/ UnlinkFind(p) \/ UnlinkEntry(p)
    \/ UnlinkBad(p) \/ UnlinkDec(p)
    \/ \E type \in {"file", "dir", "dev"} : CallCreate(p, type)
    \/ CreateFind(p) \/ CreateOld(p) \/ Ialloc(p) \/ CreateGet(p) \/ CreateInit(p)
    \/ CreateDone(p)
    \/ \E mode \in {"O_RDONLY", "O_RDWR"} : CallOpen(p, mode)
    \/ OpenLock(p) \/ OpenFile(p) \/ CallClose(p) \/ CallDup(p)
    \/ CallChdir(p) \/ Chdir(p)
    \/ \E q \in Procs : CallFork(p, q)
    \/ CallExit(p) \/ Exit(p)

Next == Halted \/ \E p \in Procs : Step(p)

Spec == Init /\ [][Next]_vars

-----------------------------------------------------------------------------
(* Properties.  ill records three accidents that the code does not exclude: *)
(* "reuse", ialloc takes an inode that iput has freed on disk but not yet   *)
(* dropped from the cache; "stray", an entry is written into a directory    *)
(* that has been removed; "orphan", the ".." of a removed directory is      *)
(* followed to a parent that has been removed as well and that no process   *)
(* has open or as its current directory.  Only the counts of RefsCounted    *)
(* are stated with them.                                                    *)

(* The in-memory pointers to i: open files, current directories, locals.    *)
Pointers(i) == Cardinality({f \in Files : file[f].ip = i})
             + Cardinality({p \in Procs : cwd[p] = i})
             + Cardinality({<<p, v>> \in Procs \X {"ip", "dp", "nx", "put"} : l[p][v] = i})

(* ip->ref is the number of in-memory pointers to the entry (the comment at *)
(* fs.c:123), and f->ref the number of descriptors, on every path through   *)
(* every call, error paths included.  The consistency panics of fs.c and    *)
(* sysfile.c happen only after one of the three accidents: a process whose  *)
(* directory /a/b and then /a were removed stops the kernel with "ilock: no *)
(* type" by chdir(".."), since nothing counts the ".." of a removed         *)
(* directory.  Running out of inodes or of cache entries panics by design.  *)
RefsCounted ==
    /\ \A i \in Inums : icache[i].ref = Pointers(i)
    /\ \A f \in Files : file[f].ref =
          Cardinality({<<p, d>> \in Procs \X Fds : ofile[p][d] = f})
    /\ ill = {} => panic \in {"none", "iget: no inodes", "ialloc: no inodes"}

(* A directory that has a name counts as a link to its parent. *)
AllocatedDirs == {i \in Inums : dinode[i].type = "dir"}
NamesOf(i) == {<<d, n>> \in AllocatedDirs \X Names : dir[d][n] = i}
SubdirsOf(i) == {d \in AllocatedDirs : dir[d][".."] = i /\ (d = ROOTINO \/ NamesOf(d) # {})}
InCall(i) == \E p \in Procs : i \in {l[p].ip, l[p].dp, l[p].inum}

(* nlink on disk is the number of directory entries that refer to the inode *)
(* (".." included, "." not) whenever no link, unlink or create that works   *)
(* on it is under way: no interleaving of them loses or adds a link.        *)
LinksMatch ==
    ill = {} => \A i \in Inums :
        ~InCall(i) /\ dinode[i].type # "none" =>
            dinode[i].nlink = Cardinality(NamesOf(i)) + Cardinality(SubdirsOf(i))

(* An inode is allocated exactly as long as it can be reached: iput frees   *)
(* no inode that has a name, is open or is a current directory, and an      *)
(* allocated inode that no pointer and no call refers to has a name, so     *)
(* unlinked files go with their last close.                                 *)
AllocatedIffReachable ==
    ill = {} =>
        /\ \A i \in Inums : NamesOf(i) # {} => dinode[i].type # "none"
        /\ \A f \in Files : file[f].ip # 0 => dinode[file[f].ip].type # "none"
        /\ \A p \in Procs : cwd[p] # 0 => dinode[cwd[p]].type = "dir"
        /\ \A i \in Inums \ {ROOTINO} :
              dinode[i].type # "none" /\ Pointers(i) = 0 /\ ~InCall(i) => NamesOf(i) # {}

(* fs.c:119: "an inode is allocated if its type (on disk) is non-zero.      *)
(* ialloc() allocates": so the inode that create returns is allocated.      *)
CreatedIsAllocated ==
    \A p \in Procs : l[p].pc \in {"open_file", "create_done"}
                     => dinode[l[p].ip].type # "none"

=============================================================================
