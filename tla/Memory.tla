------------------------------- MODULE Memory -------------------------------
(***************************************************************************)
(* Physical memory (kalloc.c), page tables (vm.c) and the system calls     *)
(* that use them: fork, exec, sbrk, exit and wait, and the checks of       *)
(* syscall.c on user addresses.  Page directories and page tables are      *)
(* themselves contents of frames.  A call is one step: address spaces are  *)
(* private, and all that processes do to each other in the middle of a     *)
(* call is to leave fewer frames, which happens here at every kalloc.      *)
(***************************************************************************)
EXTENDS Integers, Sequences, FiniteSetsExt

CONSTANTS
    Frames,         \* frames between end and PHYSTOP, positive numbers
    PGSIZE,         \* bytes of a page
    NPTENTRIES,     \* pages that one page table maps
    KERNBASE,       \* first kernel address; uints are modulo 2 * KERNBASE
    KTables,        \* page tables that the mappings of kmap take up
    Slots,          \* slots of ptable
    Programs,       \* executable files and arguments, see Exec
    SbrkArgs,       \* arguments of sbrk, any int
    StorePages,     \* pages that programs write to
    MaxCalls        \* bound on the number of steps

None == 0
UserPdes == 0..(KERNBASE \div (PGSIZE * NPTENTRIES) - 1)
KernPdes == {Max(UserPdes) + i : i \in 1..KTables}
Uint == 0..(2 * KERNBASE - 1)

VARIABLES
    free,           \* kmem.freelist
    mem,            \* contents of frames
    proc,           \* [state, sz, kstack, pgdir] of a slot
    lost,           \* history: frames that nobody owns any more
    twice,          \* history: a frame was freed that was free
    image,          \* history: what the program of a slot has in its pages
    gone,           \* history: slots that sbrk has left without memory
    calls           \* number of steps taken

vars == <<free, mem, proc, lost, twice, image, gone, calls>>

(* The operators below transform the part of the state that belongs to the *)
(* allocator, as the functions they are named after do.                    *)
Machine == [free |-> free, mem |-> mem, lost |-> lost, twice |-> twice]

PGROUNDUP(a) == ((a + PGSIZE - 1) \div PGSIZE) * PGSIZE
PGROUNDDOWN(a) == (a \div PGSIZE) * PGSIZE
PDX(a) == a \div (PGSIZE * NPTENTRIES)
PTX(a) == (a \div PGSIZE) % NPTENTRIES

-----------------------------------------------------------------------------
(* kalloc and kfree.  Which frame is taken makes no difference. *)

Kalloc(m) == IF m.free = {} THEN None ELSE Min(m.free)

(* kinit1 and kinit2 give all frames to kfree. *)
Kinit == [free |-> Frames, mem |-> [f \in Frames |-> "junk"], lost |-> {}, twice |-> FALSE]

Use(m, f, content) == [m EXCEPT !.free = @ \ {f}, !.mem[f] = content]

Kfree(m, f) ==
    [m EXCEPT !.free = @ \cup {f}, !.mem[f] = "junk", !.twice = @ \/ f \in m.free]

-----------------------------------------------------------------------------
(* Page tables *)

NoPte == [frame |-> None, user |-> FALSE]
NoTable == [i \in 0..(NPTENTRIES - 1) |-> NoPte]
NoDir == [i \in UserPdes \cup KernPdes |-> None]

(* walkpgdir without alloc, and its test for PTE_P *)
Walkpgdir(m, d, a) ==
    LET t == m.mem[d][PDX(a)] IN IF t = None THEN NoPte ELSE m.mem[t][PTX(a)]

(* mappages of one page; ok tells whether there was a frame for a table. *)
Mappages(m, d, a, f, user) ==
    LET t == m.mem[d][PDX(a)]
        n == Kalloc(m)
        pte == [frame |-> f, user |-> user]
    IN  IF t # None THEN [ok |-> TRUE, m |-> [m EXCEPT !.mem[t][PTX(a)] = pte]]
        ELSE IF n = None THEN [ok |-> FALSE, m |-> m]
        ELSE [ok |-> TRUE,
              m |-> [Use(m, n, [NoTable EXCEPT ![PTX(a)] = pte]) EXCEPT !.mem[d][PDX(a)] = n]]

(* The page tables of the kernel part.  When there is no frame for one of  *)
(* them, setupkvm returns 0 and forgets the frames it has got.             *)
RECURSIVE MapKernel(_, _, _)
MapKernel(m, d, n) ==
    IF n = 0 THEN [d |-> d, m |-> m]
    ELSE LET t == Kalloc(m) IN
         IF t = None
           THEN [d |-> None,
                 m |-> [m EXCEPT !.lost = @ \cup {d} \cup ({m.mem[d][i] : i \in KernPdes} \ {None})]]
           ELSE MapKernel([Use(m, t, "kernel") EXCEPT !.mem[d][Max(UserPdes) + n] = t], d, n - 1)

Setupkvm(m) ==
    LET d == Kalloc(m) IN
    IF d = None THEN [d |-> None, m |-> m] ELSE MapKernel(Use(m, d, NoDir), d, KTables)

RECURSIVE FreePages(_, _, _, _)
FreePages(m, d, a, oldsz) ==
    IF a >= oldsz THEN m
    ELSE IF m.mem[d][PDX(a)] = None
           THEN FreePages(m, d, (PDX(a) + 1) * PGSIZE * NPTENTRIES, oldsz)
    ELSE LET pte == Walkpgdir(m, d, a) IN
         FreePages(IF pte = NoPte THEN m
                   ELSE [Kfree(m, pte.frame) EXCEPT !.mem[m.mem[d][PDX(a)]][PTX(a)] = NoPte],
                   d, a + PGSIZE, oldsz)

(* Mutant: the page that newsz ends in is freed as well. *)
Deallocuvm_RoundDown(m, d, oldsz, newsz) ==
    IF newsz >= oldsz THEN [sz |-> oldsz, m |-> m]
    ELSE [sz |-> newsz, m |-> FreePages(m, d, PGROUNDDOWN(newsz), oldsz)]

Deallocuvm(m, d, oldsz, newsz) ==
    IF newsz >= oldsz THEN [sz |-> oldsz, m |-> m]
    ELSE [sz |-> newsz, m |-> FreePages(m, d, PGROUNDUP(newsz), oldsz)]

(* The loop of allocuvm, and what it does with the result r of mappages *)
RECURSIVE AddPages(_, _, _, _), PageAdded(_, _, _, _, _)
AddPages(m, d, a, newsz) ==
    IF a >= newsz THEN [ok |-> TRUE, m |-> m]
    ELSE LET f == Kalloc(m) IN
         IF f = None THEN [ok |-> FALSE, m |-> m]
         ELSE PageAdded(Mappages(Use(m, f, "zero"), d, a, f, TRUE), d, a, newsz, f)

PageAdded(r, d, a, newsz, f) ==
    IF r.ok THEN AddPages(r.m, d, a + PGSIZE, newsz) ELSE [ok |-> FALSE, m |-> Kfree(r.m, f)]

Grown(r, d, oldsz, newsz) ==
    IF r.ok THEN [sz |-> newsz, m |-> r.m]
    ELSE [sz |-> 0, m |-> Deallocuvm(r.m, d, newsz, oldsz).m]

Allocuvm(m, d, oldsz, newsz) ==
    IF newsz >= KERNBASE THEN [sz |-> 0, m |-> m]
    ELSE IF newsz < oldsz THEN [sz |-> oldsz, m |-> m]
    ELSE Grown(AddPages(m, d, PGROUNDUP(oldsz), newsz), d, oldsz, newsz)

(* inituvm: the page of the first program, at address 0 *)
Inituvm(m, d) ==
    LET f == Kalloc(m) IN Mappages(Use(m, f, "zero"), d, 0, f, TRUE).m

KfreeAll(m, S) == FoldSet(LAMBDA f, x : Kfree(x, f), m, S)

(* Mutant: the page tables are not freed. *)
Freevm_KeepsTables(m, d) == Kfree(FreePages(m, d, 0, KERNBASE), d)

FreeTables(m, d) == KfreeAll(m, {m.mem[d][i] : i \in DOMAIN m.mem[d]} \ {None})

Freevm(m, d) == Kfree(FreeTables(FreePages(m, d, 0, KERNBASE), d), d)

(* When mappages finds no frame for a table, the copy of the page is lost. *)
RECURSIVE CopyPages(_, _, _, _, _), PageCopied(_, _, _, _, _, _)
CopyPages(m, from, d, a, sz) ==
    IF a >= sz THEN [d |-> d, m |-> m]
    ELSE LET f == Kalloc(m)
             pte == Walkpgdir(m, from, a)
         IN  IF f = None THEN [d |-> None, m |-> Freevm(m, d)]
             ELSE PageCopied(Mappages(Use(m, f, m.mem[pte.frame]), d, a, f, pte.user), from, d, a, sz, f)

PageCopied(r, from, d, a, sz, f) ==
    IF r.ok THEN CopyPages(r.m, from, d, a + PGSIZE, sz)
    ELSE [d |-> None, m |-> [Freevm(r.m, d) EXCEPT !.lost = @ \cup {f}]]

CopyTo(k, from, sz) == IF k.d = None THEN k ELSE CopyPages(k.m, from, k.d, 0, sz)

Copyuvm(m, d, sz) == CopyTo(Setupkvm(m), d, sz)

(* copyout writes to pages that are present and that the user may use. *)
RECURSIVE Copyout(_, _, _, _)
Copyout(m, d, va, len) ==
    LET a == PGROUNDDOWN(va)
        pte == Walkpgdir(m, d, a)
    IN  IF len <= 0 THEN [ok |-> TRUE, m |-> m]
        ELSE IF ~pte.user THEN [ok |-> FALSE, m |-> m]
        ELSE Copyout([m EXCEPT !.mem[pte.frame] = "args"], d, a + PGSIZE, len - (a + PGSIZE - va))

-----------------------------------------------------------------------------
(* exec *)

RECURSIVE LoadPages(_, _, _, _)
LoadPages(m, d, a, end) ==
    IF a >= end THEN m
    ELSE LoadPages([m EXCEPT !.mem[Walkpgdir(m, d, a).frame] = "text"], d, a + PGSIZE, end)

(* The loop over the program headers.  A segment has vaddr, memsz, filesz  *)
(* and short, which says that loaduvm cannot read all of it.               *)
RECURSIVE LoadSegs(_, _, _, _), LoadSeg(_, _, _)
LoadSegs(m, d, sz, segs) ==
    IF segs = <<>> THEN [ok |-> TRUE, sz |-> sz, m |-> m]
    ELSE LET s == Head(segs)
             end == (s.vaddr + s.memsz) % (2 * KERNBASE)
         IN  IF s.memsz < s.filesz \/ end < s.vaddr THEN [ok |-> FALSE, sz |-> sz, m |-> m]
             ELSE LoadSeg(Allocuvm(m, d, sz, end), d, segs)

LoadSeg(r, d, segs) ==
    LET s == Head(segs) IN
    IF r.sz = 0 \/ s.vaddr % PGSIZE # 0 \/ s.short THEN [ok |-> FALSE, sz |-> r.sz, m |-> r.m]
    ELSE LoadSegs(LoadPages(r.m, d, s.vaddr, s.vaddr + s.filesz), d, r.sz, Tail(segs))

Clearpteu(m, d, a) == [m EXCEPT !.mem[m.mem[d][PDX(a)]][PTX(a)].user = FALSE]

(* The new image of a program with segments segs and len bytes of          *)
(* arguments, in a page directory of its own; sz is 0 if there is none.    *)
(* Each stage takes the result of the one before, or goes to bad.          *)
Bad(m, d) == [sz |-> 0, d |-> None, m |-> IF d = None THEN m ELSE Freevm(m, d)]

WithArgs(o, d, sz) == IF ~o.ok THEN Bad(o.m, d) ELSE [sz |-> sz, d |-> d, m |-> o.m]

WithStack(t, d, len) ==
    IF t.sz = 0 THEN Bad(t.m, d)
    ELSE WithArgs(Copyout(Clearpteu(t.m, d, t.sz - 2 * PGSIZE), d, t.sz - len, len), d, t.sz)

WithSegs(s, d, len) ==
    IF ~s.ok THEN Bad(s.m, d)
    ELSE WithStack(Allocuvm(s.m, d, PGROUNDUP(s.sz), PGROUNDUP(s.sz) + 2 * PGSIZE), d, len)

WithDir(k, segs, len) ==
    IF k.d = None THEN Bad(k.m, None) ELSE WithSegs(LoadSegs(k.m, k.d, 0, segs), k.d, len)

NewImage(m, segs, len) == WithDir(Setupkvm(m), segs, len)

-----------------------------------------------------------------------------
(* System calls *)

Commit(m) ==
    /\ free' = m.free /\ mem' = m.mem /\ lost' = m.lost /\ twice' = m.twice

Unused == [state |-> "unused", sz |-> 0, kstack |-> None, pgdir |-> None]

Live(p) == proc[p].state = "live" /\ p \notin gone

PagesOf(m, d, sz) == [i \in 0..(PGROUNDUP(sz) \div PGSIZE - 1) |->
                        m.mem[Walkpgdir(m, d, i * PGSIZE).frame]]

(* fork, with allocproc; the child goes to the first free slot.  k is its  *)
(* kernel stack, c the result of copyuvm.                                  *)
Forked(p, q, k, c) ==
    IF c.d = None THEN Commit(Kfree(c.m, k)) /\ UNCHANGED <<proc, image>>
    ELSE /\ Commit(c.m)
         /\ proc' = [proc EXCEPT ![q] = [state |-> "live", sz |-> proc[p].sz,
                                         kstack |-> k, pgdir |-> c.d]]
         /\ image' = [image EXCEPT ![q] = image[p]]

Fork(p) ==
    /\ Live(p)
    /\ \E q \in Slots :
        /\ proc[q].state = "unused" /\ \A r \in Slots : r < q => proc[r].state # "unused"
        /\ LET k == Kalloc(Machine) IN
           /\ k # None
           /\ Forked(p, q, k, Copyuvm(Use(Machine, k, "kstack"), proc[p].pgdir, proc[p].sz))
    /\ UNCHANGED gone

(* exec of a readable program; the old image is freed at the end. *)
Switched(p, r) ==
    IF r.sz = 0 THEN Commit(r.m) /\ UNCHANGED <<proc, image>>
    ELSE /\ Commit(Freevm(r.m, proc[p].pgdir))
         /\ proc' = [proc EXCEPT ![p].sz = r.sz, ![p].pgdir = r.d]
         /\ image' = [image EXCEPT ![p] = PagesOf(r.m, r.d, r.sz)]

Exec(p, prog) ==
    /\ Live(p)
    /\ Switched(p, NewImage(Machine, prog.segs, prog.len))
    /\ UNCHANGED gone

(* sbrk and growproc.  When deallocuvm returns 0 as the new size, growproc *)
(* takes it for an error and keeps the old one.                            *)
Resized(p, n, r) ==
    /\ Commit(r.m)
    /\ IF r.sz = 0
         THEN /\ gone' = IF n < 0 THEN gone \cup {p} ELSE gone
              /\ UNCHANGED <<proc, image>>
         ELSE /\ proc' = [proc EXCEPT ![p].sz = r.sz]
              /\ image' = [image EXCEPT ![p] =
                   [i \in 0..(PGROUNDUP(r.sz) \div PGSIZE - 1) |->
                      IF i \in DOMAIN @ THEN @[i] ELSE "zero"]]
              /\ UNCHANGED gone

Sbrk(p, n) ==
    /\ Live(p)
    /\ LET sz == proc[p].sz
           new == (sz + n) % (2 * KERNBASE)
       IN  Resized(p, n, IF n > 0 THEN Allocuvm(Machine, proc[p].pgdir, sz, new)
                         ELSE Deallocuvm(Machine, proc[p].pgdir, sz, new))

(* The program stores something in a page that it may use. *)
Store(p, a) ==
    /\ Live(p) /\ a < PGROUNDUP(proc[p].sz)
    /\ LET pte == Walkpgdir(Machine, proc[p].pgdir, a) IN
       /\ pte.user
       /\ mem' = [mem EXCEPT ![pte.frame] = "data"]
    /\ image' = [image EXCEPT ![p][a \div PGSIZE] = "data"]
    /\ UNCHANGED <<free, proc, lost, twice, gone>>

Exit(p) ==
    /\ proc[p].state = "live"
    /\ proc' = [proc EXCEPT ![p].state = "zombie"]
    /\ UNCHANGED <<free, mem, lost, twice, image, gone>>

(* wait finds p. *)
Reap(p) ==
    /\ proc[p].state = "zombie"
    /\ Commit(Freevm(Kfree(Machine, proc[p].kstack), proc[p].pgdir))
    /\ proc' = [proc EXCEPT ![p] = Unused]
    /\ image' = [image EXCEPT ![p] = <<>>]
    /\ gone' = gone \ {p}

-----------------------------------------------------------------------------
(* Which addresses the argument functions of syscall.c accept *)

Fetchint(p, addr) == ~(addr >= proc[p].sz \/ (addr + 4) % (2 * KERNBASE) > proc[p].sz)

(* Mutant: only the end of the block is compared with sz. *)
Argptr_EndOnly(p, i, size) == ~(size < 0 \/ (i + size) % (2 * KERNBASE) > proc[p].sz)

Argptr(p, i, size) ==
    ~(size < 0 \/ i >= proc[p].sz \/ (i + size) % (2 * KERNBASE) > proc[p].sz)

(* fetchstr accepts a string that ends below sz. *)
Fetchstr(p, addr, len) == addr < proc[p].sz /\ addr + len < proc[p].sz

-----------------------------------------------------------------------------
(* userinit: one process with a page *)
Init ==
    LET k == Kalloc(Kinit)
        s == Setupkvm(Use(Kinit, k, "kstack"))
        m == Inituvm(s.m, s.d)
    IN  /\ free = m.free /\ mem = m.mem /\ lost = {} /\ twice = FALSE
        /\ proc = [p \in Slots |-> IF p = Min(Slots)
                     THEN [state |-> "live", sz |-> PGSIZE, kstack |-> k, pgdir |-> s.d]
                     ELSE Unused]
        /\ image = [p \in Slots |-> IF p = Min(Slots) THEN [i \in {0} |-> "zero"] ELSE <<>>]
        /\ gone = {} /\ calls = 0

Next ==
    /\ calls < MaxCalls /\ calls' = calls + 1
    /\ \E p \in Slots :
        \/ Fork(p) \/ Exit(p) \/ Reap(p)
        \/ \E prog \in Programs : Exec(p, prog)
        \/ \E n \in SbrkArgs : Sbrk(p, n)
        \/ \E i \in StorePages : Store(p, i * PGSIZE)

Spec == Init /\ [][Next]_vars

-----------------------------------------------------------------------------
(* Properties *)

(* Everything that refers to a frame: <<slot, kind, index, frame>> *)
Uses ==
    UNION {IF proc[p].state = "unused" THEN {}
           ELSE LET d == proc[p].pgdir
                    tabs == {i \in DOMAIN mem[d] : mem[d][i] # None}
                IN  {<<p, "kstack", 0, proc[p].kstack>>, <<p, "pgdir", 0, d>>}
                    \cup {<<p, "table", i, mem[d][i]>> : i \in tabs}
                    \cup UNION {{<<p, "page", i * NPTENTRIES + j, mem[mem[d][i]][j].frame>> :
                                   j \in {j \in DOMAIN mem[mem[d][i]] : mem[mem[d][i]][j] # NoPte}} :
                                i \in tabs \cap UserPdes}
           : p \in Slots}

(* Every frame is free, or has one use in one process, or is one of those   *)
(* that the two leaks have lost (setupkvm at vm.c:141, copyuvm at           *)
(* vm.c:342); none is freed twice.  It holds whatever the call at which     *)
(* memory ran out, fork and exec included.                                  *)
FramesOwnedOnce ==
    LET used == {u[4] : u \in Uses} IN
    /\ \A u, v \in Uses : u[4] = v[4] => u = v
    /\ used \cup free \cup lost = Frames
    /\ used \cap (free \cup lost) = {} /\ free \cap lost = {}
    /\ ~twice

(* A process finds in its memory what it put there, or what exec or sbrk    *)
(* did, whatever others do: its pages are those below sz, fork gives the    *)
(* child copies, and a failed exec or sbrk leaves all as it was.            *)
MemoryKept ==
    \A p \in Slots : Live(p) =>
        /\ {u[3] : u \in {u \in Uses : u[1] = p /\ u[2] = "page"}} = DOMAIN image[p]
        /\ \A i \in DOMAIN image[p] :
             mem[Walkpgdir(Machine, proc[p].pgdir, i * PGSIZE).frame] = image[p][i]
        /\ PGROUNDUP(proc[p].sz) \div PGSIZE = Cardinality(DOMAIN image[p])

(* Whatever address and length a system call is passed, what fetchint,      *)
(* argptr and fetchstr let through lies in pages that are present, although *)
(* they look at sz only and add uints that wrap (syscall.c:20, 61).         *)
ArgumentsPresent ==
    \A p \in Slots : Live(p) =>
        LET Present(a, n) == \A i \in a..(a + n - 1) :
                             i < KERNBASE /\ Walkpgdir(Machine, proc[p].pgdir, i) # NoPte
        IN  \A a \in Uint :
              /\ Fetchint(p, a) => Present(a, 4)
              /\ \A n \in -KERNBASE..(KERNBASE - 1) :
                    /\ Argptr(p, a, n) => Present(a, n)
                    /\ n >= 0 /\ Fetchstr(p, a, n) => Present(a, n + 1)

=============================================================================
