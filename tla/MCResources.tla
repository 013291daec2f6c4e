---------------------------- MODULE MCResources -----------------------------
(* The parts of the system that hand out something bounded: buffers (the   *)
(* names of module Buf), page frames, entries of the log, blocks of the    *)
(* image that mkfs makes, the ring of the console, the heap of a program.  *)
(* They do not interact here: a behaviour is one of one of them, chosen by *)
(* part, while the others stay in an initial state.                        *)
EXTENDS Buf, TLC

CONSTANTS
    p1, p2, q1, q2, q3,
    LOGSIZE, NLog, MAXOPBLOCKS, OpBlocks,               \* LogSpace
    NFrames, PGSIZE, NPTENTRIES, KERNBASE, KTables, MaxCalls,   \* Memory
    BSIZE, NDIRECT, NINDIRECT, NMeta, FSSIZE, NInodes, MaxLength,   \* Mkfs
    INPUT_BUF, UintMod, COLS, ROWS, MaxTyped,           \* Console
    HeapStart, HeapEnd, MinCore                         \* UMalloc

VARIABLES
    part,
    n, state, used, peak, committing, logPanicked,
    free, mem, proc, lost, twice, image, gone, calls,
    step, m, files,
    input, reader, pos, overflow, line, edit, typed,
    ptr, size, freep, brk, given, live

Two == {p1, p2}
Three == {q1, q2, q3}
ThreeBlocks == 1..3
TwoValues == {0, 1}

(* A segment of n bytes at v, of which f are in the file *)
Segment(v, k, f) == [vaddr |-> v, memsz |-> k, filesz |-> f, short |-> FALSE]

(* The executables that exec meets: good ones, of one and of two segments, *)
(* with arguments that fit and that do not; a file that is too short, an   *)
(* address that is not aligned, sizes that contradict each other, a sum    *)
(* that wraps; and none.                                                   *)
Executables ==
    {[segs |-> <<Segment(0, 1, 1)>>, len |-> k] : k \in {1, 3}}
    \cup {[segs |-> <<Segment(0, 2, 2), Segment(2, 1, 0)>>, len |-> 2]}
    \cup {[segs |-> s, len |-> 1] : s \in
            {<<[Segment(0, 3, 3) EXCEPT !.short = TRUE]>>, <<Segment(1, 1, 1)>>,
             <<Segment(0, 1, 2)>>, <<Segment(14, 3, 1)>>, <<>>}}

L == INSTANCE LogSpace WITH Procs <- Three, panicked <- logPanicked

M == INSTANCE Memory WITH
        Frames <- 1..NFrames, Slots <- {1, 2}, Programs <- Executables,
        SbrkArgs <- {-7, -2, 1, 2}, StorePages <- {0}

K == INSTANCE Mkfs WITH
        pc <- step, given <- files, Files <- {[i \in 1..k |-> i % 3] : k \in 0..MaxLength}

C == INSTANCE Console WITH
        Readers <- Two, Counts <- {1, INPUT_BUF + 1},
        Chars <- {"x", "\r", "^D", "^U", "^H"}, Outputs <- {<<"x", "x">>}

U == INSTANCE UMalloc WITH Sizes <- {2, 3, 4}

log == <<n, state, used, peak, committing, logPanicked>>
memory == <<free, mem, proc, lost, twice, image, gone, calls>>
mkfs == <<step, m, files>>
console == <<input, reader, pos, overflow, line, edit, typed>>
heap == <<ptr, size, freep, brk, given, live>>

MCInit ==
    /\ part \in {"cache", "log", "memory", "mkfs", "console", "heap"}
    /\ Init /\ L!Init /\ M!Init /\ K!Init /\ C!Init /\ U!Init
    /\ \A k \in DOMAIN disk : disk[k] = 0
    /\ \A i \in 1..NBUF : buf[i].data = 1
    /\ part # "cache" => driver = "ide"
    /\ part # "console" => input.r = 0

MCNext ==
    \/ /\ part = "cache" /\ Next
       /\ UNCHANGED <<part, log, memory, mkfs, console, heap>>
    \/ /\ part = "log" /\ L!Next
       /\ UNCHANGED <<part, vars, memory, mkfs, console, heap>>
    \/ /\ part = "memory" /\ M!Next
       /\ UNCHANGED <<part, vars, log, mkfs, console, heap>>
    \/ /\ part = "mkfs" /\ K!Next
       /\ UNCHANGED <<part, vars, log, memory, console, heap>>
    \/ /\ part = "console" /\ C!Next
       /\ UNCHANGED <<part, vars, log, memory, mkfs, heap>>
    \/ /\ part = "heap" /\ U!Next
       /\ UNCHANGED <<part, vars, log, memory, mkfs, console>>

MCSpec == MCInit /\ [][MCNext]_<<part, vars, log, memory, mkfs, console, heap>>

Symmetry == Permutations(Two)

-----------------------------------------------------------------------------
(* LogSpace: what begin_op has reserved is enough for the operations that   *)
(* keep to it.                                                              *)
ReservationSuffices == part = "log" => L!ReservationSuffices

(* Memory: every frame is free, lost by a known leak, or owned once. *)
FramesOwnedOnce == part = "memory" => M!FramesOwnedOnce

(* Memory: a process finds in its pages what it left there. *)
MemoryKept == part = "memory" => M!MemoryKept

(* Memory: the kernel only touches arguments that are mapped. *)
ArgumentsPresent == part = "memory" => M!ArgumentsPresent

(* Mkfs: the image is a consistent file system. *)
ImageConsistent == part = "mkfs" => K!ImageConsistent

(* Console: the ring holds the input as typed and edited. *)
RingHoldsInput == part = "console" => C!RingHoldsInput

(* Console: a reader sleeps only while there is nothing to read. *)
ReaderSleepsWithReason == part = "console" => C!ReaderSleepsWithReason

(* UMalloc: blocks in use and free blocks split the heap. *)
HeapPartitioned == part = "heap" => U!HeapPartitioned

=============================================================================
