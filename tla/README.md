# Verification of the xv6 kernel with signals and user-level threads

The repository is an xv6 kernel (x86) to which signals, `alarm` and a
user-level thread library with binary and counting semaphores were added. This
directory models the kernel, the thread library, the shell and the tool that
makes the disk image in TLA+, checks the models with TLC on small instances, and
proves the main safety properties of the counting semaphore, the buffer cache,
the log, pipes, the scheduler and the process table with TLAPS for instances of
any size.

## The source that is modelled

The repository contains unresolved merge conflicts (`HEAD` against `d445f14`)
in `Makefile`, `defs.h`, `proc.c`, `proc.h`, `sanity.c`, `trap.c`,
`trapasm.S`, `uthread.c` and `uthread.h`, so it does not compile as it stands.
The models follow the `HEAD` side everywhere. In `proc.c` the signal code is
there twice; the second copy (from line 743) uses the names of the `HEAD` side
of `proc.h` and agrees with the patch file `305013518_201664737`, so it is the
one modelled. The Makefile starts the emulator with one CPU; the kernel
supports eight, and `Sched` and `Proc` are checked with two.

## Parts of the system

| part | source | state | modelled in |
|---|---|---|---|
| counting semaphores | uthread.c 441-482 | `val`, two binary semaphores | CSem |
| user-level threads | uthread.c | thread table, alarm, semaphore rings | UThread |
| redo log | log.c | header and blocks on disk, `log.lh`, outstanding operations | Log, LogSpace |
| spinlocks, sleep locks, scheduler | spinlock.c, sleeplock.c, proc.c, trap.c | locks, interrupt state of each CPU, process states | Sched |
| process life cycle | proc.c, sysproc.c | process table, memory, clock | Proc |
| pipes | pipe.c, file.c | ring buffer, open ends, sleepers | Pipe |
| open files, inodes, directories, paths | file.c, fs.c, sysfile.c | file table, inode cache, inodes on disk, directory entries | Inode |
| file contents, disk blocks | fs.c, file.c | bitmap, block addresses, offsets of open files | FileData |
| signals and alarms | proc.c 743-955, sysproc.c, syscall.c, trapasm.S | pending, handlers, alarmFlag, trap frame, user stack | Signals; as the thread library uses them in UThread |
| buffer cache, disk driver | bio.c, ide.c, memide.c | buffers, LRU list, request queue, disk | Buf |
| kernel memory, page tables, exec, system call arguments | kalloc.c, vm.c, exec.c, proc.c, syscall.c | free list, contents of frames, process sizes | Memory |
| console | console.c | input ring, readers, cursor | Console |
| user malloc | umalloc.c | circular free list, break | UMalloc |
| shell | sh.c | command tree, processes, their descriptors, pipes | Shell |
| image of the file system | mkfs.c | inodes, bitmap, sectors | Mkfs |
| boot, other devices, formatted output, other user programs | the rest | see Not modelled | no |

How they interact: the timer interrupt (trap.c) advances `ticks`, decrements
every process's alarm and sends SIGALRM; delivery of SIGALRM enters
`uthread_schedule`, which switches threads inside the process. Kernel code waits
with `sleep` and `wakeup` on top of `ptable.lock`; the log, pipes, sleep locks
and `wait` are its users. `Sched` checks sleep and wakeup themselves, statement
by statement; the other modules take from it that `sleep(chan, lk)` releases
`lk` and goes to sleep in one step. System calls on files run inside log
operations (`begin_op`, `end_op`), several of them at a time, so the log does not
keep them from interleaving; `Inode` and `FileData` rely on sleep locks alone.
The log pins blocks in the buffer cache with `B_DIRTY` (`LogWrite` is an action of
`Log` and of `Buf`), and the cache's buffers go through the driver's queue to the
disk. The shell gets its lines from the console, and its children their input
from pipes that end when the last writing descriptor is closed.

## Modules

* **BinSem** is what `bsem_down` and `bsem_up` promise: a bit and a queue, with
  hand-off (a raise with waiters passes the semaphore on and leaves `s` at 0).
  **CSem** uses it twice, and **UThread** implements it.
* **CSem** is `csem_alloc`, `down` and `up`, one step per call of a binary
  semaphore and per access to `val`. `s1` is the lock of `val`, `s2` the gate
  that is open while `val > 0`. **CountingSem** is the abstract semaphore.
* **UThread** is `uthread_init`, `create`, `schedule`, `exit`, `join`, `sleep`,
  `bsem_down` and `bsem_up` on the thread table. Each call starts with `alarm(0)`
  and is one step, because nothing can interrupt it before it turns the alarm on
  or sends itself SIGALRM; the scheduler's loop takes a step per slot, as the
  clock moves while it spins. The trap frames that a switch copies are the value
  of `current`. It assumes what its clients do: semaphores are allocated before
  use and not freed in use, programs do not call `uthread_sleep(0)`, and the
  alarm set at the end of the scheduler does not expire before `sigreturn`.
* **Log** is log.c with the cache contents, the log blocks and the header as
  separate pieces of state; every `bwrite` is a step, and `Crash` can happen at
  any step, during recovery too. **AtomicDisk** is the abstract specification:
  memory, a durable image, and a commit that copies one to the other when no
  operation is under way.
* **LogSpace** is the accounting of log entries alone, without contents, so that
  it can be checked with the real sizes (LOGSIZE = nlog = 30, MAXOPBLOCKS = 10)
  in run log_space_file_write.
  `Log` is shown to implement it (`SpaceAccounting`). In both, an operation may
  log more than the MAXOPBLOCKS that `begin_op` reserves, as `filewrite` does;
  the history `peak` is the most that one has logged.
* **Sched** executes contexts (the kernel stack of a process, or the scheduler of
  a CPU) on CPUs: `acquire` (pushcli, then xchg), `release`, `sched`,
  `scheduler`, `yield`, `sleep`, `wakeup`, sleep locks, and the timer interrupt
  wherever interrupts are on. The tables `Acquires` and `Releases` list the
  places that take and give back spinlocks. The owner that a sleep lock keeps for
  debugging is left out, and the two uses of `ptable.lock` by the clock handler
  are one. Two more things are coarser than the code: `tickslock`, which the clock
  handler takes before (trap.c:52), is left out, and a process that runs for the
  first time is not interrupted between the release in `forkret` and `trapret`
  (proc.c:609-621), where it holds no lock.
* **Proc** is the process table: `fork` in the steps between which it holds no
  lock, with no slot or either allocation failing, `exit`, `wait`, `kill`,
  `sys_sleep` and the clock. Process 1 runs init.c: it forks a shell, waits until
  that has exited (`shell` is its variable `pid`), and exits if fork fails, which
  `exit` answers with a panic. The contents of memory are left out:
  memory is a set of owners. What `fork` and `exit` do with open files and the
  current directory is in `Inode`.
* **Pipe** is `pipewrite`, `piperead`, `pipeclose` and `kill`, byte by byte, with
  uint counters that wrap; **Fifo** is the queue it implements. The history `news`
  says whether bytes have been put since the readers were last woken, and whether
  their writer has left.
* **Inode** is the inode layer with its system calls: `iget`, `ilock`, `iput`,
  `ialloc`, `namex`, and `link`, `unlink`, `create` (for `open`, `mkdir` and
  `mknod`), `open`, `close`, `dup`, `chdir`, and the parts of `fork` and `exit`
  that concern files. A section under one sleep lock is a step; `iput` is three,
  because it releases `icache.lock` while it frees an inode, and `ialloc` is a
  step per inode it looks at. The variable `l` holds the local variables of the
  calls, so that references can be counted; its field `then` is the return
  address of `iput`. A panic stops the model, as it stops the kernel. Inodes on
  disk are what the buffer cache holds; a directory is a function from names,
  `.` and `..` included.
  Reads and writes of devices, the places of entries in a directory, and
  `filestat` are left out.
* **FileData** is `balloc`, `bfree`, `bmap`, `itrunc`, `readi`, `writei`,
  `fileread` and `filewrite`. A step ends where a buffer is released, so two
  files allocate and free blocks in between each other. The bytes of a block are
  the names of the processes that wrote them. A block is both bytes and
  addresses, because the addresses that a block held as an indirect block
  survive its being freed. `content` is a history of the completed chunks.
* **Buf** is `bget`, `bread`, `bwrite` and `brelse`, the pinning of buffers by
  `log_write`, and below them `iderw` and `ideintr` with their queue, or the memory
  disk. A section under `bcache.lock` or `idelock` is a step, so `brelse` is two.
  `lru[i]` is the place of buffer i in the list. `last` and `damaged` are
  histories: what was written last, and which buffers a failed read left.
* **Memory** has the contents of every frame: page directories, page tables and
  pages are all values of `mem`. `Kalloc` to `Copyuvm` are functions from a
  machine (free frames and memory) to a machine and a result, composed the way
  the code calls them; `Fork`, `Exec`, `Sbrk`, `Exit` and `Wait` are the actions.
  `lost` collects the frames of the two leaks, `image` is what a process has put
  in its pages, `gone` marks processes that gave back all memory with sbrk.
* **Console** is `consoleintr` and `consoleread` on the ring, with indices that
  wrap, and the cursor of `cgaputc` for every echo and `consolewrite`.
* **UMalloc** is `malloc`, `free` and `morecore` on the circular list. Other users
  of `sbrk` may leave gaps in the heap, and `sbrk` may fail.
* **Signals** is one process that takes signals: `sigsend`, `signal` and `alarm`,
  calls that sleep in the kernel, the clock, `checkPEndingSignals`, which pushes the trap frame, the code that
  calls `sigreturn` and the arguments on the user stack, the handler's own
  instructions that move `esp` and `ebp`, and `sigreturn`, which finds the frame
  from `ebp`. The trap frame is one word of the stack.
* **Shell** is the parser, as recursive operators that follow `parseline`,
  `parsepipe`, `parseexec` and so on, with its fixed `MAXARGS`; and `runcmd`, one
  step per system call, on processes with descriptor tables and pipes. `fork` and
  `pipe` fail when their tables are full. Lines follow each other while commands
  run in the background, and at the end of the input, or when its own `fork`
  fails, the shell exits and init starts another. Programs are external: they read
  a pipe to its end and exit.
* **Mkfs** is `main`, `ialloc`, `iappend` and `balloc`, one step per piece that a
  file is read in.
* **MCx** gives the constants of module x their values. Three of them put
  components side by side that do not interact, to ask of all of them in one run:
  **MCThreads** (CSem, UThread), **MCResources** (Buf, LogSpace, Memory, Mkfs,
  Console, UMalloc) and **MCPrograms** (Shell, Signals). Their variable `part`
  chooses one in the initial state; the others never move.
* **CSemProofs**, **LogSpaceProofs**, **BufProofs**, **SchedProofs**, **LogProofs**,
  **PipeProofs** and **ProcProofs** have the theorems and their inductive
  invariants.

Definitions with a suffix (`DownTest_NoReopen`) and the comment "Mutant" are
plausible mistakes that are not part of the specification: each is a changed
version of the definition it precedes, under which the named property fails.

## Runs

| run | checks | instance |
|---|---|---|
| threads | NoUnitForgotten, IsCountingSemaphore; ThreadTableConsistent, JoinWaitsForExit, RingIsBinSem, ThreadsProgress | CSem: 3 threads, initial value 2, `up` while val < 3. UThread: table of 3, 3 threads over a run, 1 semaphore, quantum 1, sleeps up to time 1. 85690 states |
| log | SleepersHaveWaker, CrashAtomic, SpaceAccounting | 2 processes, 3 blocks, 2 values, a log of 4, 2 reserved for operations of up to 3 blocks; 887504 states |
| sched | StacksAndLocksExclusive, NoLostWakeup, InterruptsRestored | 2 CPUs, 3 processes; 817788 states |
| proc | FamiliesIntact, KilledExits, OrphansReaped | 2 CPUs, 3 slots, pids up to 4, a clock modulo 2; 41710 states |
| pipe | SleepersHaveReason, NoUseAfterFree, IsFifo | 2 readers and 2 writers among 3 processes, 2 bytes of buffer, counters modulo 4, calls for 1 and 3 bytes; 2301056 states |
| inode | RefsCounted, LinksMatch, AllocatedIffReachable | 2 processes, 3 inodes, 1 open file, 2 descriptors each, four sets of calls with paths from a, /a, /b, /a/b, . and ..; 1001450 states |
| file_data | BlocksOwned, ContentAsWritten, ReadsExact | 2 processes, 2 files, 3 open files, 5 blocks of 2 bytes, 1 direct and 2 indirect addresses, calls for 1 and 3 bytes, 4 calls; 847164 states |
| resources | ReadsSeeLastWrite, SleepersAreQueued (Buf); ReservationSuffices (LogSpace); FramesOwnedOnce, MemoryKept, ArgumentsPresent (Memory); ImageConsistent (Mkfs); RingHoldsInput, ReaderSleepsWithReason (Console); HeapPartitioned (UMalloc) | see below; 448907 states |
| programs | ResumesInterrupted, SignalsDelivered (Signals); ParseFollowsGrammar, ProgramsWired, PromptAfterForeground, PromptReturns (Shell) | see below; 76928 states |
| log_space_file_write | NoPanic, violated | real sizes, the 17 blocks of filewrite |
| inode_reuse | CreatedIsAllocated, violated | 2 processes that create, close and unlink |
| signals_eax | ContextRestored, violated | 2 signals |

Instances of `resources`: Buf has 2 processes, 2 buffers, 3 blocks and 2 values, on
either driver; LogSpace has a log of 9 with 3 reserved for operations of up to 4
blocks (three operations fit, as with the real sizes) and 3 processes; Memory has 15 frames, pages of 2 bytes, page tables of 2 entries, 2
processes, 8 executables of which 5 are bad, and up to 7 calls; Mkfs makes images
of 16 blocks of 2 entries from up to 4 files of up to 7 units; the console's ring
has 3 characters, its indices are modulo 6, 2 processes read and 4 characters are
typed; the heap of UMalloc has 13 units. Instances of `programs`: 2 signals (one
the alarm's), 2 calls of `sigsend`, `signal` or `alarm`; the shell is given all
lines of up to 3 of 9 characters and 10 longer ones, each that has a `&` followed
by a second line, some by a third, with 2 arguments at most, 6 processes and 6
descriptors.

Why the bounds are enough: three threads allow a thread at the gate, one inside
the lock and one in `up`, or two in the queue of the gate, with the value going up
to 3 and down to 0; the proofs do not depend on their number. Three slots make the scheduler, the rings and the slots of exited threads
wrap and be used again, and let the table be full. Three blocks with operations
of up to three make transactions overlap in one block and absorb. In run log
operations exceed their reservation and panic, but three blocks cannot overflow a
log of four, so the condition of `CrashSafe` always holds there. In run resources
at most three operations fit the log's reservation, and operations log less, as
much and more than is reserved. Writes of 3 bytes into a buffer of 2 sleep
in the middle; counters modulo 4 wrap twice in the time the buffer wraps once
more. Three slots are the least with a grandchild, an orphan and a slot used
twice; with two CPUs a process is killed while it is in the middle of a call, also
between the test of `killed` in `sys_sleep` and the sleep. Three inodes are the
root, a directory and a file or directory in it, or two files; all
are in use at times, so that `ialloc` also finds none. Each behaviour of `inode` draws
one of four sets of calls and paths (sharing of open files; links, with files that
have two names, in one directory or in two; current directories that go away, and
`..`; open files with two names), which together contain all calls; calls from
different sets are not interleaved. The run does not go on after one of the three
accidents that `ill` records (see below). Blocks of 2 bytes and calls for 3 make
every longer call cross a block, a chunk and the border between direct and
indirect addresses; five blocks are fewer than two files of full size need.

One buffer fewer than blocks makes every miss recycle, and two processes can
have or pin both, so that `bget` panics too. Fifteen frames hold two processes of
different sizes and run out, so that `kalloc` fails and the leaks below happen;
pages of 2 bytes with tables of 2 entries make an address space cross a table.
Files of 7 units use the direct and the indirect blocks of an inode and end on
and off a block's border, as does the root directory. Four characters fill a
ring of 3 and go on; its indices start at 0 or just before they wrap. Blocks of 2
to 4 units in 13 leave free blocks on both sides of one that is freed. Two calls
and the alarm that every process is born with nest three handlers. Six processes are enough for a
pipeline of three and its subshells, and too few for the longest line, where
`fork` fails; two arguments are fewer than the longest command has.

`CHECK_DEADLOCK FALSE` is used where the system may stop: all threads or
processes have exited or wait for a call that the program does not make, the
bound on created threads, pids, calls or characters is used up, or all ends of
the pipe are closed. `Log`, `Sched` and `Inode` are checked for deadlock: in
`Inode`, no two calls wait for each other's inode locks.

### What the violated runs show

* `filewrite` cuts writes for a log of LOGSIZE blocks, but `begin_op` reserves
  MAXOPBLOCKS; concurrent writes can end in `panic("too big a transaction")`.
  `ReservationSuffices` says what is safe: as long as operations log at most
  MAXOPBLOCKS blocks the header does not overflow, and as long as they log fewer
  nothing panics. With exactly the 10 blocks that param.h:11 promises to an
  operation, three of them panic at the thirtieth block: `log.size - 1` is one
  less than LOGSIZE, and the check comes before absorption.
* `iput` frees an unlinked inode on disk (`type = 0`, fs.c:328) while the cache
  entry still has its reference and `I_VALID`. `ialloc` in another process can
  take the inode at that moment; `iget` then finds the old entry, `ilock` does
  not read it again, and `create` writes type 0 back to disk. The new file has a
  name and is not allocated.
* `sigreturn` copies the saved trap frame back, and returns 0. `syscall` stores
  that 0 in `proc->tf->eax`, which belongs to the restored frame by then, so the
  interrupted code goes on with a wrong register. `ResumesInterrupted` says that
  all the rest is restored, also when handlers interrupt each other.

Also seen while modelling, and visible in the models without a run of its own:

* `uthread_create` returns -1 on a full table without turning the alarm on again
  (uthread.c:97), and so does `bsem_up` on a free semaphore (uthread.c:422): the
  running thread is not preempted any more (`AlarmLost` in `UThread`, which
  `ThreadsProgress` excepts). The counting semaphores never do the latter
  (`UpsFindSemaphoreTaken`).
* `copyuvm` loses a page when there is no memory for a page table (vm.c:341), and
  `setupkvm` loses what it has allocated (vm.c:139). `FramesOwnedOnce` holds with
  exactly these frames in `lost`.
* `sbrk` to exactly 0 frees all pages and then fails, since `growproc` takes the
  size 0 for an error (proc.c:156): the process keeps its `sz` (`gone`).
* A failed read marks a buffer valid (ide.c:119-124): `ReadsSeeLastWrite` excepts
  the buffers in `damaged`.
* `mkfs` rounds the size of the root directory up even when its entries fill
  their blocks (mkfs.c:161): the last block has no address. `ImageConsistent` says
  that this happens then and only then.
* In the shell `>>` is the same as `>`; of two redirections of a descriptor the
  first one on the line wins; and when the second `fork` of a pipeline fails the
  shell's child panics without waiting for the left side.
* `alarm` counts in a field whose idle value is -1 as an unsigned number
  (proc.c:82); proc.h:77 says 0. `isHandlingsignal` is tested and never set, so
  handlers nest.
* `kill` looks at pids only. Free slots have pid 0, or keep the pid of a fork
  that failed, and `allocproc` does not clear `killed`: the next process in the
  slot is killed at birth.
* A kill that comes between the test of `proc->killed` and `sleep` in `piperead`,
  `pipewrite` or `consoleread` wakes nothing; the process sleeps on until the other
  end, or the keyboard, acts. In `sys_sleep` the next tick wakes it, so `KilledExits`
  holds there.
* A writer that has put bytes, finds the pipe full and has been killed returns
  without waking the reader (pipe.c:86-88). That is the one wakeup that is lost:
  `SleepersHaveReason` excepts a reader beside bytes that were left in this way
  (`news = "left"`), and no other.
* init exits when its fork fails (init.c:25-28), and `exit` panics for init: no
  memory for a new shell stops the kernel. `KilledExits` and `OrphansReaped` have
  that panic as their alternative.
* A failed malloc in `uthread_create` leaves `numOfThreads` one too high, so that
  the process does not exit with its last thread.
* `create` and `link` do not look whether the directory they write to has been
  removed meanwhile ("stray" in `ill`): the entry disappears with the directory
  and the inode stays allocated for good.
* The `..` of a removed directory stays in it but counts neither as link nor as
  reference: when its parent is removed as well, a path through `..` leads to a free
  inode, and `ilock` panics ("orphan" in `ill`). mkdir /a, mkdir /a/b, chdir /a/b,
  unlink /a/b, unlink /a, chdir .. is the shortest way there that TLC finds.

The properties of `Inode` except these two and the accident of run inode_reuse
("reuse"), and hold otherwise; the reference counts are stated with them.

## Fairness

* `CSem`: once the threads make no new calls of `down` and `up` (`Settled`), a
  thread that is awake inside one keeps running, since the scheduler is round
  robin and preempts with SIGALRM. Before that nothing is assumed, because
  `bsem_down` and `bsem_up` start a new quantum (uthread.c:406, 426, 437), so that
  a thread that keeps calling need not be preempted. The fairness of `CountingSem`
  is promised under the same condition.
* `UThread`: the scheduler's loop goes on, ticks come, and a pending SIGALRM is
  delivered. `ThreadsProgress` excepts the executions in which
  running threads restart their quantum by endless library calls, and those in
  which the alarm is lost: the code does not prevent either.
* `Proc`: the clock ticks and preempts, the scheduler comes round to every
  runnable process, processes go on in the kernel, a killed process traps at the
  next tick, and init makes the calls of its loop (init.c). Strong fairness is
  the round robin of the scheduler: who is RUNNABLE again and again is run.
* `Signals`: the timer interrupts the process in user mode again and again, and
  every return to user mode looks for a signal, which is strong fairness for a
  process that sleeps in between; handlers run on to their return. That what a
  call sleeps for ever happens is not assumed: `SignalsDelivered` speaks of
  processes that do not sleep for good, as `sigsend` wakes nobody.
* `Shell`: every process of the command goes on, as the kernel's scheduler is
  round robin; a process that reads a pipe waits for its end.

No fairness is stated for the others: `Sched`, `Log`, `Pipe`, `Buf` and `Console`
say with invariants that nobody sleeps without a reason or a waker.

## Proofs

`CSemProofs` proves, for any set of threads and any `InitVal` and `MaxVal` in
`Nat` (the only assumptions):

* `TypeCorrect`, `MutualExclusion`, `NoOverdraft`, `UpsFindSemaphoreTaken` and
  `UnitsAreServed`: `val` is locked, never negative, no raise finds its semaphore
  free, and at rest the gate is open exactly when units are left;
* `Refinement`: `Spec => Abstract!Spec`, every step of `down` and `up` is a step
  of the abstract counting semaphore or leaves it alone.

None of the invariants is inductive. The inductive one, `IInv`, says that while
`val > 0` there is exactly one token: the open gate `s2`, or one thread on its way
from the gate to `val--` or on its way to raise the gate (`GateInv`); that `s1`
is taken exactly while one thread is between its `bsem_down(s1)` and
`bsem_up(s1)`, awake (`LockInv`); and that a thread is in at most one queue, once,
at the statement after the call it sleeps in (`QueuesInv`). The token is what
relates the test `val == 1` in `up` to a thread that has passed the gate and not
decremented yet. The lemmas on `BinSem` say what a raise and a lower do to the
set of waiting threads; `StepIInv` has one step per action.

`LogSpaceProofs` proves `ReservationSafe` (ReservationSuffices) for any finite set
of processes and all sizes that satisfy `Sizes`, among them those of param.h,
whatever operations log: until one has logged more than MAXOPBLOCKS blocks the
header does not overflow, and until one has logged MAXOPBLOCKS nothing panics.
That is tight: TLC finds the panic with MAXOPBLOCKS. The bound on n is not
inductive. The invariant counts credits: if no operation has logged more than K
blocks, one under way holds a credit for each block up to K that it has not
entered yet. `LogWrite` turns a credit into an entry, so only `BeginOp` adds to the
sum of entries and credits. An operation that begins beside others is admitted
with MAXOPBLOCKS for each, and needs K, so at least two times the difference
stays unused; one that begins alone finds the log empty (`Fits`). With
K = MAXOPBLOCKS this is the first half, with K = MAXOPBLOCKS - 1 the second: the
difference pays for the test of `log_write`, which is stricter by one than the
size that `begin_op` reserves from.

`BufProofs` proves `CacheCoherent` (ReadsSeeLastWrite) and `DiskServesSleepers`
(SleepersAreQueued) for any finite set of processes, any blocks and values and
any number of buffers. The inductive invariant says that `refcnt` counts the
processes between `bget` and the end of `brelse`, so that a recycled buffer has no
user; that a sleep lock is held exactly at the labels where it should be; that a
valid buffer holds what was written last; and that the disk does too, except for
the block of a dirty buffer, which is why a dirty one must not be recycled. There
is one lemma per action; `TransferKeeps` is shared by the two drivers.

`SchedProofs` proves `ExclusiveStacks` (StacksAndLocksExclusive), `WakeupsKept`
(NoLostWakeup) and `IntenaTravels` (InterruptsRestored) for any number of CPUs and
processes. The invariant says which locks go with each statement: a CPU holds
`ptable.lock` exactly when the context it executes is at a statement of `WithPt`,
and its `ncli` is the number of locks its context holds or waits for. A process
that is on no CPU is parked behind `sched` (`StackInv`). That is what makes the
hand-over of `ptable.lock` in `swtch` safe: a RUNNABLE process that still runs holds
the lock, so no scheduler can pick it. For lost wakeups it says that a process
that sleeps, or is about to set its state in `sleep`, finds the sleep lock taken or
somebody on the way to `wakeup1`; for `intena`, that what `sched` saved for a parked
process is TRUE.

`PipeProofs` proves `SleepersJustified` (SleepersHaveReason, with its one exception), `PageFreedLast`
(NoUseAfterFree) and `RingIsFifo` (IsFifo, that `Pipe` implements `Fifo`) for any
processes, any `PIPESIZE` and any width of the counters that `PIPESIZE` divides.
`EndsInv` says that an end stays open while a process has it or is closing it, and
that the one who closes it last is alone; `SleepInv` why a process sleeps, or
which process will wake it before it gives up the lock. The refinement needs the
arithmetic of the ring: `RingPut` and `RingGet` say what storing at
`nwrite % PIPESIZE` and advancing a counter modulo `UMod` do to the sequence of
bytes, from `DivMod` alone.

`LogProofs` proves, for any finite set of processes, any blocks and values, and
operations that log any number of blocks (`Constants`):

* `SleepersWoken` (SleepersHaveWaker), and `SpaceAccounted` (SpaceAccounting, that
  `Log` implements `LogSpace`), from `OpInv` and `WroteInv`: `outstanding` counts
  the operations, at most one process commits, nobody is in an operation
  meanwhile, and what an operation wrote is in the log;
* `LogNeverPanics`, with the sizes of param.h or the like (`Sizes`): until an
  operation has logged MAXOPBLOCKS blocks nothing panics and the log fits. It
  comes from the refinement of `LogSpace` and the theorem of `LogSpaceProofs`;
* `CrashSafe` (CrashAtomic, that `Log` implements `AtomicDisk`) for the behaviours
  in which the log always fits (`LogFits`), panics included. With that bound
  `ContentInv` is inductive: at each statement of commit and of recovery it
  says which log blocks hold the cached contents and which home blocks hold the
  logged ones. The disk of `AtomicDisk` is what recovery would make of the disk as it
  is (`Recovered`), so `WriteHead` is the only step that changes it;
* `CrashSafeWithinReservation`, from these two: operations that log fewer than
  MAXOPBLOCKS blocks are crash-atomic. The condition is about operations and not
  about the log, and it is not true of this kernel's `filewrite`, which may log 17
  blocks: for those, `CrashSafe` speaks only where the log has not overflowed, and
  that it may panic is what run log_space_file_write shows.

`ProcProofs` proves, without any assumption beyond the ones of `Proc`,
`FamiliesStayIntact` (FamiliesIntact), `InitLives` (init never becomes a zombie; its exit panics),
`SlotsOwnedOnce` and `MemoryOwned` for any number of slots and CPUs.
FamiliesIntact is inductive only together with who owns a slot in `fork`: `ForkInv`
says that an EMBRYO slot under construction belongs to one process inside `fork`,
that has not exited, and that it has its parent only from `ForkCopy` on. The second part,
`Owned`, says that exactly the started processes, and the slots `fork` has got so
far with, own a kernel stack and a page directory: no path through a failing
`fork`, `exit` and `wait` leaks or frees one twice.

In all modules but `CSemProofs` the assumptions on the constants are a
hypothesis of the theorems (`Constants`, `Sizes`). Where a theorem is about a
property that a run checks, the run checks it by the name the theorem uses, but
for `ReservationSuffices`, which run resources checks through an instance of
`LogSpace`. In the proofs, `Zenon` in a `BY` says that the step is first-order
reasoning about sets and functions; the other leaves need arithmetic, sequences
or records.

Only model-checked: everything else. Liveness, and what recursive definitions
(the parser, the walk of the free list) compute, are outside the prover's reach.
The refinement of `BinSem` by `UThread` and the invariants of `UThread`, `Inode`,
`FileData`, `Memory`, `Mkfs`, `Console`, `UMalloc`, `Signals` and `Shell` are not
proved.

## Not modelled

* Boot, the interrupt controllers, timer and serial port: hardware set-up in a
  fixed order before any concurrency.
* `kbdgetc` and the formatting of `cprintf` and `printf`: conversions that no
  other part depends on. string.c: what it does is part of its callers' steps.
* usertests.c, sanity.c, stressfs.c, forktest.c and the small programs: clients.
  They have no state of their own that survives a call.
* uthreads-oldver.c: not built.
* `bsem_alloc`, `bsem_free` and the descriptors they hand out: they run with the
  alarm on and without any protection; the models start with the semaphores
  allocated, as a program that allocates them before it creates threads does.

## Plan

1. The tail of `uthread_schedule` as a composition of UThread and Signals.
2. Producer and consumer of sanity.c over CSem.
3. The calls of `Inode` and `FileData` inside log operations, with crashes; what
   still holds of link counts when stray entries have been made.
4. Proofs: the reference counts of Inode and the block ownership of FileData.
