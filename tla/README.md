# A TLA+ verification of xv6

This directory models the kernel in `src/`, its shell, allocator and image
builder, and checks them in two ways. TLC explores small instances completely.
TLAPS proves, for every size of the system, the main safety properties of the
process table, sleep locks, the log, pipes and the buffer cache with its disk
driver, and that the last four implement their abstract specifications. `PROJECT.json` gives, for each definition,
the source lines it models, and lists the hazards of the code with the
properties that would show them going wrong.

## 1. Parts and modules

| Part | Module | What makes it hard |
|---|---|---|
| Spinlocks, interrupts (`spinlock.c`, `trap.c`, `swtch.S`) | `SpinLock` | CPUs interleave, interrupts nest, a lock is handed over by `swtch()` |
| Process table (`proc.c`) | `Proc` | a process is visible while it still runs on its stack; `fork` fails half way |
| Sleep and sleep locks (`sleeplock.c`, `sleep`, `wakeup`) | `SleepLock`, refining `Mutex` | lost and spurious wakeups |
| Log (`log.c`) | `Log`, refining `FsTxn` | power failures, group commit, space reservation |
| Buffer cache, disk driver (`bio.c`, `ide.c`) | `Bcache`, refining `BlockStore` | the disk interrupt against sleepers, recycling |
| Inodes, directories (`fs.c`, `sysfile.c`) | `Inode` | lock order, stale link counts, the last `iput()` |
| File contents (`fs.c`, `file.c`) | `Content` | the shared bitmap, indirect blocks, the size of a transaction |
| Open files (`file.c`, `sysfile.c`) | `Ftable` | counts over `fork` and `exit`, a `pipe()` that fails half way |
| Pipes (`pipe.c`) | `Pipe`, refining `Channel` | wakeups of two sides, index wrap, kill |
| Memory (`kalloc.c`, `vm.c`, `exec.c`) | `Vm` | allocations that fail at every point, lazy `sbrk` |
| Clock (`trap.c`, `sysproc.c`) | `Clock` | the tick between test and sleep, wrap-around |
| Processor start (`main.c`, `entryother.S`, `lapic.c`) | `Boot` | one code page serves all processors, `kalloc` before its lock |
| Console, keyboard (`console.c`, `kbd.c`) | `Console`, `Kbd` | ring indices, editing against reading, modifier keys |
| Shell, init (`sh.c`, `init.c`) | `Parser`, `Shell` | pipe ends left open, orphans, a prompt that does not return |
| User allocator (`umalloc.c`) | `Malloc` | splitting and joining a circular list |
| `mkfs.c` | `Mkfs` | layout arithmetic, the indirect block |
| Functions on text (`string.c`, `fs.c`, `grep.c`, `printf.c`) | `Text` | overlap, boundaries, the most negative integer |
| `ph.c` | `Ph` | threads, a barrier made of a counter |

How they fit together. `Log` runs on buffers, whose locks are sleep locks
(`Bcache` uses the `Mutex` that `SleepLock` implements), which rest on
spinlocks and on `sleep()` and `wakeup()`. `Inode` and `Content` are the two
views of `fs.c`: names and references, and bytes and blocks. `Ftable` holds
the references that `Inode` counts and the pipe ends that `Pipe` reads. `Shell`
uses the trees that `Parser` builds. Components are joined through these
abstract specifications rather than in one product.

## 2. How the models correspond to the code

A step is what no other actor can see in the middle of: a critical section of
a spinlock together with private work around it, a stretch between two points
where the code may sleep, or one disk write where a crash may come between.

* `Log`: what runs under `log.lock` is one step and every disk write is a
  step. `log_write()` is two, because it tests `lh.n` before it takes the lock.
  The cache is reduced to the contents of each block and its dirty flag.
  `FsTxn` promises that one atomic step makes everything written so far
  durable, never while a call is running; the refinement maps durable contents
  to what recovery would produce from the disk.
* `SpinLock` runs the code as instruction lists on kernel stacks. `acquire()`
  and `release()` are cut where another CPU or an interrupt can see a
  difference. Of each call only the locking is kept. `holding()` is one step.
  Memory is sequentially consistent, as the fences in the code intend.
* `Proc` has `ptable.lock` as a variable; what the code does without the lock
  is a step of its own. Every allocation may fail. Sleeping is modelled in
  `wait()`. Files, names and sizes are left out.
* `SleepLock` has both spinlocks as variables, and `kill()` wakes sleepers.
* `Bcache`: critical sections of `bcache.lock` and `idelock`. A kernel path
  that holds two buffers is two members of `Proc`. A read always succeeds: the
  driver ignores an error of `idewait()`. `BlockStore` gives each block one
  value that only its holder changes.
* `Inode`: each call is a sequence of steps from one `ilock()` to the next,
  with the stack of its pending `iput()`s. Paths are sequences of names, none
  of them `..`. There are always free inodes, so `ialloc()` never panics.
* `Content`: a step is one block with the allocations `bmap()` makes for it.
  Indirect blocks hold addresses in the same memory as data, so a block that
  is not cleared would show old bytes as addresses. A full disk is a panic.
* `Ftable`: `fileclose()` works on its copy `ff` after the lock is released.
  `pipe()` and `open()` fail at each point where the code tests for it.
* `Pipe`: `sleep()` is a step of its own after the test of `killed`.
  `Channel` is a bounded queue with an end of file.
* `Vm`: a step is one page. Frames are numbered and taken in any fixed order.
  Two facts of the code are in the model as they are: `copyuvm()` loses a frame
  when `mappages()` fails (`lost`), and a fork after `sbrk()` without touching
  the new page panics (`vm.c:328`). A page fault without memory faults again
  (`trap.c:116`). `sbrk()` with a negative argument frees nothing.
* `Clock`: a woken process is assumed to run within `Lag` ticks, which keeps
  elapsed time finite.
* `Console`, `Kbd`: keys stand for the classes of bytes the code tells apart.
* `Parser` consists of operators on a line; its result is compared with a
  grammar. `nulterminate()` is not needed, since words are not cut out of a
  buffer here. `Shell` runs processes with their descriptors; `cd` is left out,
  and `fork1()` and `pipe()` succeed, their failures being in `Proc` and
  `Ftable`. A program is a filter that ends with its input.
* `Malloc`, `Mkfs`, `Text`, `Ph`, `Boot`: operation by operation. `mkfs`
  checks neither `FSSIZE` nor `NINODES`, so only lists of files that fit are
  given to it. `grep` drops a last line without a newline; only its matcher is
  modelled.

Operators whose comment says "Mutant" are deliberate faults used to confirm
that each property can fail. They are not part of any specification.

## 3. Runs

| Run | Instance | Shows |
|---|---|---|
| `log_crash` | 3 processes, 2 blocks, 2 crashes | the log implements `FsTxn`; the last `end_op()` returns only when all is durable |
| `log_space` | 3 processes, 5 blocks, `LOGSIZE` 4 | `lh.block[]` is filled to its last entry and never past it; calls that write less than they reserve never panic |
| `log_full` | 3 processes, 6 blocks, `LOGSIZE = 3 * MAXOPBLOCKS` | violation: `log_write()` panics |
| `spin` | 2 CPUs with 1 thread, and 1 CPU with 2 threads | mutual exclusion across `swtch()`, `ncli` counts locks, no assertion fires, no CPU stays deaf |
| `spin_filealloc` | 2 CPUs, `filealloc()` only | violation: `sched()` with `ftable.lock` held |
| `proc_safety` | 2 CPUs, 3 slots, 3 forks | stacks, memory, pids, parents, exits, panics |
| `proc_live` | 1 CPU, 3 slots | no starvation, killed processes exit, orphans are reaped |
| `proc_kill` | 1 CPU, 3 slots | violation: `kill()` marks a free slot |
| `fs` | buffer cache, pipes, file table, inodes, contents | safety of each, and the two refinements |
| `fs_deadlock` | 2 processes, a file with two names in one directory | violation: each waits for the other's inode lock |
| `live` | log, sleep lock, pipe, clock, shell, `ph`, boot | nobody waits for ever, and the safety of the sleep lock, clock, `ph` and boot |
| `user` | memory, console, keyboard, parser, shell, text, allocator, `mkfs` | safety of each |

`fs`, `live` and `user` are sums, not products: the variable `part` is chosen
in the initial state, only that component moves, and the others stay in one
initial state. The components share no variables, so nothing is lost, and one
run asks the same kind of question of all of them.

What the properties say, by component:

* Buffer cache: one buffer per block, the disk works on the head of the queue,
  `bget()` finds a buffer while processes hold fewer than there are, and every
  read returns the last write (`CacheIsCoherent`).
* Pipes: nobody sleeps with bytes, room or an end of file waiting, with one
  exception the code makes: a writer that has filled the pipe and finds itself
  killed returns without a wakeup (`pipe.c:86`), and readers sleep on until
  somebody else writes or closes. Bytes come out once and in order
  (`PipeIsFifo`); calls end (`PipeCallsEnd`).
* Files: counts equal the descriptors; a pipe's page is freed with its last
  end and not before.
* Inodes: reference and link counts match pointers and names; no inode is
  freed while named or referenced; the cache never differs from the disk
  unnoticed; no panic of the inode code is reached.
* Contents: a block belongs to one file, none is lost, a read returns what was
  written, and a transaction fits `MAXOPBLOCKS`.
* Memory: a frame is in one place, all frames are accounted for, and `fork`
  copies every page with its protection.
* Clock: `sys_sleep()` neither returns early nor sleeps past its time when the
  counter wraps.
* Console: the ring holds what was typed, readers with a line wake, `^D` gives
  an end of file, the cursor stays on the screen. Keyboard: a modifier is on
  only while its key is down.
* Shell: a process has only the descriptors its command gives it, one shell
  runs at a time, and the prompt returns.
* Functions: each against a definition of what it is for, over all inputs up
  to the bound (regular expressions by the set of strings they match).

Bounds. Two crashes include one during recovery. In `proc_safety`, three slots
do not give the case where init inherits a zombie from a process that is not
its own child; there `NoMissedExit` rests on its theorem. In `fs`, two calls
on inodes are enough for one to take away the last name of what the other has
open, walks through or creates in. With three calls the same invariants hold
(1.2 million states), which takes longer than the run is given. Two files with
one direct and two indirect entries and five blocks fill the disk. In `user`,
fourteen frames let a program be replaced and then forked past its guard page
and still run out of memory. Counters start near their limit or have a small
range, so that they wrap: ring indices, `ticks`, pipe counters, `printint`.
`MaxCalls`, `MaxOps`, `MaxCrashes`, `MaxPid`, `MaxSleep`, `MaxWrite`, `MaxRead`
and `MaxUnits` are bounds of the instances and not of the code.
Deadlock is not checked where the system may stop: after a panic (`spin`,
`log_space`), with a full disk or a closed pipe (`fs`), and when a function
has been applied or an image is complete (`user`).

Fairness. A process inside the kernel, a thread and a CPU are scheduled again
(round robin, `proc.c:338`). Strong fairness is used for a spinlock that is
released again and again (the hardware arbitrates; the code does not queue),
for a call reaching its `end_op()`, for a process that closes its end of a
pipe, at the latest on exit, and in `Proc` for a process between two clock
ticks. Init is assumed to call `wait()` repeatedly, as `init.c` does. The
programs of the shell end when their input does. Nothing is assumed of
interrupts in `SpinLock`, of crashes, kills, keys typed or new system calls.

## 4. Findings

1. `filealloc()` enables interrupts while it holds `ftable.lock`
   (`file.c:33`). A clock tick there enters `sched()` with two locks held,
   against `proc.c:361`.
2. `begin_op()` reserves space for `LOGSIZE` blocks, but the on-disk log has
   `LOGSIZE - 1` data blocks after its header (`mkfs.c:25`). If calls write
   all of the `MAXOPBLOCKS` they reserve, `log_write()` panics. The number of
   blocks a call writes is a parameter here; `WriteFitsOp` shows that a
   transaction of `filewrite()` stays within `MAXOPBLOCKS`.
3. `kill()` does not test the state of a slot (`proc.c:489`): it can mark a
   free slot, and the next process made there starts out killed.
4. `sys_unlink()` drops the directory with `iunlockput(dp)` while it holds the
   file's lock (`sysfile.c:226`), and `iput()` takes the directory's lock again
   to look at `nlink`. Two processes that unlink two names of one file in one
   directory can wait for each other.

## 5. Proofs

| Module | Proves |
|---|---|
| `ProcProofs` | the invariants of `proc_safety` |
| `SpinLockFrames`, `SpinLockSteps`, `SpinLockProofs` | `MutualExclusion`, `NoPanic`, `InterruptsFollowLocks`; `sched locks` is the only panic |
| `SleepProofs` | `SleepLockSound`, `IsMutex`; `PipeSound`, `PipeIsFifo`; `BuffersSound`, `CacheIsCoherent` |
| `LogProofs` | `LogSpace`, `QuiescentDurable`, `CrashAtomic` |
| `FtableTable`, `FtableProofs` | `FilesCounted` |

Each argument has the same shape: an inductive invariant, checked by TLC on an
instance first, that holds initially and that every action keeps; the
properties follow from it, and for a refinement each action is shown to be a
step of the abstract specification or to leave it alone.

*Process table*, for any number of slots, CPUs and pids. The invariants are
not inductive alone. `IInv` adds who holds `ptable.lock` at each location, that
a scan is at the process its CPU runs, that a process on a CPU is RUNNING or
about to switch, what a parked context looks like, that a slot in the making
belongs to one `fork()`, the family tree (a parent is never its own child, init
has none), and that pids in use are below `nextpid`. Assumed: `NPROC` is
positive, `MaxPid` a natural number, `NoCPU` not a CPU.

*Spinlocks and interrupts*, for any number of CPUs and threads that make any of
the calls in `Call`. Who holds a lock is read off the code that has still to
release it: `HoldAfter(s, i)` is the set of locks that the rest of an
instruction list releases before it takes them, and `Legal(s)` says that every
instruction fits that set, for instance that `sched()` runs with `ptable.lock`
alone. All code of the model is legal, and running an instruction keeps it so.
`IInv` says that a stack has one of a few shapes (an interrupt handler lies only
on a frame without locks, or in the gap of `filealloc()`); that a thread no CPU
runs is in `sched()`, with the `intena` it will put back, or before its
`forkret()`; that `lk->locked` and `lk->cpu` name the one CPU whose stack has
the lock to release, but for `lk->cpu` next to the `xchg()` and the unlocking
store (`LocksOK`); and that `ncli` is the number of these locks, one more between
`pushcli()` and `xchg()` and before `popcli()`, with the interrupt flag and
`intena` following from the kind of the innermost frame (`FlagsOK`). `holding()`
is then exact in every interleaving, so no assertion of the locks fails. Where
`filealloc()` is called, the panic of finding 1 is the only one. Assumed:
`NoCPU` is not a CPU, CPUs and threads are different things, and the machines
are made of them.

*Open files*, for any finite table, any number of descriptors and processes
and any pages. `FilesCounted` is three counts. For `f->ref` (`Table`) the
pointers are descriptors and the locals of `pipe()` and `open()`, and a step
changes one of them: the invariant adds which locals are live at each location,
that a file still in a local is its caller's alone, that a free entry has no
contents, and that a child which `fork()` has not finished has only the
descriptors copied so far. For pipes (`PipesInv`) it adds that each end has one
user, a file or the copy `ff` of an unfinished `fileclose()`. For inodes
(`Inodes`) the count is the files of that type, the closes in progress and the
calls between `namei()` and the descriptor. Assumed: the table is finite, and a
null pointer points to neither a file nor a page.

*Sleep lock*, for any set of processes. `IInv` says which location holds which
of the two spinlocks, and that from the test in `acquiresleep()` on a process
either still has a holder to wait for or a `wakeup()` to come.

*Log*, for any finite set of processes, any blocks and values, any number of
crashes and any `LOGSIZE` above `MAXOPBLOCKS` that the log on the disk can
hold. Space: think of a call in progress as holding a ticket for each block it
may still log (`Reserve`). `SpaceInv` says
that the header's length and the tickets outstanding together fit `LOGSIZE`,
which is what `begin_op()` tests and `log_write()` spends; cardinalities of
sets of pairs replace sums. Atomicity: `DiskInv` says how the header on the
disk, the copies in the log, the home blocks and the cache belong together at
each location of `commit()` and of recovery: a block named by the header has
its new contents in the log, one not named has them at home, and a dirty buffer
is pinned until then. `Recovered`, what recovery would make of the disk, then
changes only in `write_head()`, which is the step of `FsTxn` that commits.

*Pipe*, for any set of processes, any `PIPESIZE` that divides the range of the
counters (2^32 in C) and is smaller than it, and calls with at least one byte.
`PipeInv` gives the lock's holder, that a process in a call keeps its end open,
that the counters differ by at most `PIPESIZE` modulo their range, and for each
sleeper why it may sleep, including who is about to wake it. The refinement
needs that slots of the ring are distinct and survive the wrap of the counters,
which is where `PIPESIZE` must divide the range (`SlotRead`, `SlotWrite`).

*Buffer cache and driver*, for any finite set of buffers and of processes, any
blocks and values. `BcacheInv` adds that a process has the lock of the buffer
it uses (`Owns`), that `refcnt` is the number of pointers to a buffer, what the
two flags say while a request is queued, done or not yet made (`Flags`), that a
queued buffer belongs to a process that waits for it, that the disk's command
is the one made from the head of the queue, and that a clean buffer has what
the disk has. The value of a block is then that of its valid buffer or the
disk's: the interrupt moves it between the two and recycling drops a copy, so
neither changes it.

Assumptions on constants are stated with the modules that declare them, and
TLC evaluates them in the runs.

Only model-checked: inodes, contents, memory, clock, console, keyboard, shell
and the other user-level parts, and all liveness properties. The counts of
inodes depend on a directory tree and on the stack of pending `iput()`s, and
block allocation on a walk through indirect blocks: both are recursive data,
and what they compute for every input needs an induction. Liveness under fairness, and what recursive functions such as the
matcher or the parser compute on every input, are out of reach of TLAPS. The
step from `SleepLock` to the locks in `Bcache`, and from `Bcache` to the blocks
in `Log`, is by their abstract specifications and is not itself a theorem.

## 6. Not modelled

* The alarm (`trap.c:66`, `sys_alarm`): its count is never reset, and its test
  also holds for a process that set no alarm and whose handler is 0. Its
  promise fails in its simplest use, which any test shows.
* System call arguments (`syscall.c`): single comparisons with `p->sz`. The
  models start from arguments that have passed them.
* Device set-up (`mp.c`, `ioapic.c`, `uart.c`, most of `lapic.c`), the boot
  loader and the assembly entry code: register writes before any state the
  models have. What `swtch` and trap entry do to locks and interrupts is in
  `SpinLock`.
* Devices as files, the memory disk (`memide.c`), segment registers, the
  serial copy of console output, page contents, full key maps.
* Other user programs: sequential callers of the system calls.
* The windows between a test of `killed` and the `sleep()` after it, in
  `consoleread()` and `sys_sleep()`, are closed by the lock only against
  wakeups: a killed reader may wait for the next key.
