# A TLA+ model of the xv6 kernel with threads and schedulers

This directory specifies the system in `src/`: the x86 version of xv6 extended with
threads (`thread_create`, `thread_join`), five scheduling policies and process
statistics. TLC checks the modules on small instances. TLAPS proves the main safety
properties of the process table, the log, sleep locks and the buffer cache for every
instance. `PROJECT.json` lists all parts of the system, the source lines of each
definition, the runs, and the hazards with the line where each bites.

## The system

| part | hard behaviour |
|---|---|
| process table (`proc.c`) | exits, waits, joins and kills on several CPUs; failing allocations; wakeups that must not be lost |
| scheduler, clock (`proc.c`, `trap.c`) | policy changes while CPUs schedule, boundaries of the table, starvation, preemption |
| spin locks (`spinlock.c`) | the interrupt flag across interrupts and switches between CPUs |
| sleep locks (`sleeplock.c`) | a release between a waiter's test and its sleep |
| log (`log.c`) | crashes between any two disk writes, group commit, log space |
| buffer cache, disk (`bio.c`, `ide.c`) | recycling, pinned buffers, the request queue, I/O errors |
| file contents (`fs.c`, `file.c`) | block allocation and truncation in pieces, crashes in between |
| inodes and names (`fs.c`, `sysfile.c`) | races of `iput`, order of locks, partial failure |
| open files, pipes (`file.c`, `pipe.c`) | last close, blocking, kill, wrapping counters |
| memory (`vm.c`, `kalloc.c`, `exec.c`, `sthread.c`) | pages shared by threads, failures half way |
| console (`console.c`) | a full ring, readers, editing |
| user programs (`umalloc.c`, `sh.c`, `grep.c`, `mkfs.c`, `string.c`, `ulib.c`, `printf.c`) | pure algorithms with boundary cases |

The parts meet in `sleep`/`wakeup` and `ptable.lock`: pipes, the log, the disk, sleep locks
and the console block and wake processes through them. The log sits between the file
system and the buffer cache; the timer drives the scheduler.

How the modules rest on each other: `Proc` shows that `sleep`, `wakeup` and the scheduler
work; `SleepLock` uses them and shows that a sleep lock is a mutex; `Bcache` takes that
mutex as one step. `Log` uses the cache as a map from blocks to contents, with the
pinning that `Bcache` shows to be respected, and implements `AtomicLog`; `Blocks` and `Fs`
take from it that a group of operations reaches the disk as a whole.

## Modules

| module | models | run |
|---|---|---|
| `SchedPick` | what one round of each policy selects, as closed forms | used by `SchedLoops`, `Proc` |
| `SchedLoops` | the selection loops of `scheduler()`, one iteration per step | `kernel_parts` |
| `Proc`, `MCProc` | process table, per-CPU scheduler, timer | `proc_*`, `join_*`, `priority_skip` |
| `Spinlock` | `acquire`, `release`, `pushcli`, `popcli`, `sched`, interrupts | `kernel_parts` |
| `SleepLock`, `Mutex` | `acquiresleep`, `releasesleep` over `sleep`, `wakeup`; an atomic lock | `live` |
| `AtomicLog` | what the log promises: atomic, durable groups of calls | refined by `Log` |
| `Log` | `log.c` with the buffers it pins, crashes and recovery | `log_and_files`, `kernel_parts`, `live` |
| `Bcache` | `bio.c` over `ide.c` | `storage`, `live` |
| `Blocks` | `balloc`, `bfree`, `bmap`, `itrunc`, `readi`, `writei`, `filewrite` | `storage` |
| `Fs`, `MCFs` | inode cache, directories, path walks, `open` ... `unlink` | `fs_names`, `fs_deadlock` |
| `Files`, `Fifo` | file table, descriptors, pipes; what a pipe promises | `log_and_files`, `live` |
| `Vm` | physical pages, address spaces, thread stacks | `kernel_parts` |
| `Console`, `LineDiscipline` | input ring, readers, cursor; what a reader is promised | `kernel_parts` |
| `Umalloc`, `Shell`, `Grep`, `Cstring`, `Args` | the allocator, the shell, `grep`, C library, system-call arguments | `kernel_parts` |
| `Mkfs` | the image `mkfs` writes | `log_and_files` |
| `MCStorage`, `Parts`, `Live` | several modules explored in one run | `storage`, `kernel_parts`, `log_and_files`, `live` |
| `ProcLemmas`, `ProcProofs` | proofs about `Proc` | TLAPS |
| `LogLemmas`, `LogProofs`, `LogRefinement` | proofs about `Log` | TLAPS |
| `SleepLockProofs` | proofs about `SleepLock` | TLAPS |
| `BcacheLemmas`, `BcacheProofs` | proofs about `Bcache` | TLAPS |

Definitions whose comment begins with "Mutant" are wrong on purpose: each replaces
one definition and must make a property fail, which shows that the property depends
on that piece of code.

`MCStorage`, `Parts` and `Live` do not compose their parts: a variable `part`, chosen at
the start, says which module the behaviour belongs to, and the others rest; in `Parts` the
constant `Chosen` says which parts a run explores. Each property there names its part;
those of several invariants of one module are their conjunction, and the module states
each one with its own comment.

### SchedPick and SchedLoops

A slot of `ptable.proc[]` is its index. `RRPick`, `PriorityPick` and `LotteryPick`
return the set of selected slots, empty or a singleton. `RRStart` is the pointer
`c->RRLastProc` after the two `if`s at the head of the loop: it may be `NPROC`, one past
the array, because the increment comes after the range check. `SchedLoops` runs the
three loops literally (index, `p`, `minPP`, `minP`, `winner`) from every table and
compares the result with the closed forms. The word that the priority loop reads as
the `state` of the slot past the end is `ticks` in the linked kernel, which is
taken not to look like `RUNNABLE`.

### Proc

One function per field of `struct proc` (`state`, `pid`, `first_pid`, `parent`, `chan`,
`killed`, `priority`, `ticketCount`), one per field of `struct cpu` (`cproc` is `c->proc`),
and the globals. `lock` is the CPU that holds `ptable.lock`. `pc`, `arg`, `reg` and
`load` stand for the kernel stack of a process: where it is and its locals.

A critical section of `ptable.lock` is one step; what the code does outside is a
step of its own:

- `AllocProc` (first section of `allocproc`), `FillFork`/`FillThread` (unlocked),
  `Publish` (second section), `AllocFails` (the unlocked error paths of `allocproc`,
  `fork` and `thread_create`, which leave the pid in the slot);
- `Resched` reads the policy of the CPU and `Yield` gives it up, at the end of `fork`,
  `thread_create` and `kill`;
- `LoadTickets` and `StoreTickets`: `set_ticketCount` loads `totalTicketCount`, adds and
  stores without `ptable.lock`, and an interrupt or another CPU can come between. `Drift`
  is the total minus the sum over the table, and `TicketsExactElsewhere` says that it is 0
  at first and changes only in a `StoreTickets` whose loaded value is out of date;
- `ChangePolicy` and one `StorePolicy` per CPU;
- `Wait` and `ThreadJoin` scan, then reap, fail or sleep, in one section; a process that
  wakes inside them resumes with the lock held (`Scanning`);
- `Scheduler` is one round of a CPU; `Dispatch` includes what the resumed process does
  until it releases the lock; `Timer` is the interrupt of one CPU, with `wakeup(&ticks)`
  on CPU 0 and the yield when the slice ends (no interleaving is lost by joining the
  two, since `Wakeup(TicksChan)` is also a step of its own);
- `Sleep` and `Wakeup` stand for all other blocking calls: pipes, disk, locks, clock;
- `Exit` is `exit()` from its `acquire` on; closing files before it only sleeps and wakes.

The first process is constrained to what `init.c` does: fork a child, then wait until
that child is reaped. `panicked` stops the model; behaviour after a panic is not
considered. Memory, open files and statistics are abstracted: an allocation may
fail at any time when `Faults` is set.

### Log and AtomicLog

`disk`, `logBlk` and `head` are on disk; a header is the sequence of its first `n`
entries. `cache[b]` is the buffer of block `b` or `Absent`, `dirty` the blocks with
`B_DIRTY`. The operations of `log.c` keep their names. `log_write` is two steps because
it tests `log.lh.n` and `log.outstanding` before taking `log.lock`. `commit` is one step
per block written, so a crash can come between any two disk writes; recovery
(`Recover`) shares `install_trans` and `clear_head` with it and can itself be
interrupted by `Crash`. `Recycle` lets the cache drop any buffer that is neither locked
nor dirty, so the pinning of logged blocks matters.

`AtomicLog` has a `current` and a `durable` content. `Log` implements it with `Durable`
(the home blocks overlaid with the log blocks named in the header, i.e. what recovery
would restore) and `Current` (what `bread` returns).

A call writes at most `OPBLOCKS` distinct blocks. `LogAssumption` says how this relates to
the limits: `begin_op` reserves `MAXOPBLOCKS` for each call against `LOGSIZE`, but only
`log.size - 1` blocks can be used and `log_write` refuses a full log even for a block
that would be absorbed. With `LOGSIZE = log.size = 30` and `MAXOPBLOCKS = 10` this holds
for calls of up to 8 blocks; the largest, a 1536-byte chunk of `filewrite`, writes 7
(four data blocks, indirect block, bitmap, inode).

### Locks: Spinlock, SleepLock

In `Spinlock` what a kernel thread still has to do is a stack of scripts of lock
operations: the system call and, on top of it, the interrupt that came meanwhile.
`eflags`, `ncli` and `intena` are per CPU; `sched` saves `intena` in the thread and
restores it on whatever CPU the thread continues. The scripts release what they acquire:
the one path of the kernel that does not, `thread_join` of a leader, is followed in
`Proc`. `SleepLock` has one step per critical section of `lk->lk` and of `ptable.lock`,
and implements `Mutex` with `holder` = `pid` while `locked`.

### Bcache

`buf` holds the buffers with their sleep lock's holder, `mru` is the list from `bcache.head`,
`queue` is `idequeue`; `cmd` and `disk` stand for the drive. A step is one critical section of
`bcache.lock` (`bget`, `brelse`), of `idelock` (`iderw`, `ideintr`), or the acquisition of a
sleep lock (`bread`). A caller changes the data of its buffer and pins it through `log_write`
(`modify`), or writes it to disk (`bwrite`); the log pins at most `MaxPinned` buffers. When
`bget` finds no buffer to recycle it panics: `PanicsOnlyWhenFull` says when that can be.
The drive may report an error, which the driver ignores: history variable `bad` holds the
blocks this happened to.

### Blocks, Fs, Files

`Blocks` works on one block per step. What a crash leaves is the file system of the last
moment at which no operation ran, which is what `Log` shows. In `Fs` a step is what a
process does while it holds an inode's sleep lock, or one critical section of
`icache.lock`; `reg.puts` lists the inodes a call still has to `iput`. `namex`, `create`, `unlink`,
`link`, `open` and `chdir` are followed on all their error paths. `Calls` lists the calls of each
process; a path is absolute or not and a sequence of names, `.` and `..`, possibly empty
(`/`). Every `ilock` waits for `CanLock`; `panic` is the step of a process that finds the inode
it locks free. The history `astray` marks a call that has followed `..` out of a directory
without links: that name is not erased when the parent goes away.

In `Files` a step is a critical section of `ftable.lock` or of a pipe's lock; the sleep of a
pipe call is a step of its own because `kill` does not take the pipe's lock. A byte is
known by its place in the call that writes it. `Fifo` is the promise: writers append the
bytes of their call in order, a reader is given bytes from the front and exactly those,
and bytes disappear only when both ends are closed.
`Files` implements it with the contents computed from `data`, `nread` and `nwrite`, whose
words wrap.

### Vm

Addresses are page numbers and steps are system calls, because calls of different
processes meet only in the free list and in the frames that threads share. `lost` counts
pages that no call can free any more, at the lines that lose them; `dangling` holds frames
on the free list that somebody still maps. `growproc` grows or shrinks to any size, below
the heap and the stack page as well; a process without its stack page faults
(`HasStack`) instead of making its next call.

### User programs

`Shell` runs the recursive-descent parser on every line up to a length and compares it
with a grammar; then `runcmd` forks, connects and waits. `Grep` compares the matcher with
the meaning of the pattern and follows the line buffer through any cutting of the input by
`read`. `Cstring` performs one call on every content of a small memory. `Umalloc` is the
ring of free blocks of one thread; the sum in `malloc`, the product in `morecore` and the
sign of `sbrk`'s argument wrap as the code's words do, and the history `wrapped` is the
request that made `morecore` believe in memory it did not get. `Mkfs` builds an image file
by file. `Args` is `argint`, `argptr` and `argstr` with words that wrap.

## Runs

| run | instance | shows |
|---|---|---|
| `proc_lifecycle` | 3 slots, 2 CPUs, 1 channel, kill, faults, `set_ticketCount` | one CPU per process, live parents, no lost wakeup in `wait`, a ticket total that only a stale store in `set_ticketCount` makes wrong |
| `proc_threads` | 4 slots, 1 CPU, all joins, policies and priorities, kill, faults | `JoinInv`, which contains `ProcInv`; `thread_join` misses no exit unless the joiner was handed over to init; the priority policies respect priorities unless the last slot ran last |
| `proc_liveness` | 3 slots, 1 CPU, round robin, kill, `wait` and `thread_join` | every runnable process runs, `wait` reports a zombie, a killed process exits |
| `log_and_files` | 3 parts: a log with 2 processes, 2 blocks, 2 values, crashes; 2 processes with 2 files, 2 descriptors and a pipe of 2 bytes whose counters have 4 values; images of up to 5 files of 0 to 16 bytes in blocks of 3 | `Log` implements `AtomicLog`; `LogInv`; exact reference counts of files, no lost wakeup at a pipe, a pipe implements `Fifo`; the image is consistent |
| `storage` | cache: 2 processes, 4 blocks, 3 buffers, 2 pinned; contents: 2 inodes, 5 blocks, crashes | `CacheInv`; `bget` panics only when all buffers are in use, and that case is reached; data neither lost nor mixed up; after a crash every block is named once; files read back; an operation fits its reservation |
| `fs_names` | 2 processes, 3 inodes, paths `/a`, `/a/b`, `b`, `/`, `..`, `/a/.`, `/a/..`, crashes | exact reference and link counts, live entries, freeing of unlinked inodes, no panic except past `..` of a removed directory, order of locks |
| `kernel_parts` | 10 parts, below | one property or two for each part |
| `live` | 3 processes at a sleep lock; 2 readers and 2 blocks; a log of 4 entries; a pipe of 1 byte | no stranded sleeper, `Mutex`, and under fairness: the lock is passed on, a disk request is served, a sleeper in `begin_op` is woken, a pipe call whose other end is closed returns |

`kernel_parts`: spin locks with 2 CPUs and 2 threads; a console ring of 2 on a screen of
2x2; a heap of 11 units of 2 bytes, with sizes in words of 6 bits; scheduling loops over 4
slots; a log of 4 entries and calls of one block (space and wakers); 4 address spaces on
26 pages; shell lines of 4 characters, `cd` counting as one; patterns and inputs of 3
characters; a memory of 4 bytes and ints of 8 bits; arguments in words of 5 bits.

Four runs end in a counterexample because the code disagrees with its comments
(`findings` in `PROJECT.json` quotes the lines):

- `join_lost_wakeup`: a thread joined to the thread that created it is not woken by its
  exit: the test for children in `exit()` comes first and the wakeup is in the `else`;
- `join_leader_lock`: `thread_join` of a group leader returns with `ptable.lock` held;
- `priority_skip`: after the last slot has run, the "full loop on proc array" skips it;
- `fs_deadlock`: `create()` and `unlink()` drop the parent directory with `iput()`, which
  takes its lock, while they hold the child's; another `unlink()` locks in the other order.

Properties with `Elsewhere` in their name say that what such a run shows, or what is
listed under "Behaviour met while modelling", is the only way to get there; the excepted
case happens in the run.

### Bounds

`NPROC` is 3 or 4: init and a parent with a child or two threads; every property of `Proc`
speaks of at most three processes. `MaxPid` bounds the creations; one more than the
number of slots lets a slot be reused. Two CPUs are what the Makefile runs; the proofs
cover any number. `QUANTUM`, `PRIORITY_Q` and `CTRMOD` are scaled down but keep slices longer
than one tick. `KillArgs`, `JoinArgs`, ... list the arguments of the calls, and an empty set
switches a call off. In `Log` two blocks and calls that write both distinguish a torn
transaction from a whole one; two processes suffice to make one wait for space or for a
commit. In `Bcache` three buffers for four blocks force recycling while one is pinned and
two are in use, or, with two pinned, leave too few. In `Fs` no call begins once an inode
has been lost in a removed directory or left behind by overlapping `iput` calls, which no
later call repairs. In `Vm`, programs ask for no more memory after a failed `getpage`,
and while a process has lost its stack page the others only exit, wait and join.
`WIDTH` makes every counter wrap within a run.

Three state constraints cut what is explored together. In `MCProc` (`Focus`), threads and
kill run under the default policy and the other policies with plain processes; a killed
init is followed with few processes. `TicketFocus` follows `set_ticketCount` with init and
one child, and a wrong total while it is off by no more than 10. In `MCStorage` (`Focus`), I/O errors are
followed while few blocks are cached, and one block at a time differs from its initial
content. The proofs about `Proc` and `Bcache` have no such limit.

Deadlock checking is off where the system may stop: the bound on pids, a panic or a
system in which everyone sleeps (`Proc`), a deadlock of inode locks or idle processes
(`Fs`), parts that run to an end (`Parts`), everyone asleep at a pipe (`Live`), and a full
disk or a stopped cache (`MCStorage`).

### Fairness

`Proc`: each CPU keeps scheduling and its timer keeps ticking (weak fairness). A slice
is far longer than a kernel step, so a process that gets the CPU again and again
finishes the call it is in or reaches the test of `p->killed` (strong fairness of its
steps, because preemption disables them again and again). Only `init.c` is assumed to
make its next call; other programs may compute for ever. The liveness properties
end at the bound on pids or at a panic.

`Log`: recovery and commits go on because the disk answers (weak fairness); a call
writes finitely often and then ends (strong fairness of `end_op`). A call that is
woken may find the log full again: `begin_op` has no queue, and that a call is
eventually admitted is not claimed.

`Bcache`: the drive answers and its interrupt is handled (weak fairness); a process woken
in `iderw` runs (strong, because `kill` may wake it early again and again). `SleepLock` and
`Files`: a process in the kernel is scheduled again and gets the spin lock it wants (strong
fairness of its steps inside the kernel), and the holder of a sleep lock releases it;
nobody is assumed to make a call. Sleep locks have no queue either: a sleeper gets the
lock, or is woken and sees another one get it.

## Proofs

All theorems hold for every value of the constants that satisfies the named assumption
of the module. Each inductive invariant is also checked by TLC, in the run of its module.

### Proc (`ConstantsAssumption`)

`ProcInvariant` proves `Spec => []ProcInv`, and from it follow `OneCpuPerProcess`,
`PidsAreUnique`, `ParentsAreAlive`, `NoLostWakeupInWait` and `SliceNeverWraps`. None of these is
inductive alone. Unique pids need that every pid is below `nextpid`. A live parent needs
that parents are older than their children (so that `exit` does not make a process its own
parent and `init` is never anybody's child) and that an embryo belongs to one creation, has
no parent before it is filled in and its creator after it. No lost wakeup needs that a
process asleep in `wait` sleeps on itself, so that the wakeup of its child's exit reaches
it. The slice needs a valid priority in every used slot. The proof has one lemma per
action; actions that change only control (`Quiet`) share one.

`JoinInvariant` adds to `ProcInv` what `thread_join` relies on: free slots and slots being
filled in belong to no thread group, published ones do. `NoLostWakeupInJoin` follows:
`thread_join` misses no exit and no kill of its target, unless the joiner's creator has
exited. The exception is the defect that `join_lost_wakeup` shows.

`PriorityTheorem` is an action property: a step that gives a CPU to a process under policy 2
or 3 gives it to one of the least priority value among the runnable ones, unless the
process that ran last was in the last slot (`priority_skip`). It rests on
`PriorityPickIsBest`, a lemma about the closed form, and on `OthersRelease`, that no action but
`Scheduler` puts a process on a CPU.

### Log (`LogAssumption`)

`LogProofs` proves `Spec => []LogInv` (`LogInvariant`), `Spec => []SpaceSuffices`
(`SpaceTheorem`) and `Spec => []SleeperHasWaker` (`WakerTheorem`); `LogRefinement` proves
`Spec => TransactionsAtomic` (`Refinement`) from it. `LogInv` says:

- `ControlOK`: nobody runs before recovery is over, at most one call commits and then none
  runs, and `outstanding` counts the running ones, so that `end_op` starts one commit.
- `LoggedOK`: a block is in the header once, what a call wrote is in it, and the header is
  empty when nobody runs or commits, so that the first `begin_op` after that is admitted.
- `CacheOK`: a buffer that is neither locked nor pinned equals the disk, so recycling it
  loses nothing and the blocks outside the header need no logging.
- `HeaderOK`: the header on disk is non-empty only while its blocks are installed, the log
  blocks then hold the contents to install, and those up to `tail` are home. A crash in
  between leaves exactly what recovery needs, and recovery can itself be repeated.
- `ReservationOK`: the entries in use, the entries the running calls may still add
  (`Unused`) and the slack per call fit in `LOGSIZE`. `begin_op` establishes it, `log_write`
  moves one entry from the second term to the first, `end_op` only lowers it.

In the refinement a call's change of a buffer is `AWrite`, `write_head` is `ACommit`, the
end of `end_op` is `AReturn`; every other step of `Log` leaves `Durable`, `Current` and
`Active` alone. The last conjunct of `LogAssumption` is needed: with
`OPBLOCKS = MAXOPBLOCKS` the unlocked test of `log_write` could meet a full log.

### SleepLock

`LockInvariant` proves `Spec => []LockInv`: `lk->lk`, `ptable.lock` and the sleep lock are each
held by exactly those whose place in the code says so, and no sleeper is stranded.
`NoSleeperStranded` is its part about wakeups; it is inductive only together with the others,
because between its test and its sleep a process holds only one of the two spin locks. `SleepLockRefinement`
maps `TakeLock` to `Acquire`, `Release` to `Release` and every other step to a stutter.

### Bcache (`BcacheAssumption`)

`CacheInvariant` proves `Spec => []CacheInv` for any number of processes, blocks and buffers.
Its conjuncts:

- `BlockCachedOnce`: a block is in at most one buffer and `refcnt` is the number of users;
- `BuffersHeld`: the holder of a sleep lock is a process whose place in the code says so;
- `FlagsOK`: only valid data is changed, whoever goes to `iderw` has work for it, and whoever
  sleeps there has a request queued;
- `QueueServed`, `CommandOK`: a queued buffer is locked by a process waiting in `iderw`, is
  queued once and has work to do; the drive works on the head of the queue;
- `CacheCoherent`: a valid buffer holds the last data put in its block, and so does the disk
  unless the buffer is dirty, except for blocks that an I/O error hit;
- at most `MaxPinned` buffers stay dirty without a request.

The proof has a lemma per action and lemmas that actions share: `UserAdded` and `UserRemoved`
(reference counts as cardinalities), `MoveToFrontKeeps` (moving a buffer in the list loses
none), `AppendedQueue` and `ShortenedQueue`, `QueueKept`, `HeldKept`, `FlagsKept`,
`WriteCoherent`. `CachedOnceTheorem`, `CoherentTheorem` and `QueueTheorem` are the parts a reader
of `bio.c` and `ide.c` relies on.

`PanicTheorem` proves `Spec => PanicsOnlyWhenFull`: when `bget` panics, the pinned buffers and
the processes that have one in their hands are together at least `NBUF`, and `iderw` never
panics. By the counting argument of `BuffersTaken`, if no buffer can be recycled then each
is pinned or in use by somebody: none has been leaked. `param.h` does not rule the panic
out: `NBUF` and `LOGSIZE` are both 30. With calls of up to 7 blocks the log pins at most 27
(`ReservationOK` with `MAXOPBLOCKS = 10`), so at least three buffers must be in the hands of
other processes at that moment; nothing limits how many are, since a call that only
reads reserves nothing in the cache. A call that holds several buffers at once
(`write_log` and `install_trans` hold two) counts as several members of `Proc`.

### Only model-checked

- The liveness properties: TLAPS does not reason about fairness or `ENABLED` here.
- `TicketsExactElsewhere`, a sum over the table, and everything that a recursive definition
  computes (`Shell`, `Grep`, `Cstring`): these need induction over data.
- The equivalence of loops and closed forms in `SchedLoops`.
- `Spinlock`, `Blocks`, `Fs`, `Files`, `Vm`, `Console`, `Umalloc`, `Mkfs`, `Args`: checked on
  their instances and not proved.

## Behaviour met while modelling

The models have these behaviours. They are not findings because no line of the repository
says otherwise, or because a property already carries the exception.

Processes and threads:
- A thread that outlives its group stays a zombie: `wait` skips threads and only a thread of
  the group can join it (`proc.c:334`).
- `set_ticketCount` changes `totalTicketCount` without `ptable.lock` and loses updates
  (`proc.c:682`), the exception of `TicketsExactElsewhere`: a process that goes to sleep on
  another CPU between the load and the store takes its tickets off a total that the store
  then puts back.
- Policies of different CPUs differ while `change_policy` runs (`proc.c:639`).
- `kill` marks a free slot whose creation failed, so the next process in it starts killed.
- Under round robin the scan goes on after the slot that ran last, except that after slot 0
  it starts at slot 0 again (`proc.c:481`): if slot 0 stayed runnable nobody else would run.
  It holds init, which sleeps in `wait`; `RunnableRuns` relies on that.
- `forkret` does not restore `intena`, which `sched` restores for every other thread.

Memory:
- `freethread` leaks page tables (`vm.c:353`) and takes the stack's place from the joiner's `esp`.
- A `linkuvm` that fails half way frees the creator's text (`vm.c:456`); `wait` and `exec` of one
  member of a thread group free text that the others map. `PagesOwned` excepts these calls.
- An `sbrk` that shrinks below the heap takes away the stack page and then text, also text
  that threads share; it is among the calls `PagesOwned` excepts for shared text.
- `thread_creator` ignores a failed `getpage`; the next copy then meets a hole and panics
  (`vm.c:426`). A stack page that was detached is lost when `thread_create` fails.
- `unmappages` does not flush the TLB, and `linkuvm` copies the new stack's content over the
  creator's; neither is modelled.
- The comment at `syscall.c:74`, that there is no shared writable memory, predates threads.

Files:
- Two `iput` calls that overlap (`fs.c:337`) both see the other's reference, and the inode is
  never freed (`raced` in `Fs`). The comment at `fs.c:131` says that `iput` clears `valid`; it does
  so only when it frees the inode.
- A process may keep working in a directory that was removed: what it creates there is
  lost, and `..` may name an inode that has been freed, so that a walk through it panics
  (`ilock: no type`, the exception of `NoPanicElsewhere`).
- `link(x, "a/.")` waits for its own lock, and `link(x, "a/..")` locks child before parent
  (`dirlink`, `fs.c:558`); `NoLockCycleElsewhere` excepts them by name.
- A killed pipe writer returns without waking the readers of what it has written
  (`pipe.c:86`, `quiet` in `Files`). A `kill` between the test of `p->killed` and the sleep does
  not end a pipe call or a `consoleread` (`late`).
- That an operation fits its reservation (`OpFits`) relies on a bitmap of one block, as in
  the image `mkfs` makes.

User programs:
- The rounding in `malloc` wraps for sizes near the word size, and for sizes above half the
  address space `morecore` passes a negative amount to `sbrk`, which shrinks the process, and
  enters the block as if it had been given. `OnlyHugeRequestsWrap` bounds the requests that
  do this. Threads share the free list without a lock, so `Umalloc` has one thread.
- `mkfs` tests neither `FSSIZE` nor `NINODES`; `Mkfs` stays inside them.
- `grep` drops a partial line when a read returns no newline, and never prints a last line
  without one (`dropped` in `Grep`).
- The user `memmove` copies upwards only and is wrong for overlaps in that direction;
  `safestrcpy` may write one more zero, still within `n`.
- In the shell a failed `fork` or `pipe` ends the parent without waiting for what already
  runs, and `>>` opens its file like `>`.

## Not modelled

Boot code, interrupt controllers, scan codes, the serial line and the memory disk
(`memide.c`): device registers and code that runs once, before anything is concurrent.
Saving and restoring registers in `swtch.S` and `trapasm.S`, which the models take as the
hand-over of a CPU. The statistics of `proc.c`, which nothing else reads. Devices and `mknod`,
`fstat`, the splitting of path strings, ELF headers, the argument stack of `exec`, flags of
page-table entries. `printf`'s format loop, `gets`, `stat`. The remaining user programs are
clients of the system calls.
