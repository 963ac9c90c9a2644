# A TLA+ verification of the OS172 xv6 kernel

The repository (`Assignment1/`) is the teaching kernel xv6 for x86
multiprocessors with the extensions of an operating systems course: exit
statuses, a lottery scheduler with three policies, and process time statistics.
This project models the parts of the kernel in which concurrency, crashes and
full tables meet, checks them with TLC on small instances, and proves the
central results for every instance with TLAPS.

* [The system](#the-system)
* [Modules and how they correspond to the code](#modules-and-how-they-correspond-to-the-code)
* [Runs](#runs)
* [Bounds](#bounds)
* [Fairness](#fairness)
* [Proofs](#proofs)
* [A disagreement between the code and its documentation](#a-disagreement-between-the-code-and-its-documentation)
* [Other observations](#other-observations)
* [What is not modelled](#what-is-not-modelled)
* [Plan](#plan)

## The system

| Component | State | Operations | Interacts with |
|---|---|---|---|
| Write-ahead log (`log.c`) | `log.lh`, `outstanding`, `committing`; header and data blocks on disk | `begin_op`, `end_op`, `log_write`, `commit`, recovery | buffer cache below, every file system call above, `sleep`/`wakeup` |
| Buffer cache (`bio.c`) | `bcache.buf[]` with flags and reference counts, the list in order of use | `bread`, `bwrite`, `brelse` | driver below, log and inodes above, a sleep lock per buffer |
| IDE driver (`ide.c`) | `idequeue` | `iderw`, `ideintr` | buffers' flags, `sleep`/`wakeup`, the disk's interrupt |
| Sleep locks (`sleeplock.c`) | `locked` | `acquiresleep`, `releasesleep` | `sleep`/`wakeup` |
| Process table (`proc.c`, `trap.c`, `swtch.S`) | `ptable.proc[]`, `nextpid`, `ptable.lock`; `cpu->proc` | `fork`, `exit`, `wait`, `wait_stat`, `kill`, `sleep`, `wakeup`, `yield`, `sched`, `scheduler` | everything that sleeps; timer interrupts |
| Lottery (`proc.c`, `policy.c`) | `ntickets`, `priority`, `npolicy`; per CPU the last ticket count | the rounds of `scheduler`, decay in `yield`, bonus in `sleep`, `policy`, `priority` | process table |
| Pipes (`pipe.c`) | ring, `nread`, `nwrite`, `readopen`, `writeopen` | `pipewrite`, `piperead`, `pipeclose` | file table, `sleep`/`wakeup`, `kill` |
| Inodes and directories (`fs.c`) | `icache`, on-disk inodes | `iget`, `iput`, `ilock`, `ialloc`, `dirlink`, `namex` | log, buffer cache |
| File contents (`fs.c`, `file.c`, `mkfs.c`) | bitmap, data and indirect blocks, `addrs[]`, `size`, `f->off` | `balloc`, `bfree`, `bmap`, `itrunc`, `readi`, `writei`, `filewrite`, `mkfs` | log, inodes |
| Open files (`file.c`, `sysfile.c`) | `ftable`, `ofile[]` | `filealloc`, `filedup`, `fileclose`, the file system calls | inodes, pipes, `fork`, `exit` |
| Memory (`kalloc.c`, `vm.c`, `exec.c`) | free list, page tables, `proc->sz`, `cr3` | `kalloc`, `kfree`, `setupkvm`, `allocuvm`, `deallocuvm`, `copyuvm`, `freevm`, `growproc`, `exec` | process table, pipes |
| Spinlocks and interrupts (`spinlock.c`, `trap.c`) | `locked`, `cpu->ncli`, `cpu->intena`, the interrupt flag | `acquire`, `release`, `pushcli`, `popcli` | `sched`, every interrupt handler |
| Clock and times (`trap.c`, `sysproc.c`, `proc.c`) | `ticks`, the times of a process | the timer interrupt, `update_times`, `sys_sleep`, `wait_stat` | process table, spinlocks |
| Console (`console.c`, `kbd.c`, `uart.c`) | `input` ring with `r`, `w`, `e`; the screen; `shift` | `consoleintr`, `consoleread`, `consolewrite`, `kbdgetc` | `sleep`/`wakeup`, `kill` |

What is hard about it:

* **Crashes.** The disk survives at any point between two sector writes of
  `commit()` or of recovery, and a crash may interrupt recovery.
* **Locks that change hands.** `ptable.lock` is acquired by one thread and
  released by another: `sched()` switches with the lock held and the scheduler,
  or the process it picked, releases it.  A process marked `RUNNABLE` or
  `ZOMBIE` still executes on its stack for a moment.
* **Code outside the lock.** `commit()` runs without `log.lock`, the checks at
  the head of `log_write()` too; `fork()` fills in the child without
  `ptable.lock`; `policy()` rewrites everybody's tickets without any lock;
  `bget()` drops `bcache.lock` before it waits for the buffer; `iput()` drops
  `icache.lock` while it frees an inode it has not locked.
* **Sleep and wakeup.** A wakeup too few is a process that never runs again, and
  no test waits long enough to see it.
* **Failure half way.** `fork`, `exec`, `sbrk` and `pipe` take pages, page tables,
  slots and files one at a time, and any of them may be the last.
* **Interrupts.** The timer may interrupt whatever runs with the interrupt flag
  set, takes the same locks, and switches the thread to another CPU.
* **Limits.** The log's reservation, the wrap of the unsigned counters of pipes,
  ticks and console, the last ticket, the last buffer, the end of the largest
  file, the last row of the screen.

What makes the parts correct: system calls are atomic across crashes; a cached
block that may be recycled is on disk; nobody sleeps without somebody who will
wake him; two CPUs never share a kernel stack, and no stack is freed under a CPU;
every process has a living parent that can reap it and gets the status it exited
with; a killed process exits, wherever `kill()` finds it; the lottery follows the
tickets and starves nobody; a pipe is a byte stream; references and links of
inodes are counted, and an inode is freed when, and only when, nothing refers to
it; a file is an array of bytes, whatever blocks it is in; every page and every
block has one owner or is free; a call that fails leaves its caller as it was;
interrupts are off exactly while they must be; a nap ends; the console is a line
discipline. `PROJECT.json` lists under `hazards` the lines of code where each of
these could go wrong and the properties that would notice. Not all of it holds of
this kernel.  Where the code breaks a promise, the property says up to which point it
is kept, and [the observations](#other-observations) say how it is broken.

## Modules and how they correspond to the code

`PROJECT.json` maps every definition to the lines it stands for.  In all modules
a critical section under a spinlock, in which nothing waits, is one action, and
the steps of code outside locks are actions of their own.  `panic()` freezes the
machine.

* **`AtomicDisk`** says what the log promises: a `durable` and a `current`
  contents of the disk, calls that begin, write and end, group commits that take
  place only when no call is in progress, and crashes that return to `durable`.
* **`Log`** is `log.c`.  `disk`, `dlog` and `dhead` survive a crash; `cache` and
  `dirty` are the buffers and their `B_DIRTY` flags, `lh`, `outstanding`,
  `committing` the fields of `struct log`.  A call is `BeginOp` (or
  `BeginSleep`), then for each block `Modify` (bread and change), `LogWriteCheck`
  (the unlocked tests) and `LogWriteRecord`, then `EndOp`, or `EndOpLast`, whose
  process goes on with `Commit`, `WriteLog` for each block, `WriteHead`,
  `InstallTrans` for each block, `Erase` and `CommitDone`.  `Crash` may come at
  any time, and `ReadHead`, `Recover`, `RecoverErase` are the boot.  `Evict` and
  `Bread` are the cache at work for others.  A call may write up to `OpBlocks`
  blocks, which is not tied to what `begin_op` sets aside.  Because
  `LogWriteCheck` is outside `log.lock`, a transaction may outgrow the on-disk log
  by the calls that checked together; such a log, like a panic, only waits for the
  next crash (`Running`), since `write_log` would go on into the inode blocks.
  A header is its first `n` entries; what `block[]` holds behind them is never read and
  left out (`Entered`).
  The refinement mapping takes `durable` to what recovery would make of the disk
  now (`Recovered`) and `current` to what `bread` would return now.
* **`LogSized`** adds the inductive invariant `Inv` and what its proof assumes of
  the sizes (`NLOG <= LOGSIZE`, as `mkfs` makes them equal); **`LogProofs`** has the
  proofs.
  **`ProcProofs`**, **`LotteryProofs`**, **`PipeProofs`**, **`BioProofs`**,
  **`ClockProofs`**, **`InodeProofs`** and **`ResourcesProofs`** have the invariants
  and proofs of the other components.
* **`Bio`** is `bio.c` over `ide.c` with the sleep locks of `sleeplock.c`.  A
  process references a buffer (`BgetCached`, `BgetRecycled`, or `BgetPanics`),
  locks it (`AcquireSleep`, `AcquireWaits`), reads it if it must
  (`BreadInvalid`), may change and pin it (`LogWrite`) or write it (`Bwrite`),
  and gives it back in the two steps of `brelse` (`ReleaseSleep`, `Brelse`, which
  puts it at the head of the list with `MoveToFront`).
  `Ideintr` completes the request at the head of the queue.  `current` is a
  history variable: what was last put into each block.
* **`Proc`** is the process table on several CPUs.  `mode` says whether a CPU is
  in the scheduler, on its way to or from a process, or runs one; `lock` is the
  CPU that holds `ptable.lock`; `context` is where the saved context of a process
  resumes it, and so whether it will release the lock.  `fork` takes five steps
  (`ForkAlloc` under the lock, `ForkKalloc`, `ForkCopy` or `ForkFail` without,
  `ForkRun` under it), `exit` two (closing files, during which it may sleep, and
  the critical section), `wait` and `wait_stat` one per scan.  A scan for some
  slot that qualifies picks any such slot.  A call that waits is one of two kinds:
  `io` waits for a device, a sleep lock or the log, on a channel of `Devices`, and
  does not look at `killed`; `block` (a pipe, the console, `sys_sleep`) tests
  `killed` first (`TestKilled`) and sleeps in a later step, so that `kill()` may come in
  between (label `tested`).  `ended` and `ret` are history: the
  status each process passed to `exit`, and what the last `wait` returned.
* **`Lottery`** is the draw of `scheduler()` with the tickets.  `Round`, `Count` once
  per slot and `Draw` are a round under `ptable.lock`; `none` remembers that a CPU
  counted no ticket in its last round.  `PRNG` is any number in its range.
  `policy()` holds no lock, so every access it makes to a slot is a step: writing
  `priority`, testing `state`, and giving the tickets, which for policy 1 are the
  `priority` read back (`proc.c:318-321`).  The decay of `yield` and the bonus of
  `sleep` read and write in two steps for the same reason.  A `policy()` of no policy
  is a jump to nowhere (`lost`).  `overtook` is history: the slots whose process
  called `priority()` with less than two between the write and the read of a
  `policy(1)`.
* **`ByteStream`** says what a pipe promises: a bounded FIFO of bytes with
  pending writes, reads and an end.  **`Pipe`** is `pipe.c` with the counters
  modulo `UintRange`.  The state `doze` is a process that has tested
  `proc->killed` and not yet called `sleep()`: `kill()` does not take `p->lock`
  and may come in between.
* **`Inode`** is the inode cache, directories and `namex` of `fs.c` under the
  calls of `sysfile.c` that make, find and remove names.  `dsk` is the inode on
  the disk; `ref`, `valid`, `mem` and `lock` are its cache entry; `dir` is the
  contents of directories.  A call begins (`Begin`), takes one step per path
  element (`NamexNext`, ...), and goes on with its own steps (`CreateNew`,
  `UnlinkFound`, ...); what it does between `ilock` and `iunlock` is one step
  unless it takes a second lock.  Every `iput` is a step of its own (`Iput`), or
  three when it frees the inode (`IputLast`, `Itrunc`, `IputDone`), because it
  drops `icache.lock` meanwhile.  Two history variables mark the histories in
  which the code keeps no promise: `overtaken` (an `iget` found an inode that was
  being freed) and `strayed` (a removed directory was used to reach or to make
  something).  `LinksAreCounted`, `NothingIsLost`, `LockedIsStable` and
  `NoCallPanics` are stated for all others (`Regular`), and no further call
  begins after one.
* **`FileArray`** says what inodes and open files promise: an array of bytes per
  file, and positions in them.  **`Content`** is how `mkfs.c`, `fs.c` and `file.c`
  keep that promise.  A block is `BSIZE` cells, and a cell holds a byte or a block
  number.  `mkfs` lays out the first files (`MkfsIalloc`, `MkfsIappend`,
  `MkfsAppendBlock` per round, `MkfsFinish` with the bitmap), then processes run.
  A write is cut into transactions (`StartChunk` to `ChunkDone`), each a loop of
  `Balloc`, `BmapAllocated` and `CopyIn` steps, one per buffer; a read has
  `CopyOut` steps; `itrunc` has a step per block it frees, without the inode's lock,
  and `iput` frees the inode (`FreeInode`) and its cache entry (`DropEntry`) in two
  more.  A `create` that takes the inode between these two is the race that `Inode`
  shows; `overtaken` records it and the behaviour ends there.  Opening, closing and
  removing are there only as far as they drop or free contents, since `Inode` and
  `Resources` have them.  A crash comes between transactions: `Log` shows that a
  crash inside one is as if it had come before it.  The refinement mapping shows a
  write when the inode is unlocked (`Bytes`).
* **`Memory`** has the operators of `kalloc.c` and `vm.c`, **`FileTable`** those of
  `file.c` on `ftable`; **`Resources`** composes them into `fork`, `exec`, `sbrk`,
  `exit`, `wait`, `open`, `dup`, `close` and `pipe`.  A step takes one page, with
  the page table it may need, or is one section of `ftable.lock`; every one can
  find nothing left, and the rest of the call follows the code's error path.
  `mm.lost` is history: the pages that `setupkvm` and `copyuvm` forget when they
  fail.  `cr3` is the directory the process's CPU uses.  A process that `sbrk(-sz)` has
  left without pages (`Emptied`) goes on as long as the TLB keeps them: it may make any
  call, panic in `copyuvm`, or fault in the kernel when its arguments are fetched
  (`ArgumentFault`).  `exec` may read a file that ends early at every one of its reads.
* **`Clock`** is the timer interrupt with the spinlocks and context switches under
  it.  A CPU has its interrupt flag, `ncli` and `intena` and is at a label of the
  code it runs; `Interrupt` is enabled wherever the flag is set.  `sys_sleep` is
  modelled down to the two locks of `sleep()`.  `counted` is the sum of `rutime`,
  `retime` and `stime`, to which the ticks before the process was `RUNNABLE` are
  added as history, so that it can be compared with `ttime - ctime`.
* **`Lines`** says what the console promises its readers; **`Console`** is
  `console.c`, with the ring and its three indices, and the screen of `cgaputc`
  as cells and a cursor.  **`Keyboard`** is `kbdgetc` on one key of each kind.  The
  strokes of a key with its modifiers come as the bytes a keyboard sends: the
  modifiers go down in every order, and all keys come up in every order.
* **`MCLog`, `MCProc`, `MCLottery`, `MCPipe`, `MCBio`, `MCInode`, `MCContent`,
  `MCResources`, `MCClock`, `MCConsole`** add the symmetry sets, path names,
  programs, writes and keys for TLC.

Each module also contains a few definitions marked "Mutant of": versions of an
operation with a plausible slip in it.  They belong to no specification;
`PROJECT.json` names the property that notices each.

## Runs

| Run | Configuration | Shows |
|---|---|---|
| `log` | `MCLog.cfg` | until `log_write` panics, `Log` implements `AtomicDisk`; `commit` runs alone and ends; clean buffers are on disk; whoever sleeps in `begin_op` has a waker and is woken |
| `proc_table` | `MCProc.cfg` | stacks, slots, parents and statuses with fork, exit and wait of up to four generations on two CPUs |
| `proc_live` | `MCProcLive.cfg` | a killed process exits, wherever `kill` finds it but between the test of `killed` and the sleep; init reaps its zombie |
| `lottery` | `MCLottery.cfg` | draws follow the tickets; no runnable process is without one, but by its own `priority()` in the middle of a `policy(1)` |
| `pipe` | `MCPipe.cfg` | `Pipe` implements `ByteStream`; no missed wakeups |
| `bio` | `MCBio.cfg` | `bread` returns the newest contents; buffers are exclusive and kept while referenced; nobody sleeps on nothing |
| `inode` | `MCInode.cfg` | references and links are counted on all paths through the calls; inodes in use are not freed, unused ones are; no circle of inode locks |
| `inode_free` | `MCInodeFree.cfg` | violated: `create` gets hold of an inode that `iput` is freeing |
| `content` | `MCContent.cfg` | up to that race, `Content` implements `FileArray`; every data block has one owner or is free |
| `resources` | `MCResources.cfg` | every page is free or used once after every failure; address spaces are whole, but for processes that `sbrk(-sz)` emptied, and only those make the kernel panic; files and ends of pipes are counted |
| `clock` | `MCClock.cfg` | interrupts and locks match; no tick is missed; every tick of a process's life is counted once, but for one |
| `console` | `MCConsole.cfg` | `Console` implements `Lines`; the screen shows the line that is edited; no modifier stays on, in whatever order keys are released |

Run one with `tlc -config MCLog.cfg MCLog`.

## Bounds

All bounds are constants of the modules; the configurations scale the kernel's
numbers down.

* `log`: the sizes are related as in the code: the on-disk log is `LOGSIZE` blocks
  with its header (`NLOG` = `LOGSIZE`, here 3 for 30), `begin_op` would admit
  `LOGSIZE`/`MAXOPBLOCKS` calls (3), and a call may write more than `MAXOPBLOCKS` (2 for
  1), as `filewrite` does, so that the log fills up and `log_write` panics.  Two
  processes, so that one sleeps while the other commits; two blocks for a transaction
  that is half installed; two contents for an old and a new value.  Crashes are
  unlimited.  No symmetry, because the run checks liveness.  A transaction that
  outgrows the on-disk log needs a third block and ends in a crash: nothing is claimed
  beyond it.
* `proc_table`: four slots.  With three there is no grandchild whose exit init
  must be told of while it sleeps over another child; with four there is, and
  the mutant that drops the second `wakeup1` of `exit()` is noticed.  Two CPUs
  make every hand-over of the lock visible; `MaxPid` 4 allows a slot to be used
  again, and two exit statuses tell those of two children apart.  `proc_live` has init
  and one child but every call, a channel that a device wakes and one that nobody need
  wake, and kill of every pid, 0 and freed ones included.  It has no orphans: those
  are in `proc_table`, where `ParentIsAlive` and `NoSleepOverZombie` say that init has
  them and does not sleep over them.
* `lottery`: the constants 10, 10, 20, 10, 100 become 2, 2, 3, 2, 4, which keeps their
  order and lets the decay reach 1 and the bonus its limit.  Arguments of `policy()`
  and `priority()` are in and out of range.
* `pipe`: a ring of 2 bytes and counters modulo 4, so that both wrap; writes of
  up to 3 bytes, larger than the ring.  `UintRange` is a multiple of `PIPESIZE`
  as 2^32 is of 512.
* `bio`: three blocks in two buffers, so buffers are recycled and blocks come
  back; three processes, so two wait for the third and the pool can run out.
* `inode`: two processes with a descriptor each, three inodes (a directory in a
  directory, or two names for a file), and the path names `a`, `..`, `/a/b` and
  `/`.  Relative names make every depth reachable, since a process may be in any
  directory.  Two processes suffice for the races of two calls; the third inode
  is needed for the parent of a removed directory.  The model's inodes are fewer
  than `NINODE`, so `iget` finds a free entry.
* `content`: blocks of two cells, one direct and two indirect blocks, so files of
  up to three blocks; writes of three bytes in chunks of two, so that a write has
  two transactions, starts inside a block and ends inside one, and a second write
  reaches the end of the largest file. With seven data blocks the disk fills up in
  some histories, and `balloc` panics there. Two calls of `mkfs` and five of the
  running system: enough to write, remove and write again, so that blocks come
  back dirty.
* `resources`: three slots and two descriptors each, three files and seventeen
  pages of two bytes, page tables of two entries: an `exec` needs more than one
  page table, and with two processes at work the pages run out at every point of
  `fork`, `exec` and `sbrk`.  Four calls, each of which may be any; `exit` and
  `wait` are not counted.
* `clock`: two CPUs, of which one advances `ticks`, two processes, `ticks` modulo 4
  and naps of two ticks.  All of its states are finite without a bound.
* `console`: a ring of three with indices modulo six, starting where they wrap
  soon; a screen of two columns and three rows, with the cursor where it scrolls
  soon; four characters or texts, after which the ring has wrapped.

Symmetry is used only in runs without liveness properties, over sets whose
members the module does not tell apart (in `MCProc` the slots other than
init's, in `MCLottery` the CPUs).

## Fairness

* `log`: a process in `commit()`, in recovery or in `log_write()` moves on
  (weak fairness: the scheduler runs it again, and the disk answers), and a call
  ends some time (strong fairness, because it is between two writes again and
  again; system calls write finitely many blocks).  Nothing forces a call to
  begin or the machine to crash.  The leads-to properties have `~Running`, a panic
  or an overflow of the log, as a way out.
* `proc_live`: the switches of a CPU are made (weak); every runnable
  process is picked some time (strong: the lottery leaves no ticket out for ever with
  probability one, and each has one, see `NobodyStarves` and its exception); a thread
  in the kernel that waits for `ptable.lock` gets it some time (strong: the lock is
  taken and released again and again); timer interrupts keep coming; devices wake
  the channels in `Devices`, among which count sleep locks and the log, whose holders
  go on; init calls `wait()` again and again, as `init.c` does.  Nothing is assumed of
  the other channels: nobody need ever write to a pipe or type a line.  `KilledExit` and
  `ZombiesAreReaped` have `panicked` as a way out, because init may be killed and its
  exit panics; and `ZombiesAreReaped` supposes that init, which in the model may make
  any call, does not stay in another one than `wait()` for ever.

## Proofs

A proof module is about every value of the constants that the named assumption
of its component allows; TLC evaluates the assumption on every run.  All follow
one scheme.  None of the safety properties is inductive as it stands, so each
module defines the invariant that is, a conjunction of named parts; one lemma per
action shows that the action preserves it, `Invariance` puts them together, and
the properties follow.  Every invariant was checked with TLC, on instances larger
than the ones of the runs, before it was proved (but for `HeapInv` of `Resources`,
which says that a map of owners exists and is more than TLC can enumerate, and
`FsInv` of `Inode`, checked on the run's own instance).

| Theorem | Statement |
|---|---|
| `LogProofs!Invariance`, `TypeCorrect` | `Spec => []Inv`, `Spec => []TypeOK` |
| `LogProofs!CommitRunsAlone` | `Spec => []CommitIsExclusive` |
| `LogProofs!RecyclingIsSafe` | `Spec => []CleanIsOnDisk` |
| `LogProofs!LogImplementsAtomicDisk` | `Spec => CallsAreAtomic`, a refinement |
| `LogProofs!SleepersHaveWakers` | `Spec => []SleeperHasWaker` |
| `LotteryProofs!NobodyIsStarved` | `Spec => []NobodyStarves` |
| `ProcProofs!Invariance` | `Spec => []ProcInv` |
| `ProcProofs!StacksAreExclusive` | `Spec => []OneCPUPerStack` |
| `ProcProofs!ParentsAreAlive` | `Spec => []ParentIsAlive` |
| `ProcProofs!NoWakeupIsLost` | `Spec => []NoSleepOverZombie` |
| `ProcProofs!StatusReachesParent` | `Spec => []StatusIsDelivered` |
| `ClockProofs!Invariance` | `Spec => []ClockInv` |
| `ClockProofs!InterruptsAreMatched` | `Spec => []InterruptsMatch` |
| `ClockProofs!NoTickIsMissed` | `Spec => []SleepersSawTheTick` |
| `ClockProofs!TicksAreCounted` | `Spec => []TimesAddUp` |
| `BioProofs!Invariance` | `Spec => []BioInv` |
| `BioProofs!ReadersSeeTheNewest` | `Spec => []BreadReturnsNewest` |
| `BioProofs!OneOwnerPerBuffer` | `Spec => []BuffersAreExclusive` |
| `BioProofs!ReferencesCount` | `Spec => []ReferencedIsKept` |
| `BioProofs!NoSleepOnNothing` | `Spec => []SleepersAreServed` |
| `InodeProofs!Invariance` | `Spec => []CacheInv` |
| `InodeProofs!ReferencesAreCounted` | `Spec => []RefsAreCounted` |
| `InodeProofs!LockedInodesAreStable` | `Spec => []LockedIsStable` |
| `InodeProofs!TreeInvariance` | `Spec => [](Regular => FsInv)` |
| `InodeProofs!LinksCounted` | `Spec => []LinksAreCounted` |
| `InodeProofs!NoInodeIsLost` | `Spec => []NothingIsLost` |
| `InodeProofs!CallsDoNotPanic` | `Spec => []NoCallPanics` |
| `InodeProofs!NoDeadlock` | `Spec => [](Regular => NoCircularWait)` |
| `ResourcesProofs!Invariance` | `Spec => [](Inv \/ Stopped)` |
| `ResourcesProofs!PagesAccounted` | `Spec => []PagesAreAccounted` |
| `ResourcesProofs!SpacesWhole` | `Spec => []SpacesAreWhole` |
| `ResourcesProofs!FilesCounted` | `Spec => []FilesAreCounted` |
| `PipeProofs!Invariance` | `Spec => []PipeInv` |
| `PipeProofs!NobodySleepsInVain` | `Spec => []SleepersMustWait` |
| `PipeProofs!PipeImplementsByteStream` | `Spec => ImplementsByteStream`, a refinement |

### The log

`LogProofs` is about `LogSized`, that is, about every finite set of processes and
every set of blocks and contents, under two assumptions.  `ConstantsAssumption`
types the constants (`LOGSIZE >= MAXOPBLOCKS > 0`).  `SizesAssumption` says that the
on-disk log, header included, is at most `LOGSIZE` blocks, which `mkfs.c:25` makes
exactly so many.  Nothing is assumed of the number of blocks a call writes: a
transaction may run into the panic of `log_write` or beyond the on-disk log, and the
theorems hold up to there, that is, as long as `Running` lets the machine go on, and
again from the next crash.  The parts of `Inv`:

* `BootInv`: while one process recovers there is no other;
* `CountInv`: `outstanding` is the number of processes in a call, `committing`
  says that one is in `commit()`, and that one is alone;
* `BufInv`, `WroteInv`: locked buffers and the blocks a call has logged;
* `HeaderInv`, `TailInv`: headers list distinct blocks and the loops stay in
  them;
* `PinInv`: the dirty blocks are exactly the transaction's, until each is
  installed;
* `StageInv`: how far log, header and home blocks are at each stage of commit and
  of recovery.

That clean buffers are on disk needs `PinInv`, which needs the order of the commit
phases, which needs that the committing process is alone, which needs the meaning
of `outstanding`.  In the refinement `WriteHead` is the commit, whether or not the
machine survives it; `InstallTrans`, `Erase` and recovery change nothing that is
visible.  `SleepersHaveWakers` adds `IdleInv`: when nobody is in a call or a
commit the log is empty, so there is room.

### The lottery

For any table, CPUs, arguments of `policy()` and `priority()`, and ticket numbers of at
least two (`LotteryAssumption`): with one, a `policy()` between `yield()`'s test for
more than one ticket and its `--` would leave none.  The parts of `TicketInv`: the
types; `LockInv`, who is in a round or changes tickets has `ptable.lock`; and `Fresh`
or `Provided`.  In `Fresh` nobody has drawn yet and the first round gives its tickets.
From then on (`Provided`) every slot has a ticket, sleeping and free slots too,
because `wakeup` and `fork` let them in as they are; what a decay has tested, or may
find when it reads again, is more than one; and so is the priority that a
`policy(1)` has set and will read back.  Slots in `overtook` are the exception, in
the theorem too: there `priority()` itself came in between.

### The process table

For any table with init in it, any number of CPUs, channels and exit statuses
(`ProcAssumption`).  The parts of `ProcInv`:

* `LockInv`: around a switch the CPU has `ptable.lock`; between switches only a
  process inside `wait()` does.  The lock is released by whoever `sched()`
  switched to, so this is about the saved contexts as well: a process whose
  context resumes in `wait()` is in `wait()`;
* `StackInv`: a process on a CPU is `RUNNING` and on no second one; one that is
  leaving its stack is not `RUNNING` any more, and the lock keeps the others
  from picking it up;
* `ForkInv`: an `EMBRYO` that `fork()` fills in without the lock is one caller's;
* `FamilyInv`: parents are alive, init always;
* `ZombieInv`: `NoSleepOverZombie` also while somebody is in the critical section;
* `PidInv`: pids are never given twice, and the status passed to `exit()` is in
  `arg`, then in `exit_status`, then in what `wait()` returned.

`OneCPUPerStack` needs `LockInv`, since two of the three modes on a stack are
outside `RUNNING`.  `ParentIsAlive` needs `ForkInv`: the parent of a child about
to be `RUNNABLE` is the caller of `fork()`, which cannot exit meanwhile.

### The clock and the spinlocks

For any CPUs and processes and any range of the tick counter (`ClockAssumption`).
The parts of `ClockInv`:

* `ContextInv`: `ncli`, the flag and `intena` of a CPU at each label, and what
  `sched()` saved for a process at each place it may resume;
* `LockInv`: who holds `tickslock` and `ptable.lock` is told by the labels;
* `RunInv`: a process is on at most one CPU;
* `SeenInv`: a process has looked at the present tick from its test in `sys_sleep`
  to its sleep.

`InterruptsMatch` compares `ncli` with the number of locks held; with `LockInv` both
are functions of the label.  The one step where this is not local is the switch,
which is why the saved half of `ContextInv` is needed.  `SleepersSawTheTick` rests
on `tickslock` being held from the test to the sleep, and so on `LockInv` again.

`TimesAddUp` has an invariant of its own on top, `TimeInv`:

* `CountInv`: a process that has its `ctime` was counted for each tick since then, or
  for one more, up to the last tick that `update_times()` has counted (`Counted`,
  which is `ticks` or, between `ticks++` and `update_times()`, one less);
* `ForkInv`: a `fork()` has its child until the end, also when it was interrupted or
  preempted between setting `ctime` and `RUNNABLE`;
* `FirstInv`: process 1, whose times nobody asks for, is never killed and stays.

The one tick too many is of a `fork()` that reads `ticks` before `update_times()`
counts it, the one too few of such an `exit()`.  Equality is modulo the range of
`ticks` (`Same`), with the division theorem as the only fact about `%`.

### The buffer cache

For any finite sets of processes and buffers and any blocks (`BioAssumption`).
The parts of `BioInv`:

* `RefInv`: a process refers to a buffer exactly while it is in a call, the
  buffer is for the block it asked for, `refcnt` counts the processes, and a block
  has one buffer;
* `LockInv`: a locked buffer has one owner, and whoever sleeps on the lock sleeps
  while it is taken;
* `QueueInv`: the queue has the buffers of the processes in `iderw()`, once each;
* `DataInv`: a valid buffer has the newest contents, and so has the disk unless
  the block's buffer is dirty;
* `ListInv`: the list has every buffer in it.

That `bread` returns the newest contents needs that no block has two buffers, hence
that `bget` looks through all of them: `ListInv`.  It holds at first because the list
of `binit` has as many places as there are buffers and no repetition, and
`MoveToFront` loses none.  A recycled buffer loses nothing because it is clean, and
nobody is cut off because it has no users (`RefInv`).

### Inodes

For any finite sets of processes, inodes and names, any paths and calls
(`InodeAssumption`).  The parts of `CacheInv`:

* `ShapeInv`: at each label, which of its pointers (`cur` of `namex`, `dp`, `ip`)
  a call has and which arguments.  A call in `iput` is judged by the label it
  returns to, and has one pointer more, the one it gives back;
* `LockInv`: an inode is locked by a process exactly when the label of its call
  says so, hence by one process and never by a call that has returned;
* `RefInv`: all pointers, those of the calls, the working directories and the open
  files, are one table, and `ref` counts the places of the table with the inode;
* `FreeInv`: the inode that `iput` truncates and frees has no pointer but its own;
* `MemInv`: what is in the cache is referenced and as on the disk, a locked inode
  is in the cache, and only the one that `iput` is about to drop is free.

`RefInv` is one table and not the three sets of `RefsAreCounted` because most steps
move a pointer (`namex` from `cur` to `dp`, `chdir` from `ip` to `cwd` with the old
one to `put`): the lemmas on counting are that a move leaves the count alone, and
that setting or clearing a place changes it by one.  Only the last step takes the
table apart.  `ShapeInv` is what says that a place was empty before it was set:
without it a pointer could be overwritten, and a reference lost.

`FreeInv` and `MemInv` are under `Regular`, as the properties are: an `iput` that is
overtaken by `iget` breaks both (see below).  The first three parts hold in every
history.  In `FreeInv`, an `iget` of an inode that is being freed is what
`overtaken` records, so as long as it is false `ref` stays 1.

The other properties are about the disk, and follow from a second invariant,
`FsInv`, which holds in regular histories and rests on `CacheInv`.  Its parts:

* `DiskOK`: the directories are a tree.  What is no directory has no entries, only
  linked directories have names in them, a directory has one name, its `..` is the
  directory with that name, and heights can be given to the inodes so that every
  directory is lower than the one it is in (`LowOK`).  Every link count is the sum
  of three: names, the `..` of linked directories, and debts (`Owe`), the links that
  `link` has counted and not made or `unlink` has erased and still counts;
* `CallInv`: what a call knows of its inodes.  `dp` is a directory, `link` has none
  as its `ip`, the inode between `ialloc` and its first name has no pointer but its
  creator's, and the entry that `unlink` found stays while it has the directory
  locked;
* `UseInv`: an allocated inode without links is in the cache or just made, a free
  one has no pointer but that of the `iput` that freed it, and a directory has its
  dots.

The proof has two layers.  The lemmas on the disk (`AllocDisk`, `FreeDisk`,
`RecountDisk`, `NameDisk`, `EraseDisk`, `FillDisk`) are about inodes, directories and
debts as such, with no step in sight: each says that one change of the disk keeps
`DiskOK`, the counting with lemmas on functions that differ at one point.  The
lemmas on the calls then show that a step makes one of these changes, and that the
other calls' knowledge survives it: whoever relies on a directory's entry has it
locked (`LockInv`), and whoever relies on a new inode has its only pointer
(`RefInv`).  `strayed` is needed where a name or a `..` is used of a directory that
`unlink` has taken out of the tree.

`LinksAreCounted` is the count with its three sums taken apart, `NothingIsLost`
comes from `UseInv` and `MemInv`, and a panic would contradict `CallInv`.  For
`NoCircularWait`, a call that has a lock and waits for another is in `create` or
`unlink`, has its directory and waits for what it made or found there.  If the
holder of that waits too, it has it as its own directory; then it is not new, and
it is lower.  A circle would have a lowest member.

### Pages, address spaces and open files

For any number of pages, processes, descriptors and files, any programs and any
arguments of `sbrk()` (`MemoryAssumption`, `ResourcesAssumption`).  What is assumed
of memory is that `userinit()` finds the pages it needs, that `KERNBASE` is a whole
number of pages and that twice `KERNBASE` still fits in a uint, as 0x80000000 does.
The parts of `Inv`, beside the types:

* `Controlled`: what the variables of a call are at each of its steps, and that a
  slot that `fork()` fills has one parent, which is inside `fork()`;
* `HeapInv`: there is a map from pages to owners (the free list, nobody, a pipe, the
  stack, directory or draft directory of a process, a place among the tables or
  the entries of a directory), and the memory, the processes and the pipes agree
  with it in both directions;
* `SpaceInv`: which entries a directory has, at each step of `copyuvm`, `allocuvm`
  and `exec`: always those below some page, and below `KERNBASE`; or, in a process that
  `sbrk(-sz)` has emptied, some of those without the first (`Filled`);
* `FileInv`: a count is the number of places with a reference, a file without
  references has no type, the files `pipealloc()` has taken are still its own, and
  each open end of a pipe has one file, or one copy in `fileclose()`, that stands
  for it.

The map is the point of the proof.  `PagesAreAccounted` counts the uses of a page
over the whole memory, and a count is hard to carry through `freevm()`, which gives
back a set of pages at once; a map gives a page one owner by being a map, and each
operator of `Memory` has one lemma that says which pages change their owner
(`OwnTaken`, `OwnGone`, ...).  What a step must show is then that the pages it
frees were owned by what it drops: that a page is not freed twice follows because
the free list is an owner too.  The count is taken only at the end (`OneUse`).

`SpaceInv` needs `HeapInv`, because a step on one directory must leave the entries
of the others alone, which is so because no two processes have the same directory;
`HeapInv` needs `SpaceInv`, because `freevm()` frees only entries below `KERNBASE`
and `mappages()` must not overwrite one.  The first half is why `exec()` and
`fork()` of different processes do not disturb each other, the second why a failing
call gives back exactly what it took.

`FilesAreCounted` needs the copy in `fileclose()` among the ends: between the lock
and `pipeclose()` no file of the table stands for the end any more, and it is
still open.  That a file taken by `pipealloc()` is nobody else's until it has its
type is what lets both ends be set without the lock.

A panic may leave a call half done, which `Inv` does not describe.  `Panics` shows that
the step that panics changes no page, file or process and has an emptied process
to blame; the state it leaves (`Stopped`) has all three properties and stays.  So
`Invariance` says `Inv \/ Stopped`, and nothing but an emptied process ends the first.

### Pipes

For any disjoint sets of readers and writers and any ring whose size divides the
range of the counters and is smaller (`PipeAssumption`, true of 512 and 2^32).
The parts of `PipeInv`: `RingInv`, there are no more bytes than slots; `EndInv`,
whoever is in a call has an open end; `LockInv`, the process about to sleep has
`p->lock`; `SleepInv`, what made it decide to sleep is still so.

The refinement takes the stream to the bytes from `nread` to `nwrite` in the ring
(`Contents`).  The arithmetic is in lemmas: the distance of the counters is
unchanged by a wrap, two bytes in the ring never share a slot, and the slot of a
wrapped counter is the next one (here the division is used: without it a byte
would be lost at every wrap).  From these, a write appends a byte to the stream and a read drops its
head, and every step of the code is a step of `ByteStream` or a stutter.

### Only model-checked

* Liveness (`KilledExit`, `ZombiesAreReaped`, `SleeperIsWoken`, `CommitFinishes`):
  fairness and `ENABLED` are beyond the prover.
* `DrawIsFair`: the ticket count is a sum over a set, whose properties need an
  induction over data that the provers cannot be given.
* `EchoIsTheLine`, `NoStuckModifier` and the refinement of `Lines`: what a key or a
  text does to ring and screen is a fold over its bytes, again an induction.
* `NoCircularWait` of `Inode` in histories that are not regular: the run checks it in
  all, the theorem is about regular ones, where the directories are a tree.
* `Content`: not proved, see the plan.

## A disagreement between the code and its documentation

`iput` truncates and frees an inode without its lock (`fs.c:326`), against the
rule of `fs.c:136`.  Once the inode is free on the disk, `ialloc` in another
process may take it and `iget` find the old cache entry, still valid; `create`
fills that in and writes it back with type 0, and the new name refers to a
free inode (run `inode_free`).

## Other observations

Met while modelling, without a run of their own.  The first four are histories of
the models, and the properties named except them:

* `log_write` tests for room before it takes `log.lock` (`log.c:216`), and `mkfs.c:25`
  makes the log `LOGSIZE` blocks with the header: two calls that test at one free
  entry both append, and `write_log` would write the last block over the first inode
  block.  `LogInBounds` of `Log` fails there, and `Running` ends the behaviour.
* `begin_op` waits when "this op might exhaust log space" (`log.c:133`), and counts with
  `LOGSIZE` blocks where there are `LOGSIZE - 1`: three calls of ten blocks are admitted,
  and the thirtieth block panics.  The panic also hits a block that is in the
  transaction already and would take no room.
* `piperead`, `pipewrite`, `consoleread` and `sys_sleep` test `proc->killed` without
  `ptable.lock`.  A kill between the test and `sleep()` wakes nobody, though `kill`
  means to "Wake process from sleep if necessary." (`proc.c:540`): the process sleeps
  until something else wakes it, on a pipe or the console perhaps never.
  `KilledExit` excepts it (`KilledTooLate`).
* `growproc` takes the 0 that `deallocuvm` returns for the new size of `sbrk(-sz)` as an
  error (`proc.c:146`): the pages are freed, the size stays, `cr3` is not reloaded and
  the call fails.  The process normally faults; while the TLB still has the old
  pages it goes on, and its `fork` panics in `copyuvm` (`vm.c:335`).  `SpacesAreWhole`
  excepts it (`Emptied`), and says that nothing else makes the kernel panic there.
* `kill` compares pids of free slots as well; `kill(0)`, or the pid a failed
  `fork` left behind, sets `killed` in a slot that `allocproc` later hands out
  without clearing it (`proc.c:538`).
* `scheduler` falls back on the uniform policy whenever *this* CPU counted no
  ticket in its last round, which for an idle CPU is the normal case, and so
  overwrites the tickets of the desired policy (`proc.c:376`).
* `setupkvm` returns 0 without freeing the directory and tables it has
  (`vm.c:139`), and `copyuvm` loses a page when its `mappages` fails
  (`vm.c:341`).  `PagesAreAccounted` counts these pages as lost, and says that no
  others are.
* `filewrite` (`file.c:133`) puts up to 13 data blocks in one transaction, with
  its bitmap, inode and indirect blocks more than the `MAXOPBLOCKS` 10 that
  `param.h:10` calls the maximum "any FS op writes".  The run `log` has calls of this
  kind.
* `pipewrite` returns for a killed writer after filling the ring without waking
  the readers; `SleepersMustWait` is therefore about histories without a kill.
* A removed directory that is still somebody's working directory keeps its `..`
  and accepts new entries.  The parent may be freed meanwhile: a lookup of `..`
  then panics ("ilock: no type"), and entries made there are never freed.
* `mkfs` makes `/bin` without counting its `..` in the root's link count.
* With several writers on a full pipe nothing keeps one of them from being
  overtaken for ever.
* `priority()` sets a field that only `policy(1)` reads, right after it has set it
  itself (`proc.c:318-321`), and so has no effect, except in between: `priority(0)`, or
  a negative one, there leaves the slot without tickets until the next policy, also
  for a child that `fork` puts into it later.  `NobodyStarves` excepts these slots
  (`overtook`).  An optimising compiler may fold the read away.
* `policy()` does not test its argument: `policies[pl].fun` of the null entry, or beyond
  the array, is called (`proc.c:599`).
* `ideintr` ignores a failed read and sets `B_VALID`.
* `mkfs.c:183` rounds the size of the root up to the next block even when it is a
  whole number of blocks: a hole would be left, which `readi` would fill outside
  a transaction.  The files of the Makefile do not reach that.
* `ticks` is read without `tickslock` by `get_ticks` and is advanced before
  `update_times`, so that the times of a process and its life may differ by one
  tick; the ticks for which it was `EMBRYO` are in none of them.
* `sys_sleep` compares an unsigned difference with a signed `n`: a negative
  argument is a very long sleep.

## What is not modelled

* Boot code, interrupt controllers and device registers: they run once and have
  no state machine of the kernel's own.
* Disk errors, the arithmetic of the random number generator, the digits of
  `cprintf`, the contents of pages.
* The fetching of system call arguments (`syscall.c`): it reads user memory
  against `proc->sz` and changes nothing.  That it faults when the pages are gone is
  `ArgumentFault` of `Resources`.
* `exec` with 32 MB of arguments and more: an address below 0 is in the device
  space at the top, whose pages `uva2ka` refuses, only down to there; beyond, there is
  no page table and `uva2ka` would follow a null pointer (`vm.c:358`).
* The user programs, `sh.c` and `usertests.c` among them, and the user library:
  each is a sequential program in a process of its own.
* `exec` holds an inode and a transaction while it reads the program; `Resources`
  leaves both out, and `Content` has no reader of that kind.
* In `Bio` a process holds one buffer at a time; `commit()` and `bmap` hold two.

## Plan

Done in this order: `AtomicDisk`, `Log`, `LogProofs`, `Proc`, `Lottery` with its
proof, `Pipe`, `Bio`, `Inode`, then `Content`, `Resources` with `Memory` and
`FileTable`, `Clock`, `Console` with `Keyboard`; then the proofs about `Proc`,
`Clock`, `Bio`, `Pipe`, `Inode` and `Resources`.  Next:

1. `BlocksAreAccounted` of `Content`, with a map of owners as for pages.
2. `Log` and `Bio` composed, to show that `NBUF` buffers suffice.
