# A TLA+ development of this xv6

The repository is xv6 for the x86 (`src/xv6-public/`), a small multiprocessor
Unix, with memory mappings added to it (`wmap`, `wunmap`, `wremap`,
`getwmapinfo`: `sysproc.c`, `wmap.h`, the page-fault case of `trap.c` and
`overwrite_file` in `file.c`). This directory models its core in TLA+, checks the
models with TLC and proves what matters most with TLAPS.

## 1. The system

| Part | State | Operations | Talks to |
|---|---|---|---|
| spin-locks (`spinlock.c`) | `locked`, `cpu`, per-CPU `ncli`, `intena` | acquire, release, pushcli, popcli | everything |
| sleep-locks (`sleeplock.c`) | `locked`, `pid` under `lk->lk` | acquiresleep, releasesleep, holdingsleep | sleep/wakeup; held by buffers and inodes |
| processes, scheduler (`proc.c`, `swtch.S`) | process table under `ptable.lock`, `nextpid`, per-CPU `proc` | fork, exit, wait, kill, sleep, wakeup, yield, scheduler | traps; every sleeper |
| traps (`trap.c`) | `ticks`, `p->killed` | system calls, timer, faults | proc.c, drivers, mappings |
| memory mappings (`sysproc.c`) | one hash table of mappings, a pool of nodes | wmap, wunmap, wremap, getwmapinfo, page fault, fork, exit | page tables, files |
| log (`log.c`) | header in memory and on disk, `outstanding`, `committing` | begin_op, log_write, end_op, commit, recovery | buffer cache, every file-system call |
| buffer cache (`bio.c`) | LRU list of buffers, `refcnt`, `B_VALID`, `B_DIRTY` | bread, bwrite, brelse | disk driver, log, inodes |
| disk driver (`ide.c`) | request queue | iderw, ideintr | buffer cache, interrupts |
| inodes, directories (`fs.c`) | inode cache, bitmap, on-disk inodes | iget, ilock, iput, balloc, bfree, writei, namex | log, buffer cache |
| files (`file.c`, `sysfile.c`) | file table with reference counts, descriptors | open, close, dup, read, write, link, unlink | inodes, pipes |
| pipes (`pipe.c`) | a ring of `PIPESIZE` bytes, two counters, two open flags | piperead, pipewrite, pipeclose | sleep/wakeup, files |
| memory (`vm.c`, `kalloc.c`, `exec.c`) | page tables, free list | allocuvm, deallocuvm, copyuvm, freevm, exec | fork, exec, mappings |
| console (`console.c`, `kbd.c`, `uart.c`) | input ring | consoleintr, consoleread | interrupts, sleep/wakeup |
| user library (`umalloc.c`, ...) | free list of malloc | malloc, free | sbrk |

What is hard in it: processes on several CPUs interleave at every instruction;
`sleep` gives up one lock for another and must lose no wakeup in between;
`ptable.lock` is acquired by one thread and released by another across `swtch`;
power may fail between any two disk writes; the log's size is tested without
its lock; `kill` marks a process at any moment and takes no lock but the process
table's; the table of mappings has no lock at all and is shared by all processes.

What makes each part correct:

* sleep-lock: one holder, an exact `holdingsleep`, no sleeper left behind;
* spin-lock: never wanted by the CPU that holds it, interrupts on again afterwards;
* processes: no process on two CPUs, every process has a parent that can wait
  for it, no exit is missed, no runnable process starves;
* log: the writes of a system call reach the disk together or not at all, the
  log has room for what it admitted, everything is durable when it is quiet;
* buffer cache and driver: one buffer per block, the last contents stored are the
  ones read, every request answered;
* inodes and files: reference and link counts are exact, nothing is freed that
  can be reached;
* contents: no block in two files or lost, a file is a sequence of bytes, a
  transaction within its reservation;
* memory: no page lost, freed twice or owned twice, whichever allocation fails;
* pipe: a FIFO queue, whose sleepers wake and whose page is freed once;
* console: finished lines in order, each character once, no reader asleep in front of one;
* mappings: the table is what the program was given, mappings are disjoint.

## 2. The modules

| Module | Models | Proofs |
|---|---|---|
| `SleepLock` | `sleeplock.c` over `sleep`/`wakeup`/`kill` of `proc.c` | `FileSysProofs`, at its end |
| `AtomicDisk` | abstract: a disk whose operations commit together and survive crashes | |
| `Log` | `log.c` over the part of `bio.c` it relies on, with crashes; implements `AtomicDisk` | `LogProofs` |
| `BlockStore` | abstract: blocks that one process at a time holds | |
| `Disk` | `bio.c` over `ide.c` and its interrupt; implements `BlockStore` | `DiskProofs` |
| `FileStore` | abstract: files as sequences of bytes | |
| `FileData` | blocks and contents of `fs.c`, read, write and seek of `file.c`; implements `FileStore` | `FileDataProofs` |
| `FileSys` | inodes, directories and paths of `fs.c`, `sysfile.c`, the file table of `file.c` | `FileSysProofs` |
| `Proc` | `proc.c` and the `killed` and timer logic of `trap.c` | `ProcProofs` |
| `Memory` | `kalloc.c`, `vm.c`, `exec.c`, `growproc` | `MemoryProofs` |
| `Fifo` | abstract: a bounded queue between calls of write and read | |
| `Pipe` | `pipe.c` with the references of `file.c`; implements `Fifo` | `PipeProofs` |
| `LineInput` | abstract: an editor of lines | |
| `Console` | `console.c` under the spin-lock of `spinlock.c`; implements `LineInput` | `ConsoleProofs` |
| `Wmap` | the mappings of `sysproc.c`, the page-fault case of `trap.c`, fork and exit of the table | |

`MC*.tla` give TLC what a `.cfg` cannot say: symmetry sets, sequences, calls and disk images.

The modules lean on each other as the layers of the kernel do. `SleepLock` shows that
`sleep` and `wakeup` lose nothing, and the others take each for one step. `Disk` shows
that a cache with a driver is `BlockStore`, which is what `Log` assumes of `bread` and
`bwrite`. `Log` shows that a transaction is atomic, which is why `FileSys` and `FileData`
have no crash of their own.

**SleepLock.** Both spin-locks, `lk->lk` and `ptable.lock`, are variables that
name their holder, and `at` says where each process is. `sleep` is three
steps (take `ptable.lock`, drop `lk->lk`, block), because what the module asks is
whether that order loses a wakeup. `kill` wakes sleepers early.

**Log.** `home`, `logd`, `hdr` are the disk; `lh`, `outstanding`, `committing` and
the buffers (`buf`, `dirty`) are memory. Each disk write is one step, and `Crash`
may come between any two of them: it erases memory and boots into recovery, where it
may come again. `log_write` is two steps, `LogWrite` (the test of the size, without the
lock) and `LogAppend` (under `log.lock`). `Evict` recycles any buffer that is not
referenced and not `B_DIRTY`, which is how `bget` may lose a logged block if it
is not pinned. The refinement maps `stable` to what a reboot from the present disk
would recover and `current` to what `bread` returns.

**Disk.** A buffer is a record of `struct buf`; `lru` is the list of `bcache`, the most
recently used first; `idequeue` is the driver's queue, whose first request `drive` works on.
The drive is external: it finishes (`DriveDone`) and interrupts (`Ideintr`) when it likes,
and blocks in `BadBlock` may come back with an error, which `ideintr` turns into a valid
buffer with old contents. A section under `bcache.lock` or `idelock` is one step.
A process has two hands (`Hand`), since `write_log`, `install_trans`, `bmap` and `itrunc` hold
two buffers at once; `Nested` says which block may be asked for by the holder of which, an order that
never turns round in the code. `bget` that finds no buffer panics: the process has no step there until
one is free again, which is all the model makes of a halted machine.
The log's pins are `B_DIRTY` buffers that nobody refers to, at most `MaxPin`.

**FileSys.** The inode cache is write-through, so `type` and `nlink` are kept once. `iput`
is as many steps as it has sections (the test of `ref`, the truncation, the decrement), and
a call that holds one inode while it waits for another has a step for each. Directories map names to
inodes. `ref` counts pointers, and the pointers are a set of places: the file table, the current
directories, and what each call has in `dp`, in `ip` or has still to put. A call that meets a panic goes no
further: `Ilock` is not enabled on an inode without a type, `Room` not when all `NINODE` entries are referenced;
`NoPanic` says that none of the panics about inodes is due. Two histories serve the
properties: `lost` counts the names that were freed with a removed directory, and `stray` says
that a call has gone through the `..` of a removed directory to an inode without links (observation 6).

**FileData.** `bitmap`, `block`, `addrs`, `size` are the disk; an indirect block is a block whose
numbers are read as addresses. `writei` and `itrunc` hold the inode and take or free one block
at a time, so that two processes allocate in turns. `filewrite` cuts a long write
into transactions and `wrote` records the blocks each one gives to `log_write`. The refinement maps a file to the
bytes its blocks hold.

**Proc.** A section under `ptable.lock` is one step, except one that ends in
`sched`: then the lock stays with the CPU, through `Swtch`, until the scheduler
releases it, and a scheduler hands it to the process it resumes. `at` is where
each CPU is, `ctx` where a process that is not running called `sched`. `fork` is
two sections with `np` in the state `EMBRYO` between them. `SleepIO`/`WakeIO` stand
for every sleep of a driver or a lock.

**Memory.** Pages have no identity: the free list is its length, and an address space is its
directory, its page tables and its pages. Each `kalloc` is one step of a job (fork, exec, sbrk)
that other processes' jobs come between, and that takes its failure path when the list is
empty. What programs are in the file system is `ExecSizes`. `PagesExact` counts pointers, one
for each place from which the kernel could free a page (`Pointers`).

**Pipe.** Inside a section under `p->lock` a process goes on byte by byte and test
by test, because `kill` needs no `p->lock`. `nread` and `nwrite` are numbers
modulo `UINT`, which `PIPESIZE` divides as 512 divides 2^32. Who holds which end is
`fds`, and `ref` is what `file.c` counts; `fileclose` and the `pipeclose` it ends in
are two steps.

**Console.** Every process has a CPU; the keyboard interrupts one of them, `KbdCPU`, and
runs as a context of its own on top of the process there. `acquire` is `pushcli` (reading the flags
and `cli` are one step: an interrupt between them ends before the flags are used), the
test of `holding` and the `xchg`; `popcli` restores `intena`, which is forgotten at depth 0, where
the code overwrites it before it is next read. The ring's indices are modulo `UINT`, and
edits, reads and `^D` are those of the code, the character that is put back included. The test of `killed`
and `sleep` are two steps, because `kill` does not take `cons.lock` and may come between them.

**Wmap.** A bucket is the chain of its cells; `hashInsert`, `removeValue`,
`forkHelper` and `exitHelper` are operators on chains that keep what the code
does to a cell field by field (`removeValue` moves up only the address of the next
cell). A system call is a list of tasks, between which others may run and page
faults are taken. `regions` is history: what each process has been given; so is `plain`: that no node was
needed since `initHashTable`, and `wremap` was given starts of mappings. `mostRecent`, which is null at first and
may later point to a removed cell, makes `SearchFrom` a choice. After a write in front of `table[]` anything may
happen and the model stops; nodes behind `nodePool[]` either do the same or lie where nothing
else is and serve as nodes (`Store`), so that the table is followed beyond the first fork (observation 4).

## 3. The runs

| Run | Instance | Shows |
|---|---|---|
| `sleeplock` | 3 processes | one holder, no lost wakeup, the inductive invariant, every sleeper made runnable |
| `log_atomic` | 2 processes, 3 blocks, 2 values, log of 4, crashes anywhere | implements `AtomicDisk`; durable when quiet; a sleeper has a waker; the inductive invariant |
| `log_live` | 3 processes, 6 blocks, `MAXOPBLOCKS` 2 of 7, operations of one block | `log_write` never panics within the budget; a sleeper in `begin_op` is woken |
| `disk` | 2 processes with two hands, 4 blocks, one unreadable, 2 buffers, 1 pin | implements `BlockStore`; one buffer per block, and one to take unless all are in use; the queue is what waits; every request is answered |
| `fs` | 2 processes, 3 inodes, all nested directories at first, 1 open file, 2 descriptors, nine calls | references exact; until a `..` has gone astray, link counts exact, nothing in use freed, no panic |
| `filedata` | 2 processes, 2 files, 6 blocks of 2, 2 direct blocks, 5 calls | implements `FileStore`; every block in one place; transactions within `MAXOPBLOCKS` |
| `proc_safety` | 2 CPUs, 3 slots, `kill` of pids 0 to 2 | one CPU per process, parents exist, no missed exit, unique pids |
| `proc_live` | 1 CPU, 3 slots | no starvation; init reaps what it inherits |
| `memory` | 3 processes, 20 pages | pages add up; a process has exactly the pages of its size |
| `pipe` | 2 processes, 2 bytes of buffer, counters modulo 4, a write of 3 bytes | implements `Fifo`; nobody sleeps who could go on; freed exactly when unreachable; a reader is released when the last writer goes |
| `console` | 2 processes, a ring of 3, indices modulo 6, five kinds of key | implements `LineInput`; no CPU waits for itself; no reader asleep in front of a line; every key handled |
| `wmap` | 1 process, which forks and exits too, 3 buckets, 2-address pages | without collisions since the table was set up it is exact; mappings that it has right are disjoint; removal loses no other address |

Where a module needs a type invariant, it is part of the first invariant of its run.

*Bounds.* Three processes are one to hold, one to sleep and one to come in between.
In `log_atomic` two operations of up to two blocks over three
blocks overlap in one (absorption) and fill a transaction between them. In
`log_live` three operations run at once, so that the test without the lock is made by one process while two
others append; one that keeps running lets further ones join until the log has five blocks, the most that can be,
where the test trips at six. Two buffers for four blocks make every miss recycle; two processes with two buffers
each and a pin use them all, so that `bget` fails too. Twenty pages are enough for three processes to live and too few
for them to fork and exec at once, so that each allocation is sometimes the one that fails; a page of
two units has a size in its middle. In `fs` one open file and two descriptors make both tables
full, and of three inodes those of the two removed directories are used again, for files and for
directories, while a process is still inside the old ones and uses `..` and names there. `NINODE` is the number of inodes, so
that a full cache, at which `iget` panics, is not met in the run; `RefExactHolds` is for any `NINODE`. Two direct blocks and a write of seven
bytes reach the indirect block and are cut into several transactions; six blocks are
reused by the other file. `MaxPid` bounds the forks of a run: four pids in three slots reuse a
slot. A pipe of two bytes and a write of three make a writer sleep halfway, and counters
modulo 4 wrap around after two fillings; so do indices modulo 6 in a ring of 3. Three buckets and addresses 4, 6, 8 give each
address a bucket of its own, while mappings that `wmap` itself places, at 10,
collide with the one at 4; `MaxMaps`, 3 entries, bounds the table, so that the search passes over two
mappings, and `MaxPool`, 5 nodes where `nodePool` has 2, lets the fork before the first `wmap` overrun it and
go on; one page table spans all pages, so that the second page to be loaded faults for ever (observation 3). Every action of every module fires in
some run.

*Deadlock* is checked except where the system may stop: `pipe` (all ends closed,
or every process waiting for another to write, which is the program's doing), `wmap` (after a
write out of bounds), `filedata` (`MaxCalls` are made, or no block is free and `balloc` panics) and
`fs` (a panic stops the call, that of `ialloc` without a free inode among them, and the deadlocks of observation 6 are reached).

*Fairness.* A process in the kernel is scheduled again and goes on; a spin-lock
that is free again and again is got by each CPU that spins on it (strong fairness:
`xchg` promises no order, but no CPU is shut out for ever on the hardware the code is for), and so
is a sleep-lock by each process that is woken for it; timer, keyboard and disk interrupts come, and the drive
finishes its command; a program releases a buffer it holds (`Brelse`: every `bread` in the code has its
`brelse`); init never stops calling `wait` (`init.c`). What
programs do, `kill`, and crashes have no fairness. `proc_live` shows that the scheduler
justifies the first assumption, which the other modules make.

## 4. The proofs

**`FileSysProofs`**, for any number of processes and inodes, any disk image with a root whose entries name its inodes, and any
calls. `Shapes` says which inodes a call has in its hands at each of its steps and that it has at most
two to put, `Alive` that a process that does not exist has no descriptors and is in no call, `Counted` that
`ref` is the number of pointers, `Described` the same for the file table, `Unused` that a free file points nowhere.
The step that all actions share is `Recount`: the pointers split into those of the acting process, those of one file
and the rest, so an action is right when what it adds to `ref` is what it adds to its own variables. One lemma
per action follows, on every error path too, and with them `RefExactHolds`.

The end of the module is about the lock of an inode, which `FileSys` takes in one step: `SleepLock`, for any
set of processes. `IndInv` adds to the three properties which label holds which lock, and the covering of
sleepers: from the test to `sleep`'s release of `lk->lk` the lock is taken, and from then until the process
is `SLEEPING` either it is still taken or its releaser stands before `wakeup` and needs `ptable.lock`. From
it follow `MutualExclusionHolds`, `HoldingsleepCorrect` and `NoWakeupLost`.

**`LogProofs`**, for any finite set of processes, any blocks, values and sizes with
`MAXOPBLOCKS <= LOGSIZE`. `IndInv` has a part for each concern:
`CommitOK` (`outstanding` counts the operations, one process commits and only when there are none),
`OpsOK` (what an operation wrote is in the log or in its hand), `SpaceOK`, `CacheOK`
(the pinned buffers are exactly those logged and not installed, the others
agree with the disk) and `LogOK` (how far the commit has got, and that the header on
disk is empty or is the log). Each action preserves it, one lemma per action.

* `DurableWhenQuiet` and `TypeCorrect` follow from it.
* `PanicFree`. `Tokens` is the set of reserved and unused places, and `SpaceOK`
  says that places in use and reserved are at most `LOGSIZE`. An operation
  that passes the unlocked test still owns a token, which is a place nobody else can
  take before its append. The theorem assumes `Budget`: that an operation
  writes fewer blocks than it reserves, by enough for the header block. `TwiceOK` makes this little: where two
  operations fit into the log, an operation starts in an empty log or beside another, and what the
  two leave unused stays free, so one unused block each suffices (observation 1).
* `LogRefines`. Initial states map to initial states; the write of the
  header is the abstract commit; a crash maps `current` to `stable`; every other
  step changes `current` by a write or stutters, and installing a block
  does not change what a reboot recovers.

* `SleeperHasWakerHolds`. A sleeper stands in `begin_op` because of a commit or of the space that
  running operations have reserved; the last of them and the commit wake it.

In the modules below the invariant is called `Inv`, and again each action has a lemma that says it
is preserved. TLC has checked each of them on the instance of section 3.

**`ProcProofs`**, for any number of CPUs and slots. `Cpus`: a CPU that is not in its scheduler
names a process, no other CPU names it, and `ptable.lock` is held exactly from a section that ends
in `sched` to the release on the other side of `swtch`. `Family`: `initproc` lives, parents live,
and the `EMBRYO` in the hands of a `fork` is its own and nobody's child until `parent` is set; this
is what `HasParentHolds` needs when a parent exits between the two sections of a `fork`.
`OneCPUHolds`, `NoMissedExitHolds` and `UniquePidsHolds` follow too.

**`ConsoleProofs`**, for any number of processes and any ring with `UINT` a larger multiple of
`INPUT_BUF`. `Cli` says for each CPU that interrupts are off, by one `pushcli` with
`intena` set, exactly from `acquire` to `release`, and that the handler comes in only
elsewhere; with `Holder` this gives `LockSafeHolds`. `Lines` (the edited part has no end of
line in it, and a full ring is a finished one) gives `ReaderAwakeHolds` and, with the lemmas
on what a store, a read and an erasure do to `Contents` (the sequence between two indices
that are counted modulo a multiple of the size of a ring), the refinement
`RefinesLineInputHolds`.

**`PipeProofs`**, likewise for any ring. `Counts` and `Ends` say that `ref` counts the
descriptors and that an end is open until the process that closed the last one has been
in `pipeclose`: `FreedExactlyHolds`. `Sleepers` gives for each sleeper its reason or the
process that is about to wake it: `NoSleepOnReadyHolds`. `RefinesFifoHolds` maps the queue to
the bytes between the counters.

**`DiskProofs`**, for any finite set of processes with two hands each, any blocks, any order of
nesting and any `NBUF`. `Refs` makes `refcnt` the number of users, `Locks` says what a
holder knows of its buffer, `Queued` and `Driven` tie the queue to the processes that
wait and to the drive, `Clean` ties a clean buffer to the disk. `CacheExactHolds` adds the pigeonhole
argument for `bget`: if none can be recycled, each of the `NBUF` buffers is in a hand that is at work or
pinned, and no two are in one hand. That this does not happen is not claimed (observation 8). `QueueExactHolds`, and `RefinesBlockStoreHolds`, in which a block's
contents are its buffer's when there is a valid one and the disk's otherwise.

**`MemoryProofs`**, for any number of processes and pages, any programs and any sizes.
`Children` says whose child an embryo is and whether it has its stack, `Progress` how far a call has
come, `Built` what the space under construction has, and `Ready` that a process has the pages
below its size, or below the page that its `sbrk` has got to. `Balance` is the step that all actions
share: it exchanges up to four parts of the disjoint union of the pointers, so an action is right when
what it gives to the free list is what it takes from its parts. From `Inv` follow `PagesExactHolds` and
`SzMappedHolds`.

**`FileDataProofs`**, for any number of processes and files, any sizes of blocks, files and disks and any writes.
`Locks` says what a process inside a call has in its hands, `Progress` how far a write or a truncation
has come and that a chunk is at most `MaxChunk`. `Placed` is the heart: a pointer of an inode or of an
indirect block is to a block that is taken in the bit map, no two pointers are to the same one, a block that is being
cleared is nobody's, and a truncation has no pointer left behind it. `Filled` says that every block below the end
of a file is there, `Within` that what a transaction has written is among the blocks of its chunk, their
indirect block, the bit map and the inode. A step that touches one file leaves the pointers and the bytes of the others as they
are, since what it writes is a block of its own, and this is where `Placed` is needed. From `Inv` follow
`BlocksExactHolds`; `OpFitsHolds`, by counting the blocks that a chunk can meet; and `RefinesFileStoreHolds`, in which a file is
the bytes up to its size, or up to where the write in progress has got to.

*Assumptions.* Each module names what its constants have to be, no more than the code has: sizes are
positive, a ring's size divides the modulus of its counters (512 and 128 divide 2^32), the kinds of key are the ones
that `consoleintr` tells apart, and the memory suffices for the first process. Only `Budget`, of `PanicFree`,
is about what callers do: observation 1.

*Only model-checked.* Liveness and fairness, which the prover does not treat. `Wmap`: its
operators are folds over chains of cells, about which nothing can be proved for every length
without induction over data, and `InfoExact` is stated for one process. `FileSys`: `LinksExact`,
`InUseNotFreed` and `NoPanic`, which are about the time before `stray`.

## 5. Observations

What the code does that a reader of it might not expect. The models have it as the code
does; a property that it would break leaves it out by a condition that says so.

1. `log.c:218`, latent. `begin_op` admits operations up to `LOGSIZE`, the log area holds
   `LOGSIZE - 1` data blocks (`param.h:10-11`, `mkfs.c:25`). Operations that write all that `param.h` allows
   them panic; `PanicFree` says that at most 9 of the 10 blocks each is safe. `OpFits` by itself gives only 10. By
   reading: a chunk of `filewrite` is 3 blocks (`file.c:190`), so at most 4 blocks of data, an
   indirect block, the bit map (one block, `FSSIZE` 1000) and the inode, 7 in all; the other calls write fewer.
2. `proc.c:509`. `kill` does not look at `p->state` and `allocproc` does not clear
   `p->killed`: `kill(0)` kills the process that is made next (`proc.c:105-106`).
3. `trap.c:94`. A page is loaded only if its page table is missing, so only
   one page of each 4 MB can be: the next access under it faults for ever
   (`testwmap.c:12,23` touch more). A fault of a file mapping takes two pages and keeps one,
   and the partial `wunmap` frees none.
4. `sysproc.c:90`. The first fork finds the table all zeros, takes that for entries
   (the empty mark is -1, `sysproc.c:66`) and takes 20 nodes from a pool of 16 (`wmap.h:23`).
5. `fs.c:332-352`. Two processes that put an unlinked inode at once both see
   `ref` 2 and neither frees it; a crash leaks an unlinked inode that is open. `InUseNotFreed` speaks of the
   other direction only.
6. `iput` takes the lock of its inode even for a reference that is not the last, so
   `unlink` (`sysfile.c:225`) and `create` (`sysfile.c:280`), which hold a directory, can wait for one
   another, and `link(x, ".")` waits for itself. A removed directory that is somebody's current one still
   accepts new names; a file there keeps `nlink` 1 after the directory is freed, and its inode is never free
   again (`lost`). The `..` of such a directory does not keep its parent: after `mkdir /a`, `mkdir /a/b`, `chdir /a/b`,
   `unlink /a/b`, `unlink /a` it names a freed inode, and `open("..")` panics in `ilock` (`fs.c:309`), or one that a
   `create` has just taken and whose `nlink` the two of them then set. The calls of `fs` do all of this. `LinksExact`,
   `InUseNotFreed` and `NoPanic` hold until a call has taken such a `..` to an inode without links
   (`stray`), and say nothing after it. Also, `NINODE` (50) is less than `NFILE` (100): programs that hold 50 inodes make the next
   `iget` panic, "iget: no inodes" (`fs.c:261`).
7. `ide.c:118-123`. A block the drive cannot read becomes valid with what the buffer held
   before; `RefinesBlockStore` is about the other blocks.
8. `bio.c:92`. `NBUF` (30) is hardly more than the log can pin (29 blocks), and each of 64 processes may hold one buffer
   or two: `bget` can find none and panic. `CacheExact` says only that all `NBUF` are then really in use.
9. `proc.c:184`. `sbrk(-sz)` frees everything, returns -1 and leaves `p->sz`; `SzMapped` leaves
   such a process out. `vm.c:285-286` frees a page before it clears the entry, which nobody else can read.
10. `file.c:139`. `overwrite_file` sets `f->off` without a lock, while others share the file.
11. `MAP_FIXED` tests only the first page of the range (`sysproc.c:265`), and
    `wremap` grows a mapping without updating `numPages`, so that a later `wmap` is placed over
    it: `NoOverlap` is about mappings that the table has with their size and pages, of which `MAP_FIXED` placed
    at most one page. `wremap` takes any address inside a mapping for the mapping (`sysproc.c:441-447`): after `wmap` of two
    pages, giving it the second page and the full size changes the length of the whole entry. `InfoExact` leaves this out by `plain`.
12. `removeValue` of a first cell keeps that cell's length for the address that
    moves up (`sysproc.c:130`), `forkHelper` copies the first entry twice (`sysproc.c:541`), and `exit`
    removes the mappings of all processes but not all of a chain: `InfoExact`
    is stated for one process, and for the time since `initHashTable` in which no two addresses met in a bucket,
    whatever earlier forks left behind.
13. `wunmap` of a mapping never touched stores through a null pointer (`sysproc.c:359`);
    of a shared file mapping, it faults with the inode locked and waits for itself
    (`sysproc.c:333`, `trap.c:120`).
14. A killed writer that has filled a pipe returns without waking the reader (`pipe.c:88`),
    and a `kill` between the test of `killed` and `sleep` goes unnoticed until the
    next wakeup (`pipe.c:107`; `console.c:246` likewise): the reader's half of `NoSleepOnReady` is
    stated for the time before the first kill, and `ReaderAwake` says nothing of killed readers.

## 6. Plan

Done: the twelve runs above over ten detailed modules and five abstract ones; the proofs of `SleepLock`,
`Log`, `Proc`, `Console`, `Pipe`, `Disk`, `Memory` and `FileData`, five of them with a refinement, and of `RefExact` of
`FileSys`. Left:

1. `LinksExact`, `InUseNotFreed` and `NoPanic` of `FileSys` as theorems, up to `stray` as they are stated.
2. `Wmap` with the table as a function from addresses, the chains of cells refining it, once `sysproc.c` no longer
   loses entries (observation 12).

Not modelled, and why: `mp.c`, `lapic.c`, `ioapic.c`, `picirq.c`, `main.c` and the boot code
program hardware once; `memide.c` is another build's disk; `mkfs.c` runs on the host, and only the disk it makes
is an initial state; `syscall.c` is a table, and fetching an argument changes nothing; `kbd.c`,
`uart.c` and the output half of `console.c` are device I/O, and `^P` prints; `sys_sleep` counts `ticks` under a lock and
sleeps as others do; `pipealloc`'s failures give back what they took; page contents (in `exec` too), `loadedPages` and
`getpgdirinfo` are data that no property here tells apart; `umalloc.c` and the rest of the user library are
sequential; the shell, the tests and the other programs are
clients, read for what they expect of the kernel.
