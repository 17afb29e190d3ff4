# Verification of the xv6 system-call enhancements and scheduling algorithms

TLA+ models of the kernel in `src/System Call Enhancements in xv6 OS/` (an
xv6-riscv kernel with added system calls and a second scheduler) and of the
scheduling simulators in `src/schedulling_algorithms/`. Paths below are relative
to those directories.

## The system and its parts

| Part | Source | Shared state | Actors |
|---|---|---|---|
| Write-ahead log | kernel/log.c | `struct log`, on-disk header and log blocks | system calls, the committing thread, recovery |
| Buffer cache, sleep locks | kernel/bio.c, sleeplock.c | LRU list, `refcnt`, buffer locks | system calls, the log |
| Disk driver | kernel/virtio_disk.c | descriptor and used rings | system calls, the device, its interrupt |
| Processes | kernel/proc.c, swtch.S | process table, `wait_lock`, `p->lock` | CPUs, system calls, interrupts |
| Spin locks | kernel/spinlock.c | lock word, `noff`, `intena` | CPUs |
| System calls, traps | kernel/syscall.c, sysproc.c, trap.c | `ticks` | user code, timer |
| Pipes | kernel/pipe.c | ring buffer, two open flags | readers, writers, `kill` |
| Files and descriptors | kernel/file.c, sysfile.c | file table, descriptor tables | system calls |
| Inodes and directories | kernel/fs.c | inode table, disk inodes, bitmap | system calls |
| Console and UART | kernel/console.c, uart.c, plic.c | line buffer, transmit buffer, the device | readers, writers, interrupts on any CPU |
| Memory | kernel/kalloc.c, vm.c, exec.c | free list, page tables | system calls |
| Added calls | proc.c `sfork`, second `scheduler`, `sys_count_zombies`; sysproc.c `sys_setpriority`, `sys_cpuutilization`; sysfile.c `sys_pipetagged*` | process table | system calls |
| Scheduling simulators | schedulling_algorithms/*.c | process array, queues | one thread |
| User programs | user/*.c, mkfs/mkfs.c | none shared | - |

How they interact: a system call on files runs inside a transaction of the log;
it reads blocks through the buffer cache, which calls the disk driver; whoever
has to wait sleeps on a channel (`sleep`/`wakeup` of proc.c) and gives its CPU
to the scheduler. Pipes and the console use the same sleep and wakeup. Memory is
one free list, from which processes take pages for user memory, page tables,
trapframes, arguments of exec and pipes; the table of open files is shared in
the same way.

The tree does not compile as it stands: `scheduler`, `enum procstate` and
`sys_pipe` are defined twice, `unit64`, `QUANTUM`, `switchuvm` and `ptable` are
not defined, and `pipe_tagged_*` has no body. Where there are two definitions
the models follow the first; for `scheduler` it is the one that the listing
`kernel/kernel.asm` shows.

## Modules

| Module | Models | State and actions |
|---|---|---|
| `Log` | kernel/log.c, with the buffers and the disk it needs | in-memory header `lh`, disk header `hdr`, log and home blocks, `outstanding`, `committing`, the step of a commit or recovery; `BeginSleep`, `BeginAdmit`, `Update`..`LogWrite`, `EndOp`, one action per disk write of `commit`, `Crash` at any point, and recovery |
| `AtomicDisk` | what the log promises | the calls since the last commit take effect together or not at all |
| `Proc` | kernel/proc.c, the timer in trap.c, `holding`/`noff` of spinlock.c | process slots with their locks, `wait_lock`, the context each CPU is in; a step ends where a lock is taken or the stack is switched |
| `ProcAdded` | the added `sfork` | `Proc` with one more action |
| `Pipe` | kernel/pipe.c with `fileclose` | ring buffer, `nread`/`nwrite` modulo `Wrap`, open flags, sleepers; calls, loops, `kill` |
| `ByteStream` | what a pipe promises | a bounded FIFO queue |
| `BufCache` | kernel/bio.c, sleeplock.c | LRU list, `refcnt`, `valid`, buffer locks with their sleepers; a thread uses up to two buffers, the second nested in the first (`Uses`), as `write_log`, `install_trans`, `bmap` and `itrunc` do |
| `BlockStore` | what the cache promises | one copy of every block, held by one thread at a time |
| `VirtioDisk` | kernel/virtio_disk.c and the device | descriptors, avail and used rings, `virtio_disk_rw`, the interrupt handler in three steps, a device that completes out of order |
| `FileSystem` | kernel/fs.c, the calls of sysfile.c on inodes, file.c | disk inodes, directory entries, bitmap; inode table with `ref`, `valid` and locks; one open file and a current directory for each process; `namex` one path element at a time from the root or the current directory, `iput` in three steps |
| `Uart` | kernel/uart.c, `plic_claim`, `plic_complete`, `consolewrite` | the device's two FIFOs and its interrupt, the transmit buffer as the number of characters in it, `uart_tx_lock`; tests of the device and writes to it are steps of their own |
| `Console` | kernel/console.c and `uartintr`, on top of `Uart` | `cons` with its indices modulo `Wrap`; `consoleintr` up to its echo, the echo one character at a time, the store; `consoleread` turn by turn; `kill` |
| `Terminal` | what the console promises of its keyboard | keys take effect in order, on the line being typed; readers get finished lines |
| `Vm` | kernel/kalloc.c, the page tables of vm.c | the number of free pages; a table is its root, the lower-level pages on its two branches, and the user pages it maps |
| `Files` | kernel/file.c, `pipealloc`, `pipeclose` | the file table with `ref`, `type` and what a closed entry leaves behind; open ends of pipes |
| `Resources` | fork, exit, wait, growproc of proc.c; exec.c; sys_exec, open, dup, close, pipe of sysfile.c | `Vm` and `Files` under several processes; one step per `kalloc` and per access to the file table, each with its failure path |
| `Workload`, `Mlfq`, `RoundRobin`, `Lottery`, `Annealing`, `Simulators` | schedulling_algorithms/*.c | the process list and clock, and one module per program; `Simulators` runs one of them. What `queue[-1]` holds in `rr` is a choice at every call of `enqueue` (`scan`) |
| `LogProofs` | | proofs about `Log` |
| `ProcSteps`, `ProcProofs` | | proofs about `Proc` |
| `PipeProofs` | | proofs about `Pipe` |
| `BufCacheProofs` | | proofs about `BufCache` |
| `VirtioDiskProofs` | | proofs about `VirtioDisk` |
| `ConsoleProofs` | | proofs about `Console` with `Uart` |
| `MC...` | | values of the constants for TLC |

Definitions commented "(For contrast: ...)" or "Faulty variant: ..." are the same
operation with a plausible mistake; they are used nowhere and serve to show that a property
notices the mistake.

## Runs

| Run | Question | Bounds |
|---|---|---|
| `log_crash` | Does the log implement `AtomicDisk` when the machine may stop at any disk write, also during recovery? Are buffers pinned until installed, and is everything at home at rest? Does every call get through `begin_op`? | 2 threads, 2 blocks, 2 calls each, 2 crashes: a crash in recovery from a crash, absorption, group commit, waiting for space and for a commit. The two blocks do not fill the log of 8: whether calls are admitted that could is the conjunct `SpaceInv` of `LogInv` |
| `proc_safe` | Is the lock hand-off through `swtch` right; is a wakeup lost; has everyone a parent? | 2 CPUs, 3 slots, pids up to 3 |
| `proc_live` | Does a runnable process run; does init reap orphans? | 1 CPU, 3 slots |
| `proc_sfork` (fails) | Does the added `sfork` keep the locking rules? | as `proc_safe` |
| `pipe` | Is a pipe a FIFO across the wrap of its counters; does a writer return? | 1 writer, 2 readers, 2 bytes, counters modulo 4 |
| `buf` | Is there one copy of each block? Does `bget` panic while a buffer is free? Is a wakeup of a sleep lock lost, or can threads with two buffers deadlock? | 2 threads with up to 2 buffers each, 3 blocks (one of the log, one indirect), 2 buffers, 1 pin: the panic is reached, by pins and by threads |
| `disk` | Does each request return, after its own transfer? Do descriptors leak? | 3 threads, descriptors for 2 requests, indices modulo 7 |
| `fs` | Is anything freed under a name, a descriptor or a current directory? Do blocks leak? Are links that a failing call counted taken back? Can calls deadlock? | 2 processes; a directory, a file in it and a second name, or a directory to move into and to remove, or a file with two names and no directory; 2 free inodes, 1 block |
| `fs_iput` (fails) | Does `iput` free every inode that nobody uses? | 2 processes, one file |
| `console` | Is the console a terminal although any CPU may serve the next interrupt? Is output lost, or a wakeup or an interrupt? | three casts: a reader and a CPU with 3 keys; 2 CPUs with 4 keys; 2 writers and a CPU with 1 key. Buffer of 3 characters, indices modulo 6 that start at 5 |
| `resources` | Is a page or a file reference lost or given back twice when any allocation may fail? | 2 processes; one program of memory calls with 20 pages, one of descriptor calls with 15; pages of 2 bytes, 3 files, 2 descriptors each |
| `sims` | Is time given out once, no process forgotten, the best assignment returned? On which lists do the programs end? | 1 to 3 processes, 2 arrival times, bursts 0, 1 and 4, 0 or 2 tickets, arrays of 4; 3 rounds of sa; `rr` and the lottery wait until time 15, long after the last arrival |

Why the bounds are enough for the cases aimed at: sizes are chosen so that each
limit is hit (no space left to reserve in the log, no free buffer, no descriptors, ring full and
wrapped, no free slot, inode or block, queue array full, no free page, file or
descriptor at every place that asks for one). The properties relate
two actors and one shared object; two or three actors on one or two objects
contain the interleavings. What a larger instance could add is not claimed,
except where there is a proof.

Deadlock is checked in all runs but `pipe`, `sims`, `console` and `resources`, in
which everyone may be done. In `fs` it is what shows that the order in which
`unlink`, `create` and path lookups take inode locks is safe.

`TypeOK` of a module documents its state and is not among the properties of the
runs (in `Log` it is a conjunct of `LogInv`).

What the two runs on console and memory rest on. In `console` the transmit FIFO
has room for 2 characters: one from the holder of `uart_tx_lock` and one from
the holder of `cons.lock`, which are the only writers besides `printf`. A key
waits while the receive FIFO is full, instead of being lost. In `resources` a
page is 2 bytes, so that sizes that are and are not multiples of a page occur; all user pages lie
under one lowest-level page, as they do for processes below 2 MB; exec loads
segments in any order, overlapping, empty and with gaps between them.

### What the failing runs show

* `proc_sfork`: `sfork` returns with the child's lock held and interrupts off;
  the next switch on that CPU panics.
* `fs_iput`: `iput` frees an inode on disk, releases its lock and only then
  takes `itable.lock` again to drop the reference. If `ialloc` hands out the
  inode in between, the old reference is counted for the new file; when that is
  unlinked and put first, nobody frees it.

Seen while modelling, not stated as properties: `log_write` refuses the last of
the LOGSIZE blocks that `begin_op` gives out, since one block is the header (with
the sizes in param.h it takes three calls that each log ten distinct blocks;
hence the assumption of `NeverPanics`); `bget` panics when all NBUF buffers are
pinned or in use, and nothing keeps it from that: in param.h NBUF is LOGSIZE, of
which the log may pin all but one, and calls that only read do not wait in
`begin_op` (hence `PanicsOnlyWhenFull` and not "never"); `iget` panics when more than NINODE
inodes are in use, which open files alone can bring about; `nlink` is a short
that `link` does not bound; a process killed between its test of `killed` and
`sleep`, in `wait` or `consoleread`, sleeps until the next wakeup; `sbrk` by less
than minus the size does nothing and succeeds; `create` locks the directory
after `nameiparent` has unlocked it, so that a file may be made in a directory
that has just been removed, and is lost with it; a killed `pipewrite` returns
without waking the reader (its bytes are read at the next wakeup or close);
`alloc3_desc` wakes other waiters when it gives descriptors back, which is
harmless under fairness; `kill(0)` marks free slots; `bubble_sort` of the MLFQ
simulator breaks any list it has to change; its last queue runs out of array
when two processes stay in it long enough; `rr` reads `queue[-1]`, and passes over
the process it finds there for as long as it does; `sjf` always finds all
processes completed; the lottery never ends when a process has no tickets or
nothing to do, nor does `sa` with a single process, for which
`generate_neighbor` cannot find a second (`Terminates` says so of exactly these).

## Fairness

* `Log`: threads and the committer go on (weak fairness); `EndOp` is strongly
  fair, because a call makes finitely many `log_write` calls before it.
* `Proc`: a CPU that switches goes on, the timer interrupts user code again and
  again, a process in the kernel goes on when it has a CPU and the lock it
  waits for is free again and again (strong: spin locks have no queue), and init
  calls `wait` in a loop. User code is never forced to do anything.
* `Pipe`: a thread in a call goes on; for `WritesReturn` the readers read or
  close again and again, which is the condition under which the code promises
  anything.
* `VirtioDisk`: the device completes what it was given, interrupts are
  delivered, threads that are woken run.
* `Console`: the line transmits, the device raises its interrupt, a raised
  interrupt is taken by some CPU and its handler goes on whenever the lock it
  spins on is free again and again (strong), and so does a process in a call.
  Nothing is assumed of keyboard, readers or writers beginning a call.
* `Simulators`: a program runs until it ends. No fairness is assumed of the
  random choices: the lottery ends whoever wins the draws, because every draw
  uses up a unit of some process's time.

## Proofs

`LogProofs!LogInvariant` proves `LogInv` inductive for every number of threads,
blocks, crashes and for every LOGSIZE, under `LogAssumption` (the sets are
finite, the sizes positive, a call logs at most MAXOPBLOCKS distinct blocks). `NoPanic` alone is
not inductive; the strengthening says
1. `SpaceInv`: entries in the header plus entries still reserved by admitted
   calls fit LOGSIZE - `begin_op`'s test makes it true, `log_write` moves one
   from reserved to used, absorption uses none;
2. `PhaseInv`: which of the two headers is empty or equal to the other in each
   step of a commit or recovery;
3. `CopyInv`: what log blocks and home blocks hold in each step;
4. `BufInv`: a buffer that differs from its home is logged or locked, and pinned.

From it: `NeverPanics` (under `SpaceSuffices`: a call logs fewer than
MAXOPBLOCKS blocks and the log on disk has room for LOGSIZE of them less what
calls leave unused), `BuffersStayPinned`,
`RestIsDurable`, and `LogIsCrashAtomic`: every step of `Log` is a
step of `AtomicDisk` or changes nothing of it. The module begins with the counting
lemmas and the steps for the type and the space invariant.

`PipeProofs!PipeInvariant` proves `PipeInv` inductive for every number of readers
and writers, under `PipeAssumption` (both ends have a thread, PIPESIZE divides the
range of the indices and is smaller). It says who is between `acquire` and
`release`, that an end is open until the last thread with a descriptor for it has
finished `pipeclose`, and, for each label, what its thread found and may still
rely on: a sleeper's reason can go away only at the hands of a thread that has
`pi->lock` and wakes it before releasing. From it: `NoWakeupLost`
(`SleepersHaveReason`) and `FreedOnTime` (`FreedWhenUnused`).
`PipeIsFifo` adds that the indices are at most PIPESIZE apart and
shows `Fifo`; the lemmas before it are the modular arithmetic of ring buffers
(indices less than PIPESIZE apart have different slots, also across the wrap).

`BufCacheProofs!BufInvariant` proves `BufInv` inductive for every number of
threads, blocks, buffers and pins, under `BufAssumption` (finitely many threads,
at least one buffer). It says that a block is in one buffer at
most, that the holder of a buffer's lock is the thread between `bread` and
`brelse`, that reference counts are exact, and that a buffer that differs from the
disk is pinned or in the hands of a thread that will pin or write it. From it:
`CountsAreExact` (`RefcntExact`), `PanicsWhenFull` (`PanicsOnlyWhenFull`: a count
above zero is that of a pin or of a use, so a scan that finds no zero has found
every buffer taken), `SleepersAreWoken` (`NoLostWakeup`) and `CacheIsOneCopy`
(`OneCopy`). For `SleepersAreWoken` the lemma `NestStep` adds that a thread's second block comes
after its first in the order log, indirect, other (`Rank`), so that the chain from
a sleeper to the holder of its lock, to what that one sleeps for, and so on, goes up in
the order and ends. That `fs.c` and `log.c` nest their buffers in this order is read
off `write_log`, `install_trans`, `bmap` and `itrunc`, the only callers that hold two.

`ConsoleProofs!ConsoleInvariant` proves `ConsoleInv` inductive for every number of
CPUs, readers and writers, under `UartAssumption` (the device's FIFO holds at least
two characters). `NoOverrun` is not inductive: `uartputc_sync` tests and writes the
device without `uart_tx_lock`. The strengthening counts what is on its way: each
of the two locks lets one character at a time be between test and write, and both
tests found the FIFO empty, so with what is in it they are two at most. From it:
`OutputIsKept` (`NoOverrun`) and `ConsoleWakeups` (`SleepersHaveReason`). `printf`,
which writes the device under a lock of its own, is not part of the model.

`ProcProofs!ProcInvariant` proves `IInv` inductive for every number of CPUs and
slots and every set of pids that may be killed, under `ProcAssumption` (there is a
slot for init; `None` is neither a CPU nor a number). `ProcSteps` defines it and has
the steps of the scheduler, `fork` and `exit` up to `reparent`; `ProcProofs` has the
rest and the theorems. None of the four invariants of `proc_safe` is inductive.
The strengthening says
1. `HandOff`: `p->lock` is held between steps only by the CPU that is on its way
   into or out of `p`'s stack, and that CPU is the only one there; `state` agrees
   with where the stack is. This is what `sched` and `release` check;
2. `WaitLockHeld`: the labels of `exit` and `wait` under `wait_lock` are those of
   one running process, that of the CPU that holds it;
3. `Places`, `InitLives`: what a process can be doing in each state; init is never
   freed, and exits only if killed;
4. `Forking`: a slot between `allocproc` and the end of `fork` belongs to one forker
   and has no parent before `fork` has set it;
5. `Pids`, `Parents`: pids are given out once and cleared with the slot; whoever is
   a parent has not exited;
6. `HandedOver`, `ParentAwake`, `WokenFirst`, `NoneMissed`: what the loops of
   `reparent`, `wakeup` and `wait` have done for the slots they are past. They
   carry the argument that no wakeup is lost although `exit` wakes the parent
   before it becomes a zombie, and although `reparent` gives zombies to an init
   that may be asleep.

From it: `StackIsOneCpus` (`OneCpuPerStack`), `WakeupIsNotLost` (`NoLostWakeup`),
`NobodyIsOrphaned` (`EveryoneHasParent`) and `OnlyInitPanics`: `panicked` implies
that init is killed. Two theorems have a hypothesis on `KillPids`, since the code
does not keep anyone from breaking the property otherwise: `SchedNeverPanics`
(`NoPanic`) that nobody kills pid 1, because `exit` panics when init exits; and
`ProcsAreBornAlive` (`BornAlive`) that nobody calls `kill(0)`, which finds free
slots (their pid is 0) and sets a flag that `allocproc` does not clear.

`VirtioDiskProofs!DiskInvariant` proves `DiskInv` inductive for every number of
threads and every NUM, under `DiskAssumption` (NUM is at least 3 and divides the
range of the ring indices, as it must for `% NUM` to survive the wrap). It says
1. `Chains`, `Counted`: a call that waits owns three different descriptors, linked
   in order, that carry its buffer; no two calls share one; all others are free;
2. `Rings`: each ring's writer is less than NUM ahead of its reader and the entries
   in between are different. That the used ring cannot overflow is a counting
   argument: its entries are first descriptors of chains, each chain has a second
   descriptor that is in no ring;
3. `Requests`: an unfinished call's first descriptor is in exactly one of the avail
   ring, the device and the used ring, and nothing else is in them; `status` is 0
   in the used ring;
4. `Transfers`: the transfer has been made once when the request has left the
   device, and not before.

From it: `DiskNeverPanics` (`NoPanic`), `DescriptorsAreAccountedFor`
(`NoDescriptorLeak`) and `CallsReturnAfterTransfer` (`ReturnsAfterTransfer`). The
ring lemmas are about any ring that one side writes and the other reads, and are
used for both.

Only model-checked: `Keyboard`; everything about `FileSystem`, `Resources` and the
simulators; and all liveness (`ComesToRest`, `OrphansReaped`, `RunnableRuns`,
`WritesReturn`, `RequestsReturn`, `WritersWoken`, `LineIsRead`, `Terminates`),
which the prover cannot do.

## Not modelled

* Spin locks below the level of a correct lock: atomic swap and fences are
  outside what interleavings of steps can show.
* Traps, argument fetching, `copyin`/`copyout`, permissions of pages and the
  contents of memory: a copy is a step that may fail. Addresses up to MAXVA,
  where user pages would meet the trapframe.
* `readi`, `stati`, file offsets, the layout of blocks in a file, and the entries
  `.` and `..`; the inode behind an open file in `Resources`, which `FileSystem`
  counts.
* `printf` and the panic path of the UART; which characters are output; `^P` and
  NUL are in `Console` but not among the keys of the run.
* Ticks and `sys_sleep`: `sleep` and `wakeup` under a lock, as in `Proc`.
* Boot code, strings, user programs (`sh`, `grep`, `umalloc`) and mkfs: sequential
  code without shared state.
* The added calls other than `sfork` refer to names that do not exist or set
  fields that nothing reads. The second `scheduler` needs `QUANTUM` and
  `switchuvm` and switches without `p->lock`. `sfork` is in `ProcAdded` and not in
  `Resources`.

## Plan

1. Proofs: `PagesConserved` and `RefsExact` of `Resources`, with an invariant that
   says for each label which pages and references its process still has to give
   back; `Keyboard` of `Console`.
2. `FileSystem` on top of `Log`, with crashes between system calls.
