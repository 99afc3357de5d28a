# A verification project for a-os

a-os is a small x86-32 kernel for one CPU: a round-robin scheduler, locks, a page
and block allocator, processes with fork, exec, wait and exit, an IDE disk with an
inode file system, pipes, a keyboard and a shell. This directory holds TLA+ models
of its core, the TLC runs that check them, and proofs that TLAPS checks.

Paths below are relative to the repository; `thread.c` without a directory is
`kernel/src/thread.c`. `PROJECT.json` lists, by definition, the lines each model
translates (`map`), the runs, the mutated definitions each property is known to
reject (`mutants`), what is hard to test (`hazards`), the disagreements between code
and comments or assertions (`findings`), and the theorems.

## 1. What runs concurrently

One CPU, but much interleaving. System calls run with interrupts *enabled*
(`kernel.s:126`, `sti`), so the timer may take the CPU between any two instructions
of one. Interrupt handlers, and the sections of `thread.c` between
`intr_set_status(false)` and its restoration, are not interrupted. The grain of the
modules follows from this:

- an operation with interrupts off is one action (`Sched`);
- code with interrupts on is split at each access to what others share (`Mutex`,
  `Process`, `Fork`, `Disk`), or at each critical section where the state is only
  reached under a lock (`IoQueue`, `Memory`, `Inode`, `Heap`);
- an interrupt handler that touches what tasks touch is an action that may strike
  between any two steps of a task (`Irq` of `Disk`, `Tick` of `Sched`);
- a walk over a list that others change meanwhile takes one element per step
  (`Process`);
- where the calls of different processes do not overlap in the programs that
  exist (the shell waits for each command, `usr/src/shell.c:185`), a system call
  is one action (`Files`).

## 2. Inventory

| Component | State | Operations | What is hard | What makes it correct |
|---|---|---|---|---|
| Scheduler: thread.c, sched.c, timer.c | `task->status`, `time_slice`, ready list, all list, the current task | run, block, unblock, yield, exit, tick, schedule | who is on the list when; idle; overtaking at the head | each READY task linked once, one RUNNING task, CPU never without an owner, nobody starves |
| Locks: lock.c | spin lock word, owner, wait list on stacks, counts | spin, mutex and semaphore operations | preemption between any two accesses; lost wakeups | exclusion, no wild waiter, owners get out, wakeups arrive |
| I/O queue: ioqueue.c | ring, two semaphores, a mutex | put, get, len | full and empty at once with callers half way | a bounded FIFO |
| Processes: process.c | pid, ppid, pid pool, list of tasks, exit state | fork, exit, wait, reap | parent and child racing; walks over a list that changes; stale pointers | a living parent, one reaper, unique pids, wait returns |
| Copy of a user space, exec: process.c | cr3, u_v_pool, page tables | vaddr_copy, segment_load | preemption between the switches of cr3 | the child has what the parent had |
| Pages: memory.c, bitmap.c | virtual bitmaps, frame pools, page tables | page_malloc, page_free, exit | three mutexes in turn; out of memory half way | a frame has one holder |
| Blocks: memory.c | arenas, free lists | kmalloc, kfree and the user's | address arithmetic | disjoint blocks, exact counters |
| Inodes: inode.c | two bitmaps, inode table, data, cache | open, close, acquire, release, read, write, erase | memory and disk kept together; power off between two writes | no block lost or shared, remount sees the files |
| Files, pipes: file.c | fd_table, open_fd, pipe counts | open, close, unlink, pipe, dup2, read, write | sharing by fork, full tables | a descriptor keeps its object |
| Directories: dir.c | entries, "..", streams, cwd | mkdir, rmdir, search, getcwd, chdir | removal moves entries | names are a tree |
| Format, mount: fs.c | superblock, partition list | format, mount | layout arithmetic | what mount reads is what format wrote |
| Disk: ide.c | channel mutex and semaphore, registers | identify, read, write, interrupt | interrupt against caller; more interrupts than waits | the right sector passes, commands are taken, nobody sleeps for good |
| Keyboard: keyboard.c | modifier keys, queue | interrupt | a handler that may block | keys in order |
| Interrupts, entry: interrupt.c, kernel.s, switch.s | IDT, PIC, stacks | dispatch, switch, syscall | saved state | transparent to the interrupted task |
| Console, boot, user library and programs, test.c | cursor; none | output; start-up; commands | little concurrency | not modelled, see section 8 |

Calls: everything that waits goes through `kthread_block` and `kthread_unblock`; the
I/O queue uses the locks; pipes and keyboard use the I/O queue; processes use pages,
files and the scheduler; files and directories use inodes, inodes use blocks of the
kernel heap and the disk driver, whose interrupt wakes the caller. Shared state: the
two task lists, `fd_table`, the partition's bitmaps and cache, the two frame pools,
the pid pool and the console.

## 3. Modules

| Module | Models | Composition |
|---|---|---|
| `TaskList` | list.c as the sequence of its elements | extended by `Sched`, `Mutex`, `IoQueue`, `Process`, `Disk` |
| `Sched` | the task states, `schedule`, the tick | |
| `AbstractMutex` | the promise of a mutex: one holder | |
| `Mutex` | mutex_lock, mutex_unlock, spin lock, one access per step | implements `AbstractMutex` |
| `BoundedFifo` | the promise of a bounded byte queue | |
| `IoQueue` | ioqueue.c over semaphores and mutex | implements `BoundedFifo` |
| `Process` | sys_fork, sys_exit, sys_wait, process_exit, pid pool | |
| `Fork` | vaddr_copy and its switches of cr3 | |
| `Disk` | ide.c on one channel, its interrupt handler and its drives | |
| `Bitmap` | bitmap_acquire as its search, and a first fit to compare | extended by the next two |
| `Memory` | page_malloc, page_free, release of an address space | |
| `Heap` | kmalloc and kfree over pages | |
| `AbstractFiles` | a partition as byte sequences by inode | |
| `Partition` | the inode numbers and the bound on open counts | extended by `Inode` and `Files` |
| `Inode` | inode.c within the direct blocks | implements `AbstractFiles` |
| `Files` | file.c and dir.c: descriptors, pipes, names | |
| `SchedProofs`, `MutexProofs`, `IoQueueProofs`, `ProcessProofs`, `DiskProofs` | theorems and proofs | extend the module they are about |
| `MemoryProofs` | theorems and proofs | about `Bitmap`, `Memory` and `Heap` |
| `FileSystemProofs` | theorems and proofs | about `Inode` and `Files` |
| `ListLemmas` | lemmas about `TaskList` | extended by the first four of them |
| `MC...` | instances | |

How state corresponds to code:

- **Sched.** `status`, `slice` are the fields of each `task_struct`, `ready` is
  `task_ready_list` head first, `all` the members of `task_all_list`, `cur` what
  `kthread_current()` computes from the stack pointer. `Schedule(st, rd)` is
  `schedule()` entered with what its caller has left in the statuses and the list;
  `Block`, `Yield`, `Exit` and `Tick` each end with it. An empty pop is `Nobody`, so
  `TypeOK` also says that it does not happen. `WakeIdle` is the call in
  `sched.c:43-45`.
- **Mutex.** `slock`, `owner`, `wait_list` are the fields; `pc` is the place in
  `mutex_lock` or `mutex_unlock`. A failing `xchg` changes nothing and is no step.
  `kthread_block` and `kthread_unblock` are one step each, by their interrupt flag;
  dropping the spin lock and blocking are two steps, as in the code.
- **IoQueue.** `buf`, `head`, `tail` are the ring; `count`, `waiters`, `owner` the two
  semaphores and the mutex. A spin-locked section is one step: `SpinExclusion`, part
  of the invariant proved in `MutexProofs`, is why that is enough. `Sleep` is a step
  of its own.
- **Process.** `at` is `cur_elem` of a walk over `task_all_list`; a visit of one element
  is a step, and other tasks may fork, exit and reap between two visits. `parent`,
  `victim` and `hasChild` are the local variables, and each later statement that reads
  or writes what others share is a step. The order of the ready list is left out: any
  RUNNABLE task may take the next step. A task that has made itself HANGING is still
  on the CPU (`cur`) and goes on until `Preempt`, the tick that drops it. `pid` 0 stands
  for -1. A task behind the last statement of `sys_exit` is in `"exited"`; going on from
  there, or through a page that was freed, is `Fault`, and `interrupt.c:63` stops the
  machine at one. A page that is freed and taken by a new process while a walk stands
  at it makes the walk go on at the end of the list (`strayed`, a history variable):
  without the condition `~strayed` TLC finds `NoOrphan` and `WaitTruthful` violated, so
  the properties say exactly how far the code can be trusted.
- **Fork.** `cr3` is whose page directory the CPU uses, `pool` whose `v_pool` a task's
  `u_v_pool` points to, `pte` the page tables, `content` the frames. `Preempt` is
  `schedule()`, which loads cr3 for the task it goes to.
- **Disk.** `owner` is the channel's mutex; `count`, `slock`, `waiters` its semaphore;
  `req` the arguments of the call a task is in, `done` its place in the current run;
  `boot`, `present` and `valid` the identification of the drives at start-up. `reg` and
  `drive` are the hardware, modelled from how the driver uses it: an interrupt for each
  sector, no register or command taken while busy, the next sector of a run ready at
  once. A latched interrupt strikes before the next step of a task, unless the spin lock
  of the semaphore is held (`At`); then `IrqSpins` is the case in which it strikes the
  holder itself.
- **Memory.** `vbits` and `pbits` are the bitmaps, `pte` and `pde` the page tables,
  `job`, `frame` and `pc` the local variables and the place of a call. One critical
  section is one step. `owned` is what callers have been given. Where the code would
  continue with a frame number it never had (after a failed allocation), the model
  stops that process.
- **Heap.** Addresses are numbers, as arena2block and block2arena use them. A call is
  one step, under the mutex of its class.
- **Inode.** `cache` is `open_inodes`, `table`, `disk`, `blk_btmp`, `inode_btmp` are what
  the partition has on the disk; bitmap changes are written through. `Close` and
  `Acquire` are the calls of the same name; `Write` is inode_write with blk_write,
  blk_acquire and inode_table_update; `Erase` is inode_erase. `WriteCrash` is a power
  failure inside inode_write: a first part of its blocks acquired, some of them written,
  the table not yet; `lost` are the blocks that nothing refers to afterwards. In
  `AbstractFiles` it is a shorter write. `halted` records a failed assertion.
- **Files.** `kind`, `dir`, `up` are what directories say, `opens` the `open_cnt` of the
  inode cache, `fd_table` the slots, `std` and `fds` are `open_fd[0..1]` and
  `open_fd[3..]`, `pos` the count of a pipe. Failure half way through `sys_open` keeps
  what was taken, as the code does.

## 4. Runs

| Run | Instance | Distinct states | Shows |
|---|---|---|---|
| `sched` | 4 tasks, slice 2 | 29,709 | lists, CPU and idle are right, no ready task starves |
| `mutex` | 4 tasks | 12,928 | exclusion, waiters, the owner releases, refinement |
| `ioqueue` | 2 writers, 2 readers, ring of 3 | 836,796 | counters against ring, waiters, refinement of a FIFO |
| `process` | init and 3 processes, 4 pids, 4 forks | 1,729,764 | no orphan, unique pids, one reaper, pool against list, wait gives up only without children, all while the lists change under the walks |
| `memory` | 2 processes, 3 kernel and 6 user frames, 3 virtual pages | 693,031 | one holder a frame, owned pages mapped, first fit |
| `heap` | 2 tasks, 3 pages of 8 bytes, classes of 3 and 1 blocks | 71,680 | disjoint blocks, exact arenas |
| `inode` | root and one file, 7 blocks of 3 bytes, 2 direct, crashes that lose one block | 215,070 | blocks exact but for what crashes lose, cache equals table, refinement over remounts and crashes |
| `files` | shell and command, 3 inodes, 2 slots, 2 descriptors | 427,504 | tree of names, descriptors, pipe counts |
| `disk` | 2 tasks, up to 2 drives, calls of up to 3 sectors in runs of 2 | 130,048 | commands taken, the right sector moved, an answer to come for who waits |
| `process_lost_child` | init and 2 processes | | a child preempted at process.c:772 is never reaped |
| `disk_lost_irq` | 1 task, 1 sector | | an interrupt inside sema_down, lock.c:82-95, does not end the wait |
| `fork_copy` | 3 processes, 1 page | | a preemption behind process.c:243 sends the copy to the parent |

The last three are expected to fail: each checks one sentence that a comment of the
code says, and TLC shows how the code breaks it; `findings` in `PROJECT.json` quotes
both. The others pass. What keeps its type in `Heap` and `Files` is part of their other
properties, which apply the variables to each other, so there is no `TypeOK` there.

What the properties say, module by module, is in the comment above each of them.

### Bounds, and why they are enough

- *Sched*: two ordinary tasks beside main and idle are the least for two tasks to hand
  the CPU to each other past a third; slice 2 has a tick that keeps and one that ends
  it.
- *Mutex*: a holder, two sleepers in order and one between `spin_unlock` and
  `kthread_block`.
- For the modules with proofs (section 5) the bounds are those of the runs only: the
  theorems hold for every set of tasks, every size and every bound that the named
  assumption of the module admits.
- *IoQueue*: capacity 2, two callers on each side: a caller can be inside while others
  wait on either semaphore or the mutex, and the ring wraps.
- *Process*: `MaxPid` is the number of tasks, so pids are reused at once; three
  processes give a grandchild that is handed to init while its parent exits; four forks
  are one more than the pages, so a page is freed and taken again under a walk.
- *Disk*: three sectors in runs of two are a full run and a rest; `MaxTokens` 2 lets a
  call start on tokens that earlier runs have left, and during it the count goes beyond;
  both drives, either or none are there; two tasks meet at the mutex while the
  interrupt wakes either.
- *Memory*: `ByteBits` 3 instead of 8 keeps the byte borders of `bitmap_acquire` within
  reach; `MaxCnt` 2 has a run and half of one; `MaxRuns` 1 bounds what a process has;
  the kernel pool (3 frames, for page tables and kernel pages of both processes) runs
  out, the user pool does not. `Fixed` is the page of the stack and one behind the end
  of the address space.
- *Heap*: a class with three blocks in an arena and one with one; the requests are the
  edges (the largest of each class, the largest of one page, one more); `MaxHeld` 3.
- *Inode*: a block holds one and a half entries, as 4096 bytes hold a fraction of one
  beside 170; `MaxSize` 6 fills both direct blocks and makes the indirect block appear;
  `MaxOpen` 2 has an inode open twice; `Counts` 2 and 3 write within a block, over its
  border and a whole one. `Blocks` is the number that files of that size can use and
  that crashes can lose (`MaxLost` 1): a full partition is excluded (blk_acquire would
  go on with LBA -1).
- *Files*: fewer slots and descriptors than a pipe and an open file need together, so
  every error path of `sys_open` and `sys_pipe` is taken; a directory in a directory.

### Fairness

- *Sched*: only `WF(Tick)`, the timer keeps interrupting. Interrupts are off for the
  length of single operations only. Everything else may or may not happen.
- *Mutex*: `WF` on the steps of a call under way. `NoStarvation` of *Sched* is the
  reason: a task that can run runs again. A critical section ends (`Leave`), a call need
  not begin. Weak fairness does not hand anybody the spin lock; that the owner still
  gets it is what `OwnerReleases` checks.
- *Process* (`process_lost_child`): `SF` for the next step of a task that is in a system
  call, since others may take the CPU again and again. This is round robin, again by
  `NoStarvation`; no process has to begin a call, and nothing forces a preemption.
- *Disk* (`disk_lost_irq`): `WF` for the drive to answer and the controller to deliver, `SF`
  for the steps of a task.
- The other modules state safety only.

## 5. Proofs

Every component with proofs has an inductive invariant (`IInv`; `HeapInv` and `FilesInv`
in the two modules that are about more than one), the lemmas that a step keeps it (one for
each conjunct with a step per action, or one for each action), a theorem that it holds
always (`Invariance`, `HeapInvariance`, `FilesInvariance`), and the theorems that a
property of a run holds, which follow from it. TLC checks on a small instance what the
theorems say for all. The assumptions are the `ASSUME` of each module, and nothing else.

`ListLemmas`: appending and pushing a fresh element keep a list free of duplicates and
add exactly that element to its range; popping removes exactly the head.

`SchedProofs`, for every set of tasks and every slice, from `SchedAssumption` (idle and
main are two tasks; `Nobody` is none):

- `IInv == TypeOK /\ ReadyListExact /\ OneOnCpu /\ AllListExact`. `AllListExact` is the
  strengthening: a task is listed exactly while it is live, so that `Run` queues a task
  that is on no list yet, and idle is always there to be woken.
- every operation but `Run`, `Unblock` and `Reap` ends in `schedule()`, so the argument
  is one lemma about it: `Consistent(st, rd)` is what a caller has to leave behind,
  `QueueNotEmpty` says there is then a head to pop, `ScheduleStep` that the three
  invariants hold afterwards. Each action has a lemma that shows its `Consistent`.
- `TypeCorrect`, `ReadyListSound`, `CpuSound` follow; `IdleSound` is the action property
  `IdleIsLastResort`, from the same invariant (`ScheduleIdle`).

`MutexProofs`, for every set of tasks, from `MutexAssumption` (`NULL` is no task):

- `IInv == TypeOK /\ SpinExclusion /\ TestCurrent /\ MutualExclusion /\ SleepersLock /\
  WaitListSound`. `SpinExclusion` (at most one task in a section of the spin lock, and
  then its word is 1) is why two tasks cannot both see `owner == NULL`; `TestCurrent`
  carries what one has seen to its assignment; `SleepersLock` (a task sleeps only at the
  top of the loop) is why a waiter that is popped is off the list when its call goes on.
- `TypeCorrect`, `MutexExcludes`, `WaitersSound`; `Refinement` maps each step to a step
  of `AbstractMutex` or to a stutter.

`IoQueueProofs`, for every set of callers, infinite ones too, and every size of the ring,
from `IoQueueAssumption` (nobody both puts and gets; `NULL` and `NoValue` are outside):

- `CountersMatchRing` relates the semaphores to the ring *and* to the number of calls
  between a semaphore and the ring. That number is a cardinality, so `FiniteCalls` is part
  of the invariant (each step begins one call at most). `RingExclusion` (who touches the
  ring owns the mutex) makes `head` and `tail` move one at a time; with the counters it
  gives that a put never meets a full ring, nor a get an empty one. `ArgumentsHeld` keeps
  what a call has stored or read until it advances the index. `SleepersAtTop` and
  `WaitersTake` (a sleeper waits where its call will take) are what `WaitersSound` needs.
- `TypeCorrect`, `CountersSound`, `WaitListsSound`. `Refinement`: the queue is a
  `BoundedFifo` whose contents are the bytes from `tail` to `head`. The step is the
  advance of an index, not the access to the buffer: `AdvanceAppends` and `AdvanceTakes`
  are the arithmetic of the ring, `StoreKeepsContents` says that the store before it is
  outside of the contents.

`ProcessProofs`, for every number of tasks, pids and forks, from `ProcessAssumption`:

- `HangersAtEnd` and `VictimsHang` say what the code takes for granted: whom a parent
  reaps has hung itself, and keeps its `ppid` meanwhile. From there `OneVictim`: two
  parents never reap the same child, since they would have the same pid. Pids are the
  difficulty: a pid is given back in one step and the task leaves the list in a later
  one, so uniqueness holds for `HoldsPid` (listed, and `process_exit` has not freed its
  pid), not for all listed tasks. `NoOrphan` has to speak of the walks under way: a child
  is not behind the place where the walk of its exiting parent stands. `WalkMissesNone` is the same for the walk
  of `sys_wait`. Both are about the order of the list while others append and unlink
  (`OrderKept`), and both are as weak as `strayed` makes them.
- `TypeCorrect`, `ChildrenKept`, `PidsDistinct`, `ReapedOnce`, `PoolExact`, `WaitSays`
  (the last three are the properties `OneReaper`, `PoolMatchesList`, `WaitTruthful`).

`DiskProofs`, for every set of tasks, every number of sectors, every length of a run and
every size of the disk, from `DiskAssumption`:

- `ChannelOwned` (who is inside a call has the mutex, but for the identification at
  start-up, which takes none and is alone), `SpinOwned`, `CallsReach` (what is in the
  registers is what the call in progress has asked for), `DriveFollows` (the drive is idle
  when no command is out, and otherwise in the middle of what its one caller asked for;
  a drive that is not there is the exception, which only identify meets).
  `IdentifyAnswered` is the token that the first wait will find.
- `TypeCorrect`, `CommandsTaken`, `TransfersRight`, and `AnswersCome`: whoever waits has
  an interrupt or a token to come. It does not say that the waiter is woken, which is
  what `disk_lost_irq` shows to fail.

`MemoryProofs`, for every number of processes, frames, pages and pages in a run and every
width of a byte, from `MemoryAssumption` and `BitmapAssumption`:

- `FirstFitFound`: on *every* bitmap and every count `bitmap_acquire` finds what a first
  fit finds, or both nothing. The search by bytes, then bits, is a recursive function, and
  the usual proof would be an induction. Instead the search is followed to the *least*
  index at which it could go wrong (`LeastNat`): the index before is right, and `GapSteps`
  and `FreeCountSteps`, which say what one step does, make this one right too.
- `IInv == TypeOK /\ DataTyped /\ RunsApart /\ RunsReserved /\ JobsProgress /\ Accounted`.
  `FramesExact` is about what the page tables say, and is not inductive: a frame is on its
  way in the variable `paddr` of a call, or freed already with its entry still there.
  `Accounted` names every place a frame can be in (`Slot`: a page table entry, a `paddr`,
  a page table) and says that a frame taken is in exactly one of them. A step fills,
  empties or moves one slot, or none, so that four lemmas (`FrameTaken`, `FrameDropped`,
  `FrameMoved`, `FramesSame`) are the whole argument. `RunsApart`, `RunsReserved` and
  `JobsProgress` are why two calls under way never work at the same entry.
- `TypeCorrect`, `FramesAccounted`, `OwnedStayMapped`, `AcquiresFirstFit`.

`MemoryProofs` on the blocks, for every set of tasks, every set of block sizes and of
requests, every page and header size and every number of pages, from `HeapAssumption`
(a block of every class fits on a page behind the header):

- `HeldDisjoint` is about bytes, and the code never looks at bytes: it sees addresses, a
  class and a counter. `HeapInv` therefore says what a holding *is*. `HeldPlaced`: a
  block of the arena on its page that is not on the list of its class, or a run of pages
  with its length in the header of the first and nothing in the others. `HeldOnce`: no
  address has two holders. `FreePlaced`: what a list has are blocks of arenas of its
  class. `BlocksKept` and `PagesKept` are the converses: a block that is not on the list,
  and a page that is taken, is somebody's, so that nothing is kept for nobody.
- Two facts carry it. The arithmetic: `OnPage` (an address is on one page),
  `BlockPlace` (a block is on the page of its arena, behind the header), `BlocksApart` (two
  blocks of an arena do not touch), `PagesFit` (the round-up of a large request). And
  the count: the counter of an arena is a cardinality, so that mem_release, which looks at
  the counter only, frees the page exactly when the block it gives back is the last
  that was missing from the list.
- `HeldApart`, `ArenasCounted`.

`FileSystemProofs` on the inodes, for every number of inodes, size of a block, number of direct blocks and
size of files within them, from `InodeAssumption`. Its bound on `Blocks` is the one of
section 4: enough for files of that size and for what crashes may lose.

- `IInv`: `OwnersApart`, `OwnedTaken`, `TakenOwned` are `BlocksExact` with one place per
  block; `Covered` says that the bytes of a file have blocks, and that the indirect block
  is there with the last direct one; `FreeZero` that a free block is zero, so
  that an indirect block which has just been acquired refers to nothing; `CacheIsTable`.
- The action that needs work is `Write`, which takes several blocks at once. `EnoughBlocks`
  counts: what is taken and what crashes lost is smaller than the partition.
  `NthMember` and `Grants` then give each missing block one of its own, and `WriteFacts`
  collects what a write changes. `WriteCrash` uses the same facts for a first part.
- `TypeCorrect`, `NothingUnsaved`, `BlocksAccounted`.
- `Refinement`: the partition implements `AbstractFiles`. A call touches blocks, and
  the abstract step is about bytes: `BytesInBlocks` finds each byte in a block of its file,
  so that by `OwnersApart` a write or an erase leaves the bytes of all others alone
  (`WriteHasEffect`, `EraseHasEffect`, `WriteCrashHasEffect`). `BytesWritten` (every byte of a
  file has been written) is a second invariant, on top of `IInv`. A power failure
  inside `inode_write` is a write of fewer bytes, or of none.

`FileSystemProofs` on names and descriptors, for every set of processes and of names and
every number of inodes, slots and descriptors, from `FilesAssumption` (`FilesInv` is
`TreeInv` and `FdsInv`):

- `TreeInv`: an entry is in a directory and has an inode with its type (`EntriesSound`); no
  inode has two entries (`EntriesOnce`); one that is taken has one (`InodesNamed`). That
  every directory gets to the root does not follow from these, since two directories could
  be each other's parent. `Ranked` excludes it: there is a number for each directory, one more than
  that of its parent. A new directory gets the number after its parent's; a directory
  that goes has no entries, so it is nobody's parent and the numbers of the others
  stand. No induction over the tree is needed: `DepthBounded` shows that
  every depth below that of a directory is taken (else there were a nearest one that is
  not), so that by the pigeonhole principle depths stay below the number of inodes;
  `ClimbSteps` shows the same way that the recursive function `Climb` has the values its
  equations ask for, and `ClimbArrives` follows it down the depths.
- `UninstallTree` is the lemma behind dir_uninstall, which moves the last entry into the
  gap: `LastMoved` says that this renumbers the other entries and loses none.
- `FdsInv`: the slots have files that are taken, and the open counts cover them
  (`SlotsSound`, `OpensCover`); a process that is not there has nothing (`FdsOfLive`), and a
  redirection is to a slot that the process has as a descriptor too (`StdBacked`).
  `HoldersCounted` is what makes `DescriptorsSound` and `PipeCounted` inductive: who holds
  a slot is nobody if it is not in use, *one* descriptor if it is a file, and at most
  as many as it counts if it is a pipe. The middle one is why sys_close may give up the
  slot of a file without a count, and it is kept because `Fork` is taken without open
  files only.
- sys_close of one descriptor and sys_exit of all are one lemma, `CloseFds`: `HoldersLeft`
  says how many holders are left, so a pipe that is freed has none.
- `NamesAreTree`, `DescriptorsBacked`, `PipesCounted`.

Checked by TLC only: liveness (`NoStarvation`, `OwnerReleases`, and the two liveness
findings), since fairness and ENABLED are out of the prover's reach, and the finding of
`Fork`, which is a violation. Every invariant, action property and refinement of a passing
run is a theorem as well.

## 6. Findings in short

1. `sys_exit` makes itself HANGING with interrupts on before it wakes its parent: it may
   never get to it (`process_lost_child`).
2. The disk interrupt calls `sema_up` while the task it interrupts may hold the spin lock
   of the semaphore, or has dropped it and is not asleep yet: the wait does not end
   (`disk_lost_irq`). The second half is a property of `sema_down` and `mutex_lock`
   wherever they are used: `IoQueue` has the same two steps (`Down`, `Sleep`).
3. `vaddr_copy` works in the child's page directory with interrupts on; a switch away
   and back loads the parent's (`fork_copy`).

What else was seen on the way and no run shows is under `hazards` with a note; among
them the kernel frame bitmap, which memory.c:186 and 649 change without its mutex, and
`inode_erase` at a size that is a multiple of the block size (inode.c:646), which `Inode`
reaches and stops at (`halted`).

## 7. Where it could go on

What is not modelled and would be worth it, by what matters most:

1. The keyboard handler as a frame on top of the task it interrupts, over `IoQueue`:
   it may wait for a mutex that this task holds, or put idle to sleep (keyboard.c:204).
2. `Heap` with two address spaces after a fork, whose arenas point to the descriptors of
   the parent (memory.c:443).
3. File calls in steps: two creators in one directory (dir.c:306), two ends of a pipe
   closing at once (file.c:232), open_cnt outside a mutex.
4. Crash points inside `Acquire`, `Erase`, `Release` of `Inode` and inside unlink.
5. `LinkedList`: elements and pointers of list.c, refining `TaskList`, with lists changed
   while interrupts are on (process.c:534-537); and the bits of the kernel frame pool
   with the load and the store of `bitmap_set` apart (memory.c:186).
6. exec; the chain of partition tables; directory streams, cwd, path depth; format
   arithmetic; ticks and milliseconds.

## 8. Not modelled

- Boot (mbr.s, loader.s, main.c, init.c): straight-line code before any concurrency.
- Assembly of entry, dispatch and switch: its effect is the grain of section 1.
- The keyboard: modifier keys and a table, and the `ioq_put` of its handler, see
  section 7. Console output, string and format functions: no state of their own that the
  properties tell apart.
- A drive that reports a sector written later than it took it: `ide_write` would then
  send a command too early when tokens are left in the semaphore (ide.c:406).
- The chain of partition tables (ide_get_partition, ide_ptn_add): parsing of a disk that
  does not change.
- exec and ELF loading: copies of bytes; of the address space of a process, `Fork` has
  what vaddr_copy does to it.
- A power failure between the writes of inode_acquire, inode_release and inode_erase: in
  the last two the order itself, blocks first, makes two files share blocks afterwards
  (inode.c:442), and no document promises otherwise. `Remount` is one between calls.
- Blocks behind the indirect block: `blk_read` keeps the indirect block in a variable of
  an inner scope (inode.c:120), so nothing there can be read back.
- A full partition and an empty inode bitmap: the callers do not look at the result.
- Closing a regular file that a fork has shared: `sys_close` gives up the slot for all
  (file.c:239-241); `Files` forks only without one, which is what the shell does.
- Path components "." and "..", directory streams and chdir in `Files`.

## 9. Running

    tlc -workers 2 -config MCSched.cfg MCSched
    tlapm SchedProofs.tla

and likewise for the other pairs in `PROJECT.json`. `Heap` and `Files` carry their names in
`HeapInit`, `HeapNext`, `HeapSpec`, `FilesInit`, `FilesNext` and `FilesSpec`, since the proof
modules extend them together with another component; the others have `Init`, `Next`, `Spec`. `CHECK_DEADLOCK FALSE` stands where the
system may stop: every caller of a queue asleep, every process waiting or hanging, a
process whose release met a page that was never mapped, a failed assertion.
