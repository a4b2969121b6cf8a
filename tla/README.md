# Pintos: a TLA+ verification project

This directory holds TLA+ models of the Pintos kernel in this repository, the
TLC configurations that check them, and machine-checked proofs about the locks.
It is meant to be read beside the code: every definition that models code is
listed in `PROJECT.json` (`map`) with the lines it stands for. Paths below are
relative to the C sources (`threads/synch.c` is `src/src/threads/synch.c`).

1. [The system and what models it](#1-the-system-and-what-models-it)
2. [The modules](#2-the-modules)
3. [The runs](#3-the-runs)
4. [Worlds and bounds](#4-worlds-and-bounds)
5. [Fairness](#5-fairness)
6. [What is proved](#6-what-is-proved)
7. [Where code and documents disagree](#7-where-code-and-documents-disagree)
8. [What is not modelled](#8-what-is-not-modelled)
9. [Plan](#9-plan)
10. [Running the checks](#10-running-the-checks)

## 1. The system and what models it

Pintos is a small operating system for one x86 processor. Kernel threads are
preempted by the timer; disabling interrupts is the only primitive exclusion,
and semaphores, locks, condition variables and read-write locks are built on
it. On top sit user processes, demand paging with swap, and a file system with
a buffer cache, indexed inodes and directories.

| part | sources | state it keeps | operations | concurrency | modules |
|---|---|---|---|---|---|
| semaphores, locks, donation | `threads/synch.c` | value, waiters, holder, parent tree, donated priorities | down, up, acquire, try, release, donate_up | interrupts off inside sema_*, preemption elsewhere | `SynchLock`, `Mutex` |
| read-write locks | `threads/synch.c` | counters, FIFO of waiter structs on stacks | acquire_reader, acquire_writer, release | an inner lock, dropped before blocking | `RWLock`, `FairRWLock` |
| condition variables | `threads/synch.c` | list of per-waiter semaphores | wait, signal, broadcast | the monitor lock, dropped before parking | `CondVar` |
| scheduler, timer, sleep queue | `threads/thread.c`, `devices/timer.c` | ready list, statuses, sleep heap, ticks | create, yield, block, exit, set_priority, sleep, tick | timer interrupt | `Scheduler` |
| pairing heap | `lib/kernel/heap.c` | intrusive child and sibling pointers | push, pop, top | its callers' | `PairingHeap`, `PriorityQueue` |
| buffer cache | `filesys/cache.c`, `userprog/exception.c` | 64 blocks, LRU list | read, write, flush, free, write-behind | cache lock, one lock per block, page faults in the copy | `BufferCache` |
| processes | `userprog/process.c`, `threads/thread.c` | exit data, load reports, thread list | execute, load, wait, exit | parent and child preempt each other anywhere | `Process` |
| inodes and free map | `filesys/inode.c`, `filesys/free-map.c` | free map, disk inodes, index blocks, open inodes | create, open, reopen, close, remove, growing write | inode locks; the free map has none | `Inode` |
| directories and paths | `filesys/directory.c`, `filesys/filesys.c` | entries, file counts, working directories | create, mkdir, remove, open, chdir, close | inode locks, taken once per access | `Directory` |
| virtual memory | `vm/frame.c`, `vm/page.c`, `vm/swap.c` | frame list, clock hand, page tables, swap map | fault, load, evict, share, pin, mmap | frame lock, page table lock | planned |
| system calls, descriptors | `userprog/syscall.c` | descriptor and mapping tables | open, close, read, write, ... | table locks | planned |
| feedback-queue scheduler | `threads/thread.c`, `lib/kernel/fixed.h` | recent_cpu, load_avg, nice | per tick, per second | timer interrupt | planned |
| allocators, interrupt queue | `threads/palloc.c`, `threads/malloc.c`, `devices/intq.c` | pools, arenas, ring buffer | get/free, put/get | locks; interrupts off | planned |

`PROJECT.json` (`components`) lists every other part too, with the reason it is
left out.

The parts interact through few interfaces, and the models use each other's
promises at those seams: `CondVar` uses a lock as the mutex `SynchLock` is shown
to implement; `Scheduler` uses its sleep queue as the `PriorityQueue` that
`PairingHeap` is shown to implement; `BufferCache` takes its locks as mutexes
and is called again by the fault handler; `Inode` and `Directory` take the cache
as a disk that is always up to date, which is what `BufferCache` shows for
buffers that stay in memory, and the inode lock as the exclusion `RWLock` shows.

## 2. The modules

Component modules are parameterised by constants; an `MC...` module instantiates
one for TLC where a configuration file alone is not enough; a `...Proofs` module
holds theorems. Definitions named `Mut...` are deliberate mistakes, used only to
see that a property notices them: each property of each passing run has one.

**`SynchLock`** (implements **`Mutex`**). State: `running`, `ready_list`, and the
fields of `struct thread`, `struct lock` and its semaphore. Only the running
thread takes steps. A step ends where interrupts are on and shared state is
accessed next, which is where `Tick` may preempt; code with interrupts off is
one step, including the yield or block at its end. `pc[t]` records the position
in `lock_acquire` (`donate`, `store` and `climb` for the walk of `donate_up`: it
reads the parent of a thread once for the test and the store, as the compiled
code does, and again for the recursive call, where a parent that is gone ends the
walk; then `down`, and `own` between `sema_down` and `holder = ...`) and in `lock_release` (`up`). Owners of a
lock, for `Mutex`, are the threads past `sema_down` and before `sema_up`, whether
or not `holder` says so.

**`RWLock`** (implements **`FairRWLock`**). The code between taking the inner lock
and the next operation others can see is one step; the hand-off loop of
`rwlock_release` takes one step per waiter, since the woken waiter runs while the
loop goes on. A `struct rwlock_waiter` lives on its thread's stack and is named
by the thread. `FairRWLock` is the promise: first come, first served, with
adjacent readers admitted together, and no mention of counters or semaphores.

**`CondVar`**. `cond_wait` is: append own semaphore, release the lock, park,
re-acquire. The window between release and park is a step boundary.
`cond_signal` picks the waiter by priority of the threads parked, as the code
does, including the `ASSERT` on an empty list that this can trip (`panic`).

**`Scheduler`**. `thread_create`, `thread_exit`, `thread_yield`,
`thread_set_priority`, `timer_sleep` (two steps: read the clock, then queue and
block) and `timer_interrupt` with its wake-ups and time slices. `thread_create`
looks at the new thread once more after it may have run (`thread_create_yield`):
if it has exited meanwhile, the comparison reads a freed page and has either
outcome or stops the system (`halted`). `lag` is a history variable.

**`PairingHeap`** (implements **`PriorityQueue`**). Push, pop and meld on the
intrusive pointers, with stale pointers left in elements that were popped.

**`BufferCache`**. A running call is a frame with a position (`enter`, `scan`,
`writeback`, `fill`, `copy`); a thread has a stack of up to two frames, the second
being the call the fault handler makes when the copy of the first faults.
`latest` is a history variable: the value last written to each sector.

**`Process`**. A process is its tid. `process_execute` is split at every access to
state its child or parent can change: `thread_create`, the look-up of the child's
`struct thread`, the store of the working directory into it (which directory it
is does not matter here), `init_exit_data`, the wait for the load report. In
`process_exit` the look-up of the own exit data, the store of the status and the
`sema_up` are three steps. A step that touches freed memory, or fails an `ASSERT`,
sets `fault`, and nothing is claimed of what follows.

**`Inode`**. Lengths are in bytes. `free_map` is a set of sectors; `inode_disk`, `ib` are inodes and index
blocks on disk; `open_inodes` the copies in memory. `inode_grow` is the whole of
`inode_grow_unlocked`: direct, indirect, doubly indirect allocation, and the
roll-back at its label `fail`, which releases pointers from the highest down
until as many are gone as were allocated, and index blocks on the way. A `malloc`
that fails in `inode_open` leaves `open_inodes_lock` held. Each call is one step: what one call does to the disk is the question here.

**`Directory`**. The calls of several processes, cut at every access to an inode
or to the free map: `scan` and `flip` are the two unprotected halves of
`free_map_allocate`; `add`, `slot`, `write`, `count` are `dir_add`; `find`, `found`,
`remove`, `erase`, `mark`, `uncount` are `dir_remove`. Freed inodes keep their stale
contents, and a process may still have one as its working directory; a call that
then starts there meets whatever the sector holds (`fault`). The write of a new
entry past the end of a directory may fail for want of a sector (`write_fails`);
`dir_add` counts the entry all the same, and `lost` remembers how often.

**`MCThreads`, `MCSynchLock`, `MCBufferCache`, `MCProcess`, `MCFilesys`** choose bounds
and worlds (section 4). `MCThreads` (read-write locks, scheduler, condition
variables, heap) and `MCFilesys` (inodes, directories) check modules that do not
share state in one run; a behaviour is of one of them, by `part`.

## 3. The runs

Passing runs:

| run | instance | what it shows |
|---|---|---|
| `threads`, read-write locks | 4 threads | `IInv`: counters equal the number of owners, every queued waiter struct is on a live stack frame and signalled once. `Exclusion`. `HeadMustWait`: after a hand-off the head of the queue really cannot proceed. `AbsSpec`: refinement of `FairRWLock`. `NoStarvation`: every request is granted if owners release. Deadlock checked. |
| `threads`, scheduler | 3 threads, 2 priorities, slices of 2 | `StatusExact`, `WorkConserving`, `BoundedLag`: a woken higher thread waits less than a slice. `NobodyForgotten`: every sleeper wakes, one that queued itself after its tick included, and the highest threads take turns. Deadlock checked. |
| `threads`, condition variables | 4 threads, 2 priorities | `MonitorExact`: a signal reaches exactly one of those that wait, parked or not, and nobody returns from `cond_wait` without the lock. |
| `threads`, heap | 5 elements, 2 keys | `HeapIsQueue`: the pointers are a tree of the elements pushed and not popped, and the heap implements `PriorityQueue`. |
| `lock` | up to 4 threads, 3 locks, 4 priorities | `OnePlace`: a thread is running, ready, or waiting in one list. `LockExclusion`, `NoLostWakeup`, `MutexSpec`, also with preemption anywhere. `SingleNoInversion`, with one lock: no waiter is above the holder. `CalmDonations`: a thread that is about to block has donated to the `MAX_DEPTH` + 1 threads above it, and a donation lasts no longer than its reason, except where a failed `lock_try_acquire` has left one behind. |
| `cache` | 2 users, the flusher, 2 blocks, 3 sectors | `KernelUniqueBlock`, `KernelCopyLatest`, `KernelNoDeadlock` with buffers that stay in memory, and `FlushComplete`: the disk has the latest contents of every sector when a flush returns. In both worlds `NoLeakedLock`: no lock outlives its call, even when the process is killed in the copy. |
| `process` | 4 tids | `ExitDataOwned`, `WaitExact` under preemption and failing allocations; `OrderlyNobodyStuck`, `OrderlyExecTruthful` and `OrderlyReportLands` (the child finds its creator alive and waiting, and the creator finds a report) when `process_execute` is not interrupted in its critical stretch. |
| `fs` | 14 sectors of 2 bytes, files of up to 16 bytes; 2 processes, 2 names | `SectorsAccounted`, `Covers`, `DiskCoherent`, `DataStays` for inodes; `EntriesExact` (the file count is the number of entries and of writes that failed), `SpaceExact` for directories. |

Runs that must fail, each with one property taken from what a document, a
comment or an assertion says (section 7): `sched_lag`, `lock_chain`,
`cache_fault_stale`, `process_lost_exit`, `inode_grow_rollback`,
`dir_create_race`, `cwd_removed`.

Deadlock checking is off where the system may stop: threads that take two locks
in opposite orders, and calls that fault, may block each other (`lock`, `cache`),
everyone may have exited (`process`), or a bounded disk may offer no step (`fs`).
In `threads` it is on; that all threads wait for a condition, and a system that
`thread_create` has stopped, are not deadlocks there.

## 4. Worlds and bounds

Some properties hold only for callers that behave in a certain way. Rather than
weaken them, the MC modules let the initial state choose a *world* that never
changes; a property then names the world it is about. What a world excludes is
itself listed as a hazard in `PROJECT.json`.

* `lock`: *crowd* (three threads, one priority, one lock, preemption anywhere),
  *pair* (two threads, two locks, changing priorities, `lock_try_acquire`,
  preemption anywhere), *hop* (three threads, a donation over two locks, its donor
  preempted anywhere), *calm* and *single* (three priorities, two or one lock,
  `lock_try_acquire`) and *chain* (four priorities, three locks), these three with
  preemption outside the lock code only. The donation properties are for the last
  three because `lock_acquire` donates with interrupts on.
* `cache`: *kernel* (the buffer of the copy stays in memory) and *user* (the copy
  may fault, two sectors, one value). In both, nobody queues for the cache lock
  behind a waiting thread: a call that waits for it at its first line has changed
  nothing and holds nothing, so it might as well start later.
* `process`: *orderly* (`process_execute` is not preempted between `thread_create` and
  its `sema_down`, memory suffices, nobody waits for a process that failed to load),
  *preempted* (the same with preemption, for `process_lost_exit`) and *hard*
  (anything, one tid fewer).
* `fs`, inodes: *one file* of any length, up to the largest and beyond, and *two
  files* of whole sectors beside two others. No creation with an initial size meets an existing name (the code
  leaks the data sectors then), and no growth of a file with index blocks fails
  before its first data sector (`inode_grow_rollback` shows what happens then).
  Directories: calls do not overlap (`dir_create_race`), and nobody removes a
  directory another process is in (`cwd_removed`).

Why the bounds are enough to be interesting:

* four threads on a read-write lock give a writer queued between two readers
  while a third owns it; four threads and three locks give a chain of
  donations one longer than `MAX_DEPTH`, 1 here, lets them go; the heap's five elements give a two-pass meld with an odd element;
* two cache blocks for three sectors force evictions while both blocks are in use;
* `TIME_SLICE` 2, `MaxSleep` 2 and `MaxTick` 2 let a sleep end early and late in a slice;
  the clock stays at `MaxTick`, where no further sleep begins but those of 0 ticks;
  four tids are a parent, two children and a grandchild;
* with 1 direct pointer and 2 pointers per index block the largest file has 7
  sectors and 4 index blocks, two of them below the doubly indirect one. Alone on
  a disk of 14 sectors it fits, at any length in bytes, and lengths of 15 and 16
  ask for more than the largest. Beside other files growth fails for want of
  space in every phase; one of the two is longer than its direct pointers reach,
  the other fragments the free map.
* a directory, a file in it or beside it, and a sector that is used again are the
  shortest scenarios for the directory properties; the root directory's opener
  count, which `chdir ("/")` raises and never lowers, is cut at 1 (2 in the runs that
  must fail); one write of an entry fails in a directory other than the root,
  and one file is open at a time.

Symmetry is used over threads, users, sectors (cache), processes and names, in runs without liveness properties only.

## 5. Fairness

`threads`, read-write locks: weak fairness of each thread's steps inside `rwlock_*` and of the release
by an owner. The scheduler is round robin among equals, so a thread that can run
does, and callers in the kernel hold inode locks for bounded stretches. Nothing
is assumed about new requests: a thread may stay idle for ever.

`threads`, scheduler: weak fairness of the timer interrupt, which is hardware, and
of the second halves of `timer_sleep` and `thread_create`, which a thread that
runs gets to without waiting for anything.
`NobodyForgotten` needs no fairness of the threads: one that never yields is
preempted.

No other run states a liveness property.

## 6. What is proved

TLAPS checks the theorems below for every value of the constants.

**`RWLockProofs`**, assuming only that the set of threads is finite and does not
contain the null value:

* `Invariance`: `Spec => []IInv`. `Exclusion` alone is not inductive: whether a
  thread may take the shortcut is decided from the counters, and ownership is
  given away by `rwlock_release` before the new owner runs. `IInv` therefore ties
  both counters to the set `Owns` of threads that own or were granted the lock,
  says that queued waiters are exactly the threads parked without a grant, each
  once, with semaphore 0, and who may hold the inner lock in which position.
  The proof has one step per action; the counting facts come from the library's
  theorems on finite sets.
* `MutualExclusion`: a writer owns alone. It follows from `IInv`.
* `HandOffComplete`: `HeadMustWait` is invariant, relative to `IInv`.
* `Refinement`: `Spec => AbsSpec`. The mapping sends `waiters` to the queue and
  granted threads to owners; every step is one of `FairRWLock` or a stutter.

**`SynchLockProofs`**, for any threads, locks and priorities and any schedule:

* `LockExcludes`: `LockExclusion` is invariant. `OwnerInv` says that a semaphore
  that is up has no owner, one that is down exactly one, and that `holder` is null
  while its owner is on the way in or out. The key lemma, `StepOwnerInv`, shows
  that every step gives a free lock to one thread, frees the lock of its owner or
  moves no ownership.
* `LockRefinesMutex`: `Spec => MutexSpec`, from the same lemma.

Only model-checked: liveness (`NoStarvation`, `NobodyForgotten`); donations,
where an induction over the tree of parents would be needed; `CondVar`,
`Scheduler`, `BufferCache`, `Process`, `PairingHeap`, `Inode` and `Directory` so far.

## 7. Where code and documents disagree

Details and quotations are in `PROJECT.json` (`findings`).

* `lock_chain`: `lock_release` clears the parent of every waiter although only one
  gets the lock; a later donation to one of the others stops there.
* `cache_fault_stale`: a block is not valid during the copy of a miss; a fault in
  that copy that uses the same sector caches it a second time, and a later read
  finds the stale copy.
* `process_lost_exit`: a child that exits before its parent has called
  `init_exit_data` leaves no status, and the parent waits for ever.
* `inode_grow_rollback`: a growth that fails without having allocated a data sector
  releases index blocks the file had before; positions below its length have no
  sector, which a later write asserts not to happen.
* `dir_create_race`: two creations of one name that overlap both succeed, where the
  design document says one fails.
* `cwd_removed`: a directory that is the current directory of another process can
  be removed, which the design document says is disallowed.
* `sched_lag`: a thread that the timer wakes waits for the end of the time slice of a
  lower one; the manual asks for an immediate yield. `BoundedLag` says how long.

Further consequences that the models show, listed as hazards and excluded from
the worlds above or left without a claim: two overlapping creations may get the
same sector; sectors leak when a creation with an initial size meets an existing
name; a directory into which an entry could not be written counts one too many and
is never removed; the selection in `cond_signal` may trip its assertion;
`tid_to_thread` may miss the child; `process_exit` may write into exit data that the
father has just freed; after an `exec` that ran out of memory the next one may take
the report of the earlier child; `thread_create` may look at a thread that is gone.

## 8. What is not modelled

* Device registers, descriptor tables, assembly, boot: pure input/output or run
  once. What they give to the rest (interrupts off is atomic, one processor) is
  built into the steps of the other models.
* Lists, hash tables, bitmaps, strings, formatting: sequential helpers, used as
  sequences and sets.
* Argument passing and ELF loading: sequential data layout; in `Process` a load
  succeeds or fails.
* Inside modelled parts: the copying of data in `inode_read_at` and
  `inode_write_at`, and contents of data sectors, in `Inode`; read-ahead; `deny_write_cnt`; paths of several names; `dir_readdir`; the
  reloading of a directory inode in `inode_update_file_cnt`, a no-op by
  `DiskCoherent`.

## 9. Plan

1. Virtual memory: frames, eviction, sharing, pinning and swap; page faults and
   mapped files above them. Properties: a frame is never given to two pages, a
   page that was written is found again, no slot leaks; abstract specification: a
   memory per process.
2. Descriptor and mapping tables of the system calls, composed with open counts.
3. The interleaved inode: concurrent growth, open against close, and the lock of
   an inode held across a page fault.
4. Feedback-queue arithmetic, `intq`, `malloc` arenas, as operators or small state
   machines.
5. Proofs: `UniqueBlock` of the cache, `SignalDelivered`, `StatusExact`,
   `ExitDataOwned`, `EntriesExact`; the refinement of `PriorityQueue` by one pop.

## 10. Running the checks

In this directory, `tlc -config X.cfg M` for a run of module `M` (the pairs are in
`PROJECT.json`), and `tlapm RWLockProofs.tla`, `tlapm SynchLockProofs.tla` for the
proofs. The longest runs take two to three minutes on two cores, the proofs about
four minutes each.
