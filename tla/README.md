# A TLA+ verification project for Miri

Miri (this is the KMiri fork, which also runs kernels) interprets Rust programs
and reports undefined behaviour. It brings its own memory, aliasing models,
threads, scheduler, synchronization primitives, weak memory, data race detector, file
descriptors and system calls, all inside one sequential interpreter: a *step* of the interpreter is
a statement of one interpreted thread, or one call of a shim (`pthread_*`,
`SYS_futex`, ...), and nothing else runs in between. What is concurrent is the
interpreted program; the hard part of the code is the state it keeps between
steps: wait queues, captured callbacks that run inside the step of another
thread, deadlines, and vector clocks. That state is what this project models.

Paths below are relative to the repository's `src/` directory.

## Inventory

| Part | State it keeps | Operations | What makes it correct |
|---|---|---|---|
| Mutexes, condvars (`concurrency/sync.rs`, `shims/unix/sync.rs`) | owner, count, queue, clock per mutex; waiters, clock per condvar; a captured callback per blocked thread | lock, trylock, unlock, (timed) wait, signal, broadcast, time-out | nobody stranded in a queue; no internal assertion fails; locked data never races; queued threads get the mutex |
| Reader-writer locks (same files) | readers with counts, writer, two queues, two clocks | read/write lock, unlock, hand-off | exclusion, no lost wake-up, writers ordered after all readers, readers unordered among themselves |
| Lock objects (same files, macOS `os_unfair_lock`, hooks of `machine.rs`) | bytes of the program, objects attached to addresses, attributes | initialize, look up, copy, overwrite, free, destroy | a waiter's object stays reachable, a copy is never a second lock |
| Futexes (`concurrency/sync.rs`, Linux, Windows and macOS shims) | queue with bitsets, clock; macOS parameters | wait, wake, time-out | no sleeper misses an announced change, even with outdated loads; queue and blocked threads agree |
| One-time initialization (`concurrency/init_once.rs`) | status, waiters, clock | begin, complete, fail, observe | one initializer at a time, every failure hands over, completed data never races |
| Thread manager and scheduler (`concurrency/thread.rs`, `scheduler.rs`) | thread states, deadlines, join states, active thread, stack pool, CPU maps of kernel tasks | create, join, detach, block, unblock, yield, preempt, switch CPU, terminate, schedule | joins never stranded, deadlocks real, stacks exclusive, only runnable threads run |
| Thread-local storage (`shims/tls.rs`, `eval.rs`) | keys, values, state of the destructor walk | create, delete, set, poll | each value is destroyed, each thread ends |
| Data race detector (`concurrency/data_race.rs`, `vector_clock.rs`) | clock set per vector index, clocks per cell, indices of ended threads | read, write, atomics, fence, release/acquire, create/join/terminate | reports exactly the races |
| Weak memory (`concurrency/weak_memory.rs`) | a bounded store buffer per atomic | load, store, rmw, failed compare-exchange, fence | only behaviours of the memory model; SC programs sequentially consistent |
| Aliasing models (`borrow_tracker/`) | a stack or tree of tags per location, caches, protectors | retag, access, expose, protect, deallocate, collect | caches, skipped traversals and collection change no verdict |
| Descriptors (`shims/files.rs`, `unix/fd.rs`, `readiness.rs`, eventfd, epoll, poll, pipes, sockets) | table of numbers, descriptions, interests, ready queues, buffers, blocked threads | read, write, dup, close, register, wait, time-out | no event lost, no waiter stranded, events carry clocks |
| Host polling and TCP (`blocking_io.rs`, `tcp_socket.rs`) | registered sources, socket states, remembered readiness | connect, accept, send, recv, poll | what the host reports is never forgotten |
| Files (`unix/fs.rs`, `windows/fs.rs`, `handle.rs`) | descriptions with cursors and rights, directory streams, packed handles | every file call | isolation, rights, cursors, entries, retries |
| Environment, paths, heap (`shims/env.rs`, `os_str.rs`, `alloc.rs`, `mem.rs`) | variables and `environ`, buffers, allocations with kinds | get, set, convert, allocate, free | the list is the map; paths come back; allocations are as promised |
| Addresses (`alloc_addresses/`), physical pages (`mirch/`) | address maps, stack pointers, page states, shadows, page tables, re-use pool | place, expose, free, look up, retype, copy, collect | no overlap; look-ups exact; nothing stale |
| Range maps (`data_structures/`) | split ranges | iterate, split, merge | equal to a map of bytes |
| Isolated allocator (`alloc/`) | pages with bit sets, huge allocations | allocate, free, clone | owners apart, pages given back |
| Everything else | | | glue, pure functions, display, front ends; see `components` in `PROJECT.json` |

How they interact. All blocking goes through the thread manager: a primitive
queues the active thread, calls `block_thread` with a reason, an optional
deadline and a callback, and later some other step calls `unblock_thread`,
which *runs the callback at once*, in the waking step. Deadlines are processed
by the scheduler, which collects all expired threads first and runs their
callbacks one after the other. Every primitive keeps a `VClock` that is written
with `release_clock` and read with `acquire_clock`; these are the edges by which
the race detector and the store buffers know what happened before what. The
store buffers use the detector's clock sets, and the futex shims use
sequentially consistent fences to keep store buffers from losing wake-ups. Memory
accesses go through hooks of `machine.rs` that consult the aliasing model, the race
detector and the objects attached to the address; the first two keep their state
in range maps.

What is hard here: a callback that finds its object changed since it was
captured; callbacks that wake further threads inside one step; several deadlines
expiring together; hand-offs of clocks on every path a lock can take; outdated
values read from store buffers; the end of a thread racing joins, detaches and
destructors; decisions taken on cached state (lookup caches of borrow stacks,
subtrees skipped on an earlier access, readiness remembered from the host, CPU
maps); indexes that move while ranges are merged. `hazards` in `PROJECT.json` lists
them at their lines.

## Modules

```
VClock ──────┬── MutexCondvar ── MutexCondvarProofs ┐
             ├── RwLock ── RwLockProofs             │
             ├── InitOnce ── InitOnceProofs         ├── LocksMC
             └── StoreBuffer ──┬── Futex            │
                               │     └ FutexProofs  │
                               │   SyncObjects      ┘
                               ├── WeakMemory ┐
                               │     └ WeakMemoryProofs
                               └── DataRace ──┴── AtomicsMC
                                     └ DataRaceProofs
ThreadManager, Tls ── ThreadManagerMC
  └ ThreadManagerProofs
BorrowTracker ── TreeBorrows, StackedBorrows ── BorrowsMC
FdTable ── Readiness ── VirtualIo ── Epoll ── TcpSocket ── Io ── IoMC
PhysicalMem ── AllocAddresses ┐
RangeMap (implements ByteMap) ├── MemoryMC
ReusePool, IsolatedAlloc      ┘
HostFs ── UnixFs, WindowsFs ┐
EnvVars, OsStr, HeapShims   ┴── FilesMC
```

An MC module extends several components and explores them side by side: a
behaviour is about one of them (`lock_part`, `emulated`, `part`, `scenario`), and the
others stand still. The components of a group that interact (descriptors and
watchers, pages and addresses) share their state and are explored together.

* **VClock** - vector clocks as functions from threads to numbers, with join,
  comparison and increment, and the effect of `acquire_clock` and
  `release_clock`. `DataRaceDetector` switches the latter off, as the code does
  when no detector is configured. A clock's missing tail is zeros.
* **MutexCondvar** - one action per shim. `Lock`, `TryLock` and `Unlock` branch on
  the mutex kind as the shims do (`RelockStop` and `ForeignUnlockStop` say which
  kinds stop the machine, and how: undefined behaviour, deadlock report or
  abort). `ReleaseAndHandOff` is `mutex_unlock` with the callback of the thread
  it wakes; `Reacquire` is the condvar callback. A broadcast and the processing
  of deadlines are loops whose iterations are steps, with `broadcasting` and
  `expired` keeping everybody else out until they end, as in the interpreter.
  `halt` records how the interpreter stopped; `"panic"` is a failed assertion.
* **RwLock** - as above; `ReadUnlock` and `WriteUnlock` contain the wake-ups and
  what the woken threads' callbacks do.
* **StoreBuffer** - operators on one store buffer and one clock set: which
  elements `fetch_store` may return, what a load, store, read-modify-write and
  fence do to the clocks, SC marking and eviction.
* **WeakMemory** - threads accessing atomics through store buffers. The reference
  it is compared with is a second, independent machine in the same state: each
  thread has a *view* (the newest store of each location it must not read
  behind), messages carry views, fences move them. A value is its number in
  modification order. What the threads may do is given by `program`, chosen in the
  initial state among `Programs`.
* **Futex** - composes the queue of `futex_wait`/`futex_wake` with a word that
  lives in a store buffer. `flavour`, chosen in the initial state, is the shim the
  program uses; they differ in where they fence and in what they compare.
  `StoreWord` is the interpreted program (a relaxed store to the word) and `owes`
  remembers that its thread has not called wake yet.
* **InitOnce** - `Begin`, `Complete`, `Fail` and the rest; the callback of a woken
  waiter, which tries to begin again, is part of the waking action.
* **ThreadManager** - the interpreter loop. `phase` alternates between `schedule`,
  which is one of `SwitchThread`, `FallBackToMain`, `SwitchCpu`, `KeepRunning`,
  `PickThread` or `Sleep` in the order the code tries them, and `step`, in which
  the active thread does one operation. `config`, chosen in the initial state,
  describes the target and the options: `Kernel` selects the behaviour of KMiri's
  kernel tasks (CPU maps, `switch_to`, successors), `Windows` the sharing rules of
  handles, `FixedScheduling` round-robin instead of random choice, `Preemption`
  whether threads are preempted, and `MainBlocks` whether the main thread may block.
* **DataRace** - the detector for one memory cell. Next to the code's state it
  keeps a log of accesses and, for each thread, the set of logged accesses that
  happen before its next step, built from the definition of happens-before
  (program order, creation, join, release/acquire, release sequences, fences)
  without any clock. Atomic accesses use the cell's own `sync_vector`, which is
  the detector with weak memory emulation switched off. `program` is as in
  WeakMemory.
* **SyncObjects** - locks as bytes of the program. A place holds a static
  initializer, junk, the mark of an initialized object, or a copy of it ("moved");
  `sync_objs` attaches the interpreter's object to the place, as `get_immovable_sync`
  and the hooks of memory accesses do. The locks themselves are cut down to owner
  and queue.
* **Tls** - the end of a thread as a sequence of polls of `TlsDtorsState`, with
  destructors that are functions of the program and may use keys themselves.
* **BorrowTracker**, **TreeBorrows**, **StackedBorrows** - one allocation under either
  aliasing model. Beside each runs the same model without its optimizations, and
  the verdicts are compared: the tree where every access visits every tag ever
  made, the stack with neither cache nor collection.
* **FdTable** to **Io** - descriptors. `work` is the stack of pending calls inside one
  step of the interpreter: a thread that is woken runs its callback there, which
  may wake others. The host of **TcpSocket** is an environment with edge-triggered
  events.
* **PhysicalMem**, **AllocAddresses** - pages, shadows, page tables and the addresses of
  allocations, with the stack pointer of frames and what the collector forgets.
* **RangeMap** - `DedupRangeMap` and `RangeObjectMap` as sequences of ranges.
  **ByteMap** is what the first promises its users, a value for each byte, and
  `RangesImplementBytes` is the refinement (`INSTANCE ByteMap WITH bytes <- ...`).
* **ReusePool**, **IsolatedAlloc** - the pool of freed addresses and the allocator of
  native library mode.
* **HostFs**, **UnixFs**, **WindowsFs** - files. A call is one step, except `CreateFileW`,
  whose host calls are steps between which other processes change the name.
* **EnvVars**, **OsStr**, **HeapShims** - variables, path conversion, and the allocation
  functions of Rust, C, `mmap` and Windows over one memory.

Definitions keep the source's names; `map` in `PROJECT.json` gives the lines of
each. Definitions commented "Mutant" are plausible bugs that the model does not
use: each property is known to fail when its mutant is put in place of the
definition it mutates.

## What the runs check

| Run | Question | Bounds |
|---|---|---|
| `locks_clocks` | is guarded data ordered on every path a lock can travel, do readers and writers exclude each other, does an initialization always have somebody under way, do lock objects survive what a program does to their bytes; does a futex lose a wake-up, and do queued threads on macOS share the recorded parameters? | 3 threads, clocks up to 2 (INIT_ONCE: 3), nesting 1 and 2; objects: 2 threads, 2 places, 3 to 5 objects; futex: 3 shims, 3 threads, 4 operations, buffers of 3 |
| `locks_waits` | queues, blocked threads and assertions; does everybody who queues get the mutex? | 4 threads, 1 recursive mutex with nesting 2, 2 condvars, no clocks, any number of calls |
| `accesses` | coherence and causality with buffers that overflow; are SC programs sequentially consistent? does the detector report exactly the races? | 2 locations, limit 3; 3 threads with 5 or 6 operations together or 2 with 3 each; races: 3 threads and 6 or 7 operations, 2 threads with fences, two sizes, acquiring exchanges or CPU-local memory |
| `threads` | joins, stacks, deadlines, deadlock reports, who runs, kernel hand-over, fairness of round robin; destructors | 5 configurations, 4 threads, 1 instant after the start, 2 CPUs; TLS on 4 targets |
| `borrows` | do skipping, caches, counts and collection change a verdict? | up to 5 tags, 1 to 3 accesses, 1 call, 5 scenarios |
| `io` | are events, wake-ups or clocks lost in nested callbacks? | 17 scenarios with 1 to 3 threads, buffers of 2 |
| `memory` | do regions overlap, is a look-up wrong or stale, does a range map forget a byte? | 8 pages of 4 bytes, 4 page operations; ranges of 4 bytes; 7 scenarios |
| `files` | isolation, rights, cursors, entries, retries; environment, paths, heap | 10 file scenarios with 4 names, 11 environment scenarios |

A run shows many properties at a time because its components share a state space;
each property says which component or configuration it is about (a deadlock
report of kernel tasks, for example, is no claim of the code, and round robin is
only promised under fixed scheduling). Some properties of a run are conjunctions of
named parts, one per promise of a component, each with a comment of its own:
`LockObjectsInPlace`, `SchedulingIsSound`, `SwitchesHonoured`, `EveryoneGetsOn`, `DestructorsRun`,
`CachesExact`, `NoEventLost`, `SleepersInPlace`, `AddressesSound`, `ReuseSound`, `FileCallsSound`,
`FileStepsSound` and `ShimsSound`. The type invariants of MutexCondvar, RwLock, InitOnce and
Futex, WeakMemory and DataRace, and the assertions of RwLock, InitOnce and Futex, are
proved and not checked again.

Why these bounds. Three threads are what the queue protocols need: an owner, a
queued thread, and a third one that barges in or is signalled; the fourth makes
the order in a queue matter. Two ticks of a clock separate "before" from "after"
a release. Two locations are what store buffering, load buffering and message
passing need; a buffer limit of three leaves a choice of stores and still forces
eviction. Four threads let one thread end while two others join it and the fourth
creates. Six or seven operations cover a creation, two accesses, a synchronizing
pair, a termination and a join. Four tags give a tag a parent, a sibling and a
child, and five overflow a lookup cache of three. Larger instances of the aliasing
models were checked once: stacks with 4 tags, exposure and 3 accesses or 5 tags and
2 accesses, trees with 4 tags and 3 accesses. Range maps of four bytes have every
order of split and merge at both ends. Bounds (`max_ops`, `MaxClock`, `MaxMemOps`,
`MaxFutexOps`, ...) are guards of the actions, and the runs allow the system to stop there
(`CHECK_DEADLOCK FALSE`); a real interpreted program may stop anywhere too. Symmetry
is used for interchangeable locations and threads, and for the bits of a futex mask, in runs without
liveness.

Fairness. `locks_waits` assumes that a thread that owns a mutex releases it in the
end (strong fairness of `Unlock` and of the unlock that gives the mutex up, because
the owner may be blocked on and off, and may nest), and that a started broadcast
and a started pass over expired deadlines go on, which is certain because they
are loops inside one call. `MutexWaitEnds` is about the order of the queue: with
arrivals put in front, a thread starves. `threads` assumes that the interpreter
loop goes on, that an ending thread is scheduled again and that the functions it runs
return. What else `EveryoneGetsOn` needs is a condition on the interpreted program and
stands in the formula. `AllGetAChance` is about programs in which the active thread
yields, blocks or ends again and again: fixed scheduling switches preemption off, so a
thread that spins would keep the processor. `EndingThreadsFinish` is about programs
whose destructors use thread-local storage finitely often, because `fetch_tls_dtor`
goes on as long as there are values.

### Disagreements found

Four runs end in a violation. Each states what a comment or an assertion of the
code says and shows a behaviour of the code that differs.

* `threads_blocked_main` - when any thread has terminated, the scheduler makes the
  main thread active without asking whether it is blocked
  (`src/concurrency/thread.rs:834`). A main thread blocked in `pthread_join`
  resumes before its call returns. That every other thread never runs while it is
  blocked is `SpawnedBlockedNeverRuns`, a part of `SchedulingIsSound` of the run `threads`.
* `threads_late_atexit` - on macOS the destructor of a pthread key may register a
  function with `_tlv_atexit` after those have been run, and an assertion at the end
  of the thread fails (`src/shims/tls.rs:206`).
* `memory_back` - a pointer made from an integer with a negative offset, at the first
  byte of a slot that exists where the one before does not, makes the slot a second
  time (`src/alloc_addresses/mod.rs:489`).
* `io_closed` - a thread blocked in `read` or `write` on a pipe or socket pair stays
  blocked when the other end is closed: the comment says that closing can unblock reads
  and writes, but only readiness watchers are told
  (`src/shims/unix/virtual_socket.rs:95`). What the wake-ups of reads and writes
  do keep is `SleepersCannotGoOn`, a part of `SleepersInPlace` of the run `io`.

Besides, TLC met the following. The code does reach these states, and the properties of
the passing runs leave them out, in the formula unless it is said that no scenario has them:

* a CPU switch trusts `cpu_to_threads`, from which terminated tasks are not removed
  (`src/concurrency/thread.rs:839`); only blocked threads are claimed never to run,
  `DeadlockIsReal` is about std threads, and `NoPanic` about programs whose main thread does not block;
* `os_sync_wake_by_address` on an empty queue returns before its fence
  (`src/shims/unix/macos/sync.rs:289`); `FutexNoLostWakeup` is stated of Linux and Windows;
* the recorded access size of a cell is overwritten while an unordered thread may still
  race with accesses of the older size (`src/concurrency/data_race.rs:486`);
  `RaceIffUnordered` leaves atomic accesses of programs with two sizes out;
* non-atomic accesses to CPU-local memory are neither checked nor noted
  (`data_race.rs:1228`, `:1277`), so that there they count as no conflict;
* the collector of Stacked Borrows may hide a later error, when a removed Unique kept two
  groups of SharedReadWrite apart (`stack.rs:77`); `SbVerdictsAgree` only demands that
  collection adds no error;
* `IoNoPanic` allows three failures. In an epoll that watches both ends of a socket
  pair edge-triggered, a read updates the peer first, and the waiter woken by that finds the
  other interest not up to date, against a debug assertion (`virtual_socket.rs:534` and `:544`,
  `readiness.rs:327`). With two threads in `epoll_wait` on a description that a third closes, the
  delayed update that the first handles wakes the second, which takes the event
  (`epoll.rs:304`). And options of a connection that failed reach an `unreachable!`
  (`tcp_socket.rs:627`);
* `MoveFileExW` has no isolation check (`windows/fs.rs:513`); `FsIsolatedFromHost` is stated of
  all other calls, and the isolated scenario on Windows has this one as well;
* Unix calls on a standard stream panic (`files.rs:202`), and so do negative lengths and
  positions on Windows (`windows/fs.rs:433`, `:453`, `:808`); `FsAssertionsHold` names both;
* `CreateFileW` on a dangling link goes round a hundred times (`windows/fs.rs:242`): no
  scenario has one;
* `dealloc_pages` forgets the addresses of the slots of a page at once (`physical_mem.rs:162`),
  and a pointer the kernel still holds to one fails in `ptr_get_alloc`
  (`alloc_addresses/mod.rs:843`); `PointersHaveAddresses` is about everything else;
* `update_environ` frees whatever memory of Machine kind `environ` points to
  (`unix/env.rs:319`). A program that sets it to a string of the list, or to its arguments, has
  that freed instead, the list leaks, and a later `setenv` may free a string twice.
  `EnvironListsTheMap` ends with such a write and `OnlyTheProgramBreaksEnviron` names it;
* `mremap` does not round the old size as `munmap` does, and the Rust deallocation shim
  panics on an alignment that is no power of two (`alloc.rs:156`); `RulesSuffice` leaves
  out both.

Observations read from the code and not checked by a run: the clock that a failed
initialization stores is acquired by nobody (`init_once.rs:129`); `is_seqcst` is not set for
older stores of unordered threads (`weak_memory.rs:450`); the limit
check of statics and CPU-locals ignores the size, and the heap is not checked against
the stacks; the entries of `init_boot_pt` are not marked present; `HeapReAlloc` ignores `HEAP_ZERO_MEMORY`; a futex call on
the address of a mutex replaces its object, and a locked mutex without waiters may be
overwritten unnoticed.

## What is proved

`MutexCondvarProofs` proves, for any sets of threads, mutexes and condition
variables, any kinds and any bounds, assuming only what `MutexCondvar` and
`VClock` assume of their constants:

* `TypeCorrect`, `AssertionsHold`, `MutexQueues`, `CondvarQueues`: `TypeOK`,
  `NoPanic`, `QueuedInPlace` and `WaitersInPlace` are invariants;
* `LockedDataNeverRaces`: `LockedDataRaceFree` is an invariant.

The inductive invariant `IInv` is the conjunction of the first four and of
`Bookkeeping`: a mutex has an owner exactly if its count is positive (or the
hand-off assertion could fail), a thread whose deadline was processed is enabled
until its callback ran, and the two callback loops exclude each other (or a
broadcast could wake a thread that is about to time out). The queue invariants
are needed together: that `unblock_thread` finds a popped thread blocked for the
right reason is `QueuedInPlace` or `WaitersInPlace`, and that a woken condvar
waiter may lock or queue needs both. The proof has one lemma per queue operation
(enqueue, take, hand-off, wait, wake) and one per action. `LockedDataNeverRaces`
adds `WritesCovered`: while nobody owns a mutex its own clock covers the writes
made under it. That fact is about `release_clock` being called before the owner
changes, and it is what `Reacquire` needs on the way back from a condvar.

`InitOnceProofs` proves, for any set of threads and any bound:

* `TypeCorrect`, `AssertionsHold`, `InitializerExists`, `DoneIsOrdered`: `OnceTypeOK`,
  `OnceNoPanic`, `WaitersHaveInitializer` and `DoneKnowsData` are invariants.

Its `IInv` adds `DataCovered`: the last write of the data is not in its writer's
future, the clock of a completed INIT_ONCE covers it, and nobody is told "done"
before completion. `DoneKnowsData` alone is not inductive, because a late caller
learns of the data only through the clock of the object. That no clock runs ahead
of the thread it speaks of, a part of `OnceTypeOK`, keeps a join with the object's
clock from disturbing anybody's own time. The steps with substance are `Fail`, where
the queue loses its head and the head becomes the initializer, and `Complete`,
where all waiters acquire the released clock at once.

`RwLockProofs` proves, for any set of threads and any nesting:

* `TypeCorrect`, `AssertionsHold`, `WritersExclude`, `NobodyStranded`,
  `GuardedDataNeverRaces`: `RwTypeOK`, `RwNoPanic`, `Exclusion`, `RwNoLostWakeup` and
  `GuardedDataRaceFree` are invariants;
* `OverlappingReadersUnordered`: every step satisfies `ReadersStayUnordered`.

The first four are inductive together (`LockInv`): that an unlock finds the head of
a queue blocked for the right reason needs the queues to match the blocked threads,
and that a hand-off does not break exclusion needs the lock to be free when it
happens. Race freedom adds `AccessesCovered`, which says what each of the two clocks
knows at every moment. While no writer holds the lock, `clock_unlocked` covers the last
write; while nobody holds it, it covers the last reads too; and the reads of a thread
that has left the lock while others stay are covered by `clock_current_readers`, from
where the last reader publishes them. Without the last part the hand-off to a writer
by the last of several readers would only be known to cover that reader.

`FutexProofs` proves, for any finite set of threads, any values, bits and parameters,
any limit of the store buffer and any number of calls:

* `FutexTypeCorrect`, `QueueAlwaysInPlace`, `NoWakeupLost`, `WaitersAlwaysAgree`:
  `FutexTypeOK`, `QueueInPlace`, `FutexNoLostWakeup` and `WaitersAgree` are invariants;
* `WakesOrder`: every step satisfies `WakeHappensBefore`.

Threads are assumed finite (the count of a wake-all is their number) and a bitset to
have at least one bit. The inductive invariant `FutexInv` adds `CallsKnown` and
`NewestFenced`: the thread of the newest store either still owes a wake, or the clock of
the last SeqCst fence has reached that store. This is the argument of the long comment
in the Linux shim. A waiter's fence makes its clock at least the last fence clock, so
the search of `fetch_store` stops at the newest store unless a wake is still to come; and
the fence of the wake that pays the debt publishes the store before the queue is
looked at. The rest is about the queue: `Ranks` and `LeftPlaces` show that taking threads
out keeps the others once and in place, and `ExtractedAll` that a wake for every bit and
as many threads as exist leaves nobody behind, by counting.

`ThreadManagerProofs` proves, for any number of threads, CPUs and instants, any
configuration and any mix of actions:

* `SchedulerSound`, `JoinersNeverStranded`, `StacksNeverShared`: `SchedulingIsSound`,
  `JoinersWaitForLive` and `StacksExclusive` are invariants;
* `SwitchesAlwaysHonoured`: every step satisfies `SwitchesHonoured`.

It assumes at least two CPUs (`CPU_NUM` is 2): with one, "the other CPU" of
`maybe_switch_cpu` would be the CPU itself. The inductive invariant `IInv` adds four
parts. `Births`: threads are numbered in the order of their creation, so that the
number of the next one is the number of threads (or `GetStackRange` could overwrite a
living thread's stack); the main thread never terminates; a join has no deadline, so
that waking a joiner leaves no deadline behind. `Worlds`: kernel tasks neither block
nor use the stack pool, and std threads use none of the CPU maps; this is what keeps a CPU
switch from running a blocked thread. `Tasks`: the CPU maps and successors name existing
threads, a queued thread is not the one that queued it, and a queued thread is taken
up by the very next `schedule()` (or the assertion in `schedule_switch_thread_and_cpu`
could fail). `Ended`: a std thread that has terminated is never the one that takes a
step, so its stack is given back once; and a terminated task with a successor has it
queued on the active CPU. The steps with substance are `CreateThread`, where the largest free
stack is chosen (`Greatest`, by well-foundedness of the numbers), and
`TerminateActiveThread`, which ends a thread, wakes its joiners, returns its stack and
queues its successor at once.

`DataRaceProofs` proves, for any number of threads and any set of programs:

* `RacesExactlyReported`: `RaceIffUnordered` is an invariant. An access is reported if and
  only if it conflicts with an earlier one that does not happen before it; the reference
  has no clocks, only sets of accesses that grow along synchronizes-with edges. A
  read-modify-write that acquires is judged in two parts, as the code does: its load with what the
  thread knew before, its store with what it has acquired from the cell;
* `OwnTimeNeverSeen`: `OwnTimeIsPrivate` is an invariant, so a thread that has the
  time of another one in its clock has really synchronized with it;
* `RaceTypeCorrect`: `RaceTypeOK` is an invariant; in particular two live threads
  never share a vector index;
* `IndicesNeverReused`, `DetectionStaysOn`: no index is ever found fit for re-use, and
  no step switches detection off once it is on. The header of `data_race.rs` (`:23`) says
  that the index of a joined thread is re-used once all active threads are past the
  join; but `release_clock` increments the terminating thread's time after its termination clock
  was taken (`:1954`), so no clock ever reaches that time. The cost is memory. The test by
  which `thread_joined` would switch detection off fails for a like reason: it looks at
  the joinee's index, which never knows the present time of the joiner.

It assumes nothing beyond what `DataRace`, `StoreBuffer` and `VClock` assume (among it that a
program has finitely many access sizes, and that the constant `None` is not itself a record of clocks). The
inductive invariant `RInv` adds `Times`, `Indices` and `CellShape`. The clocks of the
threads are not the only carriers of time: `Times` says that every clock kept
anywhere (the release clock of the atomic cell, the clock of a lock, that of the last SeqCst fence,
the fence clocks of each index, the clocks of terminated threads) knows of each index only
times it has left behind. That is inductive because every release advances the
releasing thread's time after its clock was handed out. `Indices` says that indices are
handed out in order and that those of live threads are not up for re-use. The lemmas with
substance are `GoodFence`, where a SeqCst fence exchanges time in both directions, and
`ChildClocks`, where a thread is created: parent and child advance together, and the child's
clock is joined from its index's old clock and the parent's. That no index is re-used then follows from
`Times` and from the main thread living to the end; `RInv` does not rely on it and
would survive re-use.

`RacesExactlyReported` needs more, since a cell forgets: a non-atomic write erases the
reads and the atomic clocks, and an entry of a clock keeps only the last access of an index. `XInv` adds that
there is a history `G` (`Hist`) which says of every logged access who made it and at what time of its
index, and which accesses are recent: the last non-atomic write since detection is on, with
all after it. `Match` ties a clock to a set of accesses: a recent access is in the set exactly
if its time is in the clock, and a set that has the last write has everything older.
It holds of every clock of a live thread and the reference's set for it, of termination clocks, of the lock,
of the release clock of the cell and of SeqCst fences. `Sums` says that each clock in the cell is the
maximum, by index, of the recent accesses of its kind, so that comparing clocks decides
whether all of them happen before (`SumsDecide`, `Exact`). Two facts make it inductive.
By `Times` nobody has seen the present time of a thread, so an access noted at that time is known to no other
clock (`EnteredPast`). And a write that goes unreported has, by `Exact` itself, everything before it in its
past, which is why what the cell forgets is never needed again (`WriteSeesAll`). Accesses before the second thread exists
leave no trace in the cell; they are old, and every live thread knows them (`Quiet`). The proof
uses `IndicesNeverReused`: the history identifies an index with its thread. `ExactAt` is stated of any
clock that matches a set, so that it can be applied to the clock of a read-modify-write before and
after its acquire (`OwnMatch`). For CPU-local memory no history is needed: `Untouched` says
that its cell has neither reads nor writes, and with one access size nothing is left to report (`LocalExact`).

`WeakMemoryProofs` proves, for any threads, locations and programs and any buffer limit:

* `TypeCorrect`: `TypeOK` is an invariant; no buffer runs empty or outgrows its limit;
* `ReadsAreCoherent`: `ReadsCoherent` is an invariant. Whatever `fetch_store` may return
  to a thread is no older than what the reference machine says the thread has seen;
* `SeqCstPrograms`: `SeqCstIsSequential` is an invariant. In programs with SeqCst accesses
  only, the newest store is the only one that can be read.

The invariant `WInv` relates the two machines. The reference machine has views, the code has
clocks, and `fetch_store` may stop at an element for four reasons, two of which prove the
first theorem: the store, or a load of it, is in the past of the reader's clock. `Covers`
says that the newest store a view knows of a location is, if still
buffered, in that past for the matching clock: a thread's clock for its view, its clock
joined with `fence_acquire` for what an acquire fence would bring, `fence_release` and
the clock of the last SeqCst fence for theirs. It is not that simple for messages: a relaxed
store does not publish itself by its `sync_clock`, so the view in a message is covered at every location
but its own, and at that one the reader's own load, recorded by `load_impl`, covers it.
Eviction is why "if still buffered" is there; that the stores of a buffer are numbered without gaps
is what lets the proof go from an element's place to its age. `ScMarks` says that in
SC-only programs every buffered store is marked SC, but for the initial value while it is
alone, so that the search never goes past the newest one.

Everything else is checked on small instances only. Liveness (under fairness) is
out of the prover's reach and stays with TLC, and so do the modules that walk trees
and sequences with recursive operators (TreeBorrows, RangeMap, EnvVars and others):
what a recursive definition computes needs induction over data.

## What is not modelled

`components` in `PROJECT.json` lists every part with the reason. Within the
modelled parts: argument checks that return before any state changes; a thread
that completes an initialization that another thread began (the code does not
detect the misuse); accesses to more than one cell at a time in DataRace and
WeakMemory; 31 bit overflow of timestamps; GenMC in the scheduler; bytes of pipes and
sockets (a buffer is the number of bytes in it), addresses and option values; metadata
of files beyond the inode; the visitors of the collector.

## Plan

1. *Done*: the modules above, with proofs for MutexCondvar, InitOnce, RwLock, Futex,
   ThreadManager, WeakMemory and DataRace.
2. FreeBSD's `_umtx_op` as a further flavour of Futex.
3. An abstract lock (one holder, a set of waiters, a history of critical sections)
   that MutexCondvar and RwLock are shown to implement.
4. Proofs: the pages of `PhysicalMem`.
