------------------------------- MODULE RwLock -------------------------------
(***************************************************************************)
(* One read-write lock of src/src/concurrency/sync.rs with the             *)
(* pthread_rwlock_* shims that call it.  Readers may nest; writers that    *)
(* queue are preferred to readers that queue.  The lock keeps two clocks:  *)
(* clock_unlocked, acquired by everybody, and clock_current_readers, in    *)
(* which the readers' releases are collected until the last one leaves.    *)
(***************************************************************************)
EXTENDS VClock, Sequences

CONSTANTS
    NoWriter,    \* Option::None
    MaxCount,    \* bound on the nesting of one thread's read locks
    MaxRwClock   \* bound on a thread's own timestamp

ASSUME RwLockAssumption ==
    NoWriter \notin Thread /\ MaxCount \in Nat \ {0} /\ MaxRwClock \in Nat

VARIABLES
    rw_state,                         \* Thread.state: Enabled or RwLock
    writer, readers,                  \* owner, and nesting count per reader
    writer_queue, reader_queue,
    clock_unlocked, clock_current_readers,
    rw_clock,                         \* the threads' clocks
    last_write, last_reads,           \* race detector state of guarded data
    rw_halt

lockVars == <<writer, readers, writer_queue, reader_queue,
              clock_unlocked, clock_current_readers>>
rwVars == <<rw_state, lockVars, rw_clock, last_write, last_reads, rw_halt>>

RwInit ==
    /\ rw_state = [t \in Thread |-> "Enabled"]
    /\ writer = NoWriter
    /\ readers = [t \in Thread |-> 0]
    /\ writer_queue = <<>> /\ reader_queue = <<>>
    /\ clock_unlocked = ZeroClock /\ clock_current_readers = ZeroClock
    /\ rw_clock = [t \in Thread |-> ClockIncrement(ZeroClock, t)]
    /\ last_write = ZeroClock /\ last_reads = ZeroClock
    /\ rw_halt = "no"

-----------------------------------------------------------------------------

(* RwLock::is_write_locked. *)
IsWriteLocked == writer # NoWriter

(* Mutant: readers do not lock. *)
IsLockedByWriter == IsWriteLocked

(* RwLock::is_locked. *)
IsLocked == IsWriteLocked \/ \E t \in Thread : readers[t] > 0

RwRunning(t) == rw_halt = "no" /\ rw_state[t] = "Enabled"

(* The bound on timestamps: t may still release. *)
RwMayRelease(t) == DataRaceDetector => rw_clock[t][t] < MaxRwClock

RwStop(how) == rw_halt' = how /\ UNCHANGED <<rw_state, lockVars, rw_clock, last_write, last_reads>>

(* An assert! of the code: the step happens, or the interpreter panics. *)
RwAssert(cond) == rw_halt' = IF cond THEN rw_halt ELSE "panic"

(* pthread_rwlock_rdlock, pthread_rwlock_tryrdlock: rwlock_reader_lock, or *)
(* queue up (EBUSY of the try variant changes nothing).                    *)
ReadLock(t) ==
    /\ RwRunning(t)
    /\ ~IsWriteLocked
    /\ readers[t] < MaxCount
    /\ readers' = [readers EXCEPT ![t] = @ + 1]
    /\ rw_clock' = [rw_clock EXCEPT ![t] = AcquireClock(@, clock_unlocked)]
    /\ UNCHANGED <<rw_state, writer, writer_queue, reader_queue, clock_unlocked,
                   clock_current_readers, last_write, last_reads, rw_halt>>

(* rwlock_enqueue_and_block_reader. *)
EnqueueReader(t) ==
    /\ RwRunning(t)
    /\ IsWriteLocked
    /\ reader_queue' = Append(reader_queue, t)
    /\ rw_state' = [rw_state EXCEPT ![t] = "RwLock"]
    /\ UNCHANGED <<writer, readers, writer_queue, clock_unlocked, clock_current_readers,
                   rw_clock, last_write, last_reads, rw_halt>>

(* pthread_rwlock_wrlock, pthread_rwlock_trywrlock: rwlock_writer_lock. *)
WriteLock(t) ==
    /\ RwRunning(t)
    /\ ~IsLocked
    /\ writer' = t
    /\ rw_clock' = [rw_clock EXCEPT ![t] = AcquireClock(@, clock_unlocked)]
    /\ UNCHANGED <<rw_state, readers, writer_queue, reader_queue, clock_unlocked,
                   clock_current_readers, last_write, last_reads, rw_halt>>

(* rwlock_enqueue_and_block_writer; also when t itself holds the lock. *)
EnqueueWriter(t) ==
    /\ RwRunning(t)
    /\ IsLocked
    /\ writer_queue' = Append(writer_queue, t)
    /\ rw_state' = [rw_state EXCEPT ![t] = "RwLock"]
    /\ UNCHANGED <<writer, readers, reader_queue, clock_unlocked, clock_current_readers,
                   rw_clock, last_write, last_reads, rw_halt>>

(* unblock_thread on the head of the writer queue, whose callback is       *)
(* rwlock_writer_lock; the released clock is `unlocked` by then.           *)
PassToWriter(t, unlocked, readersLeft) ==
    LET w == Head(writer_queue) IN
    /\ writer' = w
    /\ writer_queue' = Tail(writer_queue)
    /\ rw_state' = [rw_state EXCEPT ![w] = "Enabled"]
    /\ rw_clock' = [rw_clock EXCEPT ![t] = AfterRelease(@, t), ![w] = AcquireClock(@, unlocked)]
    /\ RwAssert(rw_state[w] = "RwLock" /\ readersLeft = {})

(* Mutant: the last reader does not hand its readers' clock on. *)
UnlockedByReadersStale(current) == clock_unlocked

(* clock_unlocked after the last reader has left. *)
UnlockedByReaders(current) == current

(* readers after t gave up one of its read locks. *)
OneLess(t) == [readers EXCEPT ![t] = @ - 1]

(* Mutant: every leaving reader publishes the readers' clock. *)
FreeAlways(left) == ~IsWriteLocked

(* Whether the lock is not held any more when only `left` still read. *)
Free(left) == left = {} /\ ~IsWriteLocked

(* rwlock_reader_unlock of t's outermost read lock or of an inner one. *)
ReadUnlock(t) ==
    LET left == {u \in Thread : OneLess(t)[u] > 0}
        current == IF DataRaceDetector THEN ClockJoin(clock_current_readers, rw_clock[t])
                   ELSE clock_current_readers
        unlocked == UnlockedByReaders(current)
    IN
    /\ RwRunning(t)
    /\ readers[t] > 0
    /\ RwMayRelease(t)
    /\ readers' = OneLess(t)
    /\ clock_current_readers' = current
    /\ \/ /\ left # {} \/ IsWriteLocked
          /\ rw_clock' = [rw_clock EXCEPT ![t] = AfterRelease(@, t)]
          /\ UNCHANGED <<rw_state, writer, writer_queue, clock_unlocked, rw_halt>>
       \/ /\ Free(left)
          /\ clock_unlocked' = unlocked
          /\ IF writer_queue = <<>>
             THEN /\ rw_clock' = [rw_clock EXCEPT ![t] = AfterRelease(@, t)]
                  /\ UNCHANGED <<rw_state, writer, writer_queue, rw_halt>>
             ELSE PassToWriter(t, unlocked, left)
    /\ UNCHANGED <<reader_queue, last_write, last_reads>>

(* Threads that stand in a queue. *)
Queued(q) == {q[i] : i \in 1 .. Len(q)}

(* Mutant: a leaving writer wakes no readers. *)
WokenNobody == {}

(* The readers a leaving writer wakes when no writer is queued. *)
WokenReaders == Queued(reader_queue)

(* rwlock_writer_unlock: the first queued writer, else all queued readers. *)
WriteUnlock(t) ==
    LET unlocked == ReleasedClock(rw_clock[t], clock_unlocked) IN
    /\ RwRunning(t)
    /\ writer = t
    /\ readers[t] = 0
    /\ RwMayRelease(t)
    /\ clock_unlocked' = unlocked
    /\ \/ /\ writer_queue # <<>>
          /\ PassToWriter(t, unlocked, {u \in Thread : readers[u] > 0})
          /\ UNCHANGED <<readers, reader_queue>>
       \/ /\ writer_queue = <<>>
          /\ writer' = NoWriter
          /\ reader_queue' = <<>>
          /\ readers' = [u \in Thread |-> readers[u] + (IF u \in WokenReaders THEN 1 ELSE 0)]
          /\ rw_state' = [u \in Thread |-> IF u \in WokenReaders THEN "Enabled" ELSE rw_state[u]]
          /\ rw_clock' = [u \in Thread |->
                           IF u = t THEN AfterRelease(rw_clock[u], t)
                           ELSE IF u \in WokenReaders THEN AcquireClock(rw_clock[u], unlocked)
                           ELSE rw_clock[u]]
          /\ RwAssert(\A u \in WokenReaders : rw_state[u] = "RwLock")
          /\ UNCHANGED writer_queue
    /\ UNCHANGED <<clock_current_readers, last_write, last_reads>>

(* pthread_rwlock_unlock by a thread that holds nothing. *)
UnlockNotHeld(t) ==
    /\ RwRunning(t)
    /\ readers[t] = 0 /\ writer # t
    /\ RwStop("UB")

(* The guarded data: the writer writes, readers read. *)
RwWrite(t) ==
    /\ RwRunning(t) /\ writer = t /\ DataRaceDetector
    /\ last_write' = [ZeroClock EXCEPT ![t] = rw_clock[t][t]]
    /\ UNCHANGED <<rw_state, lockVars, rw_clock, last_reads, rw_halt>>

RwRead(t) ==
    /\ RwRunning(t) /\ readers[t] > 0 /\ DataRaceDetector
    /\ last_reads' = [last_reads EXCEPT ![t] = rw_clock[t][t]]
    /\ UNCHANGED <<rw_state, lockVars, rw_clock, last_write, rw_halt>>

(* schedule: every thread is blocked. *)
RwGlobalDeadlock ==
    /\ rw_halt = "no"
    /\ \A t \in Thread : rw_state[t] # "Enabled"
    /\ RwStop("RwGlobalDeadlock")

RwNext ==
    \/ \E t \in Thread :
        \/ ReadLock(t) \/ EnqueueReader(t) \/ WriteLock(t) \/ EnqueueWriter(t)
        \/ ReadUnlock(t) \/ WriteUnlock(t) \/ UnlockNotHeld(t)
        \/ RwWrite(t) \/ RwRead(t)
    \/ RwGlobalDeadlock

RwSpec == RwInit /\ [][RwNext]_rwVars

-----------------------------------------------------------------------------

(* The shape of the state: threads and the RwLock fields of sync.rs. *)
RwTypeOK ==
    /\ rw_state \in [Thread -> {"Enabled", "RwLock"}]
    /\ writer \in Thread \cup {NoWriter}
    /\ readers \in [Thread -> Nat]
    /\ writer_queue \in Seq(Thread) /\ reader_queue \in Seq(Thread)
    /\ clock_unlocked \in Clocks /\ clock_current_readers \in Clocks
    /\ rw_clock \in [Thread -> Clocks]
    /\ last_write \in Clocks /\ last_reads \in Clocks
    /\ rw_halt \in {"no", "UB", "RwGlobalDeadlock", "panic"}

(* No assertion of sync.rs and unblock_thread fails: what is woken is      *)
(* blocked on the lock, and a writer is let in only when nobody is.        *)
RwNoPanic == rw_halt # "panic"

(* Writers exclude everybody, however the lock travelled: a reader wakes   *)
(* as a reader only when no writer is in.                                  *)
Exclusion == writer # NoWriter => \A t \in Thread : readers[t] = 0

(* No lost wake-up: queued readers wait for a writer that will wake them,  *)
(* queued writers for somebody who holds the lock; and exactly the blocked *)
(* threads stand in the queues, once.                                      *)
RwNoLostWakeup ==
    /\ reader_queue # <<>> => IsWriteLocked
    /\ writer_queue # <<>> => IsLocked
    /\ \A t \in Thread : rw_state[t] = "RwLock" <=> t \in Queued(reader_queue) \cup Queued(writer_queue)
    /\ Queued(reader_queue) \cap Queued(writer_queue) = {}
    /\ \A q \in {reader_queue, writer_queue} :
          \A i, j \in 1 .. Len(q) : q[i] = q[j] => i = j

(* The two clocks give the happens-before edges a reader-writer lock must  *)
(* give: whoever is in is ordered after the last write, and a writer also  *)
(* after every read made under the lock, by all overlapping readers.       *)
GuardedDataRaceFree ==
    /\ \A t \in Thread : readers[t] > 0 \/ writer = t => ClockLeq(last_write, rw_clock[t])
    /\ \A t \in Thread : writer = t => ClockLeq(last_reads, rw_clock[t])

(* Overlapping readers stay unordered: while a read lock is held, what the *)
(* others add to clock_current_readers is not what a new reader acquires,  *)
(* so clock_unlocked moves only when the lock is free or handed on.        *)
ReadersStayUnordered ==
    [][(\E t \in Thread : readers[t] > 0 /\ readers'[t] > 0)
         => clock_unlocked' = clock_unlocked]_rwVars
=============================================================================
