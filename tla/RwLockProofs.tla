---------------------------- MODULE RwLockProofs ----------------------------
(***************************************************************************)
(* Proofs about RwLock, for any set of threads and any bounds.             *)
(***************************************************************************)
EXTENDS RwLock, TLAPS

(* What the lock and its queues need of each other. *)
LockInv == RwTypeOK /\ RwNoPanic /\ Exclusion /\ RwNoLostWakeup

(* Where the accesses to the guarded data are recorded.  Writes: with the  *)
(* lock's clock_unlocked while no writer is in.  Reads: with the reader    *)
(* itself while it is in, with clock_current_readers once it has left, and *)
(* with clock_unlocked when the lock is free.                              *)
AccessesCovered ==
    /\ writer = NoWriter => ClockLeq(last_write, clock_unlocked)
    /\ ~IsLocked => ClockLeq(last_reads, clock_unlocked)
    /\ \A t \in Thread : last_reads[t] <= rw_clock[t][t]
    /\ \A t \in Thread : readers[t] = 0 => last_reads[t] <= clock_current_readers[t]
    /\ ~DataRaceDetector => last_write = ZeroClock /\ last_reads = ZeroClock

RwInv == LockInv /\ GuardedDataRaceFree /\ AccessesCovered

-----------------------------------------------------------------------------

(* What acquire_clock and release_clock do to each entry of a clock. *)
LEMMA ClockEntries ==
    ASSUME NEW a \in Clocks, NEW b \in Clocks, NEW t \in Thread
    PROVE  /\ AcquireClock(a, b) \in Clocks /\ ReleasedClock(a, b) \in Clocks
           /\ AfterRelease(a, t) \in Clocks /\ ClockJoin(a, b) \in Clocks
           /\ ClockLeq(a, AcquireClock(a, b)) /\ ClockLeq(a, AfterRelease(a, t))
           /\ ClockLeq(a, ClockJoin(a, b)) /\ ClockLeq(b, ClockJoin(a, b))
           /\ DataRaceDetector => ClockLeq(b, AcquireClock(a, b)) /\ ReleasedClock(a, b) = a
  BY DEF Clocks, AcquireClock, ReleasedClock, AfterRelease, ClockJoin, ClockIncrement, ClockLeq

(* What is acquired is known from then on. *)
LEMMA AcquireEntries ==
    ASSUME NEW a \in Clocks, NEW b \in Clocks
    PROVE  /\ AcquireClock(a, b) \in Clocks
           /\ DataRaceDetector => ClockLeq(b, AcquireClock(a, b))
  BY DEF Clocks, AcquireClock, ClockJoin, ClockLeq

(* The order of clocks is transitive, and the zero clock is the least.     *)
LEMMA ClockOrder ==
    ASSUME NEW a \in Clocks, NEW b \in Clocks, NEW c \in Clocks
    PROVE  /\ ClockLeq(a, b) /\ ClockLeq(b, c) => ClockLeq(a, c)
           /\ ClockLeq(a, a) /\ ClockLeq(ZeroClock, a) /\ ZeroClock \in Clocks
  BY DEF Clocks, ClockLeq, ZeroClock

(* push_back: the new place holds the new thread, the others what they did.*)
LEMMA AppendPlaces ==
    ASSUME NEW q \in Seq(Thread), NEW x \in Thread
    PROVE  /\ Append(q, x) \in Seq(Thread) /\ Append(q, x) # <<>>
           /\ Queued(Append(q, x)) = Queued(q) \cup {x}
           /\ (\A i, j \in 1 .. Len(q) : q[i] = q[j] => i = j) /\ x \notin Queued(q)
              => \A i, j \in 1 .. Len(Append(q, x)) : Append(q, x)[i] = Append(q, x)[j] => i = j
<1> DEFINE p == Append(q, x)
<1>1. /\ p \in Seq(Thread) /\ p # <<>> /\ Len(p) = Len(q) + 1 /\ Len(q) \in Nat
      /\ \A i \in 1 .. Len(q) : p[i] = q[i]
      /\ p[Len(q) + 1] = x
  OBVIOUS
<1> HIDE DEF p
<1>2. \A i \in 1 .. Len(p) : i \in 1 .. Len(q) \/ i = Len(q) + 1
  BY <1>1
<1>3. \A i \in 1 .. Len(q) : i \in 1 .. Len(p)
  BY <1>1
<1>4. Len(q) + 1 \in 1 .. Len(p)
  BY <1>1
<1>5. Queued(p) = Queued(q) \cup {x}
  <2>1. Queued(p) \subseteq Queued(q) \cup {x}
    BY <1>1, <1>2 DEF Queued
  <2>2. Queued(q) \cup {x} \subseteq Queued(p)
    BY <1>1, <1>3, <1>4 DEF Queued
  <2> QED BY <2>1, <2>2
<1>6. ASSUME \A i, j \in 1 .. Len(q) : q[i] = q[j] => i = j, x \notin Queued(q)
      PROVE  \A i, j \in 1 .. Len(p) : p[i] = p[j] => i = j
  <2>1. \A i \in 1 .. Len(q) : q[i] # x
    BY <1>6 DEF Queued
  <2> QED BY <2>1, <1>1, <1>2, <1>6
<1> QED BY <1>1, <1>5, <1>6 DEF p

(* pop_front of a queue without repetitions. *)
LEMMA TailPlaces ==
    ASSUME NEW q \in Seq(Thread), q # <<>>, \A i, j \in 1 .. Len(q) : q[i] = q[j] => i = j
    PROVE  /\ Head(q) \in Thread /\ Tail(q) \in Seq(Thread)
           /\ Head(q) \in Queued(q)
           /\ Queued(Tail(q)) = Queued(q) \ {Head(q)}
           /\ \A i, j \in 1 .. Len(Tail(q)) : Tail(q)[i] = Tail(q)[j] => i = j
<1> DEFINE p == Tail(q)
<1>1. /\ Head(q) \in Thread /\ Head(q) = q[1] /\ Len(q) \in Nat \ {0}
      /\ p \in Seq(Thread) /\ Len(p) = Len(q) - 1
      /\ \A i \in 1 .. Len(p) : p[i] = q[i + 1]
  OBVIOUS
<1> HIDE DEF p
<1>2. \A i \in 1 .. Len(p) : i + 1 \in 1 .. Len(q) /\ i + 1 # 1
  BY <1>1
<1>3. \A i \in 1 .. Len(q) : i # 1 => i - 1 \in 1 .. Len(p) /\ p[i - 1] = q[i]
  BY <1>1
<1>4. 1 \in 1 .. Len(q)
  BY <1>1
<1>5. Queued(p) = Queued(q) \ {Head(q)}
  <2>1. \A i \in 1 .. Len(p) : p[i] \in Queued(q) /\ p[i] # Head(q)
    BY <1>1, <1>2, <1>4 DEF Queued
  <2>2. \A i \in 1 .. Len(q) : q[i] # Head(q) => q[i] \in Queued(p)
    BY <1>1, <1>3 DEF Queued
  <2> QED BY <2>1, <2>2, SMTT(40) DEF Queued
<1>6. \A i, j \in 1 .. Len(p) : p[i] = p[j] => i = j
  BY <1>1, <1>2
<1>7. Head(q) \in Queued(q)
  BY <1>1, <1>4 DEF Queued
<1> QED BY <1>1, <1>5, <1>6, <1>7 DEF p

-----------------------------------------------------------------------------

(* The initial state. *)
LEMMA InitInv == RwInit => RwInv
<1> SUFFICES ASSUME RwInit PROVE RwInv
  OBVIOUS
<1>1. ZeroClock \in Clocks /\ \A t \in Thread : ClockIncrement(ZeroClock, t) \in Clocks
  BY DEF Clocks, ZeroClock, ClockIncrement
<1>2. <<>> \in Seq(Thread) /\ Len(<<>>) = 0 /\ Queued(<<>>) = {}
  BY DEF Queued
<1>3. RwTypeOK
  BY <1>1, <1>2 DEF RwInit, RwTypeOK
<1>4. RwNoPanic /\ Exclusion
  BY DEF RwInit, RwNoPanic, Exclusion
<1>5. RwNoLostWakeup
  BY <1>2 DEF RwInit, RwNoLostWakeup
<1>6. \A c \in Clocks : ClockLeq(ZeroClock, c)
  BY DEF Clocks, ClockLeq, ZeroClock
<1>7. GuardedDataRaceFree
  BY <1>1, <1>6 DEF RwInit, GuardedDataRaceFree
<1>8. AccessesCovered
  <2>1. \A t \in Thread : ZeroClock[t] = 0 /\ ClockIncrement(ZeroClock, t)[t] = 1
    BY DEF ZeroClock, ClockIncrement
  <2> QED BY <2>1, <1>1, <1>6 DEF RwInit, AccessesCovered
<1> QED BY <1>3, <1>4, <1>5, <1>7, <1>8 DEF RwInv, LockInv

(* A thread takes a read lock: no writer is in, so nobody waits to read. *)
LEMMA ReadLockKeepsLock ==
    ASSUME LockInv, NEW t \in Thread, ReadLock(t)
    PROVE  LockInv'
<1>1. /\ RwTypeOK /\ RwNoPanic /\ Exclusion /\ RwNoLostWakeup
      /\ writer = NoWriter /\ readers' = [readers EXCEPT ![t] = @ + 1]
      /\ rw_clock' = [rw_clock EXCEPT ![t] = AcquireClock(@, clock_unlocked)]
      /\ UNCHANGED <<rw_state, writer, writer_queue, reader_queue, clock_unlocked,
                     clock_current_readers, last_write, last_reads, rw_halt>>
  BY DEF LockInv, ReadLock, IsWriteLocked
<1>2. RwTypeOK'
  <2>1. AcquireClock(rw_clock[t], clock_unlocked) \in Clocks
    BY <1>1, ClockEntries DEF RwTypeOK
  <2>2. readers' \in [Thread -> Nat] /\ rw_clock' \in [Thread -> Clocks]
    BY <2>1, <1>1 DEF RwTypeOK
  <2> QED BY <2>2, <1>1 DEF RwTypeOK
<1>3. readers'[t] > 0
  BY <1>1 DEF RwTypeOK
<1>4. RwNoPanic' /\ Exclusion'
  BY <1>1 DEF RwNoPanic, Exclusion
<1>5. RwNoLostWakeup'
  BY <1>1, <1>3 DEF RwNoLostWakeup, IsWriteLocked, IsLocked, Queued
<1> QED BY <1>2, <1>4, <1>5 DEF LockInv

(* A thread takes the write lock: the lock was free. *)
LEMMA WriteLockKeepsLock ==
    ASSUME LockInv, NEW t \in Thread, WriteLock(t)
    PROVE  LockInv'
<1>1. /\ RwTypeOK /\ RwNoPanic /\ Exclusion /\ RwNoLostWakeup
      /\ ~IsLocked /\ writer' = t
      /\ rw_clock' = [rw_clock EXCEPT ![t] = AcquireClock(@, clock_unlocked)]
      /\ UNCHANGED <<rw_state, readers, writer_queue, reader_queue, clock_unlocked,
                     clock_current_readers, last_write, last_reads, rw_halt>>
  BY DEF LockInv, WriteLock
<1>2. RwTypeOK'
  <2>1. AcquireClock(rw_clock[t], clock_unlocked) \in Clocks
    BY <1>1, ClockEntries DEF RwTypeOK
  <2>2. rw_clock' \in [Thread -> Clocks]
    BY <2>1, <1>1 DEF RwTypeOK
  <2> QED BY <2>2, <1>1 DEF RwTypeOK
<1>3. \A u \in Thread : readers[u] = 0
  BY <1>1 DEF IsLocked, RwTypeOK
<1>4. RwNoPanic' /\ Exclusion'
  BY <1>1, <1>3 DEF RwNoPanic, Exclusion
<1>5. writer' # NoWriter
  BY <1>1, RwLockAssumption
<1>6. RwNoLostWakeup'
  BY <1>1, <1>5 DEF RwNoLostWakeup, IsWriteLocked, IsLocked, Queued
<1> QED BY <1>2, <1>4, <1>6 DEF LockInv

(* A thread queues up behind a writer to read, or behind anybody to write. *)
LEMMA EnqueueKeepsLock ==
    ASSUME LockInv, NEW t \in Thread, EnqueueReader(t) \/ EnqueueWriter(t)
    PROVE  LockInv'
<1>1. /\ RwTypeOK /\ RwNoPanic /\ Exclusion /\ RwNoLostWakeup
      /\ rw_state[t] = "Enabled" /\ IsLocked
      /\ rw_state' = [rw_state EXCEPT ![t] = "RwLock"]
      /\ UNCHANGED <<writer, readers, clock_unlocked, clock_current_readers,
                     rw_clock, last_write, last_reads, rw_halt>>
      /\ \/ reader_queue' = Append(reader_queue, t) /\ writer_queue' = writer_queue /\ IsWriteLocked
         \/ writer_queue' = Append(writer_queue, t) /\ reader_queue' = reader_queue
  BY DEF LockInv, EnqueueReader, EnqueueWriter, RwRunning, IsLocked
<1>2. /\ reader_queue \in Seq(Thread) /\ writer_queue \in Seq(Thread)
      /\ t \notin Queued(reader_queue) /\ t \notin Queued(writer_queue)
      /\ \A i, j \in 1 .. Len(reader_queue) : reader_queue[i] = reader_queue[j] => i = j
      /\ \A i, j \in 1 .. Len(writer_queue) : writer_queue[i] = writer_queue[j] => i = j
  BY <1>1 DEF RwTypeOK, RwNoLostWakeup
<1>3. /\ reader_queue' \in Seq(Thread) /\ writer_queue' \in Seq(Thread)
      /\ Queued(reader_queue') \cup Queued(writer_queue') = Queued(reader_queue) \cup Queued(writer_queue) \cup {t}
      /\ Queued(reader_queue') \cap Queued(writer_queue') = Queued(reader_queue) \cap Queued(writer_queue)
      /\ \A i, j \in 1 .. Len(reader_queue') : reader_queue'[i] = reader_queue'[j] => i = j
      /\ \A i, j \in 1 .. Len(writer_queue') : writer_queue'[i] = writer_queue'[j] => i = j
  <2>1. CASE reader_queue' = Append(reader_queue, t) /\ writer_queue' = writer_queue
    <3>1. Queued(reader_queue') = Queued(reader_queue) \cup {t}
      BY <2>1, <1>2, AppendPlaces
    <3>2. Queued(writer_queue') = Queued(writer_queue)
      BY <2>1
    <3>3. /\ reader_queue' \in Seq(Thread)
          /\ \A i, j \in 1 .. Len(reader_queue') : reader_queue'[i] = reader_queue'[j] => i = j
      BY <2>1, <1>2, AppendPlaces
    <3>4. /\ writer_queue' \in Seq(Thread)
          /\ \A i, j \in 1 .. Len(writer_queue') : writer_queue'[i] = writer_queue'[j] => i = j
      BY <2>1, <1>2
    <3> QED BY <3>1, <3>2, <3>3, <3>4, <1>2
  <2>2. CASE writer_queue' = Append(writer_queue, t) /\ reader_queue' = reader_queue
    <3>1. Queued(writer_queue') = Queued(writer_queue) \cup {t}
      BY <2>2, <1>2, AppendPlaces
    <3>2. Queued(reader_queue') = Queued(reader_queue)
      BY <2>2
    <3>3. /\ writer_queue' \in Seq(Thread)
          /\ \A i, j \in 1 .. Len(writer_queue') : writer_queue'[i] = writer_queue'[j] => i = j
      BY <2>2, <1>2, AppendPlaces
    <3>4. /\ reader_queue' \in Seq(Thread)
          /\ \A i, j \in 1 .. Len(reader_queue') : reader_queue'[i] = reader_queue'[j] => i = j
      BY <2>2, <1>2
    <3> QED BY <3>1, <3>2, <3>3, <3>4, <1>2
  <2> QED BY <1>1, <2>1, <2>2
<1>4. RwTypeOK' /\ RwNoPanic' /\ Exclusion'
  BY <1>1, <1>3 DEF RwTypeOK, RwNoPanic, Exclusion
<1>5. \A u \in Thread : rw_state'[u] = "RwLock" <=> u \in Queued(reader_queue') \cup Queued(writer_queue')
  <2>1. \A u \in Thread : rw_state'[u] = IF u = t THEN "RwLock" ELSE rw_state[u]
    BY <1>1 DEF RwTypeOK
  <2> QED BY <2>1, <1>1, <1>3 DEF RwNoLostWakeup
<1>6. /\ reader_queue' # <<>> => IsWriteLocked'
      /\ writer_queue' # <<>> => IsLocked'
  BY <1>1 DEF RwNoLostWakeup, IsWriteLocked, IsLocked
<1>7. Queued(reader_queue') \cap Queued(writer_queue') = {}
  BY <1>1, <1>3 DEF RwNoLostWakeup
<1>8. RwNoLostWakeup'
  BY <1>3, <1>5, <1>6, <1>7 DEF RwNoLostWakeup, Queued
<1> QED BY <1>4, <1>8 DEF LockInv

(* The lock goes to the first queued writer, while nobody reads. *)
LEMMA PassToWriterKeepsLock ==
    ASSUME LockInv, NEW t \in Thread, NEW unlocked \in Clocks,
           writer_queue # <<>>, PassToWriter(t, unlocked, {}),
           writer = NoWriter => reader_queue = <<>>,
           readers' \in [Thread -> Nat], \A u \in Thread : readers'[u] = 0,
           clock_unlocked' \in Clocks, clock_current_readers' \in Clocks,
           UNCHANGED <<reader_queue, last_write, last_reads>>
    PROVE  LockInv'
<1> DEFINE w == Head(writer_queue)
<1>1. RwTypeOK /\ RwNoPanic /\ Exclusion /\ RwNoLostWakeup
  BY DEF LockInv
<1>2. /\ writer_queue \in Seq(Thread)
      /\ \A i, j \in 1 .. Len(writer_queue) : writer_queue[i] = writer_queue[j] => i = j
  BY <1>1 DEF RwTypeOK, RwNoLostWakeup
<1>3. /\ w \in Thread /\ Tail(writer_queue) \in Seq(Thread) /\ w \in Queued(writer_queue)
      /\ Queued(Tail(writer_queue)) = Queued(writer_queue) \ {w}
      /\ \A i, j \in 1 .. Len(Tail(writer_queue)) : Tail(writer_queue)[i] = Tail(writer_queue)[j] => i = j
  BY <1>2, TailPlaces
<1>4. /\ writer' = w /\ writer_queue' = Tail(writer_queue)
      /\ rw_state' = [rw_state EXCEPT ![w] = "Enabled"]
      /\ rw_clock' = [rw_clock EXCEPT ![t] = AfterRelease(@, t), ![w] = AcquireClock(@, unlocked)]
      /\ rw_halt' = IF rw_state[w] = "RwLock" THEN rw_halt ELSE "panic"
  BY DEF PassToWriter, RwAssert
<1> HIDE DEF w
<1>5. rw_state[w] = "RwLock"
  BY <1>1, <1>3 DEF RwNoLostWakeup
<1>6. RwTypeOK'
  <2>1. rw_clock' \in [Thread -> Clocks]
    <3>1. \A c \in Clocks : AfterRelease(c, t) \in Clocks /\ AcquireClock(c, unlocked) \in Clocks
      BY ClockEntries
    <3>2. rw_clock \in [Thread -> Clocks]
      BY <1>1 DEF RwTypeOK
    <3>3. [rw_clock EXCEPT ![t] = AfterRelease(@, t)] \in [Thread -> Clocks]
      BY <3>1, <3>2
    <3> QED BY <3>1, <3>3, <1>3, <1>4
  <2>2. rw_state' \in [Thread -> {"Enabled", "RwLock"}]
    BY <1>1, <1>4 DEF RwTypeOK
  <2> QED BY <2>1, <2>2, <1>1, <1>3, <1>4, <1>5 DEF RwTypeOK
<1>7. RwNoPanic' /\ Exclusion'
  BY <1>1, <1>4, <1>5 DEF RwNoPanic, Exclusion
<1>8. RwNoLostWakeup'
  <2>1. writer' # NoWriter
    BY <1>3, <1>4, RwLockAssumption
  <2>2. \A u \in Thread : rw_state'[u] = IF u = w THEN "Enabled" ELSE rw_state[u]
    BY <1>1, <1>4 DEF RwTypeOK
  <2>3. w \notin Queued(reader_queue)
    BY <1>1, <1>3 DEF RwNoLostWakeup
  <2>4. \A u \in Thread : rw_state'[u] = "RwLock" <=> u \in Queued(reader_queue') \cup Queued(writer_queue')
    BY <2>2, <2>3, <1>1, <1>3, <1>4 DEF RwNoLostWakeup
  <2>5. Queued(reader_queue') \cap Queued(writer_queue') = {}
    BY <1>1, <1>3, <1>4 DEF RwNoLostWakeup
  <2>6. \A q \in {reader_queue', writer_queue'} : \A i, j \in 1 .. Len(q) : q[i] = q[j] => i = j
    BY <1>1, <1>3, <1>4, ZenonT(60) DEF RwNoLostWakeup
  <2> QED BY <2>1, <2>4, <2>5, <2>6 DEF RwNoLostWakeup, IsWriteLocked, IsLocked, Queued
<1> QED BY <1>6, <1>7, <1>8 DEF LockInv

(* What a leaving reader sees: no writer is in, so nobody waits to read.   *)
LEMMA ReadUnlockFacts ==
    ASSUME LockInv, NEW t \in Thread, ReadUnlock(t)
    PROVE  /\ readers[t] > 0 /\ writer = NoWriter /\ reader_queue = <<>>
           /\ readers' = OneLess(t) /\ readers' \in [Thread -> Nat]
           /\ readers'[t] = readers[t] - 1 /\ \A u \in Thread : u # t => readers'[u] = readers[u]
           /\ clock_current_readers' \in Clocks
           /\ ClockLeq(clock_current_readers, clock_current_readers')
           /\ DataRaceDetector => ClockLeq(rw_clock[t], clock_current_readers')
           /\ UNCHANGED <<reader_queue, last_write, last_reads>>
           /\ \/ /\ \E u \in Thread : readers'[u] > 0
                 /\ rw_clock' = [rw_clock EXCEPT ![t] = AfterRelease(@, t)]
                 /\ UNCHANGED <<rw_state, writer, writer_queue, clock_unlocked, rw_halt>>
              \/ /\ \A u \in Thread : readers'[u] = 0
                 /\ clock_unlocked' = clock_current_readers'
                 /\ \/ /\ writer_queue = <<>>
                       /\ rw_clock' = [rw_clock EXCEPT ![t] = AfterRelease(@, t)]
                       /\ UNCHANGED <<rw_state, writer, writer_queue, rw_halt>>
                    \/ writer_queue # <<>> /\ PassToWriter(t, clock_unlocked', {})
<1> DEFINE left == {u \in Thread : OneLess(t)[u] > 0}
           current == IF DataRaceDetector THEN ClockJoin(clock_current_readers, rw_clock[t])
                      ELSE clock_current_readers
<1>1. RwTypeOK /\ Exclusion /\ RwNoLostWakeup
  BY DEF LockInv
<1>2. /\ readers[t] > 0 /\ readers' = OneLess(t) /\ clock_current_readers' = current
      /\ UNCHANGED <<reader_queue, last_write, last_reads>>
      /\ \/ /\ left # {} \/ IsWriteLocked
            /\ rw_clock' = [rw_clock EXCEPT ![t] = AfterRelease(@, t)]
            /\ UNCHANGED <<rw_state, writer, writer_queue, clock_unlocked, rw_halt>>
         \/ /\ left = {}
            /\ clock_unlocked' = current
            /\ IF writer_queue = <<>>
               THEN /\ rw_clock' = [rw_clock EXCEPT ![t] = AfterRelease(@, t)]
                    /\ UNCHANGED <<rw_state, writer, writer_queue, rw_halt>>
               ELSE PassToWriter(t, current, left)
  BY DEF ReadUnlock, UnlockedByReaders, Free
<1>3. writer = NoWriter /\ reader_queue = <<>> /\ ~IsWriteLocked
  BY <1>1, <1>2 DEF Exclusion, RwNoLostWakeup, IsWriteLocked, RwTypeOK
<1>4. /\ readers' \in [Thread -> Nat] /\ readers'[t] = readers[t] - 1
      /\ \A u \in Thread : u # t => readers'[u] = readers[u]
  BY <1>1, <1>2 DEF RwTypeOK, OneLess
<1>5. /\ current \in Clocks /\ ClockLeq(clock_current_readers, current)
      /\ DataRaceDetector => ClockLeq(rw_clock[t], current)
  <2>1. clock_current_readers \in Clocks /\ rw_clock[t] \in Clocks
    BY <1>1 DEF RwTypeOK
  <2> QED BY <2>1, ClockEntries, ClockOrder
<1>6. left = {u \in Thread : readers'[u] > 0}
  BY <1>2
<1> HIDE DEF current, left
<1>7. (left = {} => \A u \in Thread : readers'[u] = 0) /\ (left # {} => \E u \in Thread : readers'[u] > 0)
  BY <1>4, <1>6
<1>8. CASE /\ left # {} \/ IsWriteLocked
           /\ rw_clock' = [rw_clock EXCEPT ![t] = AfterRelease(@, t)]
           /\ UNCHANGED <<rw_state, writer, writer_queue, clock_unlocked, rw_halt>>
  BY <1>2, <1>3, <1>4, <1>5, <1>7, <1>8
<1>9. CASE /\ left = {}
           /\ clock_unlocked' = current
           /\ IF writer_queue = <<>>
              THEN /\ rw_clock' = [rw_clock EXCEPT ![t] = AfterRelease(@, t)]
                   /\ UNCHANGED <<rw_state, writer, writer_queue, rw_halt>>
              ELSE PassToWriter(t, current, left)
  BY <1>2, <1>3, <1>4, <1>5, <1>7, <1>9, Zenon
<1> QED BY <1>2, <1>8, <1>9

(* A reader leaves; the last one may let a writer in. *)
LEMMA ReadUnlockKeepsLock ==
    ASSUME LockInv, NEW t \in Thread, ReadUnlock(t)
    PROVE  LockInv'
<1>1. /\ readers[t] > 0 /\ writer = NoWriter /\ reader_queue = <<>>
      /\ readers' \in [Thread -> Nat]
      /\ clock_current_readers' \in Clocks
      /\ UNCHANGED <<reader_queue, last_write, last_reads>>
  BY ReadUnlockFacts
<1>2. RwTypeOK /\ RwNoPanic /\ Exclusion /\ RwNoLostWakeup
  BY DEF LockInv
<1>3. ASSUME rw_clock' = [rw_clock EXCEPT ![t] = AfterRelease(@, t)],
             clock_unlocked' \in Clocks,
             UNCHANGED <<rw_state, writer, writer_queue, rw_halt>>,
             writer_queue = <<>> \/ \E u \in Thread : readers'[u] > 0
      PROVE  LockInv'
  <2>1. rw_clock' \in [Thread -> Clocks]
    <3>1. rw_clock \in [Thread -> Clocks]
      BY <1>2 DEF RwTypeOK
    <3>2. AfterRelease(rw_clock[t], t) \in Clocks
      BY <3>1, ClockEntries
    <3> QED BY <3>1, <3>2, <1>3
  <2>2. RwTypeOK' /\ RwNoPanic' /\ Exclusion'
    BY <2>1, <1>1, <1>2, <1>3 DEF RwTypeOK, RwNoPanic, Exclusion
  <2>3. RwNoLostWakeup'
    BY <1>1, <1>2, <1>3 DEF RwNoLostWakeup, IsWriteLocked, IsLocked, Queued
  <2> QED BY <2>2, <2>3 DEF LockInv
<1>4. CASE /\ \E u \in Thread : readers'[u] > 0
           /\ rw_clock' = [rw_clock EXCEPT ![t] = AfterRelease(@, t)]
           /\ UNCHANGED <<rw_state, writer, writer_queue, clock_unlocked, rw_halt>>
  BY <1>2, <1>3, <1>4 DEF RwTypeOK
<1>5. CASE /\ clock_unlocked' = clock_current_readers'
           /\ writer_queue = <<>>
           /\ rw_clock' = [rw_clock EXCEPT ![t] = AfterRelease(@, t)]
           /\ UNCHANGED <<rw_state, writer, writer_queue, rw_halt>>
  BY <1>1, <1>3, <1>5
<1>6. CASE /\ \A u \in Thread : readers'[u] = 0
           /\ clock_unlocked' = clock_current_readers'
           /\ writer_queue # <<>> /\ PassToWriter(t, clock_unlocked', {})
  BY <1>1, <1>6, PassToWriterKeepsLock
<1> QED BY <1>4, <1>5, <1>6, ReadUnlockFacts

(* What a leaving writer sees: nobody reads, and either the first queued   *)
(* writer gets the lock, or all queued readers do.                         *)
LEMMA WriteUnlockFacts ==
    ASSUME LockInv, NEW t \in Thread, WriteUnlock(t)
    PROVE  /\ writer = t /\ \A u \in Thread : readers[u] = 0
           /\ clock_unlocked' = ReleasedClock(rw_clock[t], clock_unlocked) /\ clock_unlocked' \in Clocks
           /\ UNCHANGED <<clock_current_readers, last_write, last_reads>>
           /\ \/ /\ writer_queue # <<>>
                 /\ PassToWriter(t, clock_unlocked', {})
                 /\ UNCHANGED <<readers, reader_queue>>
              \/ /\ writer_queue = <<>> /\ writer_queue' = <<>> /\ writer' = NoWriter /\ reader_queue' = <<>>
                 /\ rw_state' = [u \in Thread |-> "Enabled"]
                 /\ readers' = [u \in Thread |-> IF u \in Queued(reader_queue) THEN 1 ELSE 0]
                 /\ rw_clock' = [u \in Thread |->
                                   IF u = t THEN AfterRelease(rw_clock[u], t)
                                   ELSE IF u \in Queued(reader_queue) THEN AcquireClock(rw_clock[u], clock_unlocked')
                                   ELSE rw_clock[u]]
                 /\ rw_halt' = rw_halt
<1>1. RwTypeOK /\ Exclusion /\ RwNoLostWakeup
  BY DEF LockInv
<1>2. /\ writer = t /\ UNCHANGED <<clock_current_readers, last_write, last_reads>>
      /\ clock_unlocked' = ReleasedClock(rw_clock[t], clock_unlocked)
      /\ \/ /\ writer_queue # <<>>
            /\ PassToWriter(t, clock_unlocked', {u \in Thread : readers[u] > 0})
            /\ UNCHANGED <<readers, reader_queue>>
         \/ /\ writer_queue = <<>> /\ writer' = NoWriter /\ reader_queue' = <<>>
            /\ readers' = [u \in Thread |-> readers[u] + (IF u \in Queued(reader_queue) THEN 1 ELSE 0)]
            /\ rw_state' = [u \in Thread |-> IF u \in Queued(reader_queue) THEN "Enabled" ELSE rw_state[u]]
            /\ rw_clock' = [u \in Thread |->
                              IF u = t THEN AfterRelease(rw_clock[u], t)
                              ELSE IF u \in Queued(reader_queue) THEN AcquireClock(rw_clock[u], clock_unlocked')
                              ELSE rw_clock[u]]
            /\ rw_halt' = (IF \A u \in Queued(reader_queue) : rw_state[u] = "RwLock" THEN rw_halt ELSE "panic")
            /\ UNCHANGED writer_queue
  BY DEF WriteUnlock, WokenReaders, RwAssert
<1>3. \A u \in Thread : readers[u] = 0
  BY <1>1, <1>2, RwLockAssumption DEF Exclusion
<1>4. clock_unlocked' \in Clocks
  BY <1>1, <1>2, ClockEntries DEF RwTypeOK
<1>5. {u \in Thread : readers[u] > 0} = {}
  BY <1>3
<1>6. Queued(reader_queue) \subseteq Thread
  BY <1>1 DEF RwTypeOK, Queued
<1>7. ASSUME writer_queue = <<>>
      PROVE  \A u \in Thread : u \in Queued(reader_queue) <=> rw_state[u] = "RwLock"
  <2>1. Queued(writer_queue) = {}
    BY <1>7 DEF Queued
  <2> QED BY <2>1, <1>1 DEF RwNoLostWakeup
<1>8. CASE writer_queue # <<>>
  BY <1>2, <1>3, <1>4, <1>5, <1>8
<1>9. CASE writer_queue = <<>>
  <2>1. [u \in Thread |-> IF u \in Queued(reader_queue) THEN "Enabled" ELSE rw_state[u]] = [u \in Thread |-> "Enabled"]
    <3>1. \A u \in Thread : (IF u \in Queued(reader_queue) THEN "Enabled" ELSE rw_state[u]) = "Enabled"
      BY <1>1, <1>7, <1>9 DEF RwTypeOK
    <3> QED BY <3>1
  <2>2. [u \in Thread |-> readers[u] + (IF u \in Queued(reader_queue) THEN 1 ELSE 0)]
          = [u \in Thread |-> IF u \in Queued(reader_queue) THEN 1 ELSE 0]
    <3>1. \A u \in Thread : readers[u] + (IF u \in Queued(reader_queue) THEN 1 ELSE 0)
                              = IF u \in Queued(reader_queue) THEN 1 ELSE 0
      <4>1. \A n \in {0, 1} : 0 + n = n
        OBVIOUS
      <4>2. \A u \in Thread : (IF u \in Queued(reader_queue) THEN 1 ELSE 0) \in {0, 1}
        OBVIOUS
      <4> QED BY <4>1, <4>2, <1>3, Zenon
    <3> QED BY <3>1, Zenon
  <2>3. \A u \in Queued(reader_queue) : rw_state[u] = "RwLock"
    BY <1>6, <1>7, <1>9
  <2> QED BY <2>1, <2>2, <2>3, <1>2, <1>3, <1>4, <1>9, Zenon
<1> QED BY <1>8, <1>9

(* A writer leaves and hands the lock on. *)
LEMMA WriteUnlockKeepsLock ==
    ASSUME LockInv, NEW t \in Thread, WriteUnlock(t)
    PROVE  LockInv'
<1>1. /\ writer = t /\ (\A u \in Thread : readers[u] = 0)
      /\ clock_unlocked' \in Clocks
      /\ UNCHANGED <<clock_current_readers, last_write, last_reads>>
  BY WriteUnlockFacts
<1>2. RwTypeOK /\ RwNoPanic /\ Exclusion /\ RwNoLostWakeup
  BY DEF LockInv
<1>3. CASE /\ writer_queue # <<>>
           /\ PassToWriter(t, clock_unlocked', {})
           /\ UNCHANGED <<readers, reader_queue>>
  <2>1. /\ readers' \in [Thread -> Nat] /\ \A u \in Thread : readers'[u] = 0
        /\ clock_current_readers' \in Clocks
    BY <1>1, <1>2, <1>3 DEF RwTypeOK
  <2>2. writer # NoWriter
    BY <1>1, RwLockAssumption
  <2> QED BY <2>1, <2>2, <1>1, <1>3, PassToWriterKeepsLock
<1>4. CASE /\ writer_queue' = <<>> /\ writer' = NoWriter /\ reader_queue' = <<>>
           /\ rw_state' = [u \in Thread |-> "Enabled"]
           /\ readers' = [u \in Thread |-> IF u \in Queued(reader_queue) THEN 1 ELSE 0]
           /\ rw_clock' = [u \in Thread |->
                             IF u = t THEN AfterRelease(rw_clock[u], t)
                             ELSE IF u \in Queued(reader_queue) THEN AcquireClock(rw_clock[u], clock_unlocked')
                             ELSE rw_clock[u]]
           /\ rw_halt' = rw_halt
  <2>1. rw_clock' \in [Thread -> Clocks]
    <3>1. rw_clock \in [Thread -> Clocks]
      BY <1>2 DEF RwTypeOK
    <3>2. \A c \in Clocks : AfterRelease(c, t) \in Clocks /\ AcquireClock(c, clock_unlocked') \in Clocks
      BY <1>1, ClockEntries
    <3> QED BY <3>1, <3>2, <1>4
  <2>2. RwTypeOK'
    BY <2>1, <1>1, <1>2, <1>4 DEF RwTypeOK
  <2>3. RwNoPanic' /\ Exclusion'
    BY <1>2, <1>4 DEF RwNoPanic, Exclusion
  <2>4. RwNoLostWakeup'
    <3>1. Queued(<<>>) = {} /\ Len(<<>>) = 0
      BY DEF Queued
    <3> QED BY <3>1, <1>4 DEF RwNoLostWakeup, Queued
  <2> QED BY <2>2, <2>3, <2>4 DEF LockInv
<1> QED BY <1>3, <1>4, WriteUnlockFacts

(* The steps that leave the lock alone: accesses to the guarded data and   *)
(* the ends of the program.                                                *)
LEMMA OthersKeepLock ==
    ASSUME LockInv,
           \/ \E t \in Thread : RwWrite(t) \/ RwRead(t) \/ UnlockNotHeld(t)
           \/ RwGlobalDeadlock
           \/ UNCHANGED rwVars
    PROVE  LockInv'
<1> DEFINE LockStays ==
        /\ UNCHANGED <<rw_state, writer, readers, writer_queue, reader_queue,
                       clock_unlocked, clock_current_readers, rw_clock>>
        /\ rw_halt' \in {rw_halt, "UB", "RwGlobalDeadlock"}
        /\ last_write' \in Clocks /\ last_reads' \in Clocks
<1>1. LockStays
  <2>1. ASSUME NEW t \in Thread, RwWrite(t) PROVE LockStays
    <3>1. [ZeroClock EXCEPT ![t] = rw_clock[t][t]] \in Clocks
      BY DEF LockInv, RwTypeOK, Clocks, ZeroClock
    <3> QED BY <2>1, <3>1 DEF LockInv, RwTypeOK, RwWrite, lockVars
  <2>2. ASSUME NEW t \in Thread, RwRead(t) PROVE LockStays
    <3>1. [last_reads EXCEPT ![t] = rw_clock[t][t]] \in Clocks
      BY DEF LockInv, RwTypeOK, Clocks
    <3> QED BY <2>2, <3>1 DEF LockInv, RwTypeOK, RwRead, lockVars
  <2>3. ASSUME NEW t \in Thread, UnlockNotHeld(t) PROVE LockStays
    BY <2>3 DEF LockInv, RwTypeOK, UnlockNotHeld, RwStop, lockVars
  <2>4. CASE RwGlobalDeadlock
    BY <2>4 DEF LockInv, RwTypeOK, RwGlobalDeadlock, RwStop, lockVars
  <2>5. CASE UNCHANGED rwVars
    BY <2>5 DEF LockInv, RwTypeOK, rwVars, lockVars
  <2> QED BY <2>1, <2>2, <2>3, <2>4, <2>5
<1>2. RwTypeOK' /\ RwNoPanic' /\ Exclusion'
  BY <1>1 DEF LockInv, RwTypeOK, RwNoPanic, Exclusion
<1>3. RwNoLostWakeup'
  BY <1>1 DEF LockInv, RwNoLostWakeup, IsWriteLocked, IsLocked, Queued
<1> QED BY <1>2, <1>3 DEF LockInv

(* Every step. *)
LEMMA NextKeepsLock == LockInv /\ [RwNext]_rwVars => LockInv'
<1> SUFFICES ASSUME LockInv, [RwNext]_rwVars PROVE LockInv'
  OBVIOUS
<1>1. ASSUME NEW t \in Thread, ReadLock(t) PROVE LockInv'
  BY <1>1, ReadLockKeepsLock
<1>2. ASSUME NEW t \in Thread, WriteLock(t) PROVE LockInv'
  BY <1>2, WriteLockKeepsLock
<1>3. ASSUME NEW t \in Thread, EnqueueReader(t) \/ EnqueueWriter(t) PROVE LockInv'
  BY <1>3, EnqueueKeepsLock
<1>4. ASSUME NEW t \in Thread, ReadUnlock(t) PROVE LockInv'
  BY <1>4, ReadUnlockKeepsLock
<1>5. ASSUME NEW t \in Thread, WriteUnlock(t) PROVE LockInv'
  BY <1>5, WriteUnlockKeepsLock
<1>6. CASE \/ \E t \in Thread : RwWrite(t) \/ RwRead(t) \/ UnlockNotHeld(t)
           \/ RwGlobalDeadlock \/ UNCHANGED rwVars
  BY <1>6, OthersKeepLock
<1> QED BY <1>1, <1>2, <1>3, <1>4, <1>5, <1>6 DEF RwNext

-----------------------------------------------------------------------------

(* The types the arguments about clocks need. *)
LEMMA ClockTypes ==
    ASSUME LockInv
    PROVE  /\ clock_unlocked \in Clocks /\ clock_current_readers \in Clocks
           /\ last_write \in Clocks /\ last_reads \in Clocks
           /\ rw_clock \in [Thread -> Clocks] /\ \A u \in Thread : rw_clock[u] \in Clocks
           /\ readers \in [Thread -> Nat]
  BY DEF LockInv, RwTypeOK

(* Nothing is before the zero clock, and no thread's record shrinks when   *)
(* the clock it is compared with grows.                                    *)
LEMMA EntryOrder ==
    ASSUME NEW a \in Clocks, NEW b \in Clocks, NEW n \in Nat, NEW u \in Thread,
           ClockLeq(a, b), n <= a[u]
    PROVE  n <= b[u] /\ a[u] \in Nat /\ b[u] \in Nat
  BY DEF Clocks, ClockLeq

(* Who acquires clock_unlocked knows every access recorded in it. *)
LEMMA AcquireKnows ==
    ASSUME AccessesCovered, LockInv, NEW c \in Clocks, NEW d \in Clocks, NEW x \in {last_write, last_reads},
           ClockLeq(x, d)
    PROVE  ClockLeq(x, AcquireClock(c, d))
<1>1. x \in Clocks /\ AcquireClock(c, d) \in Clocks
  BY ClockTypes, AcquireEntries
<1>2. CASE DataRaceDetector
  <2>1. ClockLeq(d, AcquireClock(c, d))
    BY <1>2, AcquireEntries
  <2> QED BY <2>1, <1>1, ClockOrder
<1>3. CASE ~DataRaceDetector
  BY <1>1, <1>3, ClockOrder DEF AccessesCovered
<1> QED BY <1>2, <1>3

(* A thread comes in to read: what was written is in clock_unlocked. *)
LEMMA ReadLockKeepsClocks ==
    ASSUME RwInv, NEW t \in Thread, ReadLock(t)
    PROVE  GuardedDataRaceFree' /\ AccessesCovered'
<1> DEFINE k == AcquireClock(rw_clock[t], clock_unlocked)
<1>1. LockInv /\ GuardedDataRaceFree /\ AccessesCovered
  BY DEF RwInv
<1>2. /\ writer = NoWriter /\ readers' = [readers EXCEPT ![t] = @ + 1]
      /\ rw_clock' = [rw_clock EXCEPT ![t] = k]
      /\ UNCHANGED <<writer, clock_unlocked, clock_current_readers, last_write, last_reads>>
  BY DEF ReadLock, IsWriteLocked
<1>3. k \in Clocks /\ ClockLeq(rw_clock[t], k)
  BY <1>1, ClockTypes, ClockEntries
<1>4. ClockLeq(last_write, k)
  BY <1>1, <1>2, ClockTypes, AcquireKnows DEF AccessesCovered
<1> HIDE DEF k
<1>5. \A u \in Thread : rw_clock'[u] = IF u = t THEN k ELSE rw_clock[u]
  BY <1>1, <1>2, ClockTypes
<1>6. \A u \in Thread : u # t => readers'[u] = readers[u]
  BY <1>1, <1>2, ClockTypes
<1>7. readers'[t] > 0
  BY <1>1, <1>2, ClockTypes
<1>8. GuardedDataRaceFree'
  <2>1. \A u \in Thread : writer' # u
    BY <1>2, RwLockAssumption
  <2>2. \A u \in Thread : readers'[u] > 0 => ClockLeq(last_write, rw_clock'[u])
    BY <1>1, <1>4, <1>5, <1>6 DEF GuardedDataRaceFree
  <2> QED BY <2>1, <2>2, <1>2 DEF GuardedDataRaceFree
<1>9. AccessesCovered'
  <2>1. \A u \in Thread : last_reads[u] <= rw_clock'[u][u]
    <3>1. last_reads[t] <= k[t]
      BY <1>1, <1>3, EntryOrder, ClockTypes DEF AccessesCovered, Clocks
    <3> QED BY <3>1, <1>1, <1>5 DEF AccessesCovered
  <2>2. \A u \in Thread : readers'[u] = 0 => last_reads[u] <= clock_current_readers[u]
    BY <1>1, <1>6, <1>7 DEF AccessesCovered
  <2>3. IsLocked'
    BY <1>7 DEF IsLocked
  <2> QED BY <2>1, <2>2, <2>3, <1>1, <1>2 DEF AccessesCovered
<1> QED BY <1>8, <1>9

(* A thread comes in to write: the lock was free, so clock_unlocked has    *)
(* everything.                                                             *)
LEMMA WriteLockKeepsClocks ==
    ASSUME RwInv, NEW t \in Thread, WriteLock(t)
    PROVE  GuardedDataRaceFree' /\ AccessesCovered'
<1> DEFINE k == AcquireClock(rw_clock[t], clock_unlocked)
<1>1. LockInv /\ GuardedDataRaceFree /\ AccessesCovered
  BY DEF RwInv
<1>2. /\ ~IsLocked /\ writer = NoWriter /\ writer' = t
      /\ rw_clock' = [rw_clock EXCEPT ![t] = k]
      /\ UNCHANGED <<readers, clock_unlocked, clock_current_readers, last_write, last_reads>>
  BY DEF WriteLock, IsLocked, IsWriteLocked
<1>3. k \in Clocks /\ ClockLeq(rw_clock[t], k)
  BY <1>1, ClockTypes, ClockEntries
<1>4. ClockLeq(last_write, k) /\ ClockLeq(last_reads, k)
  BY <1>1, <1>2, ClockTypes, AcquireKnows DEF AccessesCovered
<1> HIDE DEF k
<1>5. \A u \in Thread : rw_clock'[u] = IF u = t THEN k ELSE rw_clock[u]
  BY <1>1, <1>2, ClockTypes
<1>6. \A u \in Thread : ~(readers[u] > 0)
  BY <1>2 DEF IsLocked
<1>7. GuardedDataRaceFree'
  BY <1>2, <1>4, <1>5, <1>6 DEF GuardedDataRaceFree
<1>8. AccessesCovered'
  <2>1. \A u \in Thread : last_reads[u] <= rw_clock'[u][u]
    <3>1. last_reads[t] <= k[t]
      BY <1>1, <1>3, EntryOrder, ClockTypes DEF AccessesCovered, Clocks
    <3> QED BY <3>1, <1>1, <1>5 DEF AccessesCovered
  <2>2. writer' # NoWriter /\ IsLocked'
    BY <1>2, RwLockAssumption DEF IsLocked, IsWriteLocked
  <2> QED BY <2>1, <2>2, <1>1, <1>2 DEF AccessesCovered
<1> QED BY <1>7, <1>8

(* The lock goes to a queued writer, and with it the clock it was released *)
(* with, which has everything.                                             *)
LEMMA PassToWriterKeepsClocks ==
    ASSUME RwInv, LockInv', NEW t \in Thread, rw_state[t] = "Enabled", writer_queue # <<>>,
           PassToWriter(t, clock_unlocked', {}), \A u \in Thread : readers'[u] = 0,
           ClockLeq(last_write, clock_unlocked'), ClockLeq(last_reads, clock_unlocked'),
           \A u \in Thread : last_reads[u] <= clock_current_readers'[u],
           UNCHANGED <<last_write, last_reads>>
    PROVE  GuardedDataRaceFree' /\ AccessesCovered'
<1> DEFINE w == Head(writer_queue)
<1>1. LockInv /\ GuardedDataRaceFree /\ AccessesCovered
  BY DEF RwInv
<1>2. /\ writer' = w
      /\ rw_clock' = [rw_clock EXCEPT ![t] = AfterRelease(@, t), ![w] = AcquireClock(@, clock_unlocked')]
  BY DEF PassToWriter
<1>3. w \in Thread /\ w # t
  <2>1. w \in Thread /\ w \in Queued(writer_queue)
    BY <1>1, TailPlaces DEF LockInv, RwTypeOK, RwNoLostWakeup
  <2> QED BY <2>1, <1>1 DEF LockInv, RwNoLostWakeup
<1>4. clock_unlocked' \in Clocks /\ rw_clock' \in [Thread -> Clocks]
  BY DEF LockInv, RwTypeOK
<1>5. rw_clock \in [Thread -> Clocks] /\ rw_clock[w] \in Clocks
  BY <1>1, <1>3, ClockTypes
<1> HIDE DEF w
<1>6. /\ rw_clock'[w] = AcquireClock(rw_clock[w], clock_unlocked')
      /\ \A u \in Thread : u # w => rw_clock'[u] \in {rw_clock[u], AfterRelease(rw_clock[u], u)}
  <2>1. \A u \in Thread : u # w /\ u # t => rw_clock'[u] = rw_clock[u]
    BY <1>2, <1>3, <1>5
  <2>2. rw_clock'[t] = AfterRelease(rw_clock[t], t)
    BY <1>2, <1>3, <1>5
  <2>3. rw_clock'[w] = AcquireClock(rw_clock[w], clock_unlocked')
    BY <1>2, <1>3, <1>5
  <2> QED BY <2>1, <2>2, <2>3
<1>7. ClockLeq(last_write, rw_clock'[w]) /\ ClockLeq(last_reads, rw_clock'[w])
  BY <1>1, <1>4, <1>5, <1>6, AcquireKnows
<1>8. GuardedDataRaceFree'
  <2>1. \A u \in Thread : ~(readers'[u] > 0)
    OBVIOUS
  <2>2. \A u \in Thread : writer' = u => ClockLeq(last_write, rw_clock'[u]) /\ ClockLeq(last_reads, rw_clock'[u])
    BY <1>2, <1>7
  <2> QED BY <2>1, <2>2, Zenon DEF GuardedDataRaceFree
<1>9. \A u \in Thread : last_reads[u] <= rw_clock'[u][u]
  <2> SUFFICES ASSUME NEW u \in Thread PROVE last_reads[u] <= rw_clock'[u][u]
    OBVIOUS
  <2>1. last_reads[u] \in Nat /\ last_reads[u] <= rw_clock[u][u]
    BY <1>1, ClockTypes DEF AccessesCovered, Clocks
  <2>2. CASE u = w
    BY <2>2, <1>7 DEF ClockLeq
  <2>3. CASE u # w
    <3>1. ClockLeq(rw_clock[u], rw_clock'[u])
      <4>1. rw_clock[u] \in Clocks /\ rw_clock'[u] \in {rw_clock[u], AfterRelease(rw_clock[u], u)}
        BY <2>3, <1>1, <1>6, ClockTypes
      <4>2. ClockLeq(rw_clock[u], rw_clock[u]) /\ ClockLeq(rw_clock[u], AfterRelease(rw_clock[u], u))
        BY <4>1, ClockEntries, ClockOrder
      <4> QED BY <4>1, <4>2
    <3> QED BY <3>1, <2>1, <1>1, <1>4, ClockTypes, EntryOrder
  <2> QED BY <2>2, <2>3
<1>10. writer' # NoWriter /\ IsLocked'
  BY <1>2, <1>3, RwLockAssumption DEF IsLocked, IsWriteLocked
<1>11. AccessesCovered'
  BY <1>1, <1>9, <1>10 DEF AccessesCovered
<1> QED BY <1>8, <1>11

(* A reader leaves: its reads go to clock_current_readers, and with the    *)
(* last reader to clock_unlocked.                                          *)
LEMMA ReadUnlockKeepsClocks ==
    ASSUME RwInv, LockInv', NEW t \in Thread, ReadUnlock(t)
    PROVE  GuardedDataRaceFree' /\ AccessesCovered'
<1>1. LockInv /\ GuardedDataRaceFree /\ AccessesCovered
  BY DEF RwInv
<1>2. /\ readers[t] > 0 /\ writer = NoWriter
      /\ readers' \in [Thread -> Nat] /\ readers'[t] = readers[t] - 1
      /\ \A u \in Thread : u # t => readers'[u] = readers[u]
      /\ clock_current_readers' \in Clocks
      /\ ClockLeq(clock_current_readers, clock_current_readers')
      /\ DataRaceDetector => ClockLeq(rw_clock[t], clock_current_readers')
      /\ UNCHANGED <<last_write, last_reads>>
  BY <1>1, ReadUnlockFacts
<1>3. rw_state[t] = "Enabled"
  BY DEF ReadUnlock, RwRunning
<1>4. \A u \in Thread : readers'[u] = 0 => last_reads[u] <= clock_current_readers'[u]
  <2> SUFFICES ASSUME NEW u \in Thread, readers'[u] = 0
               PROVE  last_reads[u] <= clock_current_readers'[u]
    OBVIOUS
  <2>1. last_reads[u] \in Nat /\ last_reads[u] <= rw_clock[u][u] /\ rw_clock[u] \in Clocks
    BY <1>1, ClockTypes DEF AccessesCovered, Clocks
  <2>2. CASE u # t
    <3>1. last_reads[u] <= clock_current_readers[u]
      BY <2>2, <1>1, <1>2 DEF AccessesCovered
    <3> QED BY <3>1, <2>1, <1>1, <1>2, ClockTypes, EntryOrder
  <2>3. CASE u = t /\ DataRaceDetector
    BY <2>1, <2>3, <1>1, <1>2, EntryOrder
  <2>4. CASE ~DataRaceDetector
    <3>1. last_reads[u] = 0
      BY <2>4, <1>1 DEF AccessesCovered, ZeroClock
    <3>2. clock_current_readers'[u] \in Nat
      BY <1>2 DEF Clocks
    <3> QED BY <3>1, <3>2
  <2> QED BY <2>2, <2>3, <2>4
<1>5. ClockLeq(last_write, clock_current_readers')
  <2>1. last_write \in Clocks /\ rw_clock[t] \in Clocks
    BY <1>1, ClockTypes
  <2>2. CASE DataRaceDetector
    <3>1. ClockLeq(last_write, rw_clock[t])
      BY <1>1, <1>2 DEF GuardedDataRaceFree
    <3> QED BY <3>1, <2>1, <2>2, <1>2, ClockOrder
  <2>3. CASE ~DataRaceDetector
    BY <2>3, <1>1, <1>2, ClockOrder DEF AccessesCovered
  <2> QED BY <2>2, <2>3
<1>6. ASSUME rw_clock' = [rw_clock EXCEPT ![t] = AfterRelease(@, t)], writer' = writer,
             ClockLeq(last_write, clock_unlocked'),
             (\A u \in Thread : readers'[u] = 0) => ClockLeq(last_reads, clock_unlocked')
      PROVE  GuardedDataRaceFree' /\ AccessesCovered'
  <2> DEFINE k == AfterRelease(rw_clock[t], t)
  <2>1. k \in Clocks /\ ClockLeq(rw_clock[t], k) /\ rw_clock[t] \in Clocks /\ last_write \in Clocks
    BY <1>1, ClockTypes, ClockEntries
  <2>2. rw_clock' = [rw_clock EXCEPT ![t] = k]
    BY <1>6
  <2> HIDE DEF k
  <2>3. \A u \in Thread : rw_clock'[u] = IF u = t THEN k ELSE rw_clock[u]
    BY <2>2, <1>1, ClockTypes
  <2>4. ClockLeq(last_write, k)
    <3>1. ClockLeq(last_write, rw_clock[t])
      BY <1>1, <1>2 DEF GuardedDataRaceFree
    <3> QED BY <3>1, <2>1, ClockOrder
  <2>5. \A u \in Thread : readers'[u] > 0 => ClockLeq(last_write, rw_clock'[u])
    BY <2>3, <2>4, <1>1, <1>2 DEF GuardedDataRaceFree
  <2>6. \A u \in Thread : writer' # u
    BY <1>2, <1>6, RwLockAssumption
  <2>7. GuardedDataRaceFree'
    BY <2>5, <2>6, <1>2 DEF GuardedDataRaceFree
  <2>8. \A u \in Thread : last_reads[u] <= rw_clock'[u][u]
    <3>1. last_reads[t] \in Nat /\ last_reads[t] <= rw_clock[t][t]
      BY <1>1, ClockTypes DEF AccessesCovered, Clocks
    <3>2. last_reads[t] <= k[t]
      BY <3>1, <2>1, EntryOrder
    <3> QED BY <3>2, <2>3, <1>1 DEF AccessesCovered
  <2>9. ~IsLocked' => \A u \in Thread : readers'[u] = 0
    BY <1>2 DEF IsLocked
  <2>10. AccessesCovered'
    BY <2>8, <2>9, <1>1, <1>2, <1>4, <1>6 DEF AccessesCovered
  <2> QED BY <2>7, <2>10
<1>7. ASSUME \A u \in Thread : readers'[u] = 0
      PROVE  ClockLeq(last_reads, clock_current_readers')
  BY <1>4, <1>7 DEF ClockLeq
<1>8. CASE /\ \E u \in Thread : readers'[u] > 0
           /\ rw_clock' = [rw_clock EXCEPT ![t] = AfterRelease(@, t)]
           /\ UNCHANGED <<writer, clock_unlocked>>
  <2>1. ClockLeq(last_write, clock_unlocked')
    BY <1>1, <1>2, <1>8 DEF AccessesCovered
  <2>2. ~(\A u \in Thread : readers'[u] = 0)
    BY <1>8
  <2> QED BY <2>1, <2>2, <1>6, <1>8
<1>9. CASE /\ \A u \in Thread : readers'[u] = 0
           /\ clock_unlocked' = clock_current_readers'
           /\ rw_clock' = [rw_clock EXCEPT ![t] = AfterRelease(@, t)]
           /\ UNCHANGED writer
  BY <1>5, <1>6, <1>7, <1>9
<1>10. CASE /\ \A u \in Thread : readers'[u] = 0
            /\ clock_unlocked' = clock_current_readers'
            /\ writer_queue # <<>> /\ PassToWriter(t, clock_unlocked', {})
  <2>1. ClockLeq(last_write, clock_unlocked') /\ ClockLeq(last_reads, clock_unlocked')
    BY <1>5, <1>7, <1>10
  <2>2. \A u \in Thread : last_reads[u] <= clock_current_readers'[u]
    BY <1>4, <1>10
  <2>3. writer_queue # <<>> /\ PassToWriter(t, clock_unlocked', {}) /\ \A u \in Thread : readers'[u] = 0
    BY <1>10
  <2> QED BY <2>1, <2>2, <2>3, <1>2, <1>3, PassToWriterKeepsClocks
<1> QED BY <1>1, <1>8, <1>9, <1>10, ReadUnlockFacts

(* A writer leaves: it knows everything, and so does who gets the lock. *)
LEMMA WriteUnlockKeepsClocks ==
    ASSUME RwInv, LockInv', NEW t \in Thread, WriteUnlock(t)
    PROVE  GuardedDataRaceFree' /\ AccessesCovered'
<1>1. LockInv /\ GuardedDataRaceFree /\ AccessesCovered
  BY DEF RwInv
<1>2. /\ writer = t /\ \A u \in Thread : readers[u] = 0
      /\ clock_unlocked' = ReleasedClock(rw_clock[t], clock_unlocked) /\ clock_unlocked' \in Clocks
      /\ UNCHANGED <<clock_current_readers, last_write, last_reads>>
  BY <1>1, WriteUnlockFacts
<1>3. rw_state[t] = "Enabled"
  BY DEF WriteUnlock, RwRunning
<1>4. last_write \in Clocks /\ last_reads \in Clocks /\ rw_clock[t] \in Clocks /\ rw_clock \in [Thread -> Clocks]
  BY <1>1, ClockTypes
<1>5. ClockLeq(last_write, clock_unlocked') /\ ClockLeq(last_reads, clock_unlocked')
  <2>1. CASE DataRaceDetector
    <3>1. clock_unlocked' = rw_clock[t]
      BY <2>1, <1>2 DEF ReleasedClock
    <3> QED BY <3>1, <1>1, <1>2 DEF GuardedDataRaceFree
  <2>2. CASE ~DataRaceDetector
    BY <2>2, <1>1, <1>2, ClockOrder DEF AccessesCovered
  <2> QED BY <2>1, <2>2
<1>6. \A u \in Thread : last_reads[u] <= clock_current_readers'[u]
  BY <1>1, <1>2 DEF AccessesCovered
<1>7. CASE /\ writer_queue # <<>>
           /\ PassToWriter(t, clock_unlocked', {})
           /\ UNCHANGED <<readers, reader_queue>>
  <2>1. writer_queue # <<>> /\ PassToWriter(t, clock_unlocked', {}) /\ \A u \in Thread : readers'[u] = 0
    BY <1>2, <1>7
  <2> QED BY <2>1, <1>2, <1>3, <1>5, <1>6, PassToWriterKeepsClocks
<1>8. CASE /\ writer' = NoWriter
           /\ readers' = [u \in Thread |-> IF u \in Queued(reader_queue) THEN 1 ELSE 0]
           /\ rw_clock' = [u \in Thread |->
                             IF u = t THEN AfterRelease(rw_clock[u], t)
                             ELSE IF u \in Queued(reader_queue) THEN AcquireClock(rw_clock[u], clock_unlocked')
                             ELSE rw_clock[u]]
  <2>1. t \notin Queued(reader_queue)
    BY <1>1, <1>3 DEF LockInv, RwNoLostWakeup
  <2>2. \A u \in Thread : readers'[u] > 0 => ClockLeq(last_write, rw_clock'[u])
    <3> SUFFICES ASSUME NEW u \in Thread, readers'[u] > 0 PROVE ClockLeq(last_write, rw_clock'[u])
      OBVIOUS
    <3>1. u \in Queued(reader_queue)
      BY <1>8
    <3>2. rw_clock'[u] = AcquireClock(rw_clock[u], clock_unlocked')
      BY <3>1, <2>1, <1>8
    <3> QED BY <3>2, <1>1, <1>2, <1>4, <1>5, AcquireKnows
  <2>3. \A u \in Thread : writer' # u
    BY <1>8, RwLockAssumption
  <2>4. GuardedDataRaceFree'
    BY <2>2, <2>3, <1>2 DEF GuardedDataRaceFree
  <2>5. \A u \in Thread : last_reads[u] <= rw_clock'[u][u]
    <3> SUFFICES ASSUME NEW u \in Thread PROVE last_reads[u] <= rw_clock'[u][u]
      OBVIOUS
    <3>1. last_reads[u] \in Nat /\ last_reads[u] <= rw_clock[u][u] /\ rw_clock[u] \in Clocks /\ rw_clock'[u] \in Clocks
      BY <1>1, <1>4, ClockTypes DEF AccessesCovered, Clocks, LockInv, RwTypeOK
    <3>2. rw_clock'[u] \in {AfterRelease(rw_clock[u], u), AcquireClock(rw_clock[u], clock_unlocked'), rw_clock[u]}
      BY <1>8
    <3>3. ClockLeq(rw_clock[u], rw_clock'[u])
      <4>1. /\ ClockLeq(rw_clock[u], AfterRelease(rw_clock[u], u))
            /\ ClockLeq(rw_clock[u], AcquireClock(rw_clock[u], clock_unlocked'))
            /\ ClockLeq(rw_clock[u], rw_clock[u])
        BY <3>1, <1>2, ClockEntries, ClockOrder
      <4> QED BY <4>1, <3>2
    <3> QED BY <3>1, <3>3, EntryOrder
  <2>6. AccessesCovered'
    BY <2>5, <1>1, <1>2, <1>5, <1>6 DEF AccessesCovered
  <2> QED BY <2>4, <2>6
<1> QED BY <1>1, <1>7, <1>8, WriteUnlockFacts

(* The writer writes at its own time. *)
LEMMA WriteKeepsClocks ==
    ASSUME RwInv, NEW t \in Thread, RwWrite(t)
    PROVE  GuardedDataRaceFree' /\ AccessesCovered'
<1>1. LockInv /\ GuardedDataRaceFree /\ AccessesCovered
  BY DEF RwInv
<1>2. /\ writer = t /\ DataRaceDetector
      /\ last_write' = [ZeroClock EXCEPT ![t] = rw_clock[t][t]]
      /\ UNCHANGED <<writer, readers, clock_unlocked, clock_current_readers, rw_clock, last_reads>>
  BY DEF RwWrite, lockVars
<1>3. writer # NoWriter /\ IsLocked'
  BY <1>2, RwLockAssumption DEF IsLocked, IsWriteLocked
<1>4. \A u \in Thread : readers[u] = 0
  BY <1>1, <1>3 DEF LockInv, Exclusion
<1>5. ClockLeq(last_write', rw_clock[t])
  <2>1. rw_clock[t] \in Clocks
    BY <1>1, ClockTypes
  <2> QED BY <2>1, <1>2 DEF ClockLeq, ZeroClock, Clocks
<1>6. GuardedDataRaceFree'
  <2>1. \A u \in Thread : ~(readers'[u] > 0)
    BY <1>2, <1>4
  <2> QED BY <2>1, <1>1, <1>2, <1>5 DEF GuardedDataRaceFree
<1>7. AccessesCovered'
  BY <1>1, <1>2, <1>3 DEF AccessesCovered
<1> QED BY <1>6, <1>7

(* A reader reads at its own time. *)
LEMMA ReadKeepsClocks ==
    ASSUME RwInv, NEW t \in Thread, RwRead(t)
    PROVE  GuardedDataRaceFree' /\ AccessesCovered'
<1>1. LockInv /\ GuardedDataRaceFree /\ AccessesCovered
  BY DEF RwInv
<1>2. /\ readers[t] > 0 /\ DataRaceDetector
      /\ last_reads' = [last_reads EXCEPT ![t] = rw_clock[t][t]]
      /\ UNCHANGED <<writer, readers, clock_unlocked, clock_current_readers, rw_clock, last_write>>
  BY DEF RwRead, lockVars
<1>3. writer = NoWriter /\ IsLocked'
  BY <1>1, <1>2 DEF LockInv, RwTypeOK, Exclusion, IsLocked
<1>4. GuardedDataRaceFree'
  <2>1. \A u \in Thread : writer' # u
    BY <1>2, <1>3, RwLockAssumption
  <2> QED BY <2>1, <1>1, <1>2 DEF GuardedDataRaceFree
<1>5. \A u \in Thread : last_reads'[u] = IF u = t THEN rw_clock[t][t] ELSE last_reads[u]
  BY <1>1, <1>2, ClockTypes DEF Clocks
<1>6. rw_clock[t][t] \in Nat
  BY <1>1, ClockTypes DEF Clocks
<1>7. AccessesCovered'
  <2>1. \A u \in Thread : last_reads'[u] <= rw_clock'[u][u]
    BY <1>1, <1>2, <1>5, <1>6 DEF AccessesCovered
  <2>2. \A u \in Thread : readers'[u] = 0 => last_reads'[u] <= clock_current_readers'[u]
    BY <1>1, <1>2, <1>5 DEF AccessesCovered
  <2> QED BY <2>1, <2>2, <1>1, <1>2, <1>3 DEF AccessesCovered
<1> QED BY <1>4, <1>7

(* The steps that touch neither clocks nor holders. *)
LEMMA OthersKeepClocks ==
    ASSUME RwInv,
           \/ \E t \in Thread : EnqueueReader(t) \/ EnqueueWriter(t) \/ UnlockNotHeld(t)
           \/ RwGlobalDeadlock
           \/ UNCHANGED rwVars
    PROVE  GuardedDataRaceFree' /\ AccessesCovered'
<1>1. UNCHANGED <<writer, readers, clock_unlocked, clock_current_readers, rw_clock, last_write, last_reads>>
  BY DEF EnqueueReader, EnqueueWriter, UnlockNotHeld, RwGlobalDeadlock, RwStop, lockVars, rwVars
<1> QED BY <1>1 DEF RwInv, GuardedDataRaceFree, AccessesCovered, IsLocked, IsWriteLocked

(* Every step. *)
LEMMA NextKeepsInv == RwInv /\ [RwNext]_rwVars => RwInv'
<1> SUFFICES ASSUME RwInv, [RwNext]_rwVars PROVE RwInv'
  OBVIOUS
<1>1. LockInv'
  BY NextKeepsLock DEF RwInv
<1> DEFINE ClocksKept == GuardedDataRaceFree' /\ AccessesCovered'
<1> SUFFICES ClocksKept
  BY <1>1 DEF RwInv
<1>2. ASSUME NEW t \in Thread, ReadLock(t) PROVE ClocksKept
  BY <1>2, ReadLockKeepsClocks
<1>3. ASSUME NEW t \in Thread, WriteLock(t) PROVE ClocksKept
  BY <1>3, WriteLockKeepsClocks
<1>4. ASSUME NEW t \in Thread, ReadUnlock(t) PROVE ClocksKept
  BY <1>1, <1>4, ReadUnlockKeepsClocks
<1>5. ASSUME NEW t \in Thread, WriteUnlock(t) PROVE ClocksKept
  BY <1>1, <1>5, WriteUnlockKeepsClocks
<1>6. ASSUME NEW t \in Thread, RwWrite(t) PROVE ClocksKept
  BY <1>6, WriteKeepsClocks
<1>7. ASSUME NEW t \in Thread, RwRead(t) PROVE ClocksKept
  BY <1>7, ReadKeepsClocks
<1>8. CASE \/ \E t \in Thread : EnqueueReader(t) \/ EnqueueWriter(t) \/ UnlockNotHeld(t)
           \/ RwGlobalDeadlock \/ UNCHANGED rwVars
  BY <1>8, OthersKeepClocks
<1> HIDE DEF ClocksKept
<1> QED BY <1>2, <1>3, <1>4, <1>5, <1>6, <1>7, <1>8 DEF RwNext

(* RwInv holds in every reachable state. *)
LEMMA Invariant == RwSpec => []RwInv
<1>1. RwInit => RwInv
  BY InitInv
<1>2. RwInv /\ [RwNext]_rwVars => RwInv'
  BY NextKeepsInv
<1> QED BY <1>1, <1>2, PTL DEF RwSpec

(* The fields of RwLock and the threads keep their types. *)
THEOREM TypeCorrect == RwSpec => []RwTypeOK
<1>1. RwInv => RwTypeOK
  BY DEF RwInv, LockInv
<1> QED BY <1>1, Invariant, PTL

(* No assertion of rwlock_writer_lock, of the unlock functions or of       *)
(* unblock_thread fails.                                                   *)
THEOREM AssertionsHold == RwSpec => []RwNoPanic
<1>1. RwInv => RwNoPanic
  BY DEF RwInv, LockInv
<1> QED BY <1>1, Invariant, PTL

(* While a writer is in, nobody reads, however the lock was handed on. *)
THEOREM WritersExclude == RwSpec => []Exclusion
<1>1. RwInv => Exclusion
  BY DEF RwInv, LockInv
<1> QED BY <1>1, Invariant, PTL

(* Nobody is queued on a lock that nobody will release, and the queues     *)
(* hold exactly the blocked threads.                                       *)
THEOREM NobodyStranded == RwSpec => []RwNoLostWakeup
<1>1. RwInv => RwNoLostWakeup
  BY DEF RwInv, LockInv
<1> QED BY <1>1, Invariant, PTL

(* Whoever is in knows the last write, and a writer knows every read.      *)
THEOREM GuardedDataNeverRaces == RwSpec => []GuardedDataRaceFree
<1>1. RwInv => GuardedDataRaceFree
  BY DEF RwInv
<1> QED BY <1>1, Invariant, PTL

(* rwlock_reader_unlock publishes the readers' clock only when the last    *)
(* reader leaves, so that readers that overlap are not ordered by the lock.*)
THEOREM OverlappingReadersUnordered == RwSpec => ReadersStayUnordered
<1> DEFINE Unordered == (\E t \in Thread : readers[t] > 0 /\ readers'[t] > 0)
                           => clock_unlocked' = clock_unlocked
<1>1. ASSUME LockInv, [RwNext]_rwVars PROVE [Unordered]_rwVars
  <2> USE <1>1
  <2>1. ASSUME NEW t \in Thread, ReadUnlock(t) PROVE Unordered
    <3>1. \/ clock_unlocked' = clock_unlocked
          \/ \A u \in Thread : readers'[u] = 0
      BY <2>1, ReadUnlockFacts
    <3> QED BY <3>1
  <2>2. ASSUME NEW t \in Thread, WriteUnlock(t) PROVE Unordered
    <3>1. \A u \in Thread : readers[u] = 0
      BY <2>2, WriteUnlockFacts
    <3> QED BY <3>1
  <2>3. ASSUME NEW t \in Thread,
               \/ ReadLock(t) \/ EnqueueReader(t) \/ WriteLock(t) \/ EnqueueWriter(t)
               \/ UnlockNotHeld(t) \/ RwWrite(t) \/ RwRead(t)
        PROVE  Unordered
    BY <2>3 DEF ReadLock, EnqueueReader, WriteLock, EnqueueWriter, UnlockNotHeld, RwWrite, RwRead, RwStop, lockVars
  <2>4. CASE RwGlobalDeadlock
    BY <2>4 DEF RwGlobalDeadlock, RwStop, lockVars
  <2> HIDE DEF Unordered
  <2> QED BY <2>1, <2>2, <2>3, <2>4 DEF RwNext
<1>2. RwInv => LockInv
  BY DEF RwInv
<1>3. RwSpec => [][Unordered]_rwVars
  <2> HIDE DEF Unordered
  <2>1. LockInv /\ [RwNext]_rwVars => [Unordered]_rwVars
    BY <1>1
  <2>2. RwSpec => [][RwNext]_rwVars
    BY DEF RwSpec
  <2> QED BY <2>1, <2>2, <1>2, Invariant, PTL
<1> QED BY <1>3 DEF ReadersStayUnordered
=============================================================================
