------------------------- MODULE MutexCondvarProofs -------------------------
(***************************************************************************)
(* Proofs about MutexCondvar, for any sets of threads, mutexes and         *)
(* condvars, any mutex kinds and any bounds.                               *)
(***************************************************************************)
EXTENDS MutexCondvar, TLAPS

(* What the queue invariants rest on besides themselves: a mutex is owned  *)
(* iff it is counted, an expired thread is enabled, and the two callback   *)
(* loops never run at the same time.                                       *)
Bookkeeping ==
    /\ \A m \in Mutex : (owner[m] = None) <=> (lock_count[m] = 0)
    /\ \A t \in expired : state[t] = "Enabled"
    /\ broadcasting # None => expired = {}

(* The writes made under a mutex are covered by its owner's clock, or by   *)
(* the mutex's own clock while nobody owns it.                             *)
WritesCovered ==
    /\ \A m \in Mutex : owner[m] # None => ClockLeq(data_write[m], clock[owner[m]])
    /\ \A m \in Mutex : owner[m] = None => ClockLeq(data_write[m], mutex_clock[m])
    /\ ~DataRaceDetector => \A m \in Mutex : data_write[m] = ZeroClock

IInv == TypeOK /\ NoPanic /\ Bookkeeping /\ QueuedInPlace /\ WaitersInPlace

-----------------------------------------------------------------------------
(* Vector clocks. *)

(* Joining, releasing and incrementing clocks yields clocks. *)
LEMMA ClockTypes ==
    ASSUME NEW a \in Clocks, NEW b \in Clocks, NEW t \in Thread
    PROVE  /\ ZeroClock \in Clocks
           /\ ClockJoin(a, b) \in Clocks
           /\ ClockIncrement(a, t) \in Clocks
           /\ AcquireClock(a, b) \in Clocks
           /\ ReleasedClock(a, b) \in Clocks
           /\ AfterRelease(a, t) \in Clocks
  BY DEF Clocks, ZeroClock, ClockJoin, ClockIncrement, AcquireClock,
         ReleasedClock, AfterRelease

(* acquire_clock and release_clock never lose an event, and acquire_clock  *)
(* learns every event of the clock it is given.                            *)
LEMMA ClockGrows ==
    ASSUME NEW a \in Clocks, NEW b \in Clocks, NEW t \in Thread
    PROVE  /\ ClockLeq(a, AcquireClock(a, b))
           /\ DataRaceDetector => ClockLeq(b, AcquireClock(a, b))
           /\ ClockLeq(a, AfterRelease(a, t))
  BY DEF Clocks, ClockLeq, ClockJoin, ClockIncrement, AcquireClock, AfterRelease

(* The order on clocks is reflexive and transitive, and zero is least. *)
LEMMA ClockOrder ==
    ASSUME NEW a \in Clocks, NEW b \in Clocks, NEW c \in Clocks
    PROVE  /\ ClockLeq(a, a)
           /\ ClockLeq(a, b) /\ ClockLeq(b, c) => ClockLeq(a, c)
           /\ ClockLeq(ZeroClock, a)
  BY DEF Clocks, ClockLeq, ZeroClock

-----------------------------------------------------------------------------
(* Sequences. *)

(* Where the elements of a queue are after push_back. *)
LEMMA AppendPlaces ==
    ASSUME NEW S, NEW q \in Seq(S), NEW x \in S
    PROVE  /\ Append(q, x) \in Seq(S)
           /\ Append(q, x) # <<>>
           /\ Len(Append(q, x)) = Len(q) + 1
           /\ \A i \in 1 .. Len(q) : Append(q, x)[i] = q[i]
           /\ Append(q, x)[Len(q) + 1] = x
           /\ Len(q) \in Nat
  OBVIOUS

(* Where the elements of a queue are after pop_front. *)
LEMMA TailPlaces ==
    ASSUME NEW S, NEW q \in Seq(S), q # <<>>
    PROVE  /\ Head(q) \in S
           /\ Head(q) = q[1]
           /\ Len(q) \in Nat \ {0}
           /\ Tail(q) \in Seq(S)
           /\ Len(Tail(q)) = Len(q) - 1
           /\ \A i \in 1 .. Len(Tail(q)) : Tail(q)[i] = q[i + 1]
  OBVIOUS

(* What retain leaves of a queue that holds t at one position p. *)
LEMMA WithoutPlaces ==
    ASSUME NEW S, NEW q \in Seq(S), NEW t, NEW p \in 1 .. Len(q),
           q[p] = t, \A i \in 1 .. Len(q) : q[i] = t => i = p
    PROVE  /\ Without(q, t) \in Seq(S)
           /\ Len(Without(q, t)) = Len(q) - 1
           /\ Len(q) \in Nat
           /\ \A i \in 1 .. Len(q) - 1 :
                 Without(q, t)[i] = IF i < p THEN q[i] ELSE q[i + 1]
<1> DEFINE r == CHOOSE i \in 1 .. Len(q) : q[i] = t
           w == [i \in 1 .. Len(q) - 1 |-> IF i < r THEN q[i] ELSE q[i + 1]]
<1>1. r = p
  OBVIOUS
<1>2. Without(q, t) = w
  BY DEF Without
<1>3. Len(q) \in Nat \ {0} /\ \A i \in 1 .. Len(q) : q[i] \in S
  OBVIOUS
<1> HIDE DEF r
<1>4. w \in [1 .. Len(q) - 1 -> S]
  BY <1>3, <1>1
<1>5. w \in Seq(S) /\ Len(w) = Len(q) - 1
  <2> HIDE DEF w
  <2> QED BY <1>3, <1>4, SMTT(40)
<1> QED
  BY <1>1, <1>2, <1>3, <1>5

-----------------------------------------------------------------------------
(* What the steps do to the mutex queues. *)

(* A thread that was in no queue joins one: mutex_enqueue_and_block. *)
LEMMA EnqueueKeepsQueues ==
    ASSUME TypeOK, QueuedInPlace, NEW t \in Thread, NEW m \in Mutex,
           state[t] # "Mutex", owner[m] # None, owner[m] # t,
           queue' = [queue EXCEPT ![m] = Append(@, t)],
           state' = [state EXCEPT ![t] = "Mutex"],
           UNCHANGED owner
    PROVE  QueuedInPlace'
<1> USE DEF Places
<1>1. /\ queue[m] \in Seq(Thread) /\ queue'[m] = Append(queue[m], t)
      /\ \A n \in Mutex : n # m => queue'[n] = queue[n]
      /\ \A n \in Mutex : queue[n] \in Seq(Thread) /\ Len(queue[n]) \in Nat
  BY DEF TypeOK
<1>2. /\ Len(queue'[m]) = Len(queue[m]) + 1
      /\ \A i \in 1 .. Len(queue[m]) : queue'[m][i] = queue[m][i]
      /\ queue'[m][Len(queue[m]) + 1] = t
  BY <1>1, AppendPlaces
<1>3. \A n \in Mutex : \A i \in Places(queue[n]) : queue[n][i] # t /\ queue[n][i] \in Thread
  BY <1>1 DEF QueuedInPlace
<1>4. /\ state'[t] = "Mutex"
      /\ \A u \in Thread : u # t => state'[u] = state[u]
  BY DEF TypeOK
<1>5. \A n \in Mutex : \A i \in Places(queue'[n]) :
          \/ i \in Places(queue[n]) /\ queue'[n][i] = queue[n][i]
          \/ n = m /\ i = Len(queue[m]) + 1 /\ queue'[n][i] = t
  BY <1>1, <1>2
<1>6. \A n \in Mutex : queue'[n] # <<>> => owner'[n] # None
  BY <1>1 DEF QueuedInPlace
<1>7. \A n \in Mutex : \A i \in Places(queue'[n]) :
          state'[queue'[n][i]] = "Mutex" /\ queue'[n][i] # owner'[n]
  BY <1>3, <1>4, <1>5 DEF QueuedInPlace
<1>8. \A k, n \in Mutex : \A i \in Places(queue'[k]), j \in Places(queue'[n]) :
          queue'[k][i] = queue'[n][j] => k = n /\ i = j
  BY <1>3, <1>5 DEF QueuedInPlace
<1>9. \A u \in Thread : state'[u] = "Mutex" =>
          \E n \in Mutex : \E i \in Places(queue'[n]) : queue'[n][i] = u
  <2> SUFFICES ASSUME NEW u \in Thread, state'[u] = "Mutex"
               PROVE  \E n \in Mutex : \E i \in Places(queue'[n]) : queue'[n][i] = u
    OBVIOUS
  <2>1. CASE u = t
    <3>1. Len(queue[m]) + 1 \in Places(queue'[m])
      BY <1>1, <1>2
    <3> QED BY <2>1, <3>1, <1>2
  <2>2. CASE u # t
    <3>0. PICK n \in Mutex : \E i \in Places(queue[n]) : queue[n][i] = u
      BY <2>2, <1>4 DEF QueuedInPlace
    <3>1. PICK i \in Places(queue[n]) : queue[n][i] = u
      BY <3>0
    <3>2. i \in Places(queue'[n]) /\ queue'[n][i] = u
      BY <3>1, <1>1, <1>2
    <3> QED BY <3>2
  <2> QED BY <2>1, <2>2
<1> QED
  BY <1>6, <1>7, <1>8, <1>9 DEF QueuedInPlace

(* A thread outside the queues takes a mutex nobody queues for. *)
LEMMA TakeKeepsQueues ==
    ASSUME TypeOK, QueuedInPlace, NEW t \in Thread, NEW m \in Mutex,
           owner[m] = None \/ owner[m] = t, state[t] # "Mutex",
           owner' = [owner EXCEPT ![m] = t],
           \A u \in Thread : (state'[u] = "Mutex") <=> (state[u] = "Mutex"),
           UNCHANGED queue
    PROVE  QueuedInPlace'
<1> USE DEF Places
<1>1. \A n \in Mutex : queue[n] \in Seq(Thread) /\ \A i \in Places(queue[n]) : queue[n][i] \in Thread
  BY DEF TypeOK
<1>2. \A n \in Mutex : owner'[n] = IF n = m THEN t ELSE owner[n]
  BY DEF TypeOK
<1>3. None # t
  BY MutexCondvarAssumption
<1>4. \A n \in Mutex : queue'[n] # <<>> => owner'[n] # None
  BY <1>2, <1>3 DEF QueuedInPlace
<1>5. \A n \in Mutex : \A i \in Places(queue'[n]) :
          state'[queue'[n][i]] = "Mutex" /\ queue'[n][i] # owner'[n]
  BY <1>1, <1>2 DEF QueuedInPlace
<1>6. \A k, n \in Mutex : \A i \in Places(queue'[k]), j \in Places(queue'[n]) :
          queue'[k][i] = queue'[n][j] => k = n /\ i = j
  BY DEF QueuedInPlace
<1>7. \A u \in Thread : state'[u] = "Mutex" =>
          \E n \in Mutex : \E i \in Places(queue'[n]) : queue'[n][i] = u
  BY DEF QueuedInPlace
<1> QED
  BY <1>4, <1>5, <1>6, <1>7 DEF QueuedInPlace

(* The owner gives a mutex up and the head of the queue becomes the owner: *)
(* the last mutex_unlock, with the successor's callback.                   *)
LEMMA HandOffKeepsQueues ==
    ASSUME TypeOK, QueuedInPlace, NEW t \in Thread, NEW m \in Mutex,
           owner[m] = t, state[t] = "Enabled", state'[t] # "Mutex",
           ReleaseAndHandOff(t, m),
           \A u \in Thread \ {t} :
              state'[u] = IF u = Successor(m) THEN "Enabled" ELSE state[u]
    PROVE  /\ QueuedInPlace'
           /\ halt' = halt
           /\ Successor(m) # t
           /\ Successor(m) # None => Successor(m) \in Thread /\ state[Successor(m)] = "Mutex"
<1> USE DEF Places
<1> DEFINE next == Successor(m)
<1>1. CASE queue[m] = <<>>
  <2>1. next = None /\ None \notin Thread
    BY <1>1, MutexCondvarAssumption DEF Successor
  <2>2. queue' = queue
    BY <2>1 DEF ReleaseAndHandOff, TypeOK
  <2>3. \A n \in Mutex : owner'[n] = IF n = m THEN None ELSE owner[n]
    BY <2>1 DEF ReleaseAndHandOff, TypeOK
  <2>4. \A u \in Thread : (state'[u] = "Mutex") <=> (state[u] = "Mutex")
    BY <2>1
  <2>5. \A n \in Mutex : queue[n] \in Seq(Thread) /\ \A i \in Places(queue[n]) : queue[n][i] \in Thread
    BY DEF TypeOK
  <2>6. QueuedInPlace'
    <3>1. \A n \in Mutex : \A i \in Places(queue[n]) : n # m
      BY <1>1
    <3>2. \A n \in Mutex : queue'[n] # <<>> => owner'[n] # None
      BY <1>1, <2>2, <2>3 DEF QueuedInPlace
    <3>3. \A n \in Mutex : \A i \in Places(queue'[n]) :
             state'[queue'[n][i]] = "Mutex" /\ queue'[n][i] # owner'[n]
      BY <2>2, <2>3, <2>4, <2>5, <3>1 DEF QueuedInPlace
    <3>4. \A n, o \in Mutex : \A i \in Places(queue'[n]), j \in Places(queue'[o]) :
             queue'[n][i] = queue'[o][j] => n = o /\ i = j
      BY <2>2 DEF QueuedInPlace
    <3>5. \A u \in Thread : state'[u] = "Mutex" =>
             \E n \in Mutex : \E i \in Places(queue'[n]) : queue'[n][i] = u
      BY <2>2, <2>4 DEF QueuedInPlace
    <3> QED BY <3>2, <3>3, <3>4, <3>5 DEF QueuedInPlace
  <2>7. halt' = halt
    BY <2>1 DEF ReleaseAndHandOff, Assert
  <2> QED BY <2>1, <2>6, <2>7
<1>2. CASE queue[m] # <<>>
  <2>0. queue[m] \in Seq(Thread)
    BY DEF TypeOK
  <2>1. /\ next = queue[m][1] /\ next \in Thread
        /\ Len(queue[m]) \in Nat \ {0}
        /\ Tail(queue[m]) \in Seq(Thread)
        /\ Len(Tail(queue[m])) = Len(queue[m]) - 1
        /\ \A i \in 1 .. Len(Tail(queue[m])) : Tail(queue[m])[i] = queue[m][i + 1]
    BY <1>2, <2>0, TailPlaces DEF Successor
  <2>2. next # None
    BY <2>1, MutexCondvarAssumption
  <2>3. state[next] = "Mutex"
    BY <2>1 DEF QueuedInPlace
  <2>4. next # t
    BY <2>3
  <2>5. halt' = halt
    BY <2>3 DEF ReleaseAndHandOff, Assert
  <2>6. /\ \A n \in Mutex : owner'[n] = IF n = m THEN next ELSE owner[n]
        /\ \A n \in Mutex : n # m => queue'[n] = queue[n]
        /\ queue'[m] = Tail(queue[m])
    BY <2>2 DEF ReleaseAndHandOff, TypeOK
  <2>7. \A n \in Mutex : queue[n] \in Seq(Thread) /\ Len(queue[n]) \in Nat /\ \A i \in Places(queue[n]) : queue[n][i] \in Thread
    BY DEF TypeOK
  <2> DEFINE old(n, i) == IF n = m THEN i + 1 ELSE i
  <2>8. \A n \in Mutex : \A i \in Places(queue'[n]) :
           /\ i \in Nat
           /\ old(n, i) \in Places(queue[n])
           /\ queue'[n][i] = queue[n][old(n, i)]
    <3> SUFFICES ASSUME NEW n \in Mutex, NEW i \in Places(queue'[n])
                 PROVE  /\ i \in Nat
                        /\ old(n, i) \in Places(queue[n])
                        /\ queue'[n][i] = queue[n][old(n, i)]
      OBVIOUS
    <3>1. CASE n = m
      BY <3>1, <2>1, <2>6
    <3>2. CASE n # m
      BY <3>2, <2>6, <2>7
    <3> QED BY <3>1, <3>2
  <2>9. \A n \in Mutex : \A i \in Places(queue'[n]) : queue'[n][i] # next
    <3> SUFFICES ASSUME NEW n \in Mutex, NEW i \in Places(queue'[n]), queue'[n][i] = next
                 PROVE  FALSE
      OBVIOUS
    <3>1. 1 \in Places(queue[m])
      BY <2>1
    <3>2. n = m /\ old(n, i) = 1
      BY <2>1, <2>8, <3>1, SMTT(40) DEF QueuedInPlace
    <3> QED BY <3>2, <2>7
  <2>10. /\ \A u \in Thread : (state'[u] = "Mutex") <=> (state[u] = "Mutex" /\ u # next)
    BY <2>3, <2>4
  <2>11. \A n \in Mutex : queue'[n] # <<>> => owner'[n] # None
    BY <2>2, <2>6 DEF QueuedInPlace
  <2>12. \A n \in Mutex : \A i \in Places(queue'[n]) :
            state'[queue'[n][i]] = "Mutex" /\ queue'[n][i] # owner'[n]
    <3> SUFFICES ASSUME NEW n \in Mutex, NEW i \in Places(queue'[n])
                 PROVE  state'[queue'[n][i]] = "Mutex" /\ queue'[n][i] # owner'[n]
      OBVIOUS
    <3>1. /\ queue'[n][i] = queue[n][old(n, i)] /\ old(n, i) \in Places(queue[n])
          /\ queue'[n][i] \in Thread /\ queue'[n][i] # next
      BY <2>7, <2>8, <2>9
    <3>2. state[queue'[n][i]] = "Mutex" /\ queue'[n][i] # owner[n]
      BY <3>1 DEF QueuedInPlace
    <3> HIDE DEF next, old
    <3> QED BY <3>1, <3>2, <2>6, <2>10
  <2>13. \A k, n \in Mutex : \A i \in Places(queue'[k]), j \in Places(queue'[n]) :
            queue'[k][i] = queue'[n][j] => k = n /\ i = j
    <3> SUFFICES ASSUME NEW k \in Mutex, NEW n \in Mutex, NEW i \in Places(queue'[k]),
                        NEW j \in Places(queue'[n]), queue'[k][i] = queue'[n][j]
                 PROVE  k = n /\ i = j
      OBVIOUS
    <3>1. k = n /\ old(k, i) = old(n, j)
      <4>1. /\ queue[k][old(k, i)] = queue[n][old(n, j)]
            /\ old(k, i) \in Places(queue[k]) /\ old(n, j) \in Places(queue[n])
        BY <2>8
      <4> HIDE DEF old
      <4> QED BY <4>1 DEF QueuedInPlace
    <3> QED BY <3>1, <2>8
  <2>14. \A u \in Thread : state'[u] = "Mutex" =>
            \E n \in Mutex : \E i \in Places(queue'[n]) : queue'[n][i] = u
    <3> SUFFICES ASSUME NEW u \in Thread, state[u] = "Mutex", u # next
                 PROVE  \E n \in Mutex : \E i \in Places(queue'[n]) : queue'[n][i] = u
      BY <2>10
    <3>0. PICK n \in Mutex : \E i \in Places(queue[n]) : queue[n][i] = u
      BY DEF QueuedInPlace
    <3>1. PICK i \in Places(queue[n]) : queue[n][i] = u
      BY <3>0
    <3>2. CASE n # m
      BY <3>1, <3>2, <2>6
    <3>3. CASE n = m
      <4>1. i # 1
        BY <3>1, <3>3, <2>1
      <4>2. i - 1 \in Places(queue'[m]) /\ queue'[m][i - 1] = u
        BY <3>1, <3>3, <4>1, <2>1, <2>6
      <4> QED BY <4>2
    <3> QED BY <3>2, <3>3
  <2>15. QueuedInPlace'
    BY <2>11, <2>12, <2>13, <2>14 DEF QueuedInPlace
  <2> QED BY <2>1, <2>3, <2>4, <2>5, <2>15
<1> QED BY <1>1, <1>2

-----------------------------------------------------------------------------
(* What the steps do to the condvar queues. *)

(* w waits on a condvar, or its timeout callback is still to run. *)
Waits(w) == state[w] = "Condvar" \/ w \in expired

(* Steps that leave the condvars alone and let only threads that wait for  *)
(* no condvar become owners.                                               *)
LEMMA OthersKeepWaiters ==
    ASSUME TypeOK, WaitersInPlace, UNCHANGED <<waiters, waiting>>,
           \A u \in Thread : Waits(u)' <=> Waits(u),
           \A n \in Mutex : \A u \in Thread :
              owner'[n] = u => owner[n] = u \/ waiting[u] = None
    PROVE  WaitersInPlace'
<1> USE DEF Places
<1>1. \A c \in Condvar : \A i \in Places(waiters[c]) : waiters[c][i] \in Thread
  BY DEF TypeOK
<1>2. \A u \in Thread : waiting[u] # None => waiting[u][2] \in Mutex
  BY DEF TypeOK
<1>3. \A c \in Condvar : \A i \in Places(waiters'[c]) :
          LET w == waiters'[c][i] IN
          /\ state'[w] = "Condvar" \/ w \in expired'
          /\ waiting'[w] # None /\ waiting'[w][1] = c
  BY <1>1 DEF WaitersInPlace, Waits
<1>4. \A u \in Thread : state'[u] = "Condvar" \/ u \in expired' =>
          /\ waiting'[u] # None
          /\ \E i \in Places(waiters'[waiting'[u][1]]) : waiters'[waiting'[u][1]][i] = u
  BY DEF WaitersInPlace, Waits
<1>5. \A u \in Thread : waiting'[u] # None =>
          /\ state'[u] = "Condvar" \/ u \in expired'
          /\ owner'[waiting'[u][2]] # u
  BY <1>2 DEF WaitersInPlace, Waits
<1>6. \A c \in Condvar : \A i, j \in Places(waiters'[c]) :
          waiters'[c][i] = waiters'[c][j] => i = j
  BY DEF WaitersInPlace
<1> QED
  BY <1>3, <1>4, <1>5, <1>6 DEF WaitersInPlace

(* A running thread starts to wait: condvar_wait. *)
LEMMA WaitKeepsWaiters ==
    ASSUME TypeOK, WaitersInPlace, NEW t \in Thread, NEW c \in Condvar, NEW m \in Mutex,
           ~Waits(t), state'[t] = "Condvar", UNCHANGED expired,
           \A u \in Thread \ {t} : Waits(u)' <=> Waits(u),
           waiters' = [waiters EXCEPT ![c] = Append(@, t)],
           waiting' = [waiting EXCEPT ![t] = <<c, m>>],
           \A n \in Mutex : \A u \in Thread \ {t} :
              owner'[n] = u => owner[n] = u \/ waiting[u] = None,
           owner'[m] # t
    PROVE  WaitersInPlace'
<1> USE DEF Places
<1>1. /\ waiters[c] \in Seq(Thread) /\ waiters'[c] = Append(waiters[c], t)
      /\ \A d \in Condvar : d # c => waiters'[d] = waiters[d]
      /\ \A d \in Condvar : waiters[d] \in Seq(Thread) /\ Len(waiters[d]) \in Nat
      /\ \A d \in Condvar : \A i \in Places(waiters[d]) : waiters[d][i] \in Thread
  BY DEF TypeOK
<1>2. /\ Len(waiters'[c]) = Len(waiters[c]) + 1
      /\ \A i \in 1 .. Len(waiters[c]) : waiters'[c][i] = waiters[c][i]
      /\ waiters'[c][Len(waiters[c]) + 1] = t
  BY <1>1, AppendPlaces
<1>3. \A d \in Condvar : \A i \in Places(waiters[d]) : waiters[d][i] # t
  BY DEF WaitersInPlace, Waits
<1>4. /\ waiting'[t] = <<c, m>>
      /\ \A u \in Thread : u # t => waiting'[u] = waiting[u]
      /\ \A u \in Thread : waiting[u] # None => waiting[u] \in Condvar \X Mutex
  BY DEF TypeOK
<1>5. \A d \in Condvar : \A i \in Places(waiters'[d]) :
          \/ i \in Places(waiters[d]) /\ waiters'[d][i] = waiters[d][i]
          \/ d = c /\ i = Len(waiters[c]) + 1 /\ waiters'[d][i] = t
  BY <1>1, <1>2
<1>6. waiting'[t] # None
  BY <1>4, MutexCondvarAssumption
<1>7. \A d \in Condvar : \A i \in Places(waiters'[d]) :
          LET w == waiters'[d][i] IN
          /\ state'[w] = "Condvar" \/ w \in expired'
          /\ waiting'[w] # None /\ waiting'[w][1] = d
  BY <1>1, <1>3, <1>4, <1>5, <1>6, SMTT(40) DEF WaitersInPlace, Waits
<1>8. \A d \in Condvar : \A i, j \in Places(waiters'[d]) :
          waiters'[d][i] = waiters'[d][j] => i = j
  BY <1>3, <1>5 DEF WaitersInPlace
<1>9. \A u \in Thread : state'[u] = "Condvar" \/ u \in expired' =>
          /\ waiting'[u] # None
          /\ \E i \in Places(waiters'[waiting'[u][1]]) : waiters'[waiting'[u][1]][i] = u
  <2> SUFFICES ASSUME NEW u \in Thread, state'[u] = "Condvar" \/ u \in expired'
               PROVE  /\ waiting'[u] # None
                      /\ \E i \in Places(waiters'[waiting'[u][1]]) : waiters'[waiting'[u][1]][i] = u
    OBVIOUS
  <2>1. CASE u = t
    <3>1. Len(waiters[c]) + 1 \in Places(waiters'[c])
      BY <1>1, <1>2
    <3> QED BY <2>1, <3>1, <1>2, <1>4, <1>6
  <2>2. CASE u # t
    <3>1. waiting'[u] = waiting[u] /\ waiting[u] # None
      BY <2>2, <1>4 DEF WaitersInPlace, Waits
    <3>2. PICK i \in Places(waiters[waiting[u][1]]) : waiters[waiting[u][1]][i] = u
      BY <2>2 DEF WaitersInPlace, Waits
    <3>3. waiting[u][1] \in Condvar
      BY <3>1, <1>4
    <3>4. i \in Places(waiters'[waiting[u][1]]) /\ waiters'[waiting[u][1]][i] = u
      BY <3>2, <3>3, <1>1, <1>2
    <3> QED BY <3>1, <3>4
  <2> QED BY <2>1, <2>2
<1>10. \A u \in Thread : waiting'[u] # None =>
          /\ state'[u] = "Condvar" \/ u \in expired'
          /\ owner'[waiting'[u][2]] # u
  <2> SUFFICES ASSUME NEW u \in Thread, waiting'[u] # None
               PROVE  /\ state'[u] = "Condvar" \/ u \in expired'
                      /\ owner'[waiting'[u][2]] # u
    OBVIOUS
  <2>1. CASE u = t
    BY <2>1, <1>4
  <2>2. CASE u # t
    BY <2>2, <1>4, SMTT(40) DEF WaitersInPlace, Waits
  <2> QED BY <2>1, <2>2
<1> QED
  BY <1>7, <1>8, <1>9, <1>10 DEF WaitersInPlace

(* A waiter leaves its queue and its callback is consumed: the head at     *)
(* condvar_signal, any position at a timeout.                              *)
LEMMA WakeKeepsWaiters ==
    ASSUME TypeOK, WaitersInPlace, NEW c \in Condvar, NEW p \in Places(waiters[c]),
           NEW q \in Seq(Thread), NEW w \in Thread, w = waiters[c][p],
           Len(q) = Len(waiters[c]) - 1,
           \A i \in Places(q) : q[i] = IF i < p THEN waiters[c][i] ELSE waiters[c][i + 1],
           waiters' = [waiters EXCEPT ![c] = q],
           waiting' = [waiting EXCEPT ![w] = None],
           ~Waits(w)',
           \A u \in Thread \ {w} : Waits(u)' <=> Waits(u),
           \A n \in Mutex : \A u \in Thread \ {w} :
              owner'[n] = u => owner[n] = u \/ waiting[u] = None
    PROVE  WaitersInPlace'
<1> USE DEF Places
<1>1. /\ waiters'[c] = q
      /\ \A d \in Condvar : d # c => waiters'[d] = waiters[d]
      /\ \A d \in Condvar : waiters[d] \in Seq(Thread) /\ Len(waiters[d]) \in Nat
      /\ \A d \in Condvar : \A i \in Places(waiters[d]) : waiters[d][i] \in Thread
      /\ p \in Nat
  BY DEF TypeOK
<1>2. /\ waiting'[w] = None
      /\ \A u \in Thread : u # w => waiting'[u] = waiting[u]
      /\ \A u \in Thread : waiting[u] # None => waiting[u] \in Condvar \X Mutex
  BY DEF TypeOK
<1> DEFINE old(d, i) == IF d = c /\ i >= p THEN i + 1 ELSE i
<1>3. \A d \in Condvar : \A i \in Places(waiters'[d]) :
          /\ i \in Nat
          /\ old(d, i) \in Places(waiters[d])
          /\ waiters'[d][i] = waiters[d][old(d, i)]
          /\ d = c => old(d, i) # p
  <2> SUFFICES ASSUME NEW d \in Condvar, NEW i \in Places(waiters'[d])
               PROVE  /\ i \in Nat
                      /\ old(d, i) \in Places(waiters[d])
                      /\ waiters'[d][i] = waiters[d][old(d, i)]
                      /\ d = c => old(d, i) # p
    OBVIOUS
  <2>1. CASE d = c
    BY <2>1, <1>1
  <2>2. CASE d # c
    BY <2>2, <1>1
  <2> QED BY <2>1, <2>2
<1>4. \A d \in Condvar : \A i \in Places(waiters'[d]) :
          waiters'[d][i] # w /\ waiters'[d][i] \in Thread
  <2> SUFFICES ASSUME NEW d \in Condvar, NEW i \in Places(waiters'[d])
               PROVE  waiters'[d][i] # w /\ waiters'[d][i] \in Thread
    OBVIOUS
  <2>1. /\ waiters'[d][i] = waiters[d][old(d, i)] /\ old(d, i) \in Places(waiters[d])
        /\ d = c => old(d, i) # p
    BY <1>3
  <2> HIDE DEF old
  <2>2. waiters'[d][i] = w => d = c
    <3>1. waiting[w][1] = c
      BY DEF WaitersInPlace
    <3>2. waiting[waiters'[d][i]][1] = d
      BY <2>1 DEF WaitersInPlace
    <3> QED BY <3>1, <3>2
  <2> QED BY <2>1, <2>2, <1>1 DEF WaitersInPlace
<1>5. \A d \in Condvar : \A i \in Places(waiters'[d]) :
          LET x == waiters'[d][i] IN
          /\ state'[x] = "Condvar" \/ x \in expired'
          /\ waiting'[x] # None /\ waiting'[x][1] = d
  <2> SUFFICES ASSUME NEW d \in Condvar, NEW i \in Places(waiters'[d])
               PROVE  LET x == waiters'[d][i] IN
                      /\ state'[x] = "Condvar" \/ x \in expired'
                      /\ waiting'[x] # None /\ waiting'[x][1] = d
    OBVIOUS
  <2>1. waiters'[d][i] = waiters[d][old(d, i)] /\ old(d, i) \in Places(waiters[d])
    BY <1>3
  <2> HIDE DEF old
  <2> QED BY <2>1, <1>2, <1>4, SMTT(40) DEF WaitersInPlace, Waits
<1>6. \A d \in Condvar : \A i, j \in Places(waiters'[d]) :
          waiters'[d][i] = waiters'[d][j] => i = j
  <2> SUFFICES ASSUME NEW d \in Condvar, NEW i \in Places(waiters'[d]), NEW j \in Places(waiters'[d]),
                      waiters'[d][i] = waiters'[d][j]
               PROVE  i = j
    OBVIOUS
  <2>1. old(d, i) = old(d, j)
    <3>1. /\ waiters[d][old(d, i)] = waiters[d][old(d, j)]
          /\ old(d, i) \in Places(waiters[d]) /\ old(d, j) \in Places(waiters[d])
      <4> HIDE DEF old
      <4> QED BY <1>3
    <3> HIDE DEF old
    <3> QED BY <3>1, SMTT(40) DEF WaitersInPlace
  <2> QED BY <2>1, <1>1, <1>3
<1>7. \A u \in Thread : state'[u] = "Condvar" \/ u \in expired' =>
          /\ waiting'[u] # None
          /\ \E i \in Places(waiters'[waiting'[u][1]]) : waiters'[waiting'[u][1]][i] = u
  <2> SUFFICES ASSUME NEW u \in Thread, state'[u] = "Condvar" \/ u \in expired'
               PROVE  /\ waiting'[u] # None
                      /\ \E i \in Places(waiters'[waiting'[u][1]]) : waiters'[waiting'[u][1]][i] = u
    OBVIOUS
  <2>0. u # w
    BY DEF Waits
  <2>1. waiting'[u] = waiting[u] /\ waiting[u] # None
    BY <2>0, <1>2 DEF WaitersInPlace, Waits
  <2>2. PICK i \in Places(waiters[waiting[u][1]]) : waiters[waiting[u][1]][i] = u
    BY <2>0 DEF WaitersInPlace, Waits
  <2>3. waiting[u][1] \in Condvar
    BY <2>1, <1>2
  <2>4. CASE waiting[u][1] # c
    BY <2>1, <2>2, <2>3, <2>4, <1>1
  <2>5. CASE waiting[u][1] = c
    <3>1. i # p
      BY <2>0, <2>2, <2>5
    <3>4. i \in Nat /\ p <= Len(waiters[c]) /\ i \in 1 .. Len(waiters[c])
      BY <2>2, <2>5, <1>1
    <3>2. CASE i < p
      <4>1. i \in Places(waiters'[c]) /\ waiters'[c][i] = u
        BY <2>2, <2>5, <3>2, <3>4, <1>1
      <4> QED BY <4>1, <2>1, <2>5
    <3>3. CASE i > p
      <4>1. i - 1 \in Places(waiters'[c]) /\ waiters'[c][i - 1] = u
        BY <2>2, <2>5, <3>3, <3>4, <1>1
      <4> QED BY <4>1, <2>1, <2>5
    <3> QED BY <3>1, <3>2, <3>3, <3>4, <1>1
  <2> QED BY <2>4, <2>5
<1>8. \A u \in Thread : waiting'[u] # None =>
          /\ state'[u] = "Condvar" \/ u \in expired'
          /\ owner'[waiting'[u][2]] # u
  <2> SUFFICES ASSUME NEW u \in Thread, waiting'[u] # None
               PROVE  /\ state'[u] = "Condvar" \/ u \in expired'
                      /\ owner'[waiting'[u][2]] # u
    OBVIOUS
  <2>1. u # w /\ waiting'[u] = waiting[u] /\ waiting[u] # None
    BY <1>2
  <2>2. waiting[u][2] \in Mutex
    BY <2>1, <1>2
  <2>3. Waits(u) /\ owner[waiting[u][2]] # u
    BY <2>1 DEF WaitersInPlace, Waits
  <2>4. Waits(u)'
    BY <2>1, <2>3
  <2> QED BY <2>1, <2>2, <2>3, <2>4 DEF Waits
<1> QED
  BY <1>5, <1>6, <1>7, <1>8 DEF WaitersInPlace

-----------------------------------------------------------------------------
(* The callback of a condvar wait, at a signal or at a timeout. *)

LEMMA ReacquireKeeps ==
    ASSUME IInv, NEW w \in Thread, Waits(w), NEW k \in [Thread -> Clocks], NEW st,
           state[w] = st, Reacquire(w, k, st)
    PROVE  /\ QueuedInPlace'
           /\ UNCHANGED halt
           /\ state' \in [Thread -> States]
           /\ owner' \in [Mutex -> Thread \cup {None}]
           /\ lock_count' \in [Mutex -> 0 .. MaxLock]
           /\ queue' \in [Mutex -> Seq(Thread)]
           /\ clock' \in [Thread -> Clocks]
           /\ waiting' \in [Thread -> (Condvar \X Mutex) \cup {None}]
           /\ timed' \in [Thread -> BOOLEAN]
           /\ \A n \in Mutex : (owner'[n] = None) <=> (lock_count'[n] = 0)
           /\ \A n \in Mutex : \A u \in Thread \ {w} : owner'[n] = u => owner[n] = u
           /\ state'[w] # "Condvar"
           /\ \A u \in Thread \ {w} : state'[u] = state[u]
           /\ waiting' = [waiting EXCEPT ![w] = None]
<1> DEFINE m == waiting[w][2]
<1>0. TypeOK /\ QueuedInPlace /\ WaitersInPlace /\ Bookkeeping
  BY DEF IInv
<1>1. m \in Mutex /\ owner[m] # w /\ state[w] # "Mutex"
  <2>1. waiting[w] # None
    BY <1>0 DEF WaitersInPlace, Waits
  <2>2. state[w] # "Mutex"
    BY <1>0 DEF Bookkeeping, Waits
  <2> QED BY <1>0, <2>1, <2>2 DEF TypeOK, WaitersInPlace
<1>2. w # None /\ MaxLock \in Nat \ {0}
  BY MutexCondvarAssumption
<1>3. /\ waiting' = [waiting EXCEPT ![w] = None]
      /\ waiting' \in [Thread -> (Condvar \X Mutex) \cup {None}]
      /\ timed' \in [Thread -> BOOLEAN]
  BY <1>0 DEF Reacquire, TypeOK
<1>4. CASE owner[m] = None
  <2>1. /\ owner' = [owner EXCEPT ![m] = w]
        /\ lock_count' = [lock_count EXCEPT ![m] = @ + 1]
        /\ state' = [state EXCEPT ![w] = "Enabled"]
        /\ clock' = [k EXCEPT ![w] = AcquireClock(@, mutex_clock[m])]
        /\ UNCHANGED <<halt, queue>>
    BY <1>4 DEF Reacquire, Assert
  <2>2. QueuedInPlace'
    <3>1. \A u \in Thread : (state'[u] = "Mutex") <=> (state[u] = "Mutex")
      BY <2>1, <1>0, <1>1 DEF TypeOK
    <3> HIDE DEF m
    <3> QED BY <1>0, <1>1, <1>4, <2>1, <3>1, TakeKeepsQueues
  <2>3. clock' \in [Thread -> Clocks]
    <3>1. k[w] \in Clocks /\ mutex_clock[m] \in Clocks
      BY <1>0, <1>1 DEF TypeOK
    <3>2. AcquireClock(k[w], mutex_clock[m]) \in Clocks
      BY <3>1, ClockTypes
    <3> QED BY <2>1, <3>2
  <2>4. lock_count[m] = 0
    BY <1>0, <1>1, <1>4 DEF Bookkeeping
  <2>5. /\ state' \in [Thread -> States]
        /\ owner' \in [Mutex -> Thread \cup {None}]
        /\ lock_count' \in [Mutex -> 0 .. MaxLock]
        /\ queue' \in [Mutex -> Seq(Thread)]
    BY <2>1, <2>4, <1>0, <1>1, <1>2 DEF TypeOK, States
  <2>6. \A n \in Mutex : (owner'[n] = None) <=> (lock_count'[n] = 0)
    BY <2>1, <2>4, <1>0, <1>1, <1>2 DEF TypeOK, Bookkeeping
  <2>7. /\ \A n \in Mutex : \A u \in Thread \ {w} : owner'[n] = u => owner[n] = u
        /\ state'[w] # "Condvar"
        /\ \A u \in Thread \ {w} : state'[u] = state[u]
    BY <2>1, <1>0 DEF TypeOK
  <2> QED BY <1>3, <2>1, <2>2, <2>3, <2>5, <2>6, <2>7
<1>5. CASE owner[m] # None
  <2>1. /\ queue' = [queue EXCEPT ![m] = Append(@, w)]
        /\ state' = [state EXCEPT ![w] = "Mutex"]
        /\ clock' = k
        /\ UNCHANGED <<halt, owner, lock_count>>
    BY <1>1, <1>5 DEF Reacquire, Assert
  <2>2. QueuedInPlace'
    <3> HIDE DEF m
    <3> QED BY <1>0, <1>1, <1>5, <2>1, EnqueueKeepsQueues
  <2>3. queue' \in [Mutex -> Seq(Thread)]
    <3>1. Append(queue[m], w) \in Seq(Thread)
      BY <1>0, <1>1, AppendPlaces DEF TypeOK
    <3> QED BY <2>1, <3>1, <1>0 DEF TypeOK
  <2>4. /\ state' \in [Thread -> States]
        /\ owner' \in [Mutex -> Thread \cup {None}]
        /\ lock_count' \in [Mutex -> 0 .. MaxLock]
        /\ clock' \in [Thread -> Clocks]
    BY <2>1, <1>0 DEF TypeOK, States
  <2>5. \A n \in Mutex : (owner'[n] = None) <=> (lock_count'[n] = 0)
    BY <2>1, <1>0 DEF Bookkeeping
  <2>6. /\ \A n \in Mutex : \A u \in Thread \ {w} : owner'[n] = u => owner[n] = u
        /\ state'[w] # "Condvar"
        /\ \A u \in Thread \ {w} : state'[u] = state[u]
    BY <2>1, <1>0 DEF TypeOK
  <2> QED BY <1>3, <2>1, <2>2, <2>3, <2>4, <2>5, <2>6
<1> QED BY <1>4, <1>5

(* The release of a mutex, by unlock or by a condvar wait. *)
LEMMA HandOffKeeps ==
    ASSUME IInv, NEW t \in Thread, NEW m \in Mutex,
           owner[m] = t, ReleaseAndHandOff(t, m)
    PROVE  /\ owner' \in [Mutex -> Thread \cup {None}]
           /\ lock_count' \in [Mutex -> 0 .. MaxLock]
           /\ queue' \in [Mutex -> Seq(Thread)]
           /\ mutex_clock' \in [Mutex -> Clocks]
           /\ clock' \in [Thread -> Clocks]
           /\ \A n \in Mutex : (owner'[n] = None) <=> (lock_count'[n] = 0)
<1> DEFINE next == Successor(m)
<1>0. TypeOK /\ Bookkeeping
  BY DEF IInv
<1>1. MaxLock \in Nat \ {0} /\ None \notin Thread
  BY MutexCondvarAssumption
<1>2. queue[m] \in Seq(Thread) /\ clock[t] \in Clocks /\ mutex_clock[m] \in Clocks
  BY <1>0 DEF TypeOK
<1>3. /\ next \in Thread \cup {None}
      /\ next # None => Tail(queue[m]) \in Seq(Thread)
  BY <1>2, TailPlaces DEF Successor
<1>4. ReleasedClock(clock[t], mutex_clock[m]) \in Clocks /\ AfterRelease(clock[t], t) \in Clocks
  BY <1>2, ClockTypes
<1>5. mutex_clock' \in [Mutex -> Clocks] /\ mutex_clock'[m] \in Clocks
  BY <1>0, <1>4 DEF ReleaseAndHandOff, TypeOK
<1>6. clock' \in [Thread -> Clocks]
  <2>1. \A u \in Thread : AcquireClock(clock[u], mutex_clock'[m]) \in Clocks
    BY <1>0, <1>5, ClockTypes DEF TypeOK
  <2>2. \A u \in Thread : clock[u] \in Clocks
    BY <1>0 DEF TypeOK
  <2> QED BY <2>1, <2>2, <1>4 DEF ReleaseAndHandOff
<1>7. /\ owner' \in [Mutex -> Thread \cup {None}]
      /\ lock_count' \in [Mutex -> 0 .. MaxLock]
      /\ queue' \in [Mutex -> Seq(Thread)]
  BY <1>0, <1>1, <1>3 DEF ReleaseAndHandOff, CountAfterRelease, TypeOK
<1>8. \A n \in Mutex : (owner'[n] = None) <=> (lock_count'[n] = 0)
  BY <1>0, <1>1, <1>3 DEF ReleaseAndHandOff, CountAfterRelease, TypeOK, Bookkeeping
<1> QED BY <1>5, <1>6, <1>7, <1>8

-----------------------------------------------------------------------------
(* The inductive step, action by action. *)

(* Stopping the interpreter changes nothing else. *)
LEMMA StopKeeps ==
    ASSUME IInv, NEW how \in Halts \ {"panic"}, Stop(how)
    PROVE  IInv'
  BY DEF IInv, Stop, mutexVars, condVars, loopVars, TypeOK, NoPanic, Bookkeeping,
         QueuedInPlace, WaitersInPlace, Places

(* A running thread takes a free mutex or one it holds: mutex_lock. *)
LEMMA MutexLockKeeps ==
    ASSUME IInv, NEW t \in Thread, NEW m \in Mutex, Running(t),
           owner[m] = None \/ (owner[m] = t /\ lock_count[m] < MaxLock),
           MutexLock(t, m),
           UNCHANGED <<state, queue, mutex_clock, condVars, data_write, loopVars>>
    PROVE  IInv'
<1>0. TypeOK /\ NoPanic /\ Bookkeeping /\ QueuedInPlace /\ WaitersInPlace
  BY DEF IInv
<1>1. state[t] = "Enabled" /\ expired = {} /\ broadcasting = None /\ ~Waits(t)
  BY DEF Running, Quiet, Waits
<1>2. UNCHANGED <<state, queue, mutex_clock, waiters, condvar_clock, waiting, timed,
                  data_write, broadcasting, expired>>
  BY DEF condVars, loopVars
<1>3. MaxLock \in Nat \ {0} /\ t # None
  BY MutexCondvarAssumption
<1>4. /\ owner' = [owner EXCEPT ![m] = t]
      /\ lock_count' = [lock_count EXCEPT ![m] = @ + 1]
      /\ clock' = [clock EXCEPT ![t] = AcquireClock(@, mutex_clock[m])]
      /\ halt' = halt
  <2>1. owner[m] = None \/ (owner[m] = t /\ lock_count[m] > 0)
    BY <1>0, <1>3 DEF Bookkeeping, TypeOK
  <2> QED BY <2>1 DEF MutexLock, Assert
<1>5. AcquireClock(clock[t], mutex_clock[m]) \in Clocks
  BY <1>0, ClockTypes DEF TypeOK
<1>6. lock_count[m] < MaxLock
  BY <1>0, <1>3 DEF Bookkeeping
<1>7. TypeOK'
  BY <1>0, <1>2, <1>3, <1>4, <1>5, <1>6 DEF TypeOK
<1>8. QueuedInPlace'
  BY <1>0, <1>1, <1>2, <1>4, TakeKeepsQueues
<1>9. WaitersInPlace'
  <2>1. \A u \in Thread : Waits(u)' <=> Waits(u)
    BY <1>2 DEF Waits
  <2>2. waiting[t] = None
    BY <1>0, <1>1 DEF WaitersInPlace
  <2>3. \A n \in Mutex : \A u \in Thread :
           owner'[n] = u => owner[n] = u \/ waiting[u] = None
    BY <1>0, <1>4, <2>2 DEF TypeOK
  <2> QED BY <1>0, <1>2, <2>1, <2>3, OthersKeepWaiters
<1>10. Bookkeeping'
  BY <1>0, <1>1, <1>2, <1>3, <1>4 DEF Bookkeeping, TypeOK
<1> QED BY <1>0, <1>4, <1>7, <1>8, <1>9, <1>10 DEF IInv, NoPanic

LEMMA LockKeeps ==
    ASSUME IInv, NEW t \in Thread, NEW m \in Mutex, Lock(t, m)
    PROVE  IInv'
<1>0. TypeOK /\ NoPanic /\ Bookkeeping /\ QueuedInPlace /\ WaitersInPlace /\ Running(t)
  BY DEF IInv, Lock
<1>1. CASE /\ owner[m] = None
           /\ MutexLock(t, m)
           /\ UNCHANGED <<state, queue, mutex_clock, condVars, data_write, loopVars>>
  BY <1>0, <1>1, MutexLockKeeps
<1>2. CASE /\ owner[m] \notin {None, t}
           /\ MutexEnqueueAndBlock(t, m)
           /\ UNCHANGED <<owner, lock_count, mutex_clock, condVars, clock, data_write, loopVars>>
  <2>1. state[t] = "Enabled" /\ expired = {} /\ broadcasting = None
    BY <1>0 DEF Running, Quiet
  <2>2. UNCHANGED <<owner, lock_count, mutex_clock, waiters, condvar_clock, waiting, timed,
                    clock, data_write, broadcasting, expired>>
    BY <1>2 DEF condVars, loopVars
  <2>3. /\ queue' = [queue EXCEPT ![m] = Append(@, t)]
        /\ state' = [state EXCEPT ![t] = "Mutex"]
        /\ halt' = halt
    BY <1>2, <2>1 DEF MutexEnqueueAndBlock, Assert
  <2>4. Append(queue[m], t) \in Seq(Thread)
    BY <1>0, AppendPlaces DEF TypeOK
  <2>5. TypeOK'
    BY <1>0, <2>2, <2>3, <2>4 DEF TypeOK, States
  <2>6. QueuedInPlace'
    BY <1>0, <1>2, <2>1, <2>2, <2>3, EnqueueKeepsQueues
  <2>7. WaitersInPlace'
    <3>1. \A u \in Thread : Waits(u)' <=> Waits(u)
      BY <1>0, <2>1, <2>2, <2>3 DEF Waits, TypeOK
    <3> QED BY <1>0, <2>2, <3>1, OthersKeepWaiters
  <2>8. Bookkeeping'
    BY <1>0, <2>1, <2>2 DEF Bookkeeping
  <2> QED BY <1>0, <2>3, <2>5, <2>6, <2>7, <2>8 DEF IInv, NoPanic
<1>3. CASE /\ owner[m] = t /\ Kind[m] = "Recursive"
           /\ lock_count[m] < MaxLock
           /\ MutexLock(t, m)
           /\ UNCHANGED <<state, queue, mutex_clock, condVars, data_write, loopVars>>
  BY <1>0, <1>3, MutexLockKeeps
<1>4. CASE Kind[m] \in DOMAIN RelockStop /\ Stop(RelockStop[Kind[m]])
  <2>1. RelockStop[Kind[m]] \in {"UB", "LocalDeadlock", "Abort"}
    BY <1>4 DEF RelockStop
  <2> QED BY <1>4, <2>1, StopKeeps DEF Halts
<1> QED BY <1>1, <1>2, <1>3, <1>4 DEF Lock

LEMMA TryLockKeeps ==
    ASSUME IInv, NEW t \in Thread, NEW m \in Mutex, TryLock(t, m)
    PROVE  IInv'
  BY MutexLockKeeps DEF TryLock

LEMMA UnlockKeeps ==
    ASSUME IInv, NEW t \in Thread, NEW m \in Mutex, Unlock(t, m)
    PROVE  IInv'
<1>0. TypeOK /\ NoPanic /\ Bookkeeping /\ QueuedInPlace /\ WaitersInPlace /\ Running(t)
  BY DEF IInv, Unlock
<1>1. CASE /\ owner[m] = t /\ lock_count[m] > 1
           /\ lock_count' = [lock_count EXCEPT ![m] = @ - 1]
           /\ UNCHANGED <<state, owner, queue, mutex_clock, condVars, clock, data_write, loopVars, halt>>
  <2>1. UNCHANGED <<state, owner, queue, mutex_clock, waiters, condvar_clock, waiting, timed,
                    clock, data_write, broadcasting, expired, halt>>
    BY <1>1 DEF condVars, loopVars
  <2>2. MaxLock \in Nat \ {0} /\ t # None
    BY MutexCondvarAssumption
  <2>3. TypeOK' /\ Bookkeeping'
    BY <1>0, <1>1, <2>1, <2>2, SMTT(40) DEF TypeOK, Bookkeeping
  <2>4. QueuedInPlace'
    BY <1>0, <2>1 DEF QueuedInPlace, Places
  <2>5. WaitersInPlace'
    BY <1>0, <2>1 DEF WaitersInPlace, Places
  <2> QED BY <1>0, <2>1, <2>3, <2>4, <2>5 DEF IInv, NoPanic
<1>2. CASE /\ owner[m] = t /\ lock_count[m] = 1
           /\ MayRelease(t)
           /\ ReleaseAndHandOff(t, m)
           /\ state' = [u \in Thread |-> IF u = Successor(m) THEN "Enabled" ELSE state[u]]
           /\ UNCHANGED <<condVars, data_write, loopVars>>
  <2>1. UNCHANGED <<waiters, condvar_clock, waiting, timed, data_write, broadcasting, expired>>
    BY <1>2 DEF condVars, loopVars
  <2>2. state[t] = "Enabled" /\ expired = {} /\ broadcasting = None
    BY <1>0 DEF Running, Quiet
  <2>3. /\ QueuedInPlace' /\ halt' = halt /\ Successor(m) # t
        /\ Successor(m) # None => Successor(m) \in Thread /\ state[Successor(m)] = "Mutex"
    BY <1>0, <1>2, <2>2, HandOffKeepsQueues
  <2>4. TypeOK'
    BY <1>0, <1>2, <2>1, <2>3, HandOffKeeps DEF TypeOK, States
  <2>5. Bookkeeping'
    BY <1>2, <2>1, <2>2, HandOffKeeps DEF Bookkeeping
  <2>6. WaitersInPlace'
    <3>1. \A u \in Thread : Waits(u)' <=> Waits(u)
      BY <1>2, <2>1, <2>3, MutexCondvarAssumption DEF Waits
    <3>2. \A n \in Mutex : \A u \in Thread :
             owner'[n] = u => owner[n] = u \/ waiting[u] = None
      <4>1. \A n \in Mutex : owner'[n] = IF n = m THEN Successor(m) ELSE owner[n]
        BY <1>0, <1>2 DEF ReleaseAndHandOff, TypeOK
      <4>2. Successor(m) # None => waiting[Successor(m)] = None
        BY <1>0, <2>2, <2>3 DEF WaitersInPlace
      <4> QED BY <4>1, <4>2, MutexCondvarAssumption
    <3> QED BY <1>0, <2>1, <3>1, <3>2, OthersKeepWaiters
  <2> QED BY <1>0, <2>3, <2>4, <2>5, <2>6 DEF IInv, NoPanic
<1>3. CASE Kind[m] \in DOMAIN ForeignUnlockStop /\ Stop(ForeignUnlockStop[Kind[m]])
  <2>1. ForeignUnlockStop[Kind[m]] \in {"UB", "Abort"}
    BY <1>3 DEF ForeignUnlockStop
  <2> QED BY <1>3, <2>1, StopKeeps DEF Halts
<1> QED BY <1>1, <1>2, <1>3 DEF Unlock

LEMMA WaitKeeps ==
    ASSUME IInv, NEW t \in Thread, NEW c \in Condvar, NEW m \in Mutex,
           NEW timeout \in BOOLEAN, Wait(t, c, m, timeout)
    PROVE  IInv'
<1>0. TypeOK /\ NoPanic /\ Bookkeeping /\ QueuedInPlace /\ WaitersInPlace /\ Running(t)
  BY DEF IInv, Wait
<1>1. CASE Stop("UB") \/ Stop("Unsupported")
  BY <1>1, StopKeeps DEF Halts
<1>2. CASE /\ owner[m] = t /\ lock_count[m] = 1
           /\ ReleaseAndHandOff(t, m)
           /\ waiters' = [waiters EXCEPT ![c] = Append(@, t)]
           /\ waiting' = [waiting EXCEPT ![t] = <<c, m>>]
           /\ timed' = [timed EXCEPT ![t] = timeout]
           /\ state' = [u \in Thread |-> IF u = t THEN "Condvar"
                                         ELSE IF u = Successor(m) THEN "Enabled"
                                         ELSE state[u]]
           /\ UNCHANGED <<condvar_clock, data_write, loopVars>>
  <2>1. UNCHANGED <<condvar_clock, data_write, broadcasting, expired>>
    BY <1>2 DEF loopVars
  <2>2. state[t] = "Enabled" /\ expired = {} /\ broadcasting = None
    BY <1>0 DEF Running, Quiet
  <2>3. /\ QueuedInPlace' /\ halt' = halt /\ Successor(m) # t
        /\ Successor(m) # None => Successor(m) \in Thread /\ state[Successor(m)] = "Mutex"
    BY <1>0, <1>2, <2>2, HandOffKeepsQueues
  <2>4. Append(waiters[c], t) \in Seq(Thread)
    BY <1>0, AppendPlaces DEF TypeOK
  <2>5. TypeOK'
    BY <1>0, <1>2, <2>1, <2>3, <2>4, HandOffKeeps DEF TypeOK, States
  <2>6. Bookkeeping'
    BY <1>2, <2>1, <2>2, HandOffKeeps DEF Bookkeeping
  <2>7. WaitersInPlace'
    <3>1. \A u \in Thread \ {t} : Waits(u)' <=> Waits(u)
      BY <1>2, <2>1, <2>3, MutexCondvarAssumption DEF Waits
    <3>2. \A n \in Mutex : owner'[n] = IF n = m THEN Successor(m) ELSE owner[n]
      BY <1>0, <1>2 DEF ReleaseAndHandOff, TypeOK
    <3>3. Successor(m) # None => waiting[Successor(m)] = None
      BY <1>0, <2>2, <2>3 DEF WaitersInPlace
    <3>4. \A n \in Mutex : \A u \in Thread \ {t} :
             owner'[n] = u => owner[n] = u \/ waiting[u] = None
      BY <3>2, <3>3, MutexCondvarAssumption
    <3>5. owner'[m] # t /\ ~Waits(t) /\ state'[t] = "Condvar"
      BY <1>2, <2>2, <2>3, <3>2 DEF Waits
    <3> QED BY <1>0, <1>2, <2>1, <3>1, <3>4, <3>5, WaitKeepsWaiters
  <2> QED BY <1>0, <2>3, <2>5, <2>6, <2>7 DEF IInv, NoPanic
<1> QED BY <1>1, <1>2 DEF Wait

(* One round of condvar_signal, in a signal or in a broadcast. *)
LEMMA SignalKeeps ==
    ASSUME IInv, NEW t \in Thread, NEW c \in Condvar, expired = {},
           CondvarSignal(t, c), broadcasting' \in (Thread \X Condvar) \cup {None}
    PROVE  IInv'
<1> DEFINE released == ReleasedClock(clock[t], condvar_clock[c])
           ticked == [clock EXCEPT ![t] = AfterRelease(@, t)]
<1>0. TypeOK /\ NoPanic /\ Bookkeeping /\ QueuedInPlace /\ WaitersInPlace
  BY DEF IInv
<1>1. /\ UNCHANGED <<mutex_clock, data_write, expired>>
      /\ condvar_clock' = [condvar_clock EXCEPT ![c] = released]
  BY DEF CondvarSignal
<1>2. released \in Clocks /\ ticked \in [Thread -> Clocks]
  <2>1. released \in Clocks /\ AfterRelease(clock[t], t) \in Clocks
    BY <1>0, ClockTypes DEF TypeOK
  <2> QED BY <1>0, <2>1 DEF TypeOK
<1>3. condvar_clock' \in [Condvar -> Clocks]
  BY <1>0, <1>1, <1>2 DEF TypeOK
<1> HIDE DEF released, ticked
<1>4. CASE waiters[c] = <<>>
  <2>1. /\ clock' = ticked
        /\ UNCHANGED <<state, owner, lock_count, queue, waiters, waiting, timed, halt>>
    BY <1>4 DEF CondvarSignal, ticked
  <2>2. TypeOK'
    BY <1>0, <1>1, <1>2, <1>3, <2>1 DEF TypeOK
  <2>3. Bookkeeping' /\ QueuedInPlace' /\ WaitersInPlace' /\ NoPanic'
    BY <1>0, <1>1, <2>1 DEF Bookkeeping, QueuedInPlace, WaitersInPlace, NoPanic, Places
  <2> QED BY <2>2, <2>3 DEF IInv
<1>5. CASE waiters[c] # <<>>
  <2>0. PICK w \in Thread : w = Head(waiters[c])
    BY <1>0, <1>5, TailPlaces DEF TypeOK
  <2> DEFINE k == [ticked EXCEPT ![w] = AcquireClock(@, released)]
  <2>1. /\ waiters' = [waiters EXCEPT ![c] = Tail(@)]
        /\ Reacquire(w, k, "Condvar")
    BY <1>5, <2>0 DEF CondvarSignal, ticked, released
  <2>2. /\ w \in Thread /\ w = waiters[c][1] /\ Len(waiters[c]) \in Nat \ {0}
        /\ Tail(waiters[c]) \in Seq(Thread)
        /\ Len(Tail(waiters[c])) = Len(waiters[c]) - 1
        /\ \A i \in 1 .. Len(Tail(waiters[c])) : Tail(waiters[c])[i] = waiters[c][i + 1]
    BY <1>0, <1>5, <2>0, TailPlaces DEF TypeOK
  <2>3. state[w] = "Condvar" /\ Waits(w)
    <3>1. 1 \in Places(waiters[c])
      BY <2>2 DEF Places
    <3>2. state[w] = "Condvar" \/ w \in expired
      BY <1>0, <2>2, <3>1 DEF WaitersInPlace
    <3> QED BY <3>2 DEF Waits
  <2>4. k \in [Thread -> Clocks]
    <3>1. AcquireClock(ticked[w], released) \in Clocks
      BY <1>2, <2>2, ClockTypes
    <3> QED BY <1>2, <3>1
  <2> HIDE DEF k
  <2>5. /\ QueuedInPlace'
        /\ UNCHANGED halt
        /\ state' \in [Thread -> States]
        /\ owner' \in [Mutex -> Thread \cup {None}]
        /\ lock_count' \in [Mutex -> 0 .. MaxLock]
        /\ queue' \in [Mutex -> Seq(Thread)]
        /\ clock' \in [Thread -> Clocks]
        /\ waiting' \in [Thread -> (Condvar \X Mutex) \cup {None}]
        /\ timed' \in [Thread -> BOOLEAN]
        /\ \A n \in Mutex : (owner'[n] = None) <=> (lock_count'[n] = 0)
        /\ \A n \in Mutex : \A u \in Thread \ {w} : owner'[n] = u => owner[n] = u
        /\ state'[w] # "Condvar"
        /\ \A u \in Thread \ {w} : state'[u] = state[u]
        /\ waiting' = [waiting EXCEPT ![w] = None]
    BY <2>1, <2>2, <2>3, <2>4, ReacquireKeeps
  <2>6. TypeOK'
    BY <1>0, <1>1, <1>3, <2>1, <2>2, <2>5 DEF TypeOK
  <2>7. Bookkeeping' /\ NoPanic'
    BY <1>0, <1>1, <2>5 DEF Bookkeeping, NoPanic
  <2>8. WaitersInPlace'
    <3>0. PICK q \in Seq(Thread) : q = Tail(waiters[c])
      BY <2>2
    <3>1. \A u \in Thread \ {w} : Waits(u)' <=> Waits(u)
      BY <1>1, <2>5 DEF Waits
    <3>2. ~Waits(w)'
      BY <1>1, <2>5 DEF Waits
    <3>3. 1 \in Places(waiters[c]) /\ Places(q) = 1 .. Len(q)
      BY <2>2 DEF Places
    <3>4. \A i \in Places(q) : q[i] = IF i < 1 THEN waiters[c][i] ELSE waiters[c][i + 1]
      BY <2>2, <3>0, <3>3
    <3>5. \A n \in Mutex : \A u \in Thread \ {w} :
             owner'[n] = u => owner[n] = u \/ waiting[u] = None
      BY <2>5
    <3>6. q \in Seq(Thread) /\ Len(q) = Len(waiters[c]) - 1 /\ waiters' = [waiters EXCEPT ![c] = q]
      BY <2>1, <2>2, <3>0
    <3>7. TypeOK /\ WaitersInPlace /\ w = waiters[c][1] /\ waiting' = [waiting EXCEPT ![w] = None]
      BY <1>0, <2>2, <2>5
    <3>8. 1 \in Places(waiters[c])
      BY <3>3
    <3> QED BY <3>1, <3>2, <3>4, <3>5, <3>6, <3>7, <3>8, WakeKeepsWaiters
  <2> QED BY <2>5, <2>6, <2>7, <2>8 DEF IInv
<1> QED BY <1>4, <1>5

LEMMA ExpireKeeps ==
    ASSUME IInv, NEW S \in SUBSET Thread, ExpireDeadlines(S)
    PROVE  IInv'
<1>0. TypeOK /\ NoPanic /\ Bookkeeping /\ QueuedInPlace /\ WaitersInPlace
  BY DEF IInv
<1>1. /\ UNCHANGED <<owner, lock_count, queue, mutex_clock, waiters, condvar_clock, waiting,
                     timed, clock, data_write, broadcasting, halt>>
      /\ expired' = S /\ expired = {} /\ broadcasting = None
      /\ state' = [t \in Thread |-> IF t \in S THEN "Enabled" ELSE state[t]]
      /\ \A t \in S : state[t] = "Condvar"
  BY DEF ExpireDeadlines, Quiet, mutexVars, condVars
<1>2. TypeOK' /\ NoPanic' /\ Bookkeeping'
  BY <1>0, <1>1 DEF TypeOK, States, NoPanic, Bookkeeping
<1>3. QueuedInPlace'
  <2>1. \A u \in Thread : (state'[u] = "Mutex") <=> (state[u] = "Mutex")
    BY <1>1
  <2>2. \A n \in Mutex : \A i \in Places(queue[n]) : queue[n][i] \in Thread
    BY <1>0 DEF TypeOK, Places
  <2> QED BY <1>0, <1>1, <2>1, <2>2 DEF QueuedInPlace, Places
<1>4. WaitersInPlace'
  <2>1. \A u \in Thread : Waits(u)' <=> Waits(u)
    BY <1>1 DEF Waits
  <2> QED BY <1>0, <1>1, <2>1, OthersKeepWaiters
<1> QED BY <1>2, <1>3, <1>4 DEF IInv

LEMMA TimedOutKeeps ==
    ASSUME IInv, NEW t \in Thread, TimedOut(t)
    PROVE  IInv'
<1>0. TypeOK /\ NoPanic /\ Bookkeeping /\ QueuedInPlace /\ WaitersInPlace
  BY DEF IInv
<1>1. /\ UNCHANGED <<mutex_clock, condvar_clock, data_write, broadcasting>>
      /\ t \in expired /\ expired' = expired \ {t}
      /\ waiters' = [waiters EXCEPT ![waiting[t][1]] = Without(@, t)]
      /\ Reacquire(t, clock, "Enabled")
  BY DEF TimedOut
<1>2. state[t] = "Enabled" /\ Waits(t) /\ clock \in [Thread -> Clocks]
  BY <1>0, <1>1 DEF Bookkeeping, Waits, TypeOK
<1>3. /\ QueuedInPlace'
      /\ UNCHANGED halt
      /\ state' \in [Thread -> States]
      /\ owner' \in [Mutex -> Thread \cup {None}]
      /\ lock_count' \in [Mutex -> 0 .. MaxLock]
      /\ queue' \in [Mutex -> Seq(Thread)]
      /\ clock' \in [Thread -> Clocks]
      /\ waiting' \in [Thread -> (Condvar \X Mutex) \cup {None}]
      /\ timed' \in [Thread -> BOOLEAN]
      /\ \A n \in Mutex : (owner'[n] = None) <=> (lock_count'[n] = 0)
      /\ \A n \in Mutex : \A u \in Thread \ {t} : owner'[n] = u => owner[n] = u
      /\ state'[t] # "Condvar"
      /\ \A u \in Thread \ {t} : state'[u] = state[u]
      /\ waiting' = [waiting EXCEPT ![t] = None]
  BY <1>1, <1>2, ReacquireKeeps
<1>4. PICK c \in Condvar : c = waiting[t][1]
  BY <1>0, <1>1 DEF WaitersInPlace, TypeOK
<1>5. PICK p \in Places(waiters[c]) : waiters[c][p] = t
  BY <1>0, <1>1, <1>4 DEF WaitersInPlace
<1>6. /\ waiters[c] \in Seq(Thread)
      /\ \A i \in 1 .. Len(waiters[c]) : waiters[c][i] = t => i = p
      /\ p \in 1 .. Len(waiters[c])
  BY <1>0, <1>5 DEF TypeOK, WaitersInPlace, Places
<1>7. /\ Without(waiters[c], t) \in Seq(Thread)
      /\ Len(Without(waiters[c], t)) = Len(waiters[c]) - 1
      /\ \A i \in 1 .. Len(waiters[c]) - 1 :
            Without(waiters[c], t)[i] = IF i < p THEN waiters[c][i] ELSE waiters[c][i + 1]
  BY <1>5, <1>6, WithoutPlaces, ZenonT(60)
<1>8. PICK q \in Seq(Thread) : q = Without(waiters[c], t)
  BY <1>7
<1>9. TypeOK' /\ NoPanic' /\ Bookkeeping'
  <2>1. waiters' \in [Condvar -> Seq(Thread)]
    BY <1>0, <1>1, <1>4, <1>7 DEF TypeOK
  <2>2. TypeOK'
    BY <1>0, <1>1, <1>3, <2>1 DEF TypeOK
  <2>3. NoPanic' /\ Bookkeeping'
    BY <1>0, <1>1, <1>3 DEF NoPanic, Bookkeeping, TypeOK
  <2> QED BY <2>2, <2>3
<1>10. WaitersInPlace'
  <2>1. ~Waits(t)' /\ \A u \in Thread \ {t} : Waits(u)' <=> Waits(u)
    BY <1>1, <1>3 DEF Waits
  <2>2. /\ Len(q) = Len(waiters[c]) - 1
        /\ \A i \in Places(q) : q[i] = IF i < p THEN waiters[c][i] ELSE waiters[c][i + 1]
        /\ waiters' = [waiters EXCEPT ![c] = q]
    BY <1>1, <1>4, <1>7, <1>8 DEF Places
  <2>3. \A n \in Mutex : \A u \in Thread \ {t} :
             owner'[n] = u => owner[n] = u \/ waiting[u] = None
    BY <1>3
  <2>4. TypeOK /\ WaitersInPlace /\ t = waiters[c][p] /\ waiting' = [waiting EXCEPT ![t] = None]
    BY <1>0, <1>3, <1>5
  <2> QED BY <2>1, <2>2, <2>3, <2>4, WakeKeepsWaiters
<1> QED BY <1>3, <1>9, <1>10 DEF IInv

LEMMA WriteKeeps ==
    ASSUME IInv, NEW t \in Thread, NEW m \in Mutex, Write(t, m)
    PROVE  IInv'
<1>0. TypeOK /\ NoPanic /\ Bookkeeping /\ QueuedInPlace /\ WaitersInPlace
  BY DEF IInv
<1>1. /\ UNCHANGED <<state, owner, lock_count, queue, mutex_clock, waiters, condvar_clock, waiting,
                     timed, clock, broadcasting, expired, halt>>
      /\ data_write' = [data_write EXCEPT ![m][t] = clock[t][t]]
  BY DEF Write, mutexVars, condVars, loopVars
<1>2. data_write' \in [Mutex -> Clocks]
  BY <1>0, <1>1 DEF TypeOK, Clocks
<1>3. TypeOK' /\ NoPanic' /\ Bookkeeping'
  BY <1>0, <1>1, <1>2 DEF TypeOK, NoPanic, Bookkeeping
<1>4. QueuedInPlace'
  BY <1>0, <1>1 DEF QueuedInPlace, Places
<1>5. WaitersInPlace'
  BY <1>0, <1>1 DEF WaitersInPlace, Places
<1> QED BY <1>3, <1>4, <1>5 DEF IInv

(* The initial state satisfies the invariant. *)
LEMMA InitIInv == Init => IInv
<1> SUFFICES ASSUME Init PROVE IInv
  OBVIOUS
<1>1. ZeroClock \in Clocks /\ \A t \in Thread : ClockIncrement(ZeroClock, t) \in Clocks
  BY DEF Clocks, ZeroClock, ClockIncrement
<1>2. <<>> \in Seq(Thread) /\ Len(<<>>) = 0 /\ 0 \in 0 .. MaxLock
  BY MutexCondvarAssumption
<1>3. TypeOK
  BY <1>1, <1>2 DEF Init, TypeOK, States, Halts
<1>4. NoPanic /\ Bookkeeping
  BY DEF Init, NoPanic, Bookkeeping
<1>5. QueuedInPlace
  BY <1>2 DEF Init, QueuedInPlace, Places
<1>6. WaitersInPlace
  BY <1>2 DEF Init, WaitersInPlace, Places
<1> QED BY <1>3, <1>4, <1>5, <1>6 DEF IInv

(* Every step preserves the invariant. *)
LEMMA NextIInv == IInv /\ [Next]_vars => IInv'
<1> SUFFICES ASSUME IInv, [Next]_vars PROVE IInv'
  OBVIOUS
<1>1. ASSUME NEW t \in Thread, NEW m \in Mutex,
             Lock(t, m) \/ TryLock(t, m) \/ Unlock(t, m) \/ Write(t, m)
      PROVE  IInv'
  BY <1>1, LockKeeps, TryLockKeeps, UnlockKeeps, WriteKeeps
<1>2. ASSUME NEW t \in Thread, NEW c \in Condvar, Signal(t, c) PROVE IInv'
  <2>1. broadcasting' \in (Thread \X Condvar) \cup {None} /\ expired = {} /\ CondvarSignal(t, c)
    BY <1>2 DEF Signal, IInv, TypeOK, Running, Quiet
  <2> QED BY <2>1, SignalKeeps
<1>3. ASSUME NEW t \in Thread, NEW c \in Condvar, Broadcast(t, c) PROVE IInv'
  <2>1. broadcasting' \in (Thread \X Condvar) \cup {None} /\ CondvarSignal(t, c)
    BY <1>3 DEF Broadcast
  <2>2. expired = {}
    <3>1. CASE Running(t)
      BY <3>1 DEF Running, Quiet
    <3>2. CASE broadcasting = <<t, c>>
      <4>1. broadcasting # None
        BY <3>2, MutexCondvarAssumption
      <4> QED BY <4>1 DEF IInv, Bookkeeping
    <3> QED BY <1>3, <3>1, <3>2 DEF Broadcast
  <2> QED BY <2>1, <2>2, SignalKeeps
<1>4. ASSUME NEW t \in Thread, NEW c \in Condvar, NEW m \in Mutex, NEW timeout \in BOOLEAN,
             Wait(t, c, m, timeout)
      PROVE  IInv'
  BY <1>4, WaitKeeps
<1>5. ASSUME NEW t \in Thread, TimedOut(t) PROVE IInv'
  BY <1>5, TimedOutKeeps
<1>6. ASSUME NEW S \in SUBSET Thread, ExpireDeadlines(S) PROVE IInv'
  BY <1>6, ExpireKeeps
<1>7. CASE GlobalDeadlock
  BY <1>7, StopKeeps DEF GlobalDeadlock, Halts
<1>8. CASE UNCHANGED vars
  <2>1. UNCHANGED <<state, owner, lock_count, queue, mutex_clock, waiters, condvar_clock, waiting,
                    timed, clock, data_write, broadcasting, expired, halt>>
    BY <1>8 DEF vars, mutexVars, condVars, loopVars
  <2>2. TypeOK' /\ NoPanic' /\ Bookkeeping'
    BY <2>1 DEF IInv, TypeOK, NoPanic, Bookkeeping
  <2>3. QueuedInPlace'
    BY <2>1 DEF IInv, QueuedInPlace, Places
  <2>4. WaitersInPlace'
    BY <2>1 DEF IInv, WaitersInPlace, Places
  <2> QED BY <2>2, <2>3, <2>4 DEF IInv
<1> QED
  BY <1>1, <1>2, <1>3, <1>4, <1>5, <1>6, <1>7, <1>8 DEF Next

(* IInv holds in every reachable state. *)
THEOREM Invariance == Spec => []IInv
  BY InitIInv, NextIInv, PTL DEF Spec

(* TypeOK, for every instance. *)
THEOREM TypeCorrect == Spec => []TypeOK
<1>1. IInv => TypeOK
  BY DEF IInv
<1> QED BY <1>1, Invariance, PTL

(* No assertion of sync.rs or unblock_thread fails, in any program that    *)
(* uses mutexes and condvars through the shims.                            *)
THEOREM AssertionsHold == Spec => []NoPanic
<1>1. IInv => NoPanic
  BY DEF IInv
<1> QED BY <1>1, Invariance, PTL

(* No thread is ever stranded in, or missing from, a mutex queue. *)
THEOREM MutexQueues == Spec => []QueuedInPlace
<1>1. IInv => QueuedInPlace
  BY DEF IInv
<1> QED BY <1>1, Invariance, PTL

(* No thread is ever stranded in, or missing from, a condvar queue. *)
THEOREM CondvarQueues == Spec => []WaitersInPlace
<1>1. IInv => WaitersInPlace
  BY DEF IInv
<1> QED BY <1>1, Invariance, PTL

-----------------------------------------------------------------------------
(* Race freedom of data guarded by a mutex. *)

(* Taking a free mutex, from a clock that has only grown: the new owner    *)
(* learns everything the mutex clock recorded.                             *)
LEMMA TakeCovers ==
    ASSUME TypeOK, WritesCovered, NEW w \in Thread, NEW m \in Mutex, NEW k \in [Thread -> Clocks],
           owner[m] = None, \A u \in Thread : ClockLeq(clock[u], k[u]),
           owner' = [owner EXCEPT ![m] = w],
           clock' = [k EXCEPT ![w] = AcquireClock(@, mutex_clock[m])],
           UNCHANGED <<mutex_clock, data_write>>
    PROVE  WritesCovered'
<1>1. w # None
  BY MutexCondvarAssumption
<1>2. /\ \A n \in Mutex : owner'[n] = IF n = m THEN w ELSE owner[n]
      /\ \A n \in Mutex : data_write[n] \in Clocks /\ mutex_clock[n] \in Clocks
      /\ \A n \in Mutex : owner[n] # None => owner[n] \in Thread
      /\ \A u \in Thread : clock[u] \in Clocks /\ k[u] \in Clocks
  BY DEF TypeOK
<1>3. AcquireClock(k[w], mutex_clock[m]) \in Clocks
  BY <1>2, ClockTypes
<1>4. \A u \in Thread : clock'[u] \in Clocks /\ ClockLeq(clock[u], clock'[u])
  <2>1. ClockLeq(k[w], AcquireClock(k[w], mutex_clock[m]))
    BY <1>2, ClockGrows
  <2>2. ClockLeq(clock[w], AcquireClock(k[w], mutex_clock[m]))
    BY <2>1, <1>2, <1>3, ClockOrder
  <2> QED BY <1>2, <1>3, <2>2
<1>5. \A n \in Mutex : owner'[n] # None => ClockLeq(data_write[n], clock'[owner'[n]])
  <2> SUFFICES ASSUME NEW n \in Mutex, owner'[n] # None
               PROVE  ClockLeq(data_write[n], clock'[owner'[n]])
    OBVIOUS
  <2>1. CASE n # m
    <3>1. /\ owner'[n] = owner[n] /\ owner[n] \in Thread
          /\ ClockLeq(data_write[n], clock[owner[n]])
      BY <2>1, <1>2 DEF WritesCovered
    <3> QED BY <3>1, <1>2, <1>4, ClockOrder
  <2>2. CASE n = m /\ DataRaceDetector
    <3>1. clock'[w] = AcquireClock(k[w], mutex_clock[m])
      OBVIOUS
    <3>2. ClockLeq(mutex_clock[m], clock'[w])
      BY <2>2, <3>1, <1>2, ClockGrows
    <3>3. ClockLeq(data_write[m], mutex_clock[m])
      BY DEF WritesCovered
    <3>4. ClockLeq(data_write[m], clock'[w])
      BY <3>2, <3>3, <1>2, <1>4, ClockOrder
    <3> QED BY <2>2, <3>4, <1>2
  <2>3. CASE n = m /\ ~DataRaceDetector
    <3>1. data_write[n] = ZeroClock
      BY <2>3 DEF WritesCovered
    <3> QED BY <2>3, <3>1, <1>2, <1>4, ClockOrder
  <2> QED BY <2>1, <2>2, <2>3
<1>6. \A n \in Mutex : owner'[n] = None => ClockLeq(data_write[n], mutex_clock[n])
  BY <1>1, <1>2 DEF WritesCovered
<1> QED BY <1>5, <1>6 DEF WritesCovered

(* Steps that change no owner, mutex clock or write, and only grow clocks. *)
LEMMA GrowthCovers ==
    ASSUME TypeOK, TypeOK', WritesCovered,
           \A u \in Thread : ClockLeq(clock[u], clock'[u]),
           UNCHANGED <<owner, mutex_clock, data_write>>
    PROVE  WritesCovered'
<1>1. /\ \A n \in Mutex : data_write[n] \in Clocks
      /\ \A n \in Mutex : owner[n] # None => owner[n] \in Thread
      /\ \A u \in Thread : clock[u] \in Clocks /\ clock'[u] \in Clocks
  BY DEF TypeOK
<1>2. \A n \in Mutex : owner[n] # None => ClockLeq(data_write[n], clock'[owner[n]])
  BY <1>1, ClockOrder DEF WritesCovered
<1> QED BY <1>2 DEF WritesCovered

(* The hand-off passes the owner's knowledge on, through the mutex clock.  *)
LEMMA HandOffCovers ==
    ASSUME IInv, WritesCovered, NEW t \in Thread, NEW m \in Mutex,
           owner[m] = t, Successor(m) # t, ReleaseAndHandOff(t, m), UNCHANGED data_write
    PROVE  WritesCovered'
<1> DEFINE next == Successor(m)
<1>0. TypeOK
  BY DEF IInv
<1>1. /\ \A n \in Mutex : data_write[n] \in Clocks /\ mutex_clock[n] \in Clocks
      /\ \A n \in Mutex : owner[n] # None => owner[n] \in Thread
      /\ \A u \in Thread : clock[u] \in Clocks
      /\ next # None => next \in Thread
      /\ t # None
  BY <1>0, TailPlaces, MutexCondvarAssumption DEF TypeOK, Successor
<1>2. /\ \A n \in Mutex : owner'[n] = IF n = m THEN next ELSE owner[n]
      /\ \A n \in Mutex : mutex_clock'[n] = IF n = m THEN ReleasedClock(clock[t], mutex_clock[m])
                                                     ELSE mutex_clock[n]
      /\ clock'[t] = AfterRelease(clock[t], t)
      /\ next # None => clock'[next] = AcquireClock(clock[next], mutex_clock'[m])
      /\ \A u \in Thread : u # t /\ u # next => clock'[u] = clock[u]
  BY <1>0, <1>1 DEF ReleaseAndHandOff, TypeOK
<1>3. mutex_clock'[m] \in Clocks /\ \A u \in Thread : clock'[u] \in Clocks
  BY HandOffKeeps
<1> HIDE DEF next
<1>4. \A u \in Thread : ClockLeq(clock[u], clock'[u])
  <2> SUFFICES ASSUME NEW u \in Thread PROVE ClockLeq(clock[u], clock'[u])
    OBVIOUS
  <2>1. CASE u = t
    BY <2>1, <1>1, <1>2, ClockGrows
  <2>2. CASE u # t /\ u = next
    BY <2>2, <1>1, <1>2, <1>3, ClockGrows, MutexCondvarAssumption
  <2>3. CASE u # t /\ u # next
    BY <2>3, <1>1, <1>2, ClockOrder
  <2> QED BY <2>1, <2>2, <2>3
<1>5. ClockLeq(data_write[m], mutex_clock'[m])
  <2>1. CASE DataRaceDetector
    BY <2>1, <1>1, <1>2 DEF ReleasedClock, WritesCovered
  <2>2. CASE ~DataRaceDetector
    BY <2>2, <1>3, ClockOrder DEF WritesCovered
  <2> QED BY <2>1, <2>2
<1>6. \A n \in Mutex : owner'[n] # None => ClockLeq(data_write[n], clock'[owner'[n]])
  <2> SUFFICES ASSUME NEW n \in Mutex, owner'[n] # None
               PROVE  ClockLeq(data_write[n], clock'[owner'[n]])
    OBVIOUS
  <2>1. CASE n # m
    <3>1. owner'[n] = owner[n] /\ owner[n] \in Thread /\ ClockLeq(data_write[n], clock[owner[n]])
      BY <2>1, <1>1, <1>2 DEF WritesCovered
    <3> QED BY <3>1, <1>1, <1>3, <1>4, ClockOrder
  <2>2. CASE n = m /\ DataRaceDetector
    <3>1. next # None /\ owner'[m] = next /\ next \in Thread
      BY <2>2, <1>1, <1>2
    <3>2. ClockLeq(mutex_clock'[m], clock'[next])
      BY <2>2, <3>1, <1>1, <1>2, <1>3, ClockGrows
    <3>3. ClockLeq(data_write[m], clock'[next])
      BY <3>1, <3>2, <1>1, <1>3, <1>5, ClockOrder
    <3> QED BY <2>2, <3>1, <3>3
  <2>3. CASE n = m /\ ~DataRaceDetector
    <3>1. data_write[n] = ZeroClock /\ owner'[n] \in Thread
      BY <2>3, <1>1, <1>2 DEF WritesCovered
    <3> QED BY <3>1, <1>3, ClockOrder
  <2> QED BY <2>1, <2>2, <2>3
<1>7. \A n \in Mutex : owner'[n] = None => ClockLeq(data_write[n], mutex_clock'[n])
  BY <1>2, <1>5 DEF WritesCovered
<1> QED BY <1>6, <1>7 DEF WritesCovered

(* A condvar callback, run on clocks k that have only grown. *)
LEMMA ReacquireCovers ==
    ASSUME IInv, TypeOK', WritesCovered, NEW w \in Thread, Waits(w), NEW k \in [Thread -> Clocks], NEW st,
           \A u \in Thread : ClockLeq(clock[u], k[u]),
           Reacquire(w, k, st), UNCHANGED <<mutex_clock, data_write>>
    PROVE  WritesCovered'
<1>0. TypeOK /\ WaitersInPlace
  BY DEF IInv
<1>1. PICK m \in Mutex : m = waiting[w][2]
  BY <1>0 DEF TypeOK, WaitersInPlace, Waits
<1>2. CASE owner[m] = None
  <2>1. /\ owner' = [owner EXCEPT ![m] = w]
        /\ clock' = [k EXCEPT ![w] = AcquireClock(@, mutex_clock[m])]
    BY <1>1, <1>2 DEF Reacquire
  <2> QED BY <1>0, <1>2, <2>1, TakeCovers
<1>3. CASE owner[m] # None
  <2>1. clock' = k /\ UNCHANGED owner
    BY <1>1, <1>3 DEF Reacquire
  <2> QED BY <1>0, <2>1, GrowthCovers
<1> QED BY <1>2, <1>3

LEMMA SignalCovers ==
    ASSUME IInv, IInv', WritesCovered, NEW t \in Thread, NEW c \in Condvar, expired = {}, CondvarSignal(t, c)
    PROVE  WritesCovered'
<1>0. TypeOK /\ TypeOK' /\ WaitersInPlace
  BY DEF IInv
<1>1. PICK released \in Clocks : released = ReleasedClock(clock[t], condvar_clock[c])
  BY <1>0, ClockTypes DEF TypeOK
<1>2. PICK ticked \in [Thread -> Clocks] : ticked = [clock EXCEPT ![t] = AfterRelease(@, t)]
  <2>1. AfterRelease(clock[t], t) \in Clocks
    BY <1>0, ClockTypes DEF TypeOK
  <2> QED BY <1>0, <2>1 DEF TypeOK
<1>3. \A u \in Thread : ClockLeq(clock[u], ticked[u])
  BY <1>0, <1>2, ClockGrows, ClockOrder DEF TypeOK
<1>4. UNCHANGED <<mutex_clock, data_write>>
  BY DEF CondvarSignal
<1>5. CASE waiters[c] = <<>>
  <2>1. clock' = ticked /\ UNCHANGED owner
    BY <1>2, <1>5 DEF CondvarSignal
  <2> QED BY <1>0, <1>3, <1>4, <2>1, GrowthCovers
<1>6. CASE waiters[c] # <<>>
  <2>1. PICK w \in Thread : w = Head(waiters[c])
    BY <1>0, <1>6, TailPlaces DEF TypeOK
  <2>2. AcquireClock(ticked[w], released) \in Clocks
    BY ClockTypes
  <2>3. PICK k \in [Thread -> Clocks] : k = [ticked EXCEPT ![w] = AcquireClock(@, released)]
    BY <2>2
  <2>4. \A u \in Thread : ClockLeq(clock[u], k[u])
    <3>1. ClockLeq(ticked[w], k[w])
      BY <2>3, ClockGrows
    <3>2. clock[w] \in Clocks /\ ticked[w] \in Clocks /\ k[w] \in Clocks
      BY <1>0 DEF TypeOK
    <3>3. ClockLeq(clock[w], k[w])
      BY <1>3, <3>1, <3>2, ClockOrder
    <3> QED BY <1>3, <2>3, <3>3
  <2>5. Reacquire(w, k, "Condvar")
    BY <1>1, <1>2, <1>6, <2>1, <2>3 DEF CondvarSignal
  <2>6. Waits(w)
    <3>1. 1 \in Places(waiters[c]) /\ w = waiters[c][1]
      BY <1>0, <1>6, <2>1, TailPlaces DEF TypeOK, Places
    <3> QED BY <1>0, <3>1 DEF WaitersInPlace, Waits
  <2> QED BY <1>0, <1>4, <2>4, <2>5, <2>6, ReacquireCovers
<1> QED BY <1>5, <1>6

LEMMA NextCovered == IInv /\ IInv' /\ WritesCovered /\ [Next]_vars => WritesCovered'
<1> SUFFICES ASSUME IInv, IInv', WritesCovered, [Next]_vars PROVE WritesCovered'
  OBVIOUS
<1>0. TypeOK /\ TypeOK' /\ QueuedInPlace /\ \A u \in Thread : clock[u] \in Clocks
  BY DEF IInv, TypeOK
<1>1. ASSUME UNCHANGED <<owner, mutex_clock, data_write, clock>> PROVE WritesCovered'
  BY <1>1 DEF WritesCovered
<1>2. ASSUME NEW how, Stop(how) PROVE WritesCovered'
  BY <1>1, <1>2 DEF Stop, mutexVars
<1>3. ASSUME NEW t \in Thread, NEW m \in Mutex, MutexLock(t, m), owner[m] \in {None, t},
             UNCHANGED <<mutex_clock, data_write>>
      PROVE  WritesCovered'
  <2>1. /\ owner' = [owner EXCEPT ![m] = t]
        /\ clock' = [clock EXCEPT ![t] = AcquireClock(@, mutex_clock[m])]
    BY <1>3 DEF MutexLock
  <2>2. \A u \in Thread : ClockLeq(clock[u], clock[u])
    BY <1>0, ClockOrder
  <2>3. clock \in [Thread -> Clocks]
    BY <1>0 DEF TypeOK
  <2>4. CASE owner[m] = None
    BY <1>0, <1>3, <2>1, <2>2, <2>3, <2>4, TakeCovers
  <2>5. CASE owner[m] = t
    <3>1. owner' = owner
      BY <1>0, <2>1, <2>5 DEF TypeOK
    <3>2. mutex_clock[m] \in Clocks
      BY <1>0 DEF TypeOK
    <3>3. ClockLeq(clock[t], AcquireClock(clock[t], mutex_clock[m]))
      BY <1>0, <3>2, ClockGrows
    <3>4. \A u \in Thread : ClockLeq(clock[u], clock'[u])
      BY <2>1, <2>2, <2>3, <3>3
    <3> QED BY <1>0, <1>3, <3>1, <3>4, GrowthCovers
  <2> QED BY <1>3, <2>4, <2>5
<1>4. ASSUME NEW t \in Thread, NEW m \in Mutex, Running(t), owner[m] = t,
             ReleaseAndHandOff(t, m), UNCHANGED data_write
      PROVE  WritesCovered'
  <2>1. Successor(m) # t
    <3>1. queue[m] # <<>> => Head(queue[m]) = queue[m][1] /\ 1 \in Places(queue[m])
      BY <1>0, TailPlaces DEF TypeOK, Places
    <3>2. queue[m] # <<>> => Successor(m) # owner[m]
      BY <1>0, <3>1 DEF QueuedInPlace, Successor
    <3> QED BY <1>4, <3>2, MutexCondvarAssumption DEF Successor
  <2> QED BY <1>4, <2>1, HandOffCovers
<1>5. ASSUME NEW t \in Thread, NEW m \in Mutex, Lock(t, m) PROVE WritesCovered'
  BY <1>1, <1>2, <1>3, <1>5 DEF Lock
<1>6. ASSUME NEW t \in Thread, NEW m \in Mutex, TryLock(t, m) PROVE WritesCovered'
  BY <1>3, <1>6 DEF TryLock
<1>7. ASSUME NEW t \in Thread, NEW m \in Mutex, Unlock(t, m) PROVE WritesCovered'
  BY <1>1, <1>2, <1>4, <1>7 DEF Unlock
<1>8. ASSUME NEW t \in Thread, NEW c \in Condvar, NEW m \in Mutex, NEW timeout \in BOOLEAN,
             Wait(t, c, m, timeout)
      PROVE  WritesCovered'
  BY <1>2, <1>4, <1>8 DEF Wait
<1>9. ASSUME NEW t \in Thread, NEW c \in Condvar, Signal(t, c) \/ Broadcast(t, c)
      PROVE  WritesCovered'
  <2>1. CondvarSignal(t, c)
    BY <1>9 DEF Signal, Broadcast
  <2>2. expired = {}
    <3>1. CASE broadcasting = <<t, c>>
      <4>1. broadcasting # None
        BY <3>1, MutexCondvarAssumption
      <4> QED BY <4>1 DEF IInv, Bookkeeping
    <3> QED BY <1>9, <3>1 DEF Signal, Broadcast, Running, Quiet
  <2> QED BY <2>1, <2>2, SignalCovers
<1>10. ASSUME NEW t \in Thread, TimedOut(t) PROVE WritesCovered'
  <2>1. \A u \in Thread : ClockLeq(clock[u], clock[u])
    BY <1>0, ClockOrder
  <2>2. clock \in [Thread -> Clocks]
    BY <1>0 DEF TypeOK
  <2>3. Waits(t) /\ Reacquire(t, clock, "Enabled") /\ UNCHANGED <<mutex_clock, data_write>>
    BY <1>10 DEF TimedOut, Waits
  <2> QED BY <1>0, <2>1, <2>2, <2>3, ReacquireCovers
<1>11. ASSUME NEW t \in Thread, NEW m \in Mutex, Write(t, m) PROVE WritesCovered'
  <2>1. /\ owner[m] = t /\ DataRaceDetector /\ t # None
        /\ data_write' = [data_write EXCEPT ![m][t] = clock[t][t]]
        /\ UNCHANGED <<owner, mutex_clock, clock>>
    BY <1>11, MutexCondvarAssumption DEF Write, mutexVars
  <2>2. ClockLeq(data_write'[m], clock[t])
    BY <1>0, <2>1 DEF TypeOK, Clocks, ClockLeq, WritesCovered
  <2>3. \A n \in Mutex : n # m => data_write'[n] = data_write[n]
    BY <1>0, <2>1 DEF TypeOK
  <2> QED BY <2>1, <2>2, <2>3 DEF WritesCovered
<1>12. ASSUME NEW S \in SUBSET Thread, ExpireDeadlines(S) PROVE WritesCovered'
  BY <1>1, <1>12 DEF ExpireDeadlines, mutexVars
<1>13. CASE GlobalDeadlock
  BY <1>2, <1>13 DEF GlobalDeadlock
<1>14. CASE UNCHANGED vars
  BY <1>1, <1>14 DEF vars, mutexVars
<1> QED
  BY <1>5, <1>6, <1>7, <1>8, <1>9, <1>10, <1>11, <1>12, <1>13, <1>14 DEF Next

(* Data guarded by a mutex is race free in every execution: the owner's    *)
(* clock covers all writes made under the mutex before.                    *)
THEOREM LockedDataNeverRaces == Spec => []LockedDataRaceFree
<1>1. Init => WritesCovered
  <2> SUFFICES ASSUME Init PROVE WritesCovered
    OBVIOUS
  <2>1. ClockLeq(ZeroClock, ZeroClock)
    BY DEF ClockLeq, ZeroClock
  <2> QED BY <2>1 DEF Init, WritesCovered
<1>2. WritesCovered => LockedDataRaceFree
  BY DEF WritesCovered, LockedDataRaceFree
<1> QED BY <1>1, <1>2, NextCovered, Invariance, PTL DEF Spec
=============================================================================
