----------------------------- MODULE FutexProofs -----------------------------
(***************************************************************************)
(* Proofs about Futex, for any number of threads, any values, bitsets and  *)
(* parameters, any limit of the store buffer and any number of calls.      *)
(***************************************************************************)
EXTENDS Futex, FiniteSetTheorems, TLAPS

Queues == Seq(Waiter)
Element0 == [store_thread : Thread, store_timestamp : Nat, sync_clock : Clocks, is_seqcst : BOOLEAN,
             val : Value, loads : Clocks, sc_loaded : BOOLEAN]

(* A queue holds no thread twice. *)
Distinct(ws) == \A i, j \in 1 .. Len(ws) : ws[i].thread = ws[j].thread => i = j
(* The threads in a queue. *)
Sleeping(ws) == {ws[i].thread : i \in 1 .. Len(ws)}

-----------------------------------------------------------------------------

(* How many kept places there are up to a kept place tells it from the     *)
(* others, and every number up to theirs is the number of one.             *)
LEMMA Ranks ==
    ASSUME NEW n \in Nat, NEW kept \in SUBSET (1 .. n)
    PROVE  /\ IsFiniteSet(kept) /\ Cardinality(kept) \in Nat
           /\ \A i \in kept : Cardinality({j \in kept : j <= i}) \in 1 .. Cardinality(kept)
           /\ \A i, k \in kept : Cardinality({j \in kept : j <= i}) = Cardinality({j \in kept : j <= k}) => i = k
           /\ \A m \in 1 .. Cardinality(kept) : \E i \in kept : Cardinality({j \in kept : j <= i}) = m
<1> DEFINE UpTo(i) == {j \in kept : j <= i}
           rank == [i \in kept |-> Cardinality(UpTo(i))]
<1>1. IsFiniteSet(kept) /\ Cardinality(kept) \in Nat
  <2>1. IsFiniteSet(1 .. n)
    BY FS_Interval
  <2> QED BY <2>1, FS_Subset, FS_CardinalityType
<1>2. \A i \in kept : /\ IsFiniteSet(UpTo(i)) /\ Cardinality(UpTo(i)) \in Nat
                      /\ Cardinality(UpTo(i)) <= Cardinality(kept) /\ i \in UpTo(i)
  <2> SUFFICES ASSUME NEW i \in kept
               PROVE  /\ IsFiniteSet(UpTo(i)) /\ Cardinality(UpTo(i)) \in Nat
                      /\ Cardinality(UpTo(i)) <= Cardinality(kept) /\ i \in UpTo(i)
    OBVIOUS
  <2>1. UpTo(i) \in SUBSET kept /\ i \in UpTo(i)
    OBVIOUS
  <2>2. IsFiniteSet(UpTo(i)) /\ Cardinality(UpTo(i)) <= Cardinality(kept)
    BY <2>1, <1>1, FS_Subset
  <2>3. Cardinality(UpTo(i)) \in Nat
    BY <2>2, FS_CardinalityType
  <2> QED BY <2>1, <2>2, <2>3
<1>3. \A i \in kept : Cardinality(UpTo(i)) \in 1 .. Cardinality(kept)
  <2> SUFFICES ASSUME NEW i \in kept PROVE Cardinality(UpTo(i)) \in 1 .. Cardinality(kept)
    OBVIOUS
  <2>1. UpTo(i) # {} /\ IsFiniteSet(UpTo(i)) /\ Cardinality(UpTo(i)) \in Nat /\ Cardinality(UpTo(i)) <= Cardinality(kept)
    BY <1>2
  <2>2. Cardinality(UpTo(i)) # 0
    BY <2>1, FS_EmptySet
  <2> QED BY <2>1, <2>2, <1>1
<1>4. ASSUME NEW i \in kept, NEW k \in kept, i < k
      PROVE  Cardinality(UpTo(i)) # Cardinality(UpTo(k))
  <2>1. UpTo(i) \in SUBSET UpTo(k) /\ k \notin UpTo(i) /\ k \in UpTo(k)
    <3>1. \A j \in kept : j \in Nat
      OBVIOUS
    <3>2. \A j \in kept : j <= i => j <= k
      BY <3>1, <1>4
    <3>3. ~(k <= i) /\ k <= k
      BY <3>1, <1>4
    <3> QED BY <3>2, <3>3
  <2>2. IsFiniteSet(UpTo(k))
    BY <1>2
  <2> QED BY <2>1, <2>2, FS_Subset
<1>5. \A i, k \in kept : Cardinality(UpTo(i)) = Cardinality(UpTo(k)) => i = k
  <2> SUFFICES ASSUME NEW i \in kept, NEW k \in kept, Cardinality(UpTo(i)) = Cardinality(UpTo(k)) PROVE i = k
    OBVIOUS
  <2>1. ~(i < k) /\ ~(k < i)
    BY <1>4
  <2> QED BY <2>1
<1>6. rank \in Injection(kept, 1 .. Cardinality(kept))
  <2> HIDE DEF UpTo
  <2>1. rank \in [kept -> 1 .. Cardinality(kept)]
    BY <1>3
  <2>2. \A i, k \in kept : rank[i] = rank[k] => i = k
    BY <1>5
  <2> QED BY <2>1, <2>2 DEF Injection, IsInjective
<1>7. IsFiniteSet(1 .. Cardinality(kept)) /\ Cardinality(1 .. Cardinality(kept)) = Cardinality(kept)
  BY <1>1, FS_Interval
<1>8. rank \in Surjection(kept, 1 .. Cardinality(kept))
  <2> HIDE DEF rank
  <2> QED BY <1>6, <1>7, FS_Injection
<1>9. \A m \in 1 .. Cardinality(kept) : \E i \in kept : rank[i] = m
  <2> HIDE DEF rank
  <2> QED BY <1>8 DEF Surjection
<1>10. \A m \in 1 .. Cardinality(kept) : \E i \in kept : Cardinality(UpTo(i)) = m
  BY <1>9
<1> QED BY <1>1, <1>3, <1>5, <1>10

(* extract_if and retain: who is not taken out stays, once. *)
LEMMA LeftPlaces ==
    ASSUME NEW ws \in Queues, NEW S
    PROVE  /\ Left(ws, S) \in Queues
           /\ Sleeping(Left(ws, S)) = Sleeping(ws) \ S
           /\ Distinct(ws) => Distinct(Left(ws, S))
<1> DEFINE kept == {i \in 1 .. Len(ws) : ws[i].thread \notin S}
           Place(n) == CHOOSE i \in kept : Cardinality({j \in kept : j <= i}) = n
           r == Left(ws, S)
<1>1. Len(ws) \in Nat /\ kept \in SUBSET (1 .. Len(ws)) /\ \A i \in kept : ws[i] \in Waiter
  BY DEF Queues
<1>2. r = [n \in 1 .. Cardinality(kept) |-> ws[Place(n)]]
  BY DEF Left
<1>3. \A i \in kept : ws[i].thread \notin S /\ i \in 1 .. Len(ws)
  OBVIOUS
<1>3a. \A i \in 1 .. Len(ws) : ws[i].thread \notin S => i \in kept
  OBVIOUS
<1> HIDE DEF kept, r
<1>4. /\ Cardinality(kept) \in Nat
      /\ \A i \in kept : Cardinality({j \in kept : j <= i}) \in 1 .. Cardinality(kept)
      /\ \A i, k \in kept : Cardinality({j \in kept : j <= i}) = Cardinality({j \in kept : j <= k}) => i = k
      /\ \A m \in 1 .. Cardinality(kept) : \E i \in kept : Cardinality({j \in kept : j <= i}) = m
  BY <1>1, Ranks
<1>5. \A m \in 1 .. Cardinality(kept) : Place(m) \in kept /\ Cardinality({j \in kept : j <= Place(m)}) = m
  <2> SUFFICES ASSUME NEW m \in 1 .. Cardinality(kept)
               PROVE  Place(m) \in kept /\ Cardinality({j \in kept : j <= Place(m)}) = m
    OBVIOUS
  <2>1. \E i \in kept : Cardinality({j \in kept : j <= i}) = m
    BY <1>4
  <2> QED BY <2>1, Zenon
<1>6. \A i \in kept : \E m \in 1 .. Cardinality(kept) : Place(m) = i
  <2> SUFFICES ASSUME NEW i \in kept PROVE \E m \in 1 .. Cardinality(kept) : Place(m) = i
    OBVIOUS
  <2> DEFINE m == Cardinality({j \in kept : j <= i})
  <2>1. m \in 1 .. Cardinality(kept)
    BY <1>4
  <2>2. Place(m) \in kept /\ Cardinality({j \in kept : j <= Place(m)}) = m
    BY <2>1, <1>5
  <2> HIDE DEF Place
  <2>3. Place(m) = i
    BY <2>2, <1>4
  <2> QED BY <2>1, <2>3
<1>7. \A m, n \in 1 .. Cardinality(kept) : Place(m) = Place(n) => m = n
  <2> HIDE DEF Place
  <2> QED BY <1>5
<1> HIDE DEF Place
<1>8. r \in Seq(Waiter) /\ Len(r) = Cardinality(kept) /\ \A m \in 1 .. Len(r) : r[m] = ws[Place(m)]
  <2>1. \A m \in 1 .. Cardinality(kept) : ws[Place(m)] \in Waiter
    BY <1>1, <1>5
  <2>2. r \in [1 .. Cardinality(kept) -> Waiter] /\ \A m \in 1 .. Cardinality(kept) : r[m] = ws[Place(m)]
    BY <2>1, <1>2
  <2>3. r \in Seq(Waiter) /\ Len(r) = Cardinality(kept)
    BY <2>2, <1>4
  <2> QED BY <2>2, <2>3
<1>9. Sleeping(r) = Sleeping(ws) \ S
  <2>1. \A m \in 1 .. Len(r) : r[m].thread \in Sleeping(ws) \ S
    BY <1>3, <1>5, <1>8 DEF Sleeping
  <2>2. \A i \in 1 .. Len(ws) : ws[i].thread \notin S => ws[i].thread \in Sleeping(r)
    <3> SUFFICES ASSUME NEW i \in 1 .. Len(ws), ws[i].thread \notin S PROVE ws[i].thread \in Sleeping(r)
      OBVIOUS
    <3>1. PICK m \in 1 .. Cardinality(kept) : Place(m) = i
      BY <1>3a, <1>6
    <3>2. m \in 1 .. Len(r) /\ r[m] = ws[i]
      BY <3>1, <1>8
    <3> QED BY <3>2 DEF Sleeping
  <2> QED BY <2>1, <2>2 DEF Sleeping
<1>10. Distinct(ws) => Distinct(r)
  <2> SUFFICES ASSUME Distinct(ws), NEW m \in 1 .. Len(r), NEW n \in 1 .. Len(r), r[m].thread = r[n].thread
               PROVE  m = n
    BY DEF Distinct
  <2>1. Place(m) \in 1 .. Len(ws) /\ Place(n) \in 1 .. Len(ws) /\ r[m] = ws[Place(m)] /\ r[n] = ws[Place(n)]
    BY <1>3, <1>5, <1>8
  <2>2. Place(m) = Place(n)
    BY <2>1 DEF Distinct
  <2> QED BY <2>2, <1>7, <1>8
<1> QED BY <1>8, <1>9, <1>10 DEF r, Queues

-----------------------------------------------------------------------------

(* Joins and the order of clocks. *)
LEMMA ClockOrder ==
    ASSUME NEW a \in Clocks, NEW b \in Clocks, NEW c \in Clocks, NEW t \in Thread
    PROVE  /\ ClockJoin(a, b) \in Clocks /\ ClockIncrement(a, t) \in Clocks /\ ZeroClock \in Clocks
           /\ ClockLeq(a, ClockJoin(a, b)) /\ ClockLeq(b, ClockJoin(a, b))
           /\ ClockLeq(a, ClockIncrement(a, t)) /\ ClockLeq(a, a)
           /\ ClockLeq(a, b) /\ ClockLeq(b, c) => ClockLeq(a, c)
  BY DEF Clocks, ClockLeq, ClockJoin, ClockIncrement, ZeroClock

LEMMA ClockTransitive ==
    ASSUME NEW a \in Clocks, NEW b \in Clocks, NEW c \in Clocks, ClockLeq(a, b), ClockLeq(b, c)
    PROVE  ClockLeq(a, c)
<1> SUFFICES ASSUME NEW u \in Thread PROVE a[u] <= c[u]
  BY DEF ClockLeq
<1>1. a[u] \in Nat /\ b[u] \in Nat /\ c[u] \in Nat
  BY DEF Clocks
<1>2. a[u] <= b[u] /\ b[u] <= c[u]
  BY DEF ClockLeq
<1> QED BY <1>1, <1>2

(* Joins and increments go up. *)
LEMMA JoinUp ==
    ASSUME NEW a \in Clocks, NEW b \in Clocks
    PROVE  ClockJoin(a, b) \in Clocks /\ ClockLeq(a, ClockJoin(a, b)) /\ ClockLeq(b, ClockJoin(a, b))
  BY DEF Clocks, ClockLeq, ClockJoin

LEMMA TickUp ==
    ASSUME NEW a \in Clocks, NEW t \in Thread
    PROVE  ClockIncrement(a, t) \in Clocks /\ ClockLeq(a, ClockIncrement(a, t))
  BY DEF Clocks, ClockLeq, ClockIncrement

LEMMA EntryOrder ==
    ASSUME NEW a \in Clocks, NEW b \in Clocks, NEW n \in Nat, NEW u \in Thread, ClockLeq(a, b), n <= a[u]
    PROVE  n <= b[u]
  BY DEF Clocks, ClockLeq

(* The SeqCst fence of futex_wait and futex_wake: the thread then knows    *)
(* all earlier fences, and later fences will know the thread.              *)
LEMMA FenceEffect ==
    ASSUME NEW k \in ClockSets, NEW t \in Thread, NEW last \in Clocks
    PROVE  LET f == FenceClocks(k, t, "SeqCst", last, ZeroClock)
               g == FenceGlobal(k, "SeqCst", last) IN
           /\ f \in ClockSets /\ ClockLeq(k.clock, f.clock) /\ ClockLeq(last, f.clock)
           /\ g \in Clocks /\ ClockLeq(last, g) /\ ClockLeq(k.clock, g)
<1> DEFINE a == ClockJoin(k.clock, k.fence_acquire)
           g == ClockJoin(last, a)
           c == ClockJoin(a, g)
           w == ClockJoin(k.write_seqcst, ZeroClock)
           d == ClockIncrement(c, t)
           f == FenceClocks(k, t, "SeqCst", last, ZeroClock)
<1>1. /\ k.clock \in Clocks /\ k.fence_acquire \in Clocks /\ k.fence_release \in Clocks
      /\ k.write_seqcst \in Clocks /\ k.read_seqcst \in Clocks
  BY DEF ClockSets
<1>2. a \in Clocks /\ ClockLeq(k.clock, a)
  BY <1>1, JoinUp
<1>3. g \in Clocks /\ ClockLeq(last, g) /\ ClockLeq(a, g)
  <2> HIDE DEF a
  <2> QED BY <1>2, JoinUp
<1>4. c \in Clocks /\ ClockLeq(a, c) /\ ClockLeq(g, c) /\ w \in Clocks
  <2> HIDE DEF a, g
  <2>1. ZeroClock \in Clocks
    BY DEF Clocks, ZeroClock
  <2>2. w \in Clocks
    BY <2>1, <1>1, JoinUp
  <2>3. c \in Clocks /\ ClockLeq(a, c) /\ ClockLeq(g, c)
    BY <1>2, <1>3, JoinUp
  <2> QED BY <2>2, <2>3
<1>5. d \in Clocks /\ ClockLeq(c, d)
  <2> HIDE DEF c
  <2> QED BY <1>4, TickUp
<1>6. f = [k EXCEPT !.clock = d, !.fence_release = c, !.write_seqcst = w]
  BY ZenonT(60) DEF FenceClocks, LoadAcquire, ScFenceClock, Tick, ClockSets
<1>7. FenceGlobal(k, "SeqCst", last) = g
  BY DEF FenceGlobal, LoadAcquire, ScFenceClock, ClockSets
<1> HIDE DEF a, g, c, w, d, f
<1>8. f \in ClockSets /\ f.clock = d
  BY <1>1, <1>4, <1>5, <1>6 DEF ClockSets
<1>9. ClockLeq(k.clock, g) /\ ClockLeq(k.clock, c) /\ ClockLeq(last, c)
  <2>1. ClockLeq(k.clock, g)
    BY <1>1, <1>2, <1>3, ClockTransitive
  <2>2. ClockLeq(k.clock, c)
    BY <1>1, <1>2, <1>4, ClockTransitive
  <2>3. ClockLeq(last, c)
    BY <1>3, <1>4, ClockTransitive
  <2> QED BY <2>1, <2>2, <2>3
<1>10. ClockLeq(k.clock, d) /\ ClockLeq(last, d)
  <2>1. ClockLeq(k.clock, d)
    BY <1>1, <1>4, <1>5, <1>9, ClockTransitive
  <2>2. ClockLeq(last, d)
    BY <1>4, <1>5, <1>9, ClockTransitive
  <2> QED BY <2>1, <2>2
<1> QED BY <1>3, <1>7, <1>8, <1>9, <1>10 DEF f

(* A load that acquires, the tick of a store, and the end of a wait: the   *)
(* clock of the thread only grows.                                         *)
LEMMA ClockSetsGrow ==
    ASSUME NEW k \in ClockSets, NEW t \in Thread, NEW c \in Clocks
    PROVE  /\ ValidateLoad(k, t, "Acquire", c) \in ClockSets /\ ClockLeq(k.clock, ValidateLoad(k, t, "Acquire", c).clock)
           /\ Tick(k, t) \in ClockSets /\ ClockLeq(k.clock, Tick(k, t).clock)
           /\ FutexWoken(k, c) \in ClockSets
           /\ ClockLeq(k.clock, FutexWoken(k, c).clock) /\ ClockLeq(c, FutexWoken(k, c).clock)
<1> DEFINE j == ClockJoin(k.clock, c)
           i == ClockIncrement(k.clock, t)
           m == ClockIncrement(j, t)
<1>1. k.clock \in Clocks
  BY DEF ClockSets
<1>2. j \in Clocks /\ ClockLeq(k.clock, j) /\ ClockLeq(c, j) /\ i \in Clocks /\ ClockLeq(k.clock, i)
  BY <1>1, ClockOrder
<1>3. m \in Clocks /\ ClockLeq(j, m)
  <2> HIDE DEF j
  <2> QED BY <1>2, ClockOrder
<1>4. ValidateLoad(k, t, "Acquire", c) = [k EXCEPT !.clock = m]
  BY DEF ValidateLoad, LoadAcquire, Tick, ClockSets
<1>5. Tick(k, t) = [k EXCEPT !.clock = i] /\ FutexWoken(k, c) = [k EXCEPT !.clock = j]
  BY DEF Tick, FutexWoken
<1> HIDE DEF j, i, m
<1>6. ClockLeq(k.clock, m)
  BY <1>1, <1>2, <1>3, ClockOrder
<1>7. \A x \in Clocks : [k EXCEPT !.clock = x] \in ClockSets /\ [k EXCEPT !.clock = x].clock = x
  BY DEF ClockSets
<1> QED BY <1>2, <1>3, <1>4, <1>5, <1>6, <1>7

(* A store is the last of the buffer, whether an old one had to go or not. *)
LEMMA PushPlaces ==
    ASSUME NEW b \in Seq(Element0), Len(b) \in 1 .. StoreBufferLimit, NEW e \in Element0
    PROVE  LET p == Append(Kept(b), e) IN
           p \in Seq(Element0) /\ Len(p) \in 1 .. StoreBufferLimit /\ p[Len(p)] = e
<1> DEFINE q == Kept(b)
<1>1. b # <<>> /\ StoreBufferLimit \in Nat \ {0}
  BY StoreBufferAssumption
<1>2. q \in Seq(Element0) /\ Len(q) \in 0 .. StoreBufferLimit - 1
  <2>1. CASE Len(b) >= StoreBufferLimit
    <3>1. Tail(b) \in Seq(Element0) /\ Len(Tail(b)) = Len(b) - 1
      BY <1>1
    <3> QED BY <3>1, <2>1, <1>1 DEF Kept
  <2>2. CASE ~(Len(b) >= StoreBufferLimit)
    BY <2>2, <1>1 DEF Kept
  <2> QED BY <2>1, <2>2
<1> HIDE DEF q
<1>3. Append(q, e) \in Seq(Element0) /\ Len(Append(q, e)) = Len(q) + 1 /\ Append(q, e)[Len(q) + 1] = e
  BY <1>2
<1> QED BY <1>1, <1>2, <1>3 DEF q

(* A load only records that it happened. *)
LEMMA LoadPlaces ==
    ASSUME NEW b \in Seq(Element0), NEW i \in 1 .. Len(b), NEW t \in Thread, NEW k \in ClockSets
    PROVE  LET p == LoadImpl(b, i, t, k, FALSE) IN
           /\ p \in Seq(Element0) /\ Len(p) = Len(b)
           /\ \A j \in 1 .. Len(b) : /\ p[j].store_thread = b[j].store_thread
                                     /\ p[j].store_timestamp = b[j].store_timestamp
                                     /\ p[j].val = b[j].val
<1> DEFINE x == IF b[i].loads[t] = 0 THEN k.clock[t] ELSE b[i].loads[t]
           e == [b[i] EXCEPT !.sc_loaded = b[i].sc_loaded \/ FALSE, !.loads = [b[i].loads EXCEPT ![t] = x]]
<1>1. b[i] \in Element0 /\ Len(b) \in Nat
  OBVIOUS
<1>2. x \in Nat
  BY <1>1 DEF Element0, ClockSets, Clocks
<1>3. [b[i].loads EXCEPT ![t] = x] \in Clocks
  BY <1>1, <1>2 DEF Element0, Clocks
<1>4. LoadImpl(b, i, t, k, FALSE) = [b EXCEPT ![i] = e]
  BY <1>1 DEF LoadImpl, Element0
<1> HIDE DEF x
<1>5. /\ e \in Element0 /\ e.store_thread = b[i].store_thread
      /\ e.store_timestamp = b[i].store_timestamp /\ e.val = b[i].val
  BY <1>1, <1>3 DEF Element0
<1> HIDE DEF e
<1>6. /\ [b EXCEPT ![i] = e] \in Seq(Element0) /\ Len([b EXCEPT ![i] = e]) = Len(b)
      /\ \A j \in 1 .. Len(b) : [b EXCEPT ![i] = e][j] = IF j = i THEN e ELSE b[j]
  BY <1>1, <1>5
<1> QED BY <1>4, <1>5, <1>6

-----------------------------------------------------------------------------

(* Whoever is blocked is in a call, and its operands are known. *)
CallsKnown == \A t \in Thread : futex_state[t] = "Futex" => waits[t] \in [val : Value, param : Param]

(* The newest store: its timestamp is one its thread has reached, and      *)
(* where the waking side fences before it looks at the queue, the storer   *)
(* still owes a wake or has published the store to every later fence.      *)
NewestFenced ==
    LET e == word[Len(word)] IN
    /\ e.store_timestamp <= clocks[e.store_thread].clock[e.store_thread]
    /\ flavour # "macos" => owes[e.store_thread] \/ e.store_timestamp <= last_sc_fence[e.store_thread]

FutexInv == FutexTypeOK /\ QueueInPlace /\ WaitersAgree /\ FutexNoLostWakeup /\ CallsKnown /\ NewestFenced

LEMMA QueueAsSets ==
    QueueInPlace <=> /\ futex_halt # "panic" /\ Distinct(futex_waiters)
                     /\ \A t \in Thread : futex_state[t] = "Futex" <=> t \in Sleeping(futex_waiters)
  BY DEF QueueInPlace, Distinct, Sleeping

LEMMA QueueAsSetsNext ==
    QueueInPlace' <=> /\ futex_halt' # "panic" /\ Distinct(futex_waiters')
                      /\ \A t \in Thread : futex_state'[t] = "Futex" <=> t \in Sleeping(futex_waiters')
  BY DEF QueueInPlace, Distinct, Sleeping

(* The type invariant, split into the places the proofs need. *)
LEMMA Shape ==
    ASSUME FutexTypeOK
    PROVE  /\ word \in Seq(Element0) /\ Len(word) \in 1 .. StoreBufferLimit /\ word[Len(word)] \in Element0
           /\ \A t \in Thread : clocks[t] \in ClockSets /\ clocks[t].clock \in Clocks
           /\ futex_waiters \in Queues /\ last_sc_fence \in Clocks
<1>1. word \in Seq(Element0) /\ Len(word) \in 1 .. StoreBufferLimit /\ futex_waiters \in Queues /\ last_sc_fence \in Clocks
  BY DEF FutexTypeOK, Element0, Queues
<1>2. Len(word) \in 1 .. Len(word)
  BY <1>1, StoreBufferAssumption
<1>3. word[Len(word)] \in Element0
  BY <1>1, <1>2
<1>4. \A t \in Thread : clocks[t] \in ClockSets
  BY DEF FutexTypeOK
<1>5. \A k \in ClockSets : k.clock \in Clocks
  BY DEF ClockSets
<1> QED BY <1>1, <1>3, <1>4, <1>5

LEMMA InitHolds == FutexInit => FutexInv
<1> SUFFICES ASSUME FutexInit PROVE FutexInv
  OBVIOUS
<1> DEFINE e == Element(0, 0, ZeroClock, FALSE, 0)
<1>1. 0 \in Thread /\ 0 \in Value /\ StoreBufferLimit \in Nat \ {0}
  BY StoreBufferAssumption, FutexAssumption
<1>2. ZeroClock \in Clocks /\ \A t \in Thread : ClockIncrement(ZeroClock, t) \in Clocks
  BY DEF ZeroClock, Clocks, ClockIncrement
<1>3. e \in Element0 /\ e.store_thread = 0 /\ e.store_timestamp = 0
  BY <1>1, <1>2 DEF Element, Element0
<1>4. word = <<e>>
  BY DEF FutexInit, NewBuffer
<1> HIDE DEF e
<1>5. word \in Seq(Element0) /\ Len(word) = 1 /\ word[Len(word)] = e
  BY <1>3, <1>4
<1>6. Len(word) \in 1 .. StoreBufferLimit
  BY <1>1, <1>5
<1>7. clocks \in [Thread -> ClockSets]
  BY <1>2 DEF FutexInit, NewClockSet, ClockSets
<1>8. params \in Param
  <2>1. (CHOOSE p \in Param : TRUE) \in Param
    BY FutexAssumption, Zenon
  <2> QED BY <2>1 DEF FutexInit, Params
<1>9. FutexTypeOK
  BY <1>2, <1>5, <1>6, <1>7, <1>8 DEF FutexInit, FutexTypeOK, Element0
<1>10. futex_waiters = <<>> /\ futex_halt = "no" /\ \A t \in Thread : futex_state[t] = "Enabled"
  BY DEF FutexInit
<1>11. QueueInPlace
  BY <1>10 DEF QueueInPlace
<1>12. WaitersAgree /\ FutexNoLostWakeup /\ CallsKnown
  BY <1>10 DEF WaitersAgree, FutexNoLostWakeup, SleepersWillHear, CallsKnown
<1>13. NewestFenced
  <2>1. last_sc_fence[0] = 0
    BY <1>1 DEF FutexInit, ZeroClock
  <2>2. clocks[0].clock[0] \in Nat
    BY <1>1, <1>7 DEF ClockSets, Clocks
  <2> QED BY <1>3, <1>5, <2>1, <2>2 DEF NewestFenced
<1> QED BY <1>9, <1>11, <1>12, <1>13 DEF FutexInv

-----------------------------------------------------------------------------

(* A store: the storer owes the wake from now on. *)
LEMMA StoreWordKeeps ==
    ASSUME FutexInv, NEW t \in Thread, NEW v \in Value, StoreWord(t, v)
    PROVE  FutexInv'
<1> DEFINE k == Tick(clocks[t], t)
           e == Element(t, k.clock[t], StoreSync(clocks[t], "Relaxed"), FALSE, v)
<1>1. /\ word \in Seq(Element0) /\ Len(word) \in 1 .. StoreBufferLimit
      /\ clocks[t] \in ClockSets /\ clocks[t].clock \in Clocks /\ FutexTypeOK
  BY Shape DEF FutexInv
<1>2. k \in ClockSets
  BY <1>1, ClockSetsGrow
<1>3. word' = Append(Kept(word), e)
  BY DEF StoreWord, StoreImpl
<1>4. /\ clocks' = [clocks EXCEPT ![t] = k] /\ owes' = [owes EXCEPT ![t] = TRUE]
      /\ UNCHANGED <<flavour, last_sc_fence, queueVars, futex_halt>>
  BY DEF StoreWord
<1> HIDE DEF k
<1>5. k.clock \in Clocks /\ k.clock[t] \in Nat
  BY <1>2 DEF ClockSets, Clocks
<1>6. StoreSync(clocks[t], "Relaxed") \in Clocks
  BY <1>1 DEF StoreSync, ClockSets
<1>7. ZeroClock \in Clocks
  BY DEF ZeroClock, Clocks
<1>8. e \in Element0 /\ e.store_thread = t /\ e.store_timestamp = k.clock[t]
  BY <1>5, <1>6, <1>7 DEF Element, Element0
<1> HIDE DEF e
<1>9. word' \in Seq(Element0) /\ Len(word') \in 1 .. StoreBufferLimit /\ word'[Len(word')] = e
  BY <1>1, <1>3, <1>8, PushPlaces
<1>10. clocks'[t] = k /\ clocks' \in [Thread -> ClockSets] /\ owes'[t] = TRUE /\ owes' \in [Thread -> BOOLEAN]
  BY <1>1, <1>2, <1>4 DEF FutexTypeOK
<1>11. /\ flavour' = flavour /\ last_sc_fence' = last_sc_fence /\ futex_halt' = futex_halt
       /\ futex_waiters' = futex_waiters /\ futex_clock' = futex_clock /\ params' = params
       /\ futex_state' = futex_state /\ futex_timed' = futex_timed /\ waits' = waits
  BY <1>4 DEF queueVars
<1>12. FutexTypeOK'
  BY <1>1, <1>9, <1>10, <1>11 DEF FutexTypeOK, Element0
<1>13. QueueInPlace' /\ WaitersAgree' /\ CallsKnown'
  BY <1>11 DEF FutexInv, QueueInPlace, WaitersAgree, CallsKnown
<1>14. FutexNoLostWakeup'
  BY <1>10 DEF FutexNoLostWakeup, SleepersWillHear
<1>15. NewestFenced'
  <2>1. word'[Len(word')].store_timestamp = k.clock[t] /\ word'[Len(word')].store_thread = t
    BY <1>8, <1>9
  <2> QED BY <1>5, <1>10, <2>1 DEF NewestFenced
<1> QED BY <1>12, <1>13, <1>14, <1>15 DEF FutexInv

LEMMA Operands ==
    /\ \A p \in Params : p \in Param
    /\ \A b \in Bitsets : b \in (SUBSET Bit) \ {{}}
    /\ Bit \in (SUBSET Bit) \ {{}}
<1>1. (CHOOSE p \in Param : TRUE) \in Param
  BY FutexAssumption, Zenon
<1>2. Bit \in (SUBSET Bit) \ {{}}
  BY FutexAssumption
<1> QED BY <1>1, <1>2 DEF Params, Bitsets

(* A wait: the fence makes the load return the newest value unless its     *)
(* storer has yet to call wake; who blocks joins the end of the queue.     *)
LEMMA FutexWaitKeeps ==
    ASSUME FutexInv, NEW t \in Thread, NEW v \in Value, NEW bitset \in (SUBSET Bit) \ {{}}, NEW p \in Param,
           NEW timeout \in BOOLEAN, FutexWait(t, v, bitset, p, timeout)
    PROVE  FutexInv'
<1> DEFINE k == WaitFenced(t)
           w == [thread |-> t, bitset |-> bitset]
           Blocks(i) == ~(word[i].val # v \/ Mismatch(p))
<1>1. /\ word \in Seq(Element0) /\ Len(word) \in 1 .. StoreBufferLimit /\ word[Len(word)] \in Element0
      /\ clocks[t] \in ClockSets /\ clocks[t].clock \in Clocks
      /\ futex_waiters \in Queues /\ last_sc_fence \in Clocks /\ FutexTypeOK
  BY Shape DEF FutexInv
<1>2. /\ k \in ClockSets /\ ClockLeq(clocks[t].clock, k.clock) /\ ClockLeq(last_sc_fence, k.clock)
      /\ FenceGlobal(clocks[t], "SeqCst", last_sc_fence) \in Clocks
      /\ ClockLeq(last_sc_fence, FenceGlobal(clocks[t], "SeqCst", last_sc_fence))
  BY <1>1, FenceEffect DEF WaitFenced, ScFenced
<1>3. PICK i \in Candidates(word, k, FALSE) :
        LET k2 == ValidateLoad(k, t, "Acquire", word[i].sync_clock) IN
        /\ clocks' = [clocks EXCEPT ![t] = k2]
        /\ word' = LoadImpl(word, i, t, k2, FALSE)
        /\ params' = IF flavour = "macos" /\ futex_waiters = <<>> THEN p ELSE params
        /\ IF word[i].val # v \/ Mismatch(p)
           THEN UNCHANGED <<futex_waiters, futex_state, futex_timed, waits, futex_halt>>
           ELSE /\ futex_waiters' = Append(futex_waiters, [thread |-> t, bitset |-> bitset])
                /\ futex_state' = [futex_state EXCEPT ![t] = "Futex"]
                /\ futex_timed' = [futex_timed EXCEPT ![t] = timeout]
                /\ waits' = [waits EXCEPT ![t] = [val |-> v, param |-> p]]
                /\ futex_halt' = IF \E j \in 1 .. Len(futex_waiters) : futex_waiters[j].thread = t
                                 THEN "panic" ELSE futex_halt
  BY DEF FutexWait
<1>4. /\ futex_state[t] = "Enabled" /\ futex_halt = "no" /\ flavour' = flavour /\ futex_clock' = futex_clock /\ owes' = owes
      /\ last_sc_fence' = FenceGlobal(clocks[t], "SeqCst", last_sc_fence)
  BY DEF FutexWait, FutexRunning
<1> DEFINE k2 == ValidateLoad(k, t, "Acquire", word[i].sync_clock)
           g == FenceGlobal(clocks[t], "SeqCst", last_sc_fence)
           e == word[Len(word)]
           n == word'[Len(word')]
<1>5. i \in 1 .. Len(word) /\ \A j \in i + 1 .. Len(word) : KeepSearching(word[j], k, FALSE)
  BY DEF Candidates
<1> HIDE DEF k
<1>6. word[i] \in Element0 /\ word[i].sync_clock \in Clocks /\ k.clock \in Clocks
  <2>1. word[i] \in Element0
    BY <1>1, <1>5
  <2>2. word[i].sync_clock \in Clocks
    BY <2>1 DEF Element0
  <2>3. k.clock \in Clocks
    BY <1>2 DEF ClockSets
  <2> QED BY <2>1, <2>2, <2>3
<1>7. k2 \in ClockSets /\ ClockLeq(k.clock, k2.clock)
  BY <1>2, <1>6, ClockSetsGrow
<1>8. clocks' = [clocks EXCEPT ![t] = k2] /\ word' = LoadImpl(word, i, t, k2, FALSE)
  BY <1>3
<1> HIDE DEF k2, g
<1>9. k2.clock \in Clocks /\ ClockLeq(clocks[t].clock, k2.clock) /\ g \in Clocks /\ ClockLeq(last_sc_fence, g) /\ last_sc_fence' = g
  <2>1. k2.clock \in Clocks
    BY <1>7 DEF ClockSets
  <2> QED BY <2>1, <1>1, <1>2, <1>4, <1>6, <1>7, ClockOrder, ZenonT(60) DEF g
<1>10. /\ word' \in Seq(Element0) /\ Len(word') = Len(word)
       /\ \A j \in 1 .. Len(word) : /\ word'[j].store_thread = word[j].store_thread
                                    /\ word'[j].store_timestamp = word[j].store_timestamp
                                    /\ word'[j].val = word[j].val
  <2>1. word \in Seq(Element0) /\ i \in 1 .. Len(word) /\ k2 \in ClockSets
    BY <1>1, <1>5, <1>7
  <2> DEFINE r == LoadImpl(word, i, t, k2, FALSE)
  <2>2. /\ r \in Seq(Element0) /\ Len(r) = Len(word)
        /\ \A j \in 1 .. Len(word) : /\ r[j].store_thread = word[j].store_thread
                                     /\ r[j].store_timestamp = word[j].store_timestamp
                                     /\ r[j].val = word[j].val
    BY <2>1, LoadPlaces, ZenonT(60)
  <2>3. word' = r
    BY <1>8
  <2> HIDE DEF r
  <2> QED BY <2>2, <2>3
<1>11. n.store_thread = e.store_thread /\ n.store_timestamp = e.store_timestamp /\ n.val = e.val
  <2>1. Len(word) \in 1 .. Len(word)
    BY <1>1
  <2> QED BY <2>1, <1>10
<1>12. e \in Element0 /\ e.store_thread \in Thread /\ e.store_timestamp \in Nat
  BY <1>1 DEF Element0
<1> HIDE DEF e, n
<1>13. clocks' \in [Thread -> ClockSets]
  BY <1>7, <1>8 DEF FutexInv, FutexTypeOK
<1>14. params' \in Param
  BY <1>1, <1>3 DEF FutexTypeOK
<1>15. NewestFenced'
  <2>1. /\ e.store_timestamp <= clocks[e.store_thread].clock[e.store_thread]
        /\ flavour # "macos" => owes[e.store_thread] \/ e.store_timestamp <= last_sc_fence[e.store_thread]
    BY DEF FutexInv, NewestFenced, e
  <2>2. e.store_timestamp <= clocks'[e.store_thread].clock[e.store_thread]
    <3>1. CASE e.store_thread = t
      <4>1. clocks'[t] = k2
        BY <1>1, <1>8 DEF FutexTypeOK
      <4> QED BY <4>1, <3>1, <2>1, <1>1, <1>9, <1>12, EntryOrder
    <3>2. CASE e.store_thread # t
      BY <3>2, <2>1, <1>1, <1>8, <1>12 DEF FutexTypeOK
    <3> QED BY <3>1, <3>2
  <2>3. e.store_timestamp <= last_sc_fence[e.store_thread] => e.store_timestamp <= g[e.store_thread]
    BY <1>1, <1>9, <1>12, EntryOrder
  <2> QED BY <2>1, <2>2, <2>3, <1>4, <1>9, <1>11 DEF NewestFenced, n
<1>16. CASE ~Blocks(i)
  <2>1. UNCHANGED <<futex_waiters, futex_state, futex_timed, waits, futex_halt>>
    BY <1>3, <1>16
  <2>2. FutexTypeOK'
    BY <2>1, <1>1, <1>4, <1>9, <1>10, <1>13, <1>14 DEF FutexTypeOK, Element0
  <2>3. QueueInPlace' /\ CallsKnown'
    BY <2>1 DEF FutexInv, QueueInPlace, CallsKnown
  <2>4. FutexNoLostWakeup'
    BY <2>1, <1>4, <1>11 DEF FutexInv, FutexNoLostWakeup, SleepersWillHear, e, n
  <2>5. WaitersAgree'
    <3> SUFFICES ASSUME flavour = "macos", NEW u \in Thread, futex_state[u] = "Futex" PROVE waits[u].param = params'
      BY <2>1, <1>4 DEF WaitersAgree
    <3>1. futex_waiters # <<>>
      BY DEF FutexInv, QueueInPlace
    <3> QED BY <3>1, <1>3 DEF FutexInv, WaitersAgree
  <2> QED BY <2>2, <2>3, <2>4, <2>5, <1>15 DEF FutexInv
<1>17. CASE Blocks(i)
  <2>1. /\ futex_waiters' = Append(futex_waiters, w) /\ futex_state' = [futex_state EXCEPT ![t] = "Futex"]
        /\ futex_timed' = [futex_timed EXCEPT ![t] = timeout] /\ waits' = [waits EXCEPT ![t] = [val |-> v, param |-> p]]
        /\ futex_halt' = IF \E j \in 1 .. Len(futex_waiters) : futex_waiters[j].thread = t THEN "panic" ELSE futex_halt
    BY <1>3, <1>17
  <2>2. word[i].val = v /\ ~Mismatch(p)
    BY <1>17
  <2>3. ~\E j \in 1 .. Len(futex_waiters) : futex_waiters[j].thread = t
    BY <1>4 DEF FutexInv, QueueInPlace
  <2>4. futex_halt' = "no"
    BY <2>1, <2>3, <1>4
  <2>5. w \in Waiter /\ w.thread = t
    BY DEF Waiter
  <2> HIDE DEF w
  <2>6. /\ futex_waiters' \in Seq(Waiter) /\ Len(futex_waiters') = Len(futex_waiters) + 1
        /\ \A j \in 1 .. Len(futex_waiters) : futex_waiters'[j] = futex_waiters[j]
        /\ futex_waiters'[Len(futex_waiters) + 1] = w
    BY <2>1, <2>5, <1>1 DEF Queues
  <2>7. /\ futex_state' \in [Thread -> {"Enabled", "Futex"}] /\ futex_timed' \in [Thread -> BOOLEAN]
        /\ waits' \in [Thread -> [val : Value, param : Param] \cup {NoCall}]
    BY <2>1, <1>1 DEF FutexTypeOK
  <2>8. /\ futex_state'[t] = "Futex" /\ waits'[t] = [val |-> v, param |-> p]
        /\ \A u \in Thread \ {t} : futex_state'[u] = futex_state[u] /\ waits'[u] = waits[u]
    BY <2>1, <1>1 DEF FutexTypeOK
  <2>9. FutexTypeOK'
    BY <2>4, <2>6, <2>7, <1>1, <1>4, <1>9, <1>10, <1>13, <1>14 DEF FutexTypeOK, Element0
  <2>10. CallsKnown'
    BY <2>8 DEF FutexInv, CallsKnown
  <2>11. QueueInPlace'
    <3>1. Len(futex_waiters) \in Nat
      BY <1>1 DEF Queues
    <3>2. \A j \in 1 .. Len(futex_waiters') : j \in 1 .. Len(futex_waiters) \/ j = Len(futex_waiters) + 1
      BY <3>1, <2>6
    <3>3. \A j \in 1 .. Len(futex_waiters) : j \in 1 .. Len(futex_waiters')
      BY <3>1, <2>6
    <3>4. Len(futex_waiters) + 1 \in 1 .. Len(futex_waiters')
      BY <3>1, <2>6
    <3>5. \A a, b \in 1 .. Len(futex_waiters') : futex_waiters'[a].thread = futex_waiters'[b].thread => a = b
      BY <3>2, <2>3, <2>5, <2>6 DEF FutexInv, QueueInPlace
    <3>6. \A u \in Thread : futex_state'[u] = "Futex" <=> \E j \in 1 .. Len(futex_waiters') : futex_waiters'[j].thread = u
      <4> SUFFICES ASSUME NEW u \in Thread
                   PROVE  futex_state'[u] = "Futex" <=> \E j \in 1 .. Len(futex_waiters') : futex_waiters'[j].thread = u
        OBVIOUS
      <4>1. CASE u = t
        BY <4>1, <3>4, <2>5, <2>6, <2>8
      <4>2. CASE u # t
        BY <4>2, <3>2, <3>3, <2>5, <2>6, <2>8 DEF FutexInv, QueueInPlace
      <4> QED BY <4>1, <4>2
    <3> QED BY <3>5, <3>6, <2>4 DEF QueueInPlace
  <2>12. WaitersAgree'
    <3> SUFFICES ASSUME flavour = "macos", NEW u \in Thread, futex_state'[u] = "Futex" PROVE waits'[u].param = params'
      BY <1>4 DEF WaitersAgree
    <3>1. params' = p
      BY <2>2, <1>3 DEF Mismatch
    <3>2. CASE u = t
      BY <3>1, <3>2, <2>8
    <3>3. CASE u # t
      <4>1. futex_state[u] = "Futex" /\ waits'[u] = waits[u] /\ waits[u].param = params
        BY <3>3, <2>8 DEF FutexInv, WaitersAgree
      <4>2. futex_waiters # <<>>
        BY <4>1 DEF FutexInv, QueueInPlace
      <4> QED BY <4>1, <4>2, <1>3
    <3> QED BY <3>2, <3>3
  <2>13. FutexNoLostWakeup'
    <3> SUFFICES ASSUME flavour # "macos", NEW u \in Thread, futex_state'[u] = "Futex", ~\E x \in Thread : owes[x]
                 PROVE  waits'[u].val = n.val
      BY <1>4 DEF FutexNoLostWakeup, SleepersWillHear, n
    <3>1. CASE u # t
      BY <3>1, <2>8, <1>11 DEF FutexInv, FutexNoLostWakeup, SleepersWillHear, e
    <3>2. CASE u = t
      <4>1. e.store_timestamp <= last_sc_fence[e.store_thread]
        BY <1>12 DEF FutexInv, NewestFenced, e
      <4>2. e.store_timestamp <= k.clock[e.store_thread]
        BY <4>1, <1>1, <1>2, <1>6, <1>12, EntryOrder
      <4>3. ~KeepSearching(e, k, FALSE)
        BY <4>2 DEF KeepSearching
      <4>4. ~(Len(word) \in i + 1 .. Len(word))
        BY <4>3, <1>5 DEF e
      <4>5. i = Len(word)
        BY <4>4, <1>1, <1>5
      <4> QED BY <4>5, <3>2, <2>2, <2>8, <1>11 DEF e
    <3> QED BY <3>1, <3>2
  <2> QED BY <2>9, <2>10, <2>11, <2>12, <2>13, <1>15 DEF FutexInv
<1> QED BY <1>16, <1>17

-----------------------------------------------------------------------------

(* Taking threads out of the queue and unblocking exactly these keeps the  *)
(* queue, the states and the parameters in step; nobody else moves.        *)
LEMMA TakenOut ==
    ASSUME FutexInv, NEW S \in SUBSET Sleeping(futex_waiters),
           futex_waiters' = Left(futex_waiters, S),
           futex_state' = [u \in Thread |-> IF u \in S THEN "Enabled" ELSE futex_state[u]],
           waits' = [u \in Thread |-> IF u \in S THEN NoCall ELSE waits[u]],
           UNCHANGED <<flavour, params, futex_halt>>
    PROVE  /\ futex_waiters' \in Queues /\ futex_state' \in [Thread -> {"Enabled", "Futex"}]
           /\ waits' \in [Thread -> [val : Value, param : Param] \cup {NoCall}]
           /\ \A u \in Thread : futex_state'[u] = "Futex" => u \notin S /\ futex_state[u] = "Futex" /\ waits'[u] = waits[u]
           /\ QueueInPlace' /\ WaitersAgree' /\ CallsKnown'
<1>1. futex_waiters \in Queues /\ FutexTypeOK
  BY Shape DEF FutexInv
<1>2. /\ futex_waiters' \in Queues
      /\ Sleeping(futex_waiters') = Sleeping(futex_waiters) \ S
      /\ Distinct(futex_waiters) => Distinct(futex_waiters')
  BY <1>1, LeftPlaces
<1>3. /\ futex_halt # "panic" /\ Distinct(futex_waiters)
      /\ \A u \in Thread : futex_state[u] = "Futex" <=> u \in Sleeping(futex_waiters)
  BY QueueAsSets DEF FutexInv
<1>4. /\ futex_state' \in [Thread -> {"Enabled", "Futex"}]
      /\ waits' \in [Thread -> [val : Value, param : Param] \cup {NoCall}]
  BY <1>1 DEF FutexTypeOK
<1>5. \A u \in Thread : futex_state'[u] = "Futex" <=> u \notin S /\ futex_state[u] = "Futex"
  OBVIOUS
<1>6. \A u \in Thread : u \notin S => waits'[u] = waits[u]
  OBVIOUS
<1>7. \A u \in Thread : futex_state'[u] = "Futex" <=> u \in Sleeping(futex_waiters')
  BY <1>2, <1>3, <1>5
<1>8. QueueInPlace'
  BY <1>2, <1>3, <1>7, QueueAsSetsNext
<1>9. WaitersAgree' /\ CallsKnown'
  BY <1>5, <1>6 DEF FutexInv, WaitersAgree, CallsKnown
<1> QED BY <1>2, <1>4, <1>5, <1>6, <1>8, <1>9

(* Time-outs. *)
LEMMA TimedOutKeeps ==
    ASSUME FutexInv, NEW S \in SUBSET Thread, FutexTimedOut(S)
    PROVE  FutexInv'
<1>1. S \in SUBSET Sleeping(futex_waiters)
  <2>1. \A u \in Thread : futex_state[u] = "Futex" <=> u \in Sleeping(futex_waiters)
    BY QueueAsSets DEF FutexInv
  <2> QED BY <2>1 DEF FutexTimedOut
<1>2. /\ flavour' = flavour /\ word' = word /\ clocks' = clocks /\ last_sc_fence' = last_sc_fence
      /\ futex_clock' = futex_clock /\ params' = params /\ owes' = owes /\ futex_halt' = futex_halt
  BY DEF FutexTimedOut, memVars
<1>3. /\ futex_waiters' \in Queues /\ futex_state' \in [Thread -> {"Enabled", "Futex"}]
      /\ waits' \in [Thread -> [val : Value, param : Param] \cup {NoCall}]
      /\ \A u \in Thread : futex_state'[u] = "Futex" => futex_state[u] = "Futex" /\ waits'[u] = waits[u]
      /\ QueueInPlace' /\ WaitersAgree' /\ CallsKnown'
  BY <1>1, <1>2, TakenOut DEF FutexTimedOut
<1>4. futex_timed' \in [Thread -> BOOLEAN]
  BY DEF FutexTimedOut
<1>5. FutexTypeOK'
  BY <1>2, <1>3, <1>4 DEF FutexInv, FutexTypeOK, Queues
<1>6. FutexNoLostWakeup' /\ NewestFenced'
  BY <1>2, <1>3 DEF FutexInv, FutexNoLostWakeup, SleepersWillHear, NewestFenced
<1> QED BY <1>3, <1>5, <1>6 DEF FutexInv

(* extract_if takes out waiters only. *)
LEMMA ExtractedWait ==
    ASSUME NEW bitset, NEW count
    PROVE  Extracted(bitset, count) \in SUBSET Sleeping(futex_waiters)
  BY DEF Extracted, Sleeping

(* A wake for every bit and as many threads as there are takes out all:    *)
(* with no thread twice in the queue, the count never runs out.            *)
LEMMA ExtractedAll ==
    ASSUME FutexInv
    PROVE  Extracted(Bit, Cardinality(Thread)) = Sleeping(futex_waiters)
<1> DEFINE ws == futex_waiters
           f == [i \in 1 .. Len(ws) |-> ws[i].thread]
<1>1. ws \in Seq(Waiter) /\ Len(ws) \in Nat /\ \A i \in 1 .. Len(ws) : ws[i] \in Waiter
  BY Shape DEF FutexInv, Queues
<1>2. Distinct(ws)
  BY QueueAsSets DEF FutexInv
<1>3. f \in Injection(1 .. Len(ws), Thread)
  BY <1>1, <1>2 DEF Injection, IsInjective, Distinct, Waiter
<1>4. IsFiniteSet(Thread) /\ Cardinality(Thread) \in Nat
  BY FutexAssumption, FS_CardinalityType
<1>5. IsFiniteSet(1 .. Len(ws)) /\ Cardinality(1 .. Len(ws)) = Len(ws)
  <2>1. \A n \in Nat : IsFiniteSet(1 .. n) /\ Cardinality(1 .. n) = n
    <3> SUFFICES ASSUME NEW n \in Nat PROVE IsFiniteSet(1 .. n) /\ Cardinality(1 .. n) = n
      OBVIOUS
    <3>1. Cardinality(1 .. n) = IF 1 > n THEN 0 ELSE n - 1 + 1
      BY FS_Interval
    <3> QED BY <3>1, FS_Interval
  <2> QED BY <2>1, <1>1
<1>6. Len(ws) <= Cardinality(Thread)
  <2> HIDE DEF f
  <2> QED BY <1>3, <1>4, <1>5, FS_Injection
<1>7. ASSUME NEW i \in 1 .. Len(ws)
      PROVE  Matches(i, Bit) /\ Cardinality({j \in 1 .. i - 1 : Matches(j, Bit)}) < Cardinality(Thread)
  <2>1. Matches(i, Bit)
    BY <1>1 DEF Matches, Waiter
  <2>2. IsFiniteSet(1 .. i - 1) /\ Cardinality(1 .. i - 1) = i - 1
    <3> DEFINE m == i - 1
    <3>1. m \in Nat
      BY <1>1
    <3> HIDE DEF m
    <3>2. IsFiniteSet(1 .. m) /\ Cardinality(1 .. m) = m
      BY <3>1, FS_Interval
    <3> QED BY <3>2 DEF m
  <2>3. {j \in 1 .. i - 1 : Matches(j, Bit)} \in SUBSET (1 .. i - 1)
    OBVIOUS
  <2>4. /\ IsFiniteSet({j \in 1 .. i - 1 : Matches(j, Bit)})
        /\ Cardinality({j \in 1 .. i - 1 : Matches(j, Bit)}) <= i - 1
    BY <2>2, <2>3, FS_Subset
  <2>5. Cardinality({j \in 1 .. i - 1 : Matches(j, Bit)}) \in Nat
    BY <2>4, FS_CardinalityType
  <2> QED BY <2>1, <2>4, <2>5, <1>1, <1>4, <1>6
<1> QED BY <1>7 DEF Extracted, Sleeping

(* futex_wake, as both sides of a shim see it: the waker's stores are now  *)
(* known to every later fence, and who wakes knows what the waker knew.    *)
LEMMA FutexWakeKeeps ==
    ASSUME FutexInv, NEW t \in Thread, NEW bitset, NEW count, futex_state[t] = "Enabled",
           FutexWake(t, ScFenced(t), bitset, count), last_sc_fence' = WakeFenced(t),
           UNCHANGED <<flavour, word, params>>,
           owes' \in [Thread -> BOOLEAN], \A u \in Thread \ {t} : owes'[u] = owes[u]
    PROVE  /\ FutexTypeOK' /\ QueueInPlace' /\ WaitersAgree' /\ CallsKnown' /\ NewestFenced'
           /\ \A u \in Thread : futex_state'[u] = "Futex" =>
                 u \notin Extracted(bitset, count) /\ futex_state[u] = "Futex" /\ waits'[u] = waits[u]
           /\ \A u \in Thread : futex_state[u] = "Futex" /\ futex_state'[u] = "Enabled"
                 => u # t /\ ClockLeq(clocks[t].clock, clocks'[u].clock)
<1> DEFINE S == Extracted(bitset, count)
           k == ScFenced(t)
           g == WakeFenced(t)
           kt == Tick(k, t)
           Wk(u) == FutexWoken(clocks[u], k.clock)
<1>1. /\ word \in Seq(Element0) /\ Len(word) \in 1 .. StoreBufferLimit /\ word[Len(word)] \in Element0
      /\ \A u \in Thread : clocks[u] \in ClockSets /\ clocks[u].clock \in Clocks
      /\ last_sc_fence \in Clocks /\ FutexTypeOK
  BY Shape DEF FutexInv
<1>2. S \in SUBSET Sleeping(futex_waiters)
  BY ExtractedWait
<1>3. \A u \in Thread : futex_state[u] = "Futex" <=> u \in Sleeping(futex_waiters)
  BY QueueAsSets DEF FutexInv
<1>4. /\ k \in ClockSets /\ ClockLeq(clocks[t].clock, k.clock)
      /\ g \in Clocks /\ ClockLeq(last_sc_fence, g) /\ ClockLeq(clocks[t].clock, g)
  BY <1>1, FenceEffect DEF ScFenced, WakeFenced
<1>5. k.clock \in Clocks
  BY <1>4 DEF ClockSets
<1>6. /\ futex_clock' = k.clock /\ futex_waiters' = Left(futex_waiters, S)
      /\ futex_state' = [u \in Thread |-> IF u \in S THEN "Enabled" ELSE futex_state[u]]
      /\ futex_timed' = [u \in Thread |-> IF u \in S THEN FALSE ELSE futex_timed[u]]
      /\ waits' = [u \in Thread |-> IF u \in S THEN NoCall ELSE waits[u]]
      /\ clocks' = [u \in Thread |-> IF u = t THEN kt ELSE IF u \in S THEN Wk(u) ELSE clocks[u]]
      /\ futex_halt' = IF \A u \in S : futex_state[u] = "Futex" THEN futex_halt ELSE "panic"
  BY DEF FutexWake
<1>7. \A u \in S : u \in Thread /\ futex_state[u] = "Futex"
  <2>1. Sleeping(futex_waiters) \subseteq Thread
    <3>1. \A i \in 1 .. Len(futex_waiters) : futex_waiters[i] \in Waiter
      BY Shape DEF FutexInv, Queues
    <3> QED BY <3>1 DEF Sleeping, Waiter
  <2> QED BY <2>1, <1>2, <1>3
<1>8. kt \in ClockSets /\ ClockLeq(k.clock, kt.clock)
  BY <1>4, <1>5, ClockSetsGrow
<1>9. \A u \in Thread : Wk(u) \in ClockSets /\ ClockLeq(clocks[u].clock, Wk(u).clock) /\ ClockLeq(k.clock, Wk(u).clock)
  BY <1>1, <1>5, ClockSetsGrow
<1> HIDE DEF S, k, g, kt, Wk
<1>10. futex_halt' = futex_halt /\ t \notin S
  BY <1>6, <1>7
<1>11. /\ futex_waiters' \in Queues /\ futex_state' \in [Thread -> {"Enabled", "Futex"}]
       /\ waits' \in [Thread -> [val : Value, param : Param] \cup {NoCall}]
       /\ \A u \in Thread : futex_state'[u] = "Futex" => u \notin S /\ futex_state[u] = "Futex" /\ waits'[u] = waits[u]
       /\ QueueInPlace' /\ WaitersAgree' /\ CallsKnown'
  BY <1>2, <1>6, <1>10, TakenOut
<1>12. clocks' \in [Thread -> ClockSets]
  BY <1>1, <1>6, <1>8, <1>9
<1>13. FutexTypeOK'
  <2>1. futex_timed' \in [Thread -> BOOLEAN]
    BY <1>1, <1>6 DEF FutexTypeOK
  <2>2. last_sc_fence' \in Clocks /\ futex_clock' \in Clocks
    BY <1>4, <1>5, <1>6 DEF g
  <2> QED BY <2>1, <2>2, <1>1, <1>10, <1>11, <1>12 DEF FutexTypeOK, Queues
<1>14. \A u \in Thread : clocks'[u].clock \in Clocks /\ ClockLeq(clocks[u].clock, clocks'[u].clock)
  <2> SUFFICES ASSUME NEW u \in Thread
               PROVE  clocks'[u].clock \in Clocks /\ ClockLeq(clocks[u].clock, clocks'[u].clock)
    OBVIOUS
  <2>1. clocks'[u].clock \in Clocks
    BY <1>12 DEF ClockSets
  <2>2. CASE u = t
    <3>1. clocks'[u] = kt
      BY <2>2, <1>6
    <3> QED BY <3>1, <2>1, <2>2, <1>1, <1>4, <1>5, <1>8, ClockTransitive
  <2>3. CASE u # t /\ u \in S
    BY <2>1, <2>3, <1>6, <1>9
  <2>4. CASE u # t /\ u \notin S
    <3>1. clocks'[u] = clocks[u]
      BY <2>4, <1>6
    <3> QED BY <3>1, <1>1, ClockOrder, SMTT(40)
  <2> QED BY <2>1, <2>2, <2>3, <2>4
<1>15. NewestFenced'
  <2> DEFINE e == word[Len(word)]
             s == e.store_thread
             ts == e.store_timestamp
  <2>1. s \in Thread /\ ts \in Nat
    BY <1>1 DEF Element0
  <2>2. ts <= clocks[s].clock[s] /\ (flavour # "macos" => owes[s] \/ ts <= last_sc_fence[s])
    BY DEF FutexInv, NewestFenced
  <2>3. word' = word /\ flavour' = flavour /\ last_sc_fence' = g
    BY DEF g
  <2>4. NewestFenced' <=> ts <= clocks'[s].clock[s] /\ (flavour # "macos" => owes'[s] \/ ts <= g[s])
    BY <2>3 DEF NewestFenced
  <2> HIDE DEF e, s, ts
  <2>5. ts <= clocks'[s].clock[s]
    BY <2>1, <2>2, <1>1, <1>14, EntryOrder
  <2>6. s = t => ts <= g[s]
    BY <2>1, <2>2, <1>1, <1>4, EntryOrder
  <2>7. ts <= last_sc_fence[s] => ts <= g[s]
    BY <2>1, <1>1, <1>4, EntryOrder
  <2>8. s # t => owes'[s] = owes[s]
    BY <2>1
  <2> QED BY <2>2, <2>4, <2>5, <2>6, <2>7, <2>8
<1>16. \A u \in Thread : futex_state[u] = "Futex" /\ futex_state'[u] = "Enabled"
         => u # t /\ ClockLeq(clocks[t].clock, clocks'[u].clock)
  <2> SUFFICES ASSUME NEW u \in Thread, futex_state[u] = "Futex", futex_state'[u] = "Enabled"
               PROVE  u # t /\ ClockLeq(clocks[t].clock, clocks'[u].clock)
    OBVIOUS
  <2>1. u # t /\ u \in S
    BY <1>6
  <2>2. clocks'[u] = Wk(u)
    BY <2>1, <1>6
  <2>3. clocks'[u].clock \in Clocks /\ ClockLeq(k.clock, clocks'[u].clock)
    BY <2>2, <1>9, <1>14
  <2>4. ClockLeq(clocks[t].clock, clocks'[u].clock)
    BY <2>3, <1>1, <1>4, <1>5, ClockTransitive
  <2> QED BY <2>1, <2>4
<1> QED BY <1>11, <1>13, <1>15, <1>16 DEF S

(* The shims' wakes.  macOS may return before it does anything. *)
LEMMA WakeKeeps ==
    ASSUME FutexInv, NEW t \in Thread, NEW bitset, NEW count, NEW p, futex_state[t] = "Enabled",
           Wake(t, bitset, count, p),
           owes' \in [Thread -> BOOLEAN], \A u \in Thread \ {t} : owes'[u] = owes[u]
    PROVE  /\ FutexTypeOK' /\ QueueInPlace' /\ WaitersAgree' /\ CallsKnown' /\ NewestFenced'
           /\ flavour' = flavour
           /\ flavour # "macos" => word' = word /\ \A u \in Thread : futex_state'[u] = "Futex" =>
                 u \notin Extracted(bitset, count) /\ futex_state[u] = "Futex" /\ waits'[u] = waits[u]
           /\ \A u \in Thread : futex_state[u] = "Futex" /\ futex_state'[u] = "Enabled"
                 => u # t /\ ClockLeq(clocks[t].clock, clocks'[u].clock)
<1>1. CASE flavour = "macos" /\ (futex_waiters = <<>> \/ params # p)
  <2>1. UNCHANGED <<memVars, queueVars, futex_halt>>
    BY <1>1 DEF Wake
  <2>2. /\ flavour' = flavour /\ word' = word /\ clocks' = clocks /\ last_sc_fence' = last_sc_fence
        /\ futex_waiters' = futex_waiters /\ futex_clock' = futex_clock /\ params' = params
        /\ futex_state' = futex_state /\ futex_timed' = futex_timed /\ waits' = waits /\ futex_halt' = futex_halt
    BY <2>1 DEF memVars, queueVars
  <2>3. FutexTypeOK'
    BY <2>2 DEF FutexInv, FutexTypeOK
  <2>4. QueueInPlace' /\ WaitersAgree' /\ CallsKnown'
    BY <2>2 DEF FutexInv, QueueInPlace, WaitersAgree, CallsKnown
  <2>5. NewestFenced'
    BY <2>2, <1>1 DEF FutexInv, NewestFenced
  <2> QED BY <2>2, <2>3, <2>4, <2>5, <1>1
<1>2. CASE ~(flavour = "macos" /\ (futex_waiters = <<>> \/ params # p))
  <2>1. FutexWake(t, ScFenced(t), bitset, count) /\ last_sc_fence' = WakeFenced(t) /\ UNCHANGED <<flavour, word, params>>
    BY <1>2 DEF Wake
  <2> QED BY <2>1, FutexWakeKeeps
<1> QED BY <1>1, <1>2

(* The wake that a store owes: nobody is left asleep. *)
LEMMA WakeAllKeeps ==
    ASSUME FutexInv, NEW t \in Thread, WakeAll(t)
    PROVE  /\ FutexInv'
           /\ \A u \in Thread : futex_state[u] = "Futex" /\ futex_state'[u] = "Enabled"
                 => u # t /\ ClockLeq(clocks[t].clock, clocks'[u].clock)
<1>1. PICK p \in Params : Wake(t, Bit, Cardinality(Thread), p)
  BY DEF WakeAll
<1>2. futex_state[t] = "Enabled" /\ owes' = [owes EXCEPT ![t] = FALSE]
  BY DEF WakeAll, FutexRunning
<1>3. owes' \in [Thread -> BOOLEAN] /\ \A u \in Thread \ {t} : owes'[u] = owes[u]
  BY <1>2 DEF FutexInv, FutexTypeOK
<1>4. /\ FutexTypeOK' /\ QueueInPlace' /\ WaitersAgree' /\ CallsKnown' /\ NewestFenced'
      /\ flavour' = flavour
      /\ flavour # "macos" => \A u \in Thread : futex_state'[u] = "Futex" =>
            u \notin Extracted(Bit, Cardinality(Thread)) /\ futex_state[u] = "Futex"
      /\ \A u \in Thread : futex_state[u] = "Futex" /\ futex_state'[u] = "Enabled"
            => u # t /\ ClockLeq(clocks[t].clock, clocks'[u].clock)
  BY <1>1, <1>2, <1>3, WakeKeeps
<1>5. \A u \in Thread : futex_state[u] = "Futex" => u \in Extracted(Bit, Cardinality(Thread))
  BY ExtractedAll, QueueAsSets DEF FutexInv
<1>6. FutexNoLostWakeup'
  BY <1>4, <1>5 DEF FutexNoLostWakeup, SleepersWillHear
<1> QED BY <1>4, <1>6 DEF FutexInv

(* Any other wake: who stays asleep is as well off as before. *)
LEMMA WakeSomeKeeps ==
    ASSUME FutexInv, NEW t \in Thread, NEW bitset, NEW count, NEW p, WakeSome(t, bitset, count, p)
    PROVE  /\ FutexInv'
           /\ \A u \in Thread : futex_state[u] = "Futex" /\ futex_state'[u] = "Enabled"
                 => u # t /\ ClockLeq(clocks[t].clock, clocks'[u].clock)
<1>1. futex_state[t] = "Enabled" /\ Wake(t, bitset, count, p) /\ owes' = owes
  BY DEF WakeSome, FutexRunning
<1>2. owes' \in [Thread -> BOOLEAN]
  BY <1>1 DEF FutexInv, FutexTypeOK
<1>3. /\ FutexTypeOK' /\ QueueInPlace' /\ WaitersAgree' /\ CallsKnown' /\ NewestFenced'
      /\ flavour' = flavour
      /\ flavour # "macos" => word' = word /\ \A u \in Thread : futex_state'[u] = "Futex" =>
            futex_state[u] = "Futex" /\ waits'[u] = waits[u]
      /\ \A u \in Thread : futex_state[u] = "Futex" /\ futex_state'[u] = "Enabled"
            => u # t /\ ClockLeq(clocks[t].clock, clocks'[u].clock)
  BY <1>1, <1>2, WakeKeeps
<1>4. FutexNoLostWakeup'
  BY <1>1, <1>3 DEF FutexInv, FutexNoLostWakeup, SleepersWillHear
<1> QED BY <1>3, <1>4 DEF FutexInv

-----------------------------------------------------------------------------

LEMMA NextKeeps == FutexInv /\ [FutexNext]_futexVars => FutexInv'
<1> SUFFICES ASSUME FutexInv, [FutexNext]_futexVars PROVE FutexInv'
  OBVIOUS
<1>1. ASSUME NEW t \in Thread, NEW v \in Value, StoreWord(t, v) PROVE FutexInv'
  BY <1>1, StoreWordKeeps
<1>2. ASSUME NEW t \in Thread, WakeAll(t) PROVE FutexInv'
  BY <1>2, WakeAllKeeps
<1>3. ASSUME NEW t \in Thread, NEW b \in Bitsets, NEW n \in Count, NEW p \in Params, WakeSome(t, b, n, p) PROVE FutexInv'
  BY <1>3, WakeSomeKeeps
<1>4. ASSUME NEW t \in Thread, NEW v \in Value, NEW b \in Bitsets, NEW p \in Params, NEW d \in BOOLEAN,
             FutexWait(t, v, b, p, d)
      PROVE  FutexInv'
  BY <1>4, Operands, FutexWaitKeeps
<1>5. ASSUME NEW S \in SUBSET Thread, FutexTimedOut(S) PROVE FutexInv'
  BY <1>5, TimedOutKeeps
<1>6. CASE UNCHANGED futexVars
  <2>1. /\ flavour' = flavour /\ word' = word /\ clocks' = clocks /\ last_sc_fence' = last_sc_fence
        /\ futex_waiters' = futex_waiters /\ futex_clock' = futex_clock /\ params' = params
        /\ futex_state' = futex_state /\ futex_timed' = futex_timed /\ waits' = waits
        /\ owes' = owes /\ futex_halt' = futex_halt
    BY <1>6 DEF futexVars, memVars, queueVars
  <2>2. FutexTypeOK'
    BY <2>1 DEF FutexInv, FutexTypeOK
  <2>3. QueueInPlace' /\ WaitersAgree' /\ CallsKnown'
    BY <2>1 DEF FutexInv, QueueInPlace, WaitersAgree, CallsKnown
  <2>4. FutexNoLostWakeup' /\ NewestFenced'
    BY <2>1 DEF FutexInv, FutexNoLostWakeup, SleepersWillHear, NewestFenced
  <2> QED BY <2>2, <2>3, <2>4 DEF FutexInv
<1> QED BY <1>1, <1>2, <1>3, <1>4, <1>5, <1>6 DEF FutexNext

(* The inductive invariant of the futex. *)
THEOREM FutexInvariant == FutexSpec => []FutexInv
  BY InitHolds, NextKeeps, PTL DEF FutexSpec

(* Type correctness: waiters have non-empty bitsets, the buffer holds at   *)
(* least one and at most StoreBufferLimit stores.                          *)
THEOREM FutexTypeCorrect == FutexSpec => []FutexTypeOK
<1>1. FutexInv => FutexTypeOK
  BY DEF FutexInv
<1> QED BY <1>1, FutexInvariant, PTL

(* Blocked threads and the queue are one to one after every wait, wake and *)
(* time-out of sync.rs, and its assertions do not fire.                    *)
THEOREM QueueAlwaysInPlace == FutexSpec => []QueueInPlace
<1>1. FutexInv => QueueInPlace
  BY DEF FutexInv
<1> QED BY <1>1, FutexInvariant, PTL

(* What the comment of the Linux shim argues: with a SeqCst fence before   *)
(* the load of the waiter and before the wake, no wake-up is lost, however *)
(* old the values the load could return without them.                      *)
THEOREM NoWakeupLost == FutexSpec => []FutexNoLostWakeup
<1>1. FutexInv => FutexNoLostWakeup
  BY DEF FutexInv
<1> QED BY <1>1, FutexInvariant, PTL

(* macOS: all threads in the queue used the recorded size and sharing.     *)
THEOREM WaitersAlwaysAgree == FutexSpec => []WaitersAgree
<1>1. FutexInv => WaitersAgree
  BY DEF FutexInv
<1> QED BY <1>1, FutexInvariant, PTL

(* A wake happens-before the end of every wait it ends. *)
THEOREM WakesOrder == FutexSpec => WakeHappensBefore
<1> DEFINE Woken == \A w \in Thread :
               futex_state[w] = "Futex" /\ futex_state'[w] = "Enabled" /\ futex_clock' # futex_clock
                 => \E t \in Thread \ {w} : ClockLeq(clocks[t].clock, clocks'[w].clock)
<1>1. FutexInv /\ [FutexNext]_futexVars => [Woken]_futexVars
  <2> SUFFICES ASSUME FutexInv, FutexNext, NEW w \in Thread, futex_state[w] = "Futex", futex_state'[w] = "Enabled",
                      futex_clock' # futex_clock
               PROVE  \E t \in Thread \ {w} : ClockLeq(clocks[t].clock, clocks'[w].clock)
    OBVIOUS
  <2>1. ASSUME NEW t \in Thread, NEW v \in Value, StoreWord(t, v) PROVE FALSE
    BY <2>1 DEF StoreWord, queueVars
  <2>2. ASSUME NEW t \in Thread, NEW v \in Value, NEW b \in Bitsets, NEW p \in Params, NEW d \in BOOLEAN,
               FutexWait(t, v, b, p, d)
        PROVE  FALSE
    BY <2>2 DEF FutexWait
  <2>3. ASSUME NEW S \in SUBSET Thread, FutexTimedOut(S) PROVE FALSE
    BY <2>3 DEF FutexTimedOut
  <2>4. ASSUME NEW t \in Thread, WakeAll(t) PROVE t # w /\ ClockLeq(clocks[t].clock, clocks'[w].clock)
    BY <2>4, WakeAllKeeps
  <2>5. ASSUME NEW t \in Thread, NEW b \in Bitsets, NEW n \in Count, NEW p \in Params, WakeSome(t, b, n, p)
        PROVE  t # w /\ ClockLeq(clocks[t].clock, clocks'[w].clock)
    BY <2>5, WakeSomeKeeps
  <2> QED BY <2>1, <2>2, <2>3, <2>4, <2>5 DEF FutexNext
<1> QED BY <1>1, FutexInvariant, PTL DEF FutexSpec, WakeHappensBefore

=============================================================================
