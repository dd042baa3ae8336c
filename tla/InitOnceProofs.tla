--------------------------- MODULE InitOnceProofs ---------------------------
(***************************************************************************)
(* Proofs about InitOnce, for any set of threads and any bound.            *)
(***************************************************************************)
EXTENDS InitOnce, TLAPS

(* The initialized data is covered by the clock of the INIT_ONCE once it   *)
(* is complete, and by the clock of everybody who was told so.             *)
DataCovered ==
    /\ written.by # Nobody => written.at <= once_clocks[written.by][written.by]
    /\ status = "Complete" =>
        written.by # Nobody /\ (DataRaceDetector => written.at <= once_clock[written.by])
    /\ \A t \in Thread : told[t] = "done" =>
        /\ status = "Complete"
        /\ DataRaceDetector => written.at <= once_clocks[t][written.by]

IInv == OnceTypeOK /\ OnceNoPanic /\ WaitersHaveInitializer /\ DataCovered

-----------------------------------------------------------------------------

(* What acquire_clock and release_clock do to each entry of a clock. *)
LEMMA ClockEntries ==
    ASSUME NEW a \in Clocks, NEW b \in Clocks, NEW t \in Thread
    PROVE  /\ AcquireClock(a, b) \in Clocks
           /\ ReleasedClock(a, b) \in Clocks
           /\ AfterRelease(a, t) \in Clocks
           /\ \A u \in Thread : a[u] \in Nat /\ b[u] \in Nat
           /\ \A u \in Thread : AcquireClock(a, b)[u] \in {a[u], b[u]}
           /\ \A u \in Thread : a[u] <= AcquireClock(a, b)[u]
           /\ DataRaceDetector => \A u \in Thread : b[u] <= AcquireClock(a, b)[u]
           /\ \A u \in Thread : ReleasedClock(a, b)[u] \in {a[u], b[u]}
           /\ DataRaceDetector => ReleasedClock(a, b) = a
           /\ \A u \in Thread : u # t => AfterRelease(a, t)[u] = a[u]
           /\ a[t] <= AfterRelease(a, t)[t]
  BY DEF Clocks, AcquireClock, ReleasedClock, AfterRelease, ClockJoin, ClockIncrement

(* Where the elements of the queue are after push_back. *)
LEMMA AppendPlaces ==
    ASSUME NEW q \in Seq(Thread), NEW x \in Thread
    PROVE  /\ Append(q, x) \in Seq(Thread)
           /\ Append(q, x) # <<>>
           /\ Len(Append(q, x)) = Len(q) + 1
           /\ \A i \in 1 .. Len(q) : Append(q, x)[i] = q[i]
           /\ Append(q, x)[Len(q) + 1] = x
           /\ Len(q) \in Nat
  OBVIOUS

(* Where the elements of the queue are after pop_front. *)
LEMMA TailPlaces ==
    ASSUME NEW q \in Seq(Thread), q # <<>>
    PROVE  /\ Head(q) \in Thread
           /\ Head(q) = q[1]
           /\ Len(q) \in Nat \ {0}
           /\ Tail(q) \in Seq(Thread)
           /\ Len(Tail(q)) = Len(q) - 1
           /\ \A i \in 1 .. Len(Tail(q)) : Tail(q)[i] = q[i + 1]
  OBVIOUS

-----------------------------------------------------------------------------

(* The initial state. *)
LEMMA InitIInv == OnceInit => IInv
<1> SUFFICES ASSUME OnceInit PROVE IInv
  OBVIOUS
<1>1. ZeroClock \in Clocks /\ \A t \in Thread : ClockIncrement(ZeroClock, t) \in Clocks
  BY DEF Clocks, ZeroClock, ClockIncrement
<1>2. \A t, u \in Thread : /\ ZeroClock[t] = 0
                           /\ ClockIncrement(ZeroClock, u)[t] = IF t = u THEN 1 ELSE 0
  BY DEF ZeroClock, ClockIncrement
<1>3. <<>> \in Seq(Thread) /\ Len(<<>>) = 0
  OBVIOUS
<1>4. OnceTypeOK
  <2>1. \A t, u \in Thread : once_clocks[u][t] <= once_clocks[t][t] /\ once_clock[t] <= once_clocks[t][t]
    BY <1>2 DEF OnceInit
  <2>2. once_clock \in Clocks /\ once_clocks \in [Thread -> Clocks]
    BY <1>1 DEF OnceInit
  <2> QED BY <2>1, <2>2, <1>3 DEF OnceInit, OnceTypeOK
<1>5. OnceNoPanic /\ DataCovered
  BY DEF OnceInit, OnceNoPanic, DataCovered
<1>6. WaitersHaveInitializer
  BY <1>3 DEF OnceInit, WaitersHaveInitializer
<1> QED BY <1>4, <1>5, <1>6 DEF IInv

(* A thread begins: it is the only one, for nothing was under way. *)
LEMMA BeginKeeps ==
    ASSUME IInv, NEW t \in Thread, Begin(t)
    PROVE  IInv'
<1>1. OnceTypeOK' /\ OnceNoPanic'
  BY DEF IInv, OnceTypeOK, OnceNoPanic, Begin
<1>2. WaitersHaveInitializer'
  BY DEF IInv, OnceTypeOK, WaitersHaveInitializer, Begin, OnceRunning
<1>3. DataCovered'
  BY DEF IInv, OnceTypeOK, DataCovered, Begin
<1> QED BY <1>1, <1>2, <1>3 DEF IInv

(* A late caller observes the completion. *)
LEMMA AlreadyCompleteKeeps ==
    ASSUME IInv, NEW t \in Thread, AlreadyComplete(t)
    PROVE  IInv'
<1> DEFINE k == AcquireClock(once_clocks[t], once_clock)
<1>1. once_clocks[t] \in Clocks /\ once_clock \in Clocks /\ once_clocks \in [Thread -> Clocks]
  BY DEF IInv, OnceTypeOK
<1>2. /\ k \in Clocks
      /\ \A u \in Thread : k[u] \in {once_clocks[t][u], once_clock[u]} /\ once_clocks[t][u] <= k[u]
      /\ DataRaceDetector => \A u \in Thread : once_clock[u] <= k[u]
  BY <1>1, ClockEntries
<1>3. \A u, v \in Thread : once_clocks[u][v] \in Nat /\ once_clock[v] \in Nat /\ k[v] \in Nat
  BY <1>1, <1>2 DEF Clocks
<1>4. once_clocks' = [once_clocks EXCEPT ![t] = k] /\ told' = [told EXCEPT ![t] = "done"]
      /\ status = "Complete" /\ UNCHANGED <<status, once_waiters, once_clock, once_state, written, once_halt>>
  BY DEF AlreadyComplete, ObserveCompleted, onceVars
<1>4a. told[t] # "pending"
  BY DEF AlreadyComplete
<1> HIDE DEF k
<1>5. k[t] = once_clocks[t][t]
  <2>1. once_clock[t] <= once_clocks[t][t]
    BY DEF IInv, OnceTypeOK
  <2> QED BY <2>1, <1>2, <1>3
<1>6. \A u, v \in Thread : once_clocks'[u][v] = IF u = t THEN k[v] ELSE once_clocks[u][v]
  BY <1>1, <1>4
<1>7. OnceTypeOK'
  <2>1. \A u, v \in Thread : once_clocks[u][v] <= once_clocks[v][v] /\ once_clock[v] <= once_clocks[v][v]
    BY DEF IInv, OnceTypeOK
  <2>2. \A u, v \in Thread : once_clocks'[u][v] <= once_clocks'[v][v] /\ once_clock'[v] <= once_clocks'[v][v]
    BY <2>1, <1>2, <1>3, <1>4, <1>5, <1>6
  <2>3. once_clocks' \in [Thread -> Clocks]
    BY <1>1, <1>2, <1>4
  <2> QED BY <2>2, <2>3, <1>4 DEF IInv, OnceTypeOK
<1>8. OnceNoPanic' /\ WaitersHaveInitializer'
  BY <1>4, <1>4a DEF IInv, OnceTypeOK, OnceNoPanic, WaitersHaveInitializer
<1>9. DataCovered'
  <2>1. written.by \in Thread /\ written.at \in Nat /\ written.at <= once_clocks[written.by][written.by]
        /\ (DataRaceDetector => written.at <= once_clock[written.by])
    BY <1>4 DEF IInv, OnceTypeOK, DataCovered
  <2>2. written.at <= once_clocks'[written.by][written.by]
    BY <2>1, <1>5, <1>6
  <2>3. DataRaceDetector => written.at <= k[written.by]
    BY <2>1, <1>2, <1>3
  <2>4. ASSUME NEW u \in Thread, told'[u] = "done", DataRaceDetector
        PROVE  written.at <= once_clocks'[u][written.by]
    <3>1. CASE u = t
      BY <3>1, <2>1, <2>3, <2>4, <1>6
    <3>2. CASE u # t
      <4>1. told[u] = "done"
        BY <3>2, <2>4, <1>4 DEF IInv, OnceTypeOK
      <4>2. written.at <= once_clocks[u][written.by]
        BY <4>1, <2>4 DEF IInv, DataCovered
      <4> QED BY <4>2, <3>2, <2>1, <1>6
    <3> QED BY <3>1, <3>2
  <2>5. written.by # Nobody
    BY <2>1, InitOnceAssumption
  <2>6. written' = written /\ status' = "Complete" /\ once_clock' = once_clock
    BY <1>4
  <2> QED BY <2>1, <2>2, <2>4, <2>5, <2>6 DEF DataCovered
<1> QED BY <1>7, <1>8, <1>9 DEF IInv

(* A caller queues up behind the initializer. *)
LEMMA EnqueueKeeps ==
    ASSUME IInv, NEW t \in Thread, EnqueueAndBlock(t)
    PROVE  IInv'
<1>1. once_waiters \in Seq(Thread) /\ once_state \in [Thread -> {"Enabled", "InitOnce"}]
  BY DEF IInv, OnceTypeOK
<1>2. /\ once_waiters' \in Seq(Thread) /\ once_waiters' # <<>> /\ Len(once_waiters) \in Nat
      /\ Len(once_waiters') = Len(once_waiters) + 1
      /\ \A i \in 1 .. Len(once_waiters) : once_waiters'[i] = once_waiters[i]
      /\ once_waiters'[Len(once_waiters) + 1] = t
  BY <1>1, AppendPlaces DEF EnqueueAndBlock
<1>3. /\ once_state[t] = "Enabled" /\ status = "Begun" /\ told[t] # "pending"
      /\ once_state' = [once_state EXCEPT ![t] = "InitOnce"]
      /\ UNCHANGED <<status, once_clock, once_clocks, told, written, once_halt>>
  BY DEF EnqueueAndBlock, OnceRunning
<1>4. OnceTypeOK' /\ OnceNoPanic'
  BY <1>1, <1>2, <1>3 DEF IInv, OnceTypeOK, OnceNoPanic
<1>5. DataCovered'
  BY <1>3 DEF IInv, DataCovered
<1>6. WaitersHaveInitializer'
  <2>1. \A i \in 1 .. Len(once_waiters) : once_waiters[i] \in Thread /\ once_waiters[i] # t
    BY <1>1, <1>3 DEF IInv, WaitersHaveInitializer
  <2>2. \A i, j \in 1 .. Len(once_waiters') : once_waiters'[i] = once_waiters'[j] => i = j
    <3>1. \A i \in 1 .. Len(once_waiters') : i \in 1 .. Len(once_waiters) \/ i = Len(once_waiters) + 1
      BY <1>2
    <3>2. \A i, j \in 1 .. Len(once_waiters) : once_waiters[i] = once_waiters[j] => i = j
      BY DEF IInv, WaitersHaveInitializer
    <3> QED BY <3>1, <3>2, <2>1, <1>2
  <2>3. ASSUME NEW u \in Thread
        PROVE  once_state'[u] = "InitOnce" <=> \E i \in 1 .. Len(once_waiters') : once_waiters'[i] = u
    <3>1. once_state[u] = "InitOnce" <=> \E i \in 1 .. Len(once_waiters) : once_waiters[i] = u
      BY DEF IInv, WaitersHaveInitializer
    <3>2. CASE u = t
      <4>1. Len(once_waiters) + 1 \in 1 .. Len(once_waiters')
        BY <1>2
      <4> QED BY <4>1, <3>2, <1>1, <1>2, <1>3
    <3>3. CASE u # t
      <4>1. once_state'[u] = once_state[u]
        BY <3>3, <1>1, <1>3
      <4>2. \A i \in 1 .. Len(once_waiters) : i \in 1 .. Len(once_waiters')
        BY <1>2
      <4>3. \A i \in 1 .. Len(once_waiters') : once_waiters'[i] = u => i \in 1 .. Len(once_waiters)
        BY <3>3, <1>2
      <4> QED BY <4>1, <4>2, <4>3, <3>1, <1>2
    <3> QED BY <3>2, <3>3
  <2>4. \A u \in Thread : told'[u] = "pending" => once_state'[u] = "Enabled"
    BY <1>1, <1>3 DEF IInv, WaitersHaveInitializer
  <2> QED BY <2>2, <2>3, <2>4, <1>3 DEF IInv, WaitersHaveInitializer
<1> QED BY <1>4, <1>5, <1>6 DEF IInv

(* The initializer writes; nobody has been told that the data is there. *)
LEMMA WriteKeeps ==
    ASSUME IInv, NEW t \in Thread, OnceWrite(t)
    PROVE  IInv'
<1>1. /\ told[t] = "pending" /\ written' = [by |-> t, at |-> once_clocks[t][t]]
      /\ UNCHANGED <<status, once_waiters, once_clock, once_state, once_clocks, told, once_halt>>
  BY DEF OnceWrite, onceVars
<1>2. once_clocks[t][t] \in Nat
  BY DEF IInv, OnceTypeOK, Clocks
<1>3. status = "Begun"
  BY <1>1 DEF IInv, WaitersHaveInitializer
<1>4. OnceTypeOK' /\ OnceNoPanic' /\ WaitersHaveInitializer'
  BY <1>1, <1>2 DEF IInv, OnceTypeOK, OnceNoPanic, WaitersHaveInitializer
<1>5. DataCovered'
  <2>1. \A u \in Thread : told[u] # "done"
    BY <1>3 DEF IInv, DataCovered
  <2> QED BY <2>1, <1>1, <1>2, <1>3 DEF DataCovered
<1> QED BY <1>4, <1>5 DEF IInv

(* A release by t: clocks only grow, and nobody knows more of another      *)
(* thread than has happened there.                                         *)
LEMMA ReleaseGrows ==
    ASSUME OnceTypeOK, NEW t \in Thread
    PROVE  LET r == ReleasedClock(once_clocks[t], once_clock)
               a == AfterRelease(once_clocks[t], t) IN
           /\ r \in Clocks /\ a \in Clocks
           /\ \A v \in Thread : r[v] <= once_clocks[v][v] /\ r[v] \in Nat
           /\ \A v \in Thread : v # t => a[v] <= once_clocks[v][v]
           /\ once_clocks[t][t] <= a[t] /\ \A v \in Thread : a[v] \in Nat
           /\ DataRaceDetector => r = once_clocks[t]
           /\ \A u, v \in Thread : once_clocks[u][v] \in Nat /\ once_clocks[u][v] <= once_clocks[v][v]
<1>1. once_clocks[t] \in Clocks /\ once_clock \in Clocks
      /\ \A u, v \in Thread : once_clocks[u][v] <= once_clocks[v][v] /\ once_clock[v] <= once_clocks[v][v]
  BY DEF OnceTypeOK
<1>2. \A u, v \in Thread : once_clocks[u][v] \in Nat /\ once_clock[v] \in Nat
  BY DEF OnceTypeOK, Clocks
<1> DEFINE r == ReleasedClock(once_clocks[t], once_clock)
           a == AfterRelease(once_clocks[t], t)
<1>3. /\ r \in Clocks /\ a \in Clocks
      /\ \A v \in Thread : r[v] \in {once_clocks[t][v], once_clock[v]}
      /\ DataRaceDetector => r = once_clocks[t]
      /\ \A v \in Thread : v # t => a[v] = once_clocks[t][v]
      /\ once_clocks[t][t] <= a[t]
  BY <1>1, ClockEntries
<1>4. \A v \in Thread : a[v] \in Nat
  BY <1>3 DEF Clocks
<1> HIDE DEF r, a
<1>5. \A v \in Thread : r[v] <= once_clocks[v][v] /\ r[v] \in Nat
  BY <1>1, <1>2, <1>3
<1>6. \A v \in Thread : v # t => a[v] <= once_clocks[v][v]
  BY <1>1, <1>3
<1> QED BY <1>1, <1>2, <1>3, <1>4, <1>5, <1>6 DEF r, a

(* Completion: all waiters are woken and learn of everything. *)
LEMMA CompleteKeeps ==
    ASSUME IInv, NEW t \in Thread, Complete(t)
    PROVE  IInv'
<1> DEFINE woken == {once_waiters[i] : i \in 1 .. Len(once_waiters)}
           r == ReleasedClock(once_clocks[t], once_clock)
           a == AfterRelease(once_clocks[t], t)
<1>1. OnceTypeOK /\ OnceNoPanic /\ WaitersHaveInitializer /\ DataCovered
  BY DEF IInv
<1>2. /\ r \in Clocks /\ a \in Clocks
      /\ \A v \in Thread : r[v] <= once_clocks[v][v] /\ r[v] \in Nat
      /\ \A v \in Thread : v # t => a[v] <= once_clocks[v][v]
      /\ once_clocks[t][t] <= a[t] /\ \A v \in Thread : a[v] \in Nat
      /\ DataRaceDetector => r = once_clocks[t]
      /\ \A u, v \in Thread : once_clocks[u][v] \in Nat /\ once_clocks[u][v] <= once_clocks[v][v]
  BY <1>1, ReleaseGrows
<1>3. /\ told[t] = "pending" /\ written.by = t /\ status' = "Complete" /\ once_clock' = r
      /\ once_waiters' = <<>> /\ written' = written
      /\ once_state' = [u \in Thread |-> IF u \in woken THEN "Enabled" ELSE once_state[u]]
      /\ once_clocks' = [u \in Thread |-> IF u = t THEN a
                                          ELSE IF u \in woken THEN AcquireClock(once_clocks[u], r)
                                          ELSE once_clocks[u]]
      /\ told' = [u \in Thread |-> IF u = t \/ u \in woken THEN "done" ELSE told[u]]
      /\ once_halt' = IF /\ status = "Begun"
                         /\ \A u \in woken : once_state[u] = "InitOnce" /\ u # t
                      THEN once_halt ELSE "panic"
  BY DEF Complete, ObserveCompleted
<1>4. \A u \in Thread : u \in woken <=> once_state[u] = "InitOnce"
  BY <1>1 DEF WaitersHaveInitializer
<1>5. woken \subseteq Thread
  BY <1>1 DEF OnceTypeOK
<1>6. status = "Begun" /\ once_state[t] = "Enabled" /\ t \notin woken
  BY <1>1, <1>3, <1>4 DEF WaitersHaveInitializer
<1> HIDE DEF woken, r, a
<1>7. once_halt' = once_halt
  BY <1>3, <1>4, <1>5, <1>6
<1>8. \A u \in Thread :
         /\ AcquireClock(once_clocks[u], r) \in Clocks
         /\ \A v \in Thread : /\ AcquireClock(once_clocks[u], r)[v] \in {once_clocks[u][v], r[v]}
                              /\ once_clocks[u][v] <= AcquireClock(once_clocks[u], r)[v]
                              /\ DataRaceDetector => r[v] <= AcquireClock(once_clocks[u], r)[v]
  <2> SUFFICES ASSUME NEW u \in Thread
               PROVE  /\ AcquireClock(once_clocks[u], r) \in Clocks
                      /\ \A v \in Thread : /\ AcquireClock(once_clocks[u], r)[v] \in {once_clocks[u][v], r[v]}
                                           /\ once_clocks[u][v] <= AcquireClock(once_clocks[u], r)[v]
                                           /\ DataRaceDetector => r[v] <= AcquireClock(once_clocks[u], r)[v]
    OBVIOUS
  <2>1. once_clocks[u] \in Clocks
    BY <1>1 DEF OnceTypeOK
  <2> QED BY <2>1, <1>2, ClockEntries
<1>9. \A u \in Thread : once_clocks'[u] = IF u = t THEN a
                                          ELSE IF u \in woken THEN AcquireClock(once_clocks[u], r)
                                          ELSE once_clocks[u]
  BY <1>3
<1>10. OnceTypeOK'
  <2>1. once_clocks' \in [Thread -> Clocks]
    BY <1>1, <1>2, <1>3, <1>8 DEF OnceTypeOK
  <2>2. \A v \in Thread : once_clocks[v][v] <= once_clocks'[v][v] /\ once_clocks'[v][v] \in Nat
    <3>1. \A v \in Thread : once_clocks'[v][v] \in Nat
      BY <2>1 DEF Clocks
    <3> QED BY <3>1, <1>2, <1>8, <1>9
  <2>3. \A u, v \in Thread : u # v => once_clocks'[u][v] <= once_clocks[v][v] /\ once_clocks'[u][v] \in Nat
    <3>1. \A u, v \in Thread : once_clocks'[u][v] \in Nat
      BY <2>1 DEF Clocks
    <3>2. ASSUME NEW u \in Thread, NEW v \in Thread, u # v PROVE once_clocks'[u][v] <= once_clocks[v][v]
      <4>1. once_clocks'[u][v] \in {a[v], once_clocks[u][v], r[v]} /\ (u = t => once_clocks'[u][v] = a[v])
            /\ (u # t => once_clocks'[u][v] \in {once_clocks[u][v], r[v]})
        BY <1>8, <1>9
      <4> QED BY <4>1, <3>2, <1>2
    <3> QED BY <3>1, <3>2
  <2>4. \A u, v \in Thread : once_clocks'[u][v] <= once_clocks'[v][v] /\ once_clock'[v] <= once_clocks'[v][v]
    <3>1. \A u, v \in Thread : u = v => once_clocks'[u][v] <= once_clocks'[v][v]
      BY <2>2
    <3>2. \A u, v \in Thread : u # v => once_clocks'[u][v] <= once_clocks'[v][v]
      BY <2>2, <2>3, <1>2
    <3>3. \A v \in Thread : once_clock'[v] <= once_clocks'[v][v]
      BY <2>2, <1>2, <1>3
    <3> QED BY <3>1, <3>2, <3>3
  <2>5. once_state' \in [Thread -> {"Enabled", "InitOnce"}] /\ told' \in [Thread -> {"nothing", "pending", "done"}]
    BY <1>1, <1>3 DEF OnceTypeOK
  <2>6. once_waiters' \in Seq(Thread) /\ status' \in {"Uninitialized", "Begun", "Complete"}
        /\ once_clock' \in Clocks /\ once_halt' \in {"no", "ub", "panic"}
        /\ written' \in [by : Thread \cup {Nobody}, at : Nat]
    BY <1>1, <1>2, <1>3, <1>7 DEF OnceTypeOK
  <2> QED BY <2>1, <2>4, <2>5, <2>6 DEF OnceTypeOK
<1>11. OnceNoPanic'
  BY <1>1, <1>7 DEF OnceNoPanic
<1>12. WaitersHaveInitializer'
  <2>1. \A u \in Thread : told'[u] # "pending"
    BY <1>1, <1>3 DEF WaitersHaveInitializer
  <2>2. \A u \in Thread : once_state'[u] # "InitOnce"
    BY <1>3, <1>4
  <2>3. Len(once_waiters') = 0 /\ once_waiters' = <<>> /\ status' = "Complete"
    BY <1>3
  <2> QED BY <2>1, <2>2, <2>3 DEF WaitersHaveInitializer
<1>13. DataCovered'
  <2>1. written.at \in Nat /\ written.at <= once_clocks[t][t] /\ t # Nobody
    BY <1>1, <1>3, InitOnceAssumption DEF OnceTypeOK, DataCovered
  <2>2. written.at <= once_clocks'[t][t]
    BY <2>1, <1>2, <1>9
  <2>3. DataRaceDetector => written.at <= r[t]
    BY <2>1, <1>2
  <2>4. ASSUME NEW u \in Thread, told'[u] = "done", DataRaceDetector
        PROVE  written.at <= once_clocks'[u][t]
    <3>1. CASE u = t
      BY <3>1, <2>2
    <3>2. CASE u # t /\ u \in woken
      <4>1. r[t] <= AcquireClock(once_clocks[u], r)[t] /\ AcquireClock(once_clocks[u], r)[t] \in {once_clocks[u][t], r[t]}
        BY <2>4, <1>8
      <4> QED BY <4>1, <3>2, <2>1, <2>3, <2>4, <1>2, <1>9
    <3>3. CASE u # t /\ u \notin woken
      <4>1. told[u] = "done"
        BY <3>3, <2>4, <1>3
      <4> QED BY <4>1, <1>1, <1>6 DEF DataCovered
    <3> QED BY <3>1, <3>2, <3>3
  <2> QED BY <2>1, <2>2, <2>3, <2>4, <1>3 DEF DataCovered
<1> QED BY <1>10, <1>11, <1>12, <1>13 DEF IInv

(* A failure: the first waiter, if any, becomes the initializer. *)
LEMMA FailKeeps ==
    ASSUME IInv, NEW t \in Thread, Fail(t)
    PROVE  IInv'
<1> DEFINE r == ReleasedClock(once_clocks[t], once_clock)
           a == AfterRelease(once_clocks[t], t)
<1>1. OnceTypeOK /\ OnceNoPanic /\ WaitersHaveInitializer /\ DataCovered
  BY DEF IInv
<1>2. /\ r \in Clocks /\ a \in Clocks
      /\ \A v \in Thread : r[v] <= once_clocks[v][v] /\ r[v] \in Nat
      /\ \A v \in Thread : v # t => a[v] <= once_clocks[v][v]
      /\ once_clocks[t][t] <= a[t] /\ \A v \in Thread : a[v] \in Nat
      /\ \A u, v \in Thread : once_clocks[u][v] \in Nat /\ once_clocks[u][v] <= once_clocks[v][v]
  BY <1>1, ReleaseGrows
<1>3. /\ told[t] = "pending" /\ once_clock' = r /\ written' = written
      /\ once_clocks' = [once_clocks EXCEPT ![t] = a]
  BY DEF Fail
<1>4. status = "Begun" /\ once_state[t] = "Enabled"
  BY <1>1, <1>3 DEF WaitersHaveInitializer
<1>5. /\ once_clocks \in [Thread -> Clocks] /\ once_waiters \in Seq(Thread) /\ once_halt \in {"no", "ub", "panic"}
      /\ once_state \in [Thread -> {"Enabled", "InitOnce"}]
      /\ told \in [Thread -> {"nothing", "pending", "done"}]
      /\ written \in [by : Thread \cup {Nobody}, at : Nat]
  BY <1>1 DEF OnceTypeOK
<1> HIDE DEF r, a
<1>6. \A u, v \in Thread : once_clocks'[u][v] = IF u = t THEN a[v] ELSE once_clocks[u][v]
  BY <1>3, <1>5
<1>7. once_clocks' \in [Thread -> Clocks]
  BY <1>2, <1>3, <1>5
<1>8. \A u, v \in Thread : once_clocks'[u][v] <= once_clocks'[v][v] /\ once_clock'[v] <= once_clocks'[v][v]
  <2>1. \A v \in Thread : once_clocks[v][v] <= once_clocks'[v][v] /\ once_clocks'[v][v] \in Nat
    BY <1>2, <1>6
  <2>2. \A v \in Thread : once_clock'[v] <= once_clocks'[v][v]
    BY <2>1, <1>2, <1>3
  <2>3. \A u, v \in Thread : u # v => once_clocks'[u][v] <= once_clocks[v][v] /\ once_clocks'[u][v] \in Nat
    BY <1>2, <1>6
  <2>4. \A u, v \in Thread : u # v => once_clocks'[u][v] <= once_clocks'[v][v]
    BY <2>1, <2>3, <1>2
  <2>5. \A v \in Thread : once_clocks'[v][v] <= once_clocks'[v][v]
    BY <2>1
  <2> QED BY <2>2, <2>4, <2>5
<1>9. \A u \in Thread : told[u] # "done"
  BY <1>1, <1>4 DEF DataCovered
<1>10. written.by # Nobody => written'.at <= once_clocks'[written'.by][written'.by]
  <2> SUFFICES ASSUME written.by # Nobody
               PROVE  written.at <= once_clocks'[written.by][written.by]
    BY <1>3
  <2>1. written.by \in Thread /\ written.at \in Nat
    BY <1>5
  <2>2. written.at <= once_clocks[written.by][written.by]
    BY <1>1 DEF DataCovered
  <2> QED BY <2>1, <2>2, <1>2, <1>6
<1>11. CASE once_waiters = <<>>
  <2>1. FailWakes(once_waiters) = <<>>
    BY <1>11 DEF FailWakes
  <2>2. /\ status' = "Uninitialized" /\ told' = [told EXCEPT ![t] = "nothing"]
        /\ once_state' = once_state /\ once_waiters' = once_waiters /\ once_halt' = once_halt
    BY <2>1, <1>4 DEF Fail
  <2>3. OnceTypeOK'
    BY <2>2, <1>2, <1>3, <1>5, <1>7, <1>8 DEF OnceTypeOK
  <2>4. WaitersHaveInitializer'
    <3>1. \A u \in Thread : told'[u] # "pending"
      BY <2>2, <1>1, <1>3, <1>5 DEF WaitersHaveInitializer
    <3> QED BY <3>1, <2>2, <1>1, <1>11 DEF WaitersHaveInitializer
  <2>5. DataCovered'
    <3>1. \A u \in Thread : told'[u] # "done"
      BY <2>2, <1>5, <1>9
    <3> QED BY <3>1, <2>2, <1>3, <1>10 DEF DataCovered
  <2>6. OnceNoPanic'
    BY <2>2, <1>1 DEF OnceNoPanic
  <2> QED BY <2>3, <2>4, <2>5, <2>6 DEF IInv
<1>12. CASE once_waiters # <<>>
  <2>1. PICK h \in Thread : h = Head(once_waiters)
    BY <1>5, <1>12, TailPlaces
  <2>2. /\ once_waiters[1] = h /\ Len(once_waiters) \in Nat \ {0} /\ Tail(once_waiters) \in Seq(Thread)
        /\ Len(Tail(once_waiters)) = Len(once_waiters) - 1
        /\ \A i \in 1 .. Len(Tail(once_waiters)) : Tail(once_waiters)[i] = once_waiters[i + 1]
    BY <1>5, <1>12, <2>1, TailPlaces
  <2>3. once_state[h] = "InitOnce" /\ h # t
    BY <2>2, <1>1, <1>4 DEF WaitersHaveInitializer
  <2>4. /\ FailWakes(once_waiters) = <<h>> /\ <<h>> # <<>> /\ Head(<<h>>) = h /\ Tail(<<h>>) = <<>>
    BY <1>12, <2>1 DEF FailWakes
  <2>5. /\ status' = "Begun" /\ told' = [told EXCEPT ![t] = "nothing", ![h] = "pending"]
        /\ once_state' = [once_state EXCEPT ![h] = "Enabled"] /\ once_waiters' = Tail(once_waiters) /\ once_halt' = once_halt
    BY <2>3, <2>4, <1>4 DEF Fail
  <2>6. OnceTypeOK'
    BY <2>2, <2>5, <1>2, <1>3, <1>5, <1>7, <1>8 DEF OnceTypeOK
  <2>7. \A u \in Thread : told'[u] = "pending" <=> u = h
    BY <2>3, <2>5, <1>1, <1>3, <1>5 DEF WaitersHaveInitializer
  <2>8. \A i, j \in 1 .. Len(once_waiters) : once_waiters[i] = once_waiters[j] => i = j
    BY <1>1 DEF WaitersHaveInitializer
  <2>9. \A i, j \in 1 .. Len(once_waiters') : once_waiters'[i] = once_waiters'[j] => i = j
    <3>1. \A i \in 1 .. Len(once_waiters') : i + 1 \in 1 .. Len(once_waiters) /\ once_waiters'[i] = once_waiters[i + 1]
      BY <2>2, <2>5
    <3> QED BY <3>1, <2>8, SMTT(40)
  <2>10. ASSUME NEW u \in Thread
         PROVE  once_state'[u] = "InitOnce" <=> \E i \in 1 .. Len(once_waiters') : once_waiters'[i] = u
    <3>1. once_state[u] = "InitOnce" <=> \E i \in 1 .. Len(once_waiters) : once_waiters[i] = u
      BY <1>1 DEF WaitersHaveInitializer
    <3>2. \A i \in 1 .. Len(once_waiters') : i + 1 \in 1 .. Len(once_waiters) /\ once_waiters'[i] = once_waiters[i + 1]
      BY <2>2, <2>5
    <3>3. CASE u = h
      <4>1. 1 \in 1 .. Len(once_waiters)
        BY <2>2
      <4>2. \A i \in 1 .. Len(once_waiters') : once_waiters'[i] # h
        <5> SUFFICES ASSUME NEW i \in 1 .. Len(once_waiters'), once_waiters'[i] = h PROVE FALSE
          OBVIOUS
        <5>1. i \in Nat /\ i >= 1 /\ i + 1 \in 1 .. Len(once_waiters) /\ once_waiters[i + 1] = once_waiters[1]
          BY <3>2, <2>2
        <5>2. i + 1 = 1
          BY <5>1, <4>1, <2>8
        <5> QED BY <5>1, <5>2
      <4>3. once_state'[u] = "Enabled"
        BY <3>3, <2>5, <1>5
      <4> QED BY <4>2, <4>3, <3>3
    <3>4. CASE u # h
      <4>1. once_state'[u] = once_state[u]
        BY <3>4, <2>5, <1>5
      <4>2. ASSUME NEW i \in 1 .. Len(once_waiters), once_waiters[i] = u
            PROVE  \E j \in 1 .. Len(once_waiters') : once_waiters'[j] = u
        <5>1. i # 1 /\ i \in Nat
          BY <4>2, <3>4, <2>2
        <5>2. i - 1 \in 1 .. Len(once_waiters') /\ (i - 1) + 1 = i
          BY <5>1, <2>2, <2>5
        <5> QED BY <5>2, <4>2, <3>2
      <4>3. \A i \in 1 .. Len(once_waiters') : once_waiters'[i] = u =>
               \E j \in 1 .. Len(once_waiters) : once_waiters[j] = u
        BY <3>2
      <4> QED BY <4>1, <4>2, <4>3, <3>1
    <3> QED BY <3>3, <3>4
  <2>11. WaitersHaveInitializer'
    <3>1. once_state'[h] = "Enabled"
      BY <2>5, <1>5
    <3>2. \E u \in Thread : told'[u] = "pending"
      BY <2>7
    <3>3. \A u, v \in Thread : told'[u] = "pending" /\ told'[v] = "pending" => u = v
      BY <2>7
    <3>4. \A u \in Thread : told'[u] = "pending" => once_state'[u] = "Enabled"
      BY <3>1, <2>7
    <3>5. status' = "Begun"
      BY <2>5
    <3> QED BY <3>2, <3>3, <3>4, <3>5, <2>9, <2>10 DEF WaitersHaveInitializer
  <2>12. DataCovered'
    <3>1. \A u \in Thread : told'[u] # "done"
      BY <2>5, <1>5, <1>9
    <3> QED BY <3>1, <2>5, <1>3, <1>10 DEF DataCovered
  <2>13. OnceNoPanic'
    BY <2>5, <1>1 DEF OnceNoPanic
  <2> QED BY <2>6, <2>11, <2>12, <2>13 DEF IInv
<1> QED BY <1>11, <1>12

(* Every step keeps the invariant. *)
LEMMA NextIInv == IInv /\ [OnceNext]_onceMachineVars => IInv'
<1> SUFFICES ASSUME IInv, [OnceNext]_onceMachineVars PROVE IInv'
  OBVIOUS
<1>1. CASE UNCHANGED onceMachineVars
  BY <1>1 DEF onceMachineVars, onceVars, IInv, OnceTypeOK, OnceNoPanic, WaitersHaveInitializer, DataCovered
<1>2. ASSUME NEW t \in Thread, CompleteNotBegun(t) PROVE IInv'
  BY <1>2 DEF CompleteNotBegun, onceVars, IInv, OnceTypeOK, OnceNoPanic, WaitersHaveInitializer, DataCovered
<1>3. CASE OnceNext
  BY <1>2, <1>3, BeginKeeps, AlreadyCompleteKeeps, EnqueueKeeps, WriteKeeps, CompleteKeeps,
     FailKeeps DEF OnceNext
<1> QED BY <1>1, <1>3

-----------------------------------------------------------------------------

(* The inductive invariant holds in every reachable state. *)
THEOREM Invariant == OnceSpec => []IInv
  BY InitIInv, NextIInv, PTL DEF OnceSpec

(* Every reachable state of the INIT_ONCE and of the threads that use it   *)
(* has the shape OnceTypeOK gives it.                                      *)
THEOREM TypeCorrect == OnceSpec => []OnceTypeOK
<1>1. IInv => OnceTypeOK
  BY DEF IInv
<1> QED BY <1>1, Invariant, PTL

(* No assertion of init_once.rs or of the wake-up callback fails, for any  *)
(* number of threads and failures.                                         *)
THEOREM AssertionsHold == OnceSpec => []OnceNoPanic
<1>1. IInv => OnceNoPanic
  BY DEF IInv
<1> QED BY <1>1, Invariant, PTL

(* A queue of an INIT_ONCE always has exactly one initializer that runs    *)
(* and will empty it or hand on the task.                                  *)
THEOREM InitializerExists == OnceSpec => []WaitersHaveInitializer
<1>1. IInv => WaitersHaveInitializer
  BY DEF IInv
<1> QED BY <1>1, Invariant, PTL

(* Whoever is told that initialization is done may read the data without   *)
(* the detector reporting a race.                                          *)
THEOREM DoneIsOrdered == OnceSpec => []DoneKnowsData
<1>1. IInv => DoneKnowsData
  BY DEF IInv, DataCovered, DoneKnowsData
<1> QED BY <1>1, Invariant, PTL
=============================================================================
