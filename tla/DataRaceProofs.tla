--------------------------- MODULE DataRaceProofs ---------------------------
(***************************************************************************)
(* Proofs about DataRace, for any number of threads and any programs.      *)
(***************************************************************************)
EXTENDS DataRace, FiniteSetTheorems, TLAPS

(* The present time of every vector index: its own entry of its own clock. *)
Present == [i \in Thread |-> vector_clocks[i].clock[i]]

(* Clock c knows only times that index i has left behind; at the beginning *)
(* the time is 0 and nothing has happened yet.                             *)
Before(c, P, i) == c[i] < P[i] \/ (c[i] = 0 /\ P[i] = 0)

PastOf(c, P) == \A i \in Thread : Before(c, P, i)

(* A clock set of index j: its clock is at the present of j, and all else  *)
(* in it is past.                                                          *)
Good(k, j, P) ==
    /\ k \in ClockSets
    /\ k.clock[j] = P[j] /\ \A i \in Thread \ {j} : Before(k.clock, P, i)
    /\ PastOf(k.fence_acquire, P) /\ PastOf(k.fence_release, P)

(* Every clock that is kept somewhere knows only the past. *)
Times ==
    /\ \A j \in Thread : Good(vector_clocks[j], j, Present)
    /\ PastOf(race_sc_fence, Present) /\ PastOf(obj_clock, Present)
    /\ \A t \in Thread : life[t] = "Terminated" =>
          termination_clock[t] \in Clocks /\ PastOf(termination_clock[t], Present)
    /\ cell.atomic_ops # None => PastOf(cell.atomic_ops.sync_vector, Present)
    /\ \A i \in Thread : i >= allocated => Present[i] = 0
    /\ allocated > 1 => \A i \in 0 .. allocated - 1 : Present[i] > 0

(* Vector indices are handed out in order, and those of live threads are   *)
(* not up for re-use.                                                      *)
Indices ==
    /\ allocated > 0 /\ 0 .. allocated - 1 \subseteq Thread
    /\ reuse_candidates \subseteq 0 .. allocated - 1
    /\ \A t \in Thread : life[t] = "Live" => vector_index[t] \notin reuse_candidates

AtomicClocks == [read_vector : Clocks, write_vector : Clocks, sync_vector : Clocks,
                 size : race_program.sizes \cup {None}]

CellShape == cell \in [write_index : Thread, write_time : Nat, read : Clocks, atomic_ops : {None} \cup AtomicClocks]

RInv == RaceTypeOK /\ Indices /\ CellShape /\ Times

-----------------------------------------------------------------------------
(* Clocks. *)

Bump(P, i) == [P EXCEPT ![i] = @ + 1]

LEMMA ThreadsAreNumbers == Thread \subseteq Nat /\ 0 \in Thread
  BY ThreadAssumption, StoreBufferAssumption

LEMMA JoinShape ==
    ASSUME NEW a \in Clocks, NEW b \in Clocks
    PROVE  ClockJoin(a, b) \in Clocks /\ \A i \in Thread : ClockJoin(a, b)[i] = IF a[i] >= b[i] THEN a[i] ELSE b[i]
  BY DEF Clocks, ClockJoin

LEMMA IncrementShape ==
    ASSUME NEW a \in Clocks, NEW i \in Thread
    PROVE  /\ ClockIncrement(a, i) \in Clocks /\ ClockIncrement(a, i)[i] = a[i] + 1
           /\ \A j \in Thread \ {i} : ClockIncrement(a, i)[j] = a[j]
  BY DEF Clocks, ClockIncrement

LEMMA ZeroShape == ZeroClock \in Clocks /\ \A i \in Thread : ZeroClock[i] = 0
  BY DEF Clocks, ZeroClock

LEMMA BumpShape ==
    ASSUME NEW P \in Clocks, NEW i \in Thread
    PROVE  Bump(P, i) \in Clocks /\ Bump(P, i)[i] = P[i] + 1 /\ \A j \in Thread \ {i} : Bump(P, i)[j] = P[j]
  BY DEF Clocks, Bump

(* The past stays the past. *)
LEMMA BeforeGrows ==
    ASSUME NEW c \in Clocks, NEW P \in Clocks, NEW Q \in Clocks, NEW i \in Thread, Before(c, P, i), P[i] <= Q[i]
    PROVE  Before(c, Q, i)
  BY DEF Before, Clocks

LEMMA PastGrows ==
    ASSUME NEW c \in Clocks, NEW P \in Clocks, NEW Q \in Clocks, PastOf(c, P), \A i \in Thread : P[i] <= Q[i]
    PROVE  PastOf(c, Q)
  BY BeforeGrows DEF PastOf

LEMMA BeforeJoin ==
    ASSUME NEW a \in Clocks, NEW b \in Clocks, NEW P \in Clocks, NEW i \in Thread, Before(a, P, i), Before(b, P, i)
    PROVE  Before(ClockJoin(a, b), P, i)
<1>1. a[i] \in Nat /\ b[i] \in Nat /\ P[i] \in Nat
  BY DEF Clocks
<1> QED BY <1>1, JoinShape DEF Before

LEMMA PastJoin ==
    ASSUME NEW a \in Clocks, NEW b \in Clocks, NEW P \in Clocks, PastOf(a, P), PastOf(b, P)
    PROVE  PastOf(ClockJoin(a, b), P)
  BY BeforeJoin DEF PastOf

LEMMA PastZero ==
    ASSUME NEW P \in Clocks
    PROVE  PastOf(ZeroClock, P)
<1> SUFFICES ASSUME NEW i \in Thread PROVE Before(ZeroClock, P, i)
  BY DEF PastOf
<1>1. P[i] \in Nat /\ ZeroClock[i] = 0
  BY ZeroShape DEF Clocks
<1> QED BY <1>1 DEF Before

(* A clock set that stays as it is while time goes on elsewhere. *)
LEMMA GoodGrows ==
    ASSUME NEW P \in Clocks, NEW Q \in Clocks, NEW j \in Thread, NEW k, Good(k, j, P),
           Q[j] = P[j], \A i \in Thread : P[i] <= Q[i]
    PROVE  Good(k, j, Q)
<1>1. k.clock \in Clocks /\ k.fence_acquire \in Clocks /\ k.fence_release \in Clocks
  BY DEF Good, ClockSets
<1> QED BY <1>1, BeforeGrows, PastGrows DEF Good

(* Its owner's time advances: everything in it becomes past. *)
LEMMA GoodTick ==
    ASSUME NEW P \in Clocks, NEW j \in Thread, NEW k, Good(k, j, P)
    PROVE  /\ Good(Tick(k, j), j, Bump(P, j)) /\ PastOf(k.clock, Bump(P, j))
           /\ Tick(k, j).clock = ClockIncrement(k.clock, j)
<1>1. /\ k \in ClockSets /\ k.clock \in Clocks /\ k.fence_acquire \in Clocks /\ k.fence_release \in Clocks
      /\ k.clock[j] = P[j] /\ \A i \in Thread \ {j} : Before(k.clock, P, i)
      /\ PastOf(k.fence_acquire, P) /\ PastOf(k.fence_release, P) /\ P[j] \in Nat
  BY DEF Good, ClockSets, Clocks
<1>2. Bump(P, j) \in Clocks /\ Bump(P, j)[j] = P[j] + 1 /\ \A i \in Thread \ {j} : Bump(P, j)[i] = P[i]
  BY BumpShape
<1>3. \A i \in Thread : P[i] <= Bump(P, j)[i]
  <2> SUFFICES ASSUME NEW i \in Thread PROVE P[i] <= Bump(P, j)[i]
    OBVIOUS
  <2>1. P[i] \in Nat /\ P[j] \in Nat
    BY DEF Clocks
  <2>2. Bump(P, j)[i] = P[i] \/ Bump(P, j)[i] = P[i] + 1
    BY <1>2
  <2> QED BY <2>1, <2>2
<1>4. /\ Tick(k, j) \in ClockSets /\ Tick(k, j).clock = ClockIncrement(k.clock, j)
      /\ Tick(k, j).fence_acquire = k.fence_acquire /\ Tick(k, j).fence_release = k.fence_release
  BY <1>1, IncrementShape DEF Tick, ClockSets
<1>5. PastOf(k.fence_acquire, Bump(P, j)) /\ PastOf(k.fence_release, Bump(P, j))
  BY <1>1, <1>2, <1>3, PastGrows
<1>6. PastOf(k.clock, Bump(P, j))
  <2> SUFFICES ASSUME NEW i \in Thread PROVE Before(k.clock, Bump(P, j), i)
    BY DEF PastOf
  <2>1. CASE i = j
    BY <2>1, <1>1, <1>2 DEF Before
  <2>2. CASE i # j
    BY <2>2, <1>1, <1>2, <1>3, BeforeGrows
  <2> QED BY <2>1, <2>2
<1>7. \A i \in Thread \ {j} : Before(Tick(k, j).clock, Bump(P, j), i)
  <2> SUFFICES ASSUME NEW i \in Thread \ {j} PROVE Before(Tick(k, j).clock, Bump(P, j), i)
    OBVIOUS
  <2>1. Tick(k, j).clock[i] = k.clock[i]
    BY <1>1, <1>4, IncrementShape, SMTT(40)
  <2>2. Before(k.clock, Bump(P, j), i)
    BY <1>6 DEF PastOf
  <2> QED BY <2>1, <2>2 DEF Before
<1>8. Tick(k, j).clock[j] = Bump(P, j)[j]
  BY <1>1, <1>2, <1>4, IncrementShape
<1> QED BY <1>4, <1>5, <1>6, <1>7, <1>8 DEF Good

(* Joining a clock of the past moves nobody's present. *)
LEMMA OwnJoin ==
    ASSUME NEW P \in Clocks, NEW j \in Thread, NEW c \in Clocks, NEW s \in Clocks,
           c[j] = P[j], \A i \in Thread \ {j} : Before(c, P, i), PastOf(s, P)
    PROVE  /\ ClockJoin(c, s) \in Clocks /\ ClockJoin(c, s)[j] = P[j]
           /\ \A i \in Thread \ {j} : Before(ClockJoin(c, s), P, i)
<1>1. c[j] \in Nat /\ s[j] \in Nat /\ s[j] <= c[j]
  BY DEF PastOf, Before, Clocks
<1> QED BY <1>1, JoinShape, BeforeJoin DEF PastOf

LEMMA GoodAcquire ==
    ASSUME NEW P \in Clocks, NEW j \in Thread, NEW k, Good(k, j, P), NEW s \in Clocks, PastOf(s, P)
    PROVE  Good(LoadAcquire(k, s), j, P) /\ Good(LoadRelaxed(k, s), j, P)
<1>1. /\ k \in ClockSets /\ k.clock \in Clocks /\ k.fence_acquire \in Clocks /\ k.fence_release \in Clocks
      /\ k.clock[j] = P[j] /\ \A i \in Thread \ {j} : Before(k.clock, P, i)
      /\ PastOf(k.fence_acquire, P) /\ PastOf(k.fence_release, P)
  BY DEF Good, ClockSets
<1>2. /\ ClockJoin(k.clock, s) \in Clocks /\ ClockJoin(k.clock, s)[j] = P[j]
      /\ \A i \in Thread \ {j} : Before(ClockJoin(k.clock, s), P, i)
  BY <1>1, OwnJoin
<1>3. ClockJoin(k.fence_acquire, s) \in Clocks /\ PastOf(ClockJoin(k.fence_acquire, s), P)
  BY <1>1, PastJoin, JoinShape
<1>4. /\ LoadAcquire(k, s) \in ClockSets /\ LoadAcquire(k, s).clock = ClockJoin(k.clock, s)
      /\ LoadAcquire(k, s).fence_acquire = k.fence_acquire /\ LoadAcquire(k, s).fence_release = k.fence_release
  BY <1>1, <1>2 DEF LoadAcquire, ClockSets
<1>5. /\ LoadRelaxed(k, s) \in ClockSets /\ LoadRelaxed(k, s).clock = k.clock
      /\ LoadRelaxed(k, s).fence_acquire = ClockJoin(k.fence_acquire, s) /\ LoadRelaxed(k, s).fence_release = k.fence_release
  BY <1>1, <1>3 DEF LoadRelaxed, ClockSets
<1> QED BY <1>1, <1>2, <1>3, <1>4, <1>5 DEF Good

(* Two clocks that know the present of j at most join to such a clock. *)
LEMMA PresentJoin ==
    ASSUME NEW P \in Clocks, NEW j \in Thread, NEW a \in Clocks, NEW b \in Clocks,
           a[j] <= P[j], b[j] <= P[j], \A i \in Thread \ {j} : Before(a, P, i) /\ Before(b, P, i)
    PROVE  /\ ClockJoin(a, b) \in Clocks /\ ClockJoin(a, b)[j] <= P[j]
           /\ a[j] = P[j] \/ b[j] = P[j] => ClockJoin(a, b)[j] = P[j]
           /\ \A i \in Thread \ {j} : Before(ClockJoin(a, b), P, i)
           /\ PastOf(ClockJoin(a, b), Bump(P, j))
<1>1. a[j] \in Nat /\ b[j] \in Nat /\ P[j] \in Nat
  BY DEF Clocks
<1>2. ClockJoin(a, b) \in Clocks /\ ClockJoin(a, b)[j] = IF a[j] >= b[j] THEN a[j] ELSE b[j]
  BY JoinShape
<1>3. ClockJoin(a, b)[j] <= P[j] /\ (a[j] = P[j] \/ b[j] = P[j] => ClockJoin(a, b)[j] = P[j])
  BY <1>1, <1>2
<1>4. \A i \in Thread \ {j} : Before(ClockJoin(a, b), P, i)
  BY BeforeJoin
<1>5. PastOf(ClockJoin(a, b), Bump(P, j))
  <2> SUFFICES ASSUME NEW i \in Thread PROVE Before(ClockJoin(a, b), Bump(P, j), i)
    BY DEF PastOf
  <2>1. CASE i = j
    <3>1. Bump(P, j)[j] = P[j] + 1 /\ ClockJoin(a, b)[j] \in Nat
      BY <1>2, BumpShape DEF Clocks
    <3> QED BY <2>1, <3>1, <1>1, <1>3 DEF Before
  <2>2. CASE i # j
    <3>1. Bump(P, j)[i] = P[i]
      BY <2>2, BumpShape
    <3> QED BY <2>2, <3>1, <1>4 DEF Before
  <2> QED BY <2>1, <2>2
<1> QED BY <1>2, <1>3, <1>4, <1>5

(* A fence, and the clock that SeqCst fences share. *)
LEMMA GoodFence ==
    ASSUME NEW P \in Clocks, NEW j \in Thread, NEW k, Good(k, j, P), NEW s \in Clocks, PastOf(s, P), NEW ord
    PROVE  \E Q \in {P, Bump(P, j)} :
             /\ Good(FenceClocks(k, j, ord, s, ZeroClock), j, Q)
             /\ FenceGlobal(k, ord, s) \in Clocks /\ PastOf(FenceGlobal(k, ord, s), Q)
<1> DEFINE all == LoadAcquire(k, k.fence_acquire)
           acq == IF ord = "Release" THEN k ELSE all
           F == ScFenceClock(all, s)
           sc == IF ord # "SeqCst" THEN acq
                 ELSE [acq EXCEPT !.clock = ClockJoin(@, F), !.write_seqcst = ClockJoin(@, ZeroClock)]
           rel == [sc EXCEPT !.fence_release = sc.clock]
<1>1. k \in ClockSets /\ k.fence_acquire \in Clocks /\ PastOf(k.fence_acquire, P) /\ P[j] \in Nat
  BY DEF Good, ClockSets, Clocks
<1>2. Good(all, j, P) /\ Good(acq, j, P)
  BY <1>1, GoodAcquire
<1> HIDE DEF all
<1>3. /\ all.clock \in Clocks /\ all.clock[j] = P[j] /\ \A i \in Thread \ {j} : Before(all.clock, P, i)
      /\ s[j] <= P[j] /\ \A i \in Thread \ {j} : Before(s, P, i)
  <2>1. all.clock \in Clocks /\ all.clock[j] = P[j] /\ \A i \in Thread \ {j} : Before(all.clock, P, i)
    BY <1>2 DEF Good, ClockSets
  <2>2. Before(s, P, j) /\ s[j] \in Nat
    BY DEF PastOf, Clocks
  <2>3. s[j] <= P[j]
    BY <2>2, <1>1 DEF Before
  <2> QED BY <2>1, <2>3 DEF PastOf
<1>4. /\ F \in Clocks /\ F[j] = P[j] /\ \A i \in Thread \ {j} : Before(F, P, i)
      /\ PastOf(F, Bump(P, j))
  BY <1>1, <1>3, PresentJoin DEF ScFenceClock
<1> HIDE DEF F
<1>5. Good(sc, j, P)
  <2>1. CASE ord # "SeqCst"
    BY <2>1, <1>2
  <2>2. CASE ord = "SeqCst"
    <3>1. acq = all /\ all \in ClockSets /\ PastOf(all.fence_acquire, P) /\ PastOf(all.fence_release, P)
      BY <2>2, <1>2 DEF Good
    <3>2. /\ ClockJoin(all.clock, F) \in Clocks /\ ClockJoin(all.clock, F)[j] = P[j]
          /\ \A i \in Thread \ {j} : Before(ClockJoin(all.clock, F), P, i)
      BY <1>1, <1>3, <1>4, PresentJoin
    <3>3. ClockJoin(all.write_seqcst, ZeroClock) \in Clocks
      BY <3>1, ZeroShape, JoinShape DEF ClockSets
    <3>4. /\ sc \in ClockSets /\ sc.clock = ClockJoin(all.clock, F)
          /\ sc.fence_acquire = all.fence_acquire /\ sc.fence_release = all.fence_release
      BY <2>2, <3>1, <3>2, <3>3 DEF ClockSets
    <3> QED BY <3>1, <3>2, <3>4 DEF Good
  <2> QED BY <2>1, <2>2
<1>6. FenceGlobal(k, ord, s) = IF ord # "SeqCst" THEN s ELSE F
  BY DEF FenceGlobal, F, all
<1>7. FenceClocks(k, j, ord, s, ZeroClock) = IF ord = "Acquire" THEN sc ELSE Tick(rel, j)
  <2>1. CASE ord = "SeqCst"
    <3>1. acq = all /\ ord # "Acquire" /\ F = ScFenceClock(acq, s)
      BY <2>1 DEF F
    <3> HIDE DEF acq
    <3>2. sc = [acq EXCEPT !.clock = ClockJoin(@, ScFenceClock(acq, s)), !.write_seqcst = ClockJoin(@, ZeroClock)]
      BY <2>1, <3>1
    <3> QED BY <2>1, <3>1, <3>2 DEF FenceClocks, acq, all
  <2>2. CASE ord # "SeqCst"
    BY <2>2 DEF FenceClocks, all
  <2> QED BY <2>1, <2>2
<1>8. CASE ord = "Acquire"
  <2>1. FenceGlobal(k, ord, s) = s /\ FenceClocks(k, j, ord, s, ZeroClock) = sc
    BY <1>6, <1>7, <1>8
  <2> QED BY <2>1, <1>5
<1>9. CASE ord # "Acquire"
  <2> HIDE DEF sc
  <2>0. Bump(P, j) \in Clocks /\ \A i \in Thread : P[i] <= Bump(P, j)[i]
    <3>1. \A i \in Thread : Bump(P, j)[i] = P[i] \/ (i = j /\ Bump(P, j)[i] = P[j] + 1)
      BY BumpShape
    <3>2. \A i \in Thread : P[i] \in Nat
      BY DEF Clocks
    <3> QED BY <3>1, <3>2, BumpShape
  <2>1. Good(Tick(sc, j), j, Bump(P, j)) /\ PastOf(sc.clock, Bump(P, j)) /\ sc \in ClockSets
    BY <1>5, GoodTick DEF Good
  <2>2. /\ Tick(rel, j) \in ClockSets /\ Tick(rel, j).clock = Tick(sc, j).clock
        /\ Tick(rel, j).fence_acquire = Tick(sc, j).fence_acquire /\ Tick(rel, j).fence_release = sc.clock
    <3>1. sc.clock \in Clocks /\ ClockIncrement(sc.clock, j) \in Clocks
      BY <2>1, IncrementShape DEF ClockSets
    <3> QED BY <2>1, <3>1 DEF Tick, ClockSets
  <2>3. Good(Tick(rel, j), j, Bump(P, j))
    BY <2>1, <2>2 DEF Good
  <2>4. FenceGlobal(k, ord, s) \in Clocks /\ PastOf(FenceGlobal(k, ord, s), Bump(P, j))
    BY <1>4, <1>6, <2>0, PastGrows
  <2>5. FenceClocks(k, j, ord, s, ZeroClock) = Tick(rel, j)
    BY <1>7, <1>9
  <2> QED BY <2>3, <2>4, <2>5
<1> QED BY <1>8, <1>9

-----------------------------------------------------------------------------
(* Steps. *)

LEMMA Parts == RInv <=> RaceTypeOK /\ Indices /\ CellShape /\ Times
  BY DEF RInv

LEMMA PartsNext == RInv' <=> RaceTypeOK' /\ Indices' /\ CellShape' /\ Times'
  BY DEF RInv

LEMMA PresentShape ==
    ASSUME RaceTypeOK
    PROVE  Present \in Clocks /\ \A i \in Thread : Present[i] = vector_clocks[i].clock[i]
<1>1. \A i \in Thread : vector_clocks[i].clock \in Clocks
  BY DEF RaceTypeOK, ClockSets
<1>2. \A i \in Thread : vector_clocks[i].clock[i] \in Nat
  BY <1>1 DEF Clocks
<1> QED BY <1>2 DEF Present, Clocks

(* The clock set of one index changes, and its time may advance. *)
LEMMA OneMoves ==
    ASSUME RInv, NEW i \in Thread, NEW k, NEW Q \in {Present, Bump(Present, i)}, Good(k, i, Q),
           vector_clocks' = [vector_clocks EXCEPT ![i] = k]
    PROVE  /\ Present' = Q /\ Q \in Clocks /\ vector_clocks' \in [Thread -> ClockSets]
           /\ \A j \in Thread : Good(vector_clocks'[j], j, Q)
           /\ \A j \in Thread : Present[j] <= Q[j]
           /\ \A j \in Thread \ {i} : Q[j] = Present[j]
           /\ \A c \in Clocks : PastOf(c, Present) => PastOf(c, Q)
<1>1. RaceTypeOK /\ Times /\ Present \in Clocks /\ \A j \in Thread : Present[j] = vector_clocks[j].clock[j]
  BY Parts, PresentShape
<1>2. vector_clocks \in [Thread -> ClockSets] /\ k \in ClockSets /\ k.clock[i] = Q[i]
  BY <1>1 DEF RaceTypeOK, Good
<1>3. Q \in Clocks /\ (\A j \in Thread \ {i} : Q[j] = Present[j]) /\ (Q[i] = Present[i] \/ Q[i] = Present[i] + 1)
  BY <1>1, BumpShape
<1>4. \A j \in Thread : Present[j] <= Q[j]
  <2> SUFFICES ASSUME NEW j \in Thread PROVE Present[j] <= Q[j]
    OBVIOUS
  <2>1. Present[j] \in Nat
    BY <1>1 DEF Clocks
  <2>2. Q[j] = Present[j] \/ Q[j] = Present[j] + 1
    BY <1>3
  <2> QED BY <2>1, <2>2
<1>5. /\ vector_clocks' \in [Thread -> ClockSets] /\ vector_clocks'[i] = k
      /\ \A j \in Thread \ {i} : vector_clocks'[j] = vector_clocks[j]
  BY <1>2
<1>6. Present' = Q
  <2>1. \A j \in Thread : vector_clocks'[j].clock[j] = Q[j]
    BY <1>1, <1>2, <1>3, <1>5
  <2>2. Q = [j \in Thread |-> Q[j]]
    BY <1>3 DEF Clocks
  <2> QED BY <2>1, <2>2 DEF Present
<1>7. \A j \in Thread : Good(vector_clocks'[j], j, Q)
  <2> SUFFICES ASSUME NEW j \in Thread PROVE Good(vector_clocks'[j], j, Q)
    OBVIOUS
  <2>1. CASE j = i
    BY <2>1, <1>5
  <2>2. CASE j # i
    <3>1. Good(vector_clocks[j], j, Present)
      BY <1>1 DEF Times
    <3>2. vector_clocks'[j] = vector_clocks[j] /\ Q[j] = Present[j]
      BY <2>2, <1>3, <1>5
    <3> QED BY <3>1, <3>2, <1>1, <1>3, <1>4, GoodGrows
  <2> QED BY <2>1, <2>2
<1>8. \A c \in Clocks : PastOf(c, Present) => PastOf(c, Q)
  BY <1>1, <1>3, <1>4, PastGrows
<1> QED BY <1>3, <1>4, <1>5, <1>6, <1>7, <1>8

(* What a step of thread t needs for the clocks to stay in order. *)
LEMMA TimesKept ==
    ASSUME RInv, NEW i \in 0 .. allocated - 1, NEW k, NEW Q \in {Present, Bump(Present, i)}, Good(k, i, Q),
           vector_clocks' = [vector_clocks EXCEPT ![i] = k], allocated' = allocated,
           PastOf(race_sc_fence', Q), PastOf(obj_clock', Q),
           \A u \in Thread : life'[u] = "Terminated" =>
              termination_clock'[u] \in Clocks /\ PastOf(termination_clock'[u], Q),
           cell'.atomic_ops # None => PastOf(cell'.atomic_ops.sync_vector, Q)
    PROVE  Times' /\ vector_clocks' \in [Thread -> ClockSets]
<1>1. RaceTypeOK /\ Times /\ Indices /\ Present \in Clocks /\ i \in Thread /\ allocated \in Nat
  BY Parts, PresentShape DEF Indices, RaceTypeOK
<1>2. /\ Present' = Q /\ Q \in Clocks /\ vector_clocks' \in [Thread -> ClockSets]
      /\ \A j \in Thread : Good(vector_clocks'[j], j, Q)
      /\ \A j \in Thread : Present[j] <= Q[j]
      /\ \A j \in Thread \ {i} : Q[j] = Present[j]
  BY <1>1, OneMoves
<1>3. \A j \in Thread : j >= allocated => Q[j] = 0
  <2>1. i < allocated /\ Thread \subseteq Nat
    BY <1>1, ThreadsAreNumbers
  <2>2. \A j \in Thread : j >= allocated => j # i /\ Present[j] = 0
    BY <1>1, <2>1 DEF Times
  <2> QED BY <1>2, <2>2
<1>4. allocated > 1 => \A j \in 0 .. allocated - 1 : Q[j] > 0
  <2> SUFFICES ASSUME allocated > 1, NEW j \in 0 .. allocated - 1 PROVE Q[j] > 0
    OBVIOUS
  <2>1. Present[j] > 0 /\ j \in Thread
    BY <1>1 DEF Times, Indices
  <2>2. Present[j] \in Nat /\ Q[j] \in Nat /\ Present[j] <= Q[j]
    BY <1>1, <1>2, <2>1 DEF Clocks
  <2> QED BY <2>1, <2>2
<1> QED BY <1>2, <1>3, <1>4 DEF Times

(* What a live thread finds. *)
LEMMA Found ==
    ASSUME RInv, NEW t \in Thread, life[t] = "Live"
    PROVE  /\ Present \in Clocks /\ vector_index[t] \in Thread /\ vector_index[t] \in 0 .. allocated - 1
           /\ Good(vector_clocks[vector_index[t]], vector_index[t], Present)
           /\ vector_clocks[vector_index[t]] \in ClockSets
           /\ vector_clocks = [vector_clocks EXCEPT ![vector_index[t]] = vector_clocks[vector_index[t]]]
           /\ Clock(t) \in Clocks /\ Clock(t)[vector_index[t]] \in Nat
           /\ race_sc_fence \in Clocks /\ obj_clock \in Clocks
           /\ \A Q \in {Present, Bump(Present, vector_index[t])} :
                 /\ Q \in Clocks /\ PastOf(race_sc_fence, Q) /\ PastOf(obj_clock, Q)
                 /\ \A c \in Clocks : PastOf(c, Present) => PastOf(c, Q)
                 /\ cell.atomic_ops # None => PastOf(cell.atomic_ops.sync_vector, Q)
<1>1. RaceTypeOK /\ Indices /\ Times /\ CellShape /\ Present \in Clocks
  BY Parts, PresentShape
<1>2. vector_index[t] \in Thread /\ vector_index[t] \in 0 .. allocated - 1
  BY <1>1 DEF RaceTypeOK, Indices
<1>3. /\ Good(vector_clocks[vector_index[t]], vector_index[t], Present)
      /\ vector_clocks \in [Thread -> ClockSets] /\ race_sc_fence \in Clocks /\ obj_clock \in Clocks
  BY <1>1, <1>2 DEF Times, RaceTypeOK
<1>4. /\ vector_clocks[vector_index[t]] \in ClockSets
      /\ vector_clocks = [vector_clocks EXCEPT ![vector_index[t]] = vector_clocks[vector_index[t]]]
  BY <1>2, <1>3
<1>5. Clock(t) \in Clocks
  BY <1>4 DEF Clock, ClockSets
<1>6. Clock(t)[vector_index[t]] \in Nat
  BY <1>2, <1>5 DEF Clocks
<1>7. PastOf(race_sc_fence, Present) /\ PastOf(obj_clock, Present)
  BY <1>1 DEF Times
<1>8. cell.atomic_ops # None => cell.atomic_ops.sync_vector \in Clocks /\ PastOf(cell.atomic_ops.sync_vector, Present)
  BY <1>1 DEF Times, CellShape, AtomicClocks
<1>9. ASSUME NEW Q \in {Present, Bump(Present, vector_index[t])}
      PROVE  Q \in Clocks /\ \A c \in Clocks : PastOf(c, Present) => PastOf(c, Q)
  <2>1. Q \in Clocks /\ \A j \in Thread : Q[j] = Present[j] \/ (j = vector_index[t] /\ Q[j] = Present[j] + 1)
    BY <1>1, <1>2, BumpShape, SMTT(40)
  <2>2. \A j \in Thread : Present[j] \in Nat
    BY <1>1 DEF Clocks
  <2>3. \A j \in Thread : Present[j] <= Q[j]
    <3> SUFFICES ASSUME NEW j \in Thread PROVE Present[j] <= Q[j]
      OBVIOUS
    <3>1. Present[j] \in Nat /\ (Q[j] = Present[j] \/ Q[j] = Present[j] + 1)
      BY <2>1, <2>2
    <3> QED BY <3>1
  <2> QED BY <1>1, <2>1, <2>3, PastGrows
<1> QED BY <1>1, <1>2, <1>3, <1>4, <1>5, <1>6, <1>7, <1>8, <1>9

(* A step that neither creates nor ends nor joins a thread. *)
LEMMA AccessFrame ==
    ASSUME RInv, UNCHANGED <<race_program, globalVars>>, NEW t \in Thread, life[t] = "Live",
           NEW k, NEW Q \in {Present, Bump(Present, vector_index[t])}, Good(k, vector_index[t], Q),
           vector_clocks' = [vector_clocks EXCEPT ![vector_index[t]] = k],
           race_sc_fence' \in Clocks, PastOf(race_sc_fence', Q), obj_clock' \in Clocks, PastOf(obj_clock', Q),
           CellShape', cell'.atomic_ops # None => PastOf(cell'.atomic_ops.sync_vector, Q),
           halt' \in {"no", "race"}
    PROVE  RInv'
<1>1. RaceTypeOK /\ Indices /\ Times
  BY Parts
<1>2. /\ race_program' = race_program /\ life' = life /\ vector_index' = vector_index /\ termination_clock' = termination_clock
      /\ allocated' = allocated /\ reuse_candidates' = reuse_candidates /\ multi_threaded' = multi_threaded
  BY DEF globalVars
<1>3. vector_index[t] \in 0 .. allocated - 1 /\ vector_index[t] \in Thread
  BY <1>1 DEF RaceTypeOK, Indices
<1>4. \A c \in Clocks : PastOf(c, Present) => PastOf(c, Q)
  BY Found
<1>5. \A u \in Thread : life'[u] = "Terminated" =>
         termination_clock'[u] \in Clocks /\ PastOf(termination_clock'[u], Q)
  BY <1>1, <1>2, <1>4 DEF Times
<1>6. Times' /\ vector_clocks' \in [Thread -> ClockSets]
  BY <1>2, <1>3, <1>5, TimesKept
<1>7. Indices'
  BY <1>1, <1>2 DEF Indices
<1>8. cell'.write_index \in Thread /\ cell'.write_time \in Nat /\ cell'.read \in Clocks
  BY DEF CellShape
<1>9. RaceTypeOK'
  BY <1>1, <1>2, <1>6, <1>8 DEF RaceTypeOK
<1> QED BY <1>6, <1>7, <1>9, PartsNext

(* The atomic clocks of the cell as an access finds them. *)
LEMMA AtomicsShape ==
    ASSUME RInv, NEW t \in Thread, life[t] = "Live", NEW c, NEW size \in race_program.sizes
    PROVE  /\ Atomics(c, size) \in AtomicClocks
           /\ \A Q \in {Present, Bump(Present, vector_index[t])} : PastOf(Atomics(c, size).sync_vector, Q)
<1>1. CellShape
  BY Parts
<1>2. CASE cell.atomic_ops = NoAtomics
  <2>1. Atomics(c, size) = NewAtomics(size)
    BY <1>2 DEF Atomics
  <2>2. NewAtomics(size) \in AtomicClocks /\ NewAtomics(size).sync_vector = ZeroClock
    BY ZeroShape DEF NewAtomics, AtomicClocks
  <2> QED BY <2>1, <2>2, Found, PastZero
<1>3. CASE cell.atomic_ops # NoAtomics
  <2>1. cell.atomic_ops \in AtomicClocks
    BY <1>1, <1>3 DEF CellShape, NoAtomics
  <2>2. PICK s \in race_program.sizes \cup {None} : Atomics(c, size) = [cell.atomic_ops EXCEPT !.size = s]
    BY <1>3, <2>1 DEF Atomics, AtomicClocks
  <2>3. Atomics(c, size) \in AtomicClocks /\ Atomics(c, size).sync_vector = cell.atomic_ops.sync_vector
    BY <2>1, <2>2 DEF AtomicClocks
  <2> QED BY <1>3, <2>3, Found DEF NoAtomics
<1> QED BY <1>2, <1>3

(* What an atomic access acquires is the same whatever it does to the size. *)
LEMMA SyncShape ==
    ASSUME RInv, NEW t \in Thread, life[t] = "Live", NEW c, NEW size \in race_program.sizes
    PROVE  SyncVector = Atomics(c, size).sync_vector
<1>1. CellShape
  BY Parts
<1>2. CASE cell.atomic_ops = NoAtomics
  BY <1>2 DEF SyncVector, Atomics, NewAtomics
<1>3. CASE cell.atomic_ops # NoAtomics
  <2>1. cell.atomic_ops \in AtomicClocks
    BY <1>1, <1>3 DEF CellShape, NoAtomics
  <2>2. PICK s : Atomics(c, size) = [cell.atomic_ops EXCEPT !.size = s]
    BY <1>3, <2>1 DEF Atomics, AtomicClocks
  <2> QED BY <1>3, <2>1, <2>2 DEF SyncVector, AtomicClocks
<1> QED BY <1>2, <1>3

LEMMA EntryShape ==
    ASSUME NEW c \in Clocks, NEW i \in Thread, NEW v \in Nat
    PROVE  [c EXCEPT ![i] = v] \in Clocks
  BY DEF Clocks

(* Steps that leave the clocks of the threads alone. *)
LEMMA PlainKeeps ==
    ASSUME RInv, NEW t \in Thread, (\E a \in Accesses : Report(t, a)) \/ NaRead(t) \/ NaWrite(t)
    PROVE  RInv'
<1> DEFINE i == vector_index[t]
<1>1. /\ life[t] = "Live" /\ halt = "no" /\ UNCHANGED <<race_program, globalVars>>
      /\ vector_clocks' = vector_clocks /\ race_sc_fence' = race_sc_fence /\ obj_clock' = obj_clock /\ halt' \in {"no", "race"}
      /\ \/ cell' = cell \/ cell' = [cell EXCEPT !.read[i] = Clock(t)[i]]
         \/ cell' = Written(i, Clock(t)[i])
  BY DEF Report, NaRead, NaWrite, Runs
<1>2. /\ Present \in Clocks /\ i \in Thread /\ Good(vector_clocks[i], i, Present)
      /\ vector_clocks = [vector_clocks EXCEPT ![i] = vector_clocks[i]]
      /\ race_sc_fence \in Clocks /\ obj_clock \in Clocks /\ PastOf(race_sc_fence, Present) /\ PastOf(obj_clock, Present)
      /\ cell.atomic_ops # None => PastOf(cell.atomic_ops.sync_vector, Present)
      /\ Clock(t) \in Clocks /\ Clock(t)[i] \in Nat
  BY <1>1, Found
<1>3. CellShape
  BY Parts
<1> HIDE DEF i
<1>4. CellShape' /\ (cell'.atomic_ops # None => PastOf(cell'.atomic_ops.sync_vector, Present))
  <2>0. AtomicClocks' = AtomicClocks
    BY <1>1 DEF AtomicClocks
  <2>1. CASE cell' = cell
    BY <2>0, <2>1, <1>2, <1>3 DEF CellShape
  <2>2. CASE cell' = [cell EXCEPT !.read[i] = Clock(t)[i]]
    <3>1. [cell.read EXCEPT ![i] = Clock(t)[i]] \in Clocks
      BY <1>2, <1>3, EntryShape DEF CellShape
    <3>2. CellShape' /\ cell'.atomic_ops = cell.atomic_ops
      BY <2>0, <2>2, <3>1, <1>3 DEF CellShape
    <3> QED BY <3>2, <1>2
  <2>3. CASE cell' = Written(i, Clock(t)[i])
    BY <2>0, <2>3, <1>2, ZeroShape DEF CellShape, Written, NoAtomics
  <2> QED BY <1>1, <2>1, <2>2, <2>3
<1>5. vector_clocks' = [vector_clocks EXCEPT ![i] = vector_clocks[i]]
  BY <1>1, <1>2
<1> QED BY <1>1, <1>2, <1>4, <1>5, AccessFrame DEF i

(* What an atomic access does to the cell and to the clocks of its thread. *)
LEMMA AtomicFrame ==
    ASSUME RInv, NEW t \in Thread, life[t] = "Live", UNCHANGED <<race_program, globalVars, race_sc_fence, obj_clock, halt>>,
           NEW k, NEW Q \in {Present, Bump(Present, vector_index[t])}, Good(k, vector_index[t], Q),
           vector_clocks' = [vector_clocks EXCEPT ![vector_index[t]] = k],
           NEW at \in AtomicClocks, PastOf(at.sync_vector, Q), cell' = [cell EXCEPT !.atomic_ops = at]
    PROVE  RInv'
<1>1. CellShape /\ AtomicClocks' = AtomicClocks /\ RaceTypeOK
  BY Parts DEF AtomicClocks
<1>2. CellShape' /\ cell'.atomic_ops = at
  BY <1>1 DEF CellShape
<1>3. race_sc_fence' \in Clocks /\ PastOf(race_sc_fence', Q) /\ obj_clock' \in Clocks /\ PastOf(obj_clock', Q)
  BY Found
<1>4. halt' \in {"no", "race"} /\ UNCHANGED <<race_program, globalVars>>
  BY <1>1 DEF RaceTypeOK
<1> QED BY <1>2, <1>3, <1>4, AccessFrame

LEMMA StillKeeps ==
    ASSUME RInv, UNCHANGED <<race_program, globalVars, vector_clocks, race_sc_fence, cell, obj_clock, halt>>
    PROVE  RInv'
<1>1. /\ race_program' = race_program /\ life' = life /\ vector_index' = vector_index /\ termination_clock' = termination_clock
      /\ allocated' = allocated /\ reuse_candidates' = reuse_candidates /\ multi_threaded' = multi_threaded
      /\ vector_clocks' = vector_clocks /\ race_sc_fence' = race_sc_fence /\ cell' = cell /\ obj_clock' = obj_clock /\ halt' = halt
  BY DEF globalVars
<1>2. RaceTypeOK /\ Indices /\ CellShape /\ Times
  BY Parts
<1>3. RaceTypeOK' /\ Indices'
  BY <1>1, <1>2 DEF RaceTypeOK, Indices
<1>4. CellShape'
  BY <1>1, <1>2 DEF CellShape, AtomicClocks
<1>5. Present' = Present
  BY <1>1 DEF Present
<1>6. Times'
  BY <1>1, <1>2, <1>5 DEF Times
<1> QED BY <1>3, <1>4, <1>6, PartsNext

LEMMA AtomicLoadKeeps ==
    ASSUME RInv, NEW t \in Thread, NEW ord, NEW size \in race_program.sizes, AtomicLoad(t, ord, size)
    PROVE  RInv'
<1> DEFINE i == vector_index[t]
           at == Atomics(Clock(t), size)
           k == IF ord = "Relaxed" THEN LoadRelaxed(vector_clocks[i], at.sync_vector)
                ELSE LoadAcquire(vector_clocks[i], at.sync_vector)
<1>1. life[t] = "Live" /\ UNCHANGED <<race_program, globalVars, race_sc_fence, obj_clock, halt>>
  BY DEF AtomicLoad, Runs
<1>2. CASE ~multi_threaded
  <2>1. UNCHANGED <<cell, vector_clocks>>
    BY <1>2 DEF AtomicLoad
  <2> QED BY <1>1, <2>1, StillKeeps
<1>3. CASE multi_threaded
  <2>1. /\ cell' = [cell EXCEPT !.atomic_ops = [at EXCEPT !.read_vector[i] = Clock(t)[i]]]
        /\ vector_clocks' = [vector_clocks EXCEPT ![i] = Tick(k, i)]
    BY <1>3 DEF AtomicLoad, ValidateLoad, Sync
  <2>2. /\ Present \in Clocks /\ i \in Thread /\ Good(vector_clocks[i], i, Present) /\ Clock(t)[i] \in Nat
    BY <1>1, Found
  <2>3. /\ at \in AtomicClocks /\ at.sync_vector \in Clocks /\ PastOf(at.sync_vector, Present)
        /\ PastOf(at.sync_vector, Bump(Present, i))
    BY <1>1, AtomicsShape DEF AtomicClocks
  <2> HIDE DEF at, i
  <2>4. Good(Tick(k, i), i, Bump(Present, i))
    <3>1. Good(k, i, Present)
      BY <2>2, <2>3, GoodAcquire
    <3> QED BY <3>1, <2>2, GoodTick
  <2> DEFINE new == [at EXCEPT !.read_vector[i] = Clock(t)[i]]
  <2>5. new \in AtomicClocks /\ new.sync_vector = at.sync_vector
    <3>1. [at.read_vector EXCEPT ![i] = Clock(t)[i]] \in Clocks
      BY <2>2, <2>3, EntryShape DEF AtomicClocks
    <3> QED BY <2>3, <3>1 DEF AtomicClocks
  <2> HIDE DEF new, k
  <2> QED BY <1>1, <2>1, <2>3, <2>4, <2>5, AtomicFrame DEF i, new
<1> QED BY <1>2, <1>3

LEMMA AtomicStoreKeeps ==
    ASSUME RInv, NEW t \in Thread, NEW ord, NEW size \in race_program.sizes, AtomicStore(t, ord, size)
    PROVE  RInv'
<1> DEFINE i == vector_index[t]
           at == Atomics(Clock(t), size)
           s == StoreSync(vector_clocks[i], ord)
<1>1. life[t] = "Live" /\ UNCHANGED <<race_program, globalVars, race_sc_fence, obj_clock, halt>>
  BY DEF AtomicStore, Runs
<1>2. CASE ~multi_threaded
  <2>1. UNCHANGED <<cell, vector_clocks>>
    BY <1>2 DEF AtomicStore
  <2> QED BY <1>1, <2>1, StillKeeps
<1>3. CASE multi_threaded
  <2> DEFINE new == [at EXCEPT !.write_vector[i] = Clock(t)[i], !.sync_vector = s]
  <2>1. /\ cell' = [cell EXCEPT !.atomic_ops = new]
        /\ vector_clocks' = [vector_clocks EXCEPT ![i] = Tick(vector_clocks[i], i)]
    BY <1>3 DEF AtomicStore
  <2>2. /\ Present \in Clocks /\ i \in Thread /\ Good(vector_clocks[i], i, Present) /\ Clock(t)[i] \in Nat
    BY <1>1, Found
  <2>3. at \in AtomicClocks
    BY <1>1, AtomicsShape
  <2> HIDE DEF at, i
  <2>4. /\ Good(Tick(vector_clocks[i], i), i, Bump(Present, i)) /\ PastOf(vector_clocks[i].clock, Bump(Present, i))
        /\ PastOf(vector_clocks[i].fence_release, Bump(Present, i))
    <3>1. Tick(vector_clocks[i], i).fence_release = vector_clocks[i].fence_release
      BY <2>2 DEF Tick, Good, ClockSets
    <3> QED BY <2>2, <3>1, GoodTick DEF Good
  <2>5. s \in Clocks /\ PastOf(s, Bump(Present, i))
    BY <2>2, <2>4 DEF StoreSync, Good, ClockSets
  <2> HIDE DEF s
  <2>6. new \in AtomicClocks /\ new.sync_vector = s
    <3>1. [at.write_vector EXCEPT ![i] = Clock(t)[i]] \in Clocks
      BY <2>2, <2>3, EntryShape DEF AtomicClocks
    <3> QED BY <2>3, <2>5, <3>1 DEF AtomicClocks
  <2> HIDE DEF new
  <2> QED BY <1>1, <2>1, <2>4, <2>5, <2>6, AtomicFrame DEF i
<1> QED BY <1>2, <1>3

LEMMA AtomicRmwKeeps ==
    ASSUME RInv, NEW t \in Thread, NEW ord, NEW size \in race_program.sizes, AtomicRmw(t, ord, size)
    PROVE  RInv'
<1> DEFINE i == vector_index[t]
           k == RmwAcquire(vector_clocks[i], ord, SyncVector)
           at == Atomics(k.clock, size)
           s == RmwSync(k, ord, at.sync_vector)
<1>1. life[t] = "Live" /\ UNCHANGED <<race_program, globalVars, race_sc_fence, obj_clock, halt>>
  BY DEF AtomicRmw, Runs
<1>2. CASE ~multi_threaded
  <2>1. UNCHANGED <<cell, vector_clocks>>
    BY <1>2 DEF AtomicRmw
  <2> QED BY <1>1, <2>1, StillKeeps
<1>3. CASE multi_threaded
  <2> DEFINE new == [at EXCEPT !.read_vector[i] = Clock(t)[i], !.write_vector[i] = k.clock[i], !.sync_vector = s]
  <2>2. /\ Present \in Clocks /\ i \in Thread /\ Good(vector_clocks[i], i, Present) /\ Clock(t)[i] \in Nat
        /\ Bump(Present, i) \in Clocks
    BY <1>1, Found
  <2>3. /\ at \in AtomicClocks /\ at.sync_vector \in Clocks /\ PastOf(at.sync_vector, Present)
        /\ PastOf(at.sync_vector, Bump(Present, i)) /\ SyncVector = at.sync_vector
    BY <1>1, AtomicsShape, SyncShape DEF AtomicClocks
  <2>1. /\ cell' = [cell EXCEPT !.atomic_ops = new]
        /\ vector_clocks' = [vector_clocks EXCEPT ![i] = Tick(k, i)]
    BY <1>3, <2>3 DEF AtomicRmw, AtomicClocks
  <2> HIDE DEF at, i
  <2>4. /\ Good(Tick(k, i), i, Bump(Present, i)) /\ PastOf(k.clock, Bump(Present, i))
        /\ PastOf(k.fence_release, Bump(Present, i)) /\ k \in ClockSets
    <3>1. Good(k, i, Present)
      BY <2>2, <2>3, GoodAcquire DEF RmwAcquire
    <3> HIDE DEF k
    <3>2. Tick(k, i).fence_release = k.fence_release /\ k \in ClockSets
      BY <3>1 DEF Tick, Good, ClockSets
    <3> QED BY <2>2, <3>1, <3>2, GoodTick DEF Good
  <2> HIDE DEF k
  <2>7. k.clock[i] \in Nat
    BY <2>2, <2>4 DEF ClockSets, Clocks
  <2>5. s \in Clocks /\ PastOf(s, Bump(Present, i))
    <3>1. k.clock \in Clocks /\ k.fence_release \in Clocks
      BY <2>4 DEF ClockSets
    <3> QED BY <3>1, <2>2, <2>3, <2>4, PastJoin, JoinShape DEF RmwSync
  <2> HIDE DEF s
  <2>6. new \in AtomicClocks /\ new.sync_vector = s
    <3>1. [at.write_vector EXCEPT ![i] = k.clock[i]] \in Clocks /\ [at.read_vector EXCEPT ![i] = Clock(t)[i]] \in Clocks
      BY <2>2, <2>3, <2>7, EntryShape DEF AtomicClocks
    <3> QED BY <2>3, <2>5, <3>1 DEF AtomicClocks
  <2> HIDE DEF new
  <2> QED BY <1>1, <2>1, <2>4, <2>5, <2>6, AtomicFrame DEF i
<1> QED BY <1>2, <1>3

LEMMA FenceKeeps ==
    ASSUME RInv, NEW t \in Thread, NEW ord, RaceFence(t, ord)
    PROVE  RInv'
<1> DEFINE i == vector_index[t]
           k == FenceClocks(vector_clocks[i], i, ord, race_sc_fence, ZeroClock)
<1>1. life[t] = "Live" /\ UNCHANGED <<race_program, globalVars, cell, obj_clock, halt>>
  BY DEF RaceFence, Runs
<1>2. CASE ~multi_threaded
  <2>1. UNCHANGED <<vector_clocks, race_sc_fence>>
    BY <1>2 DEF RaceFence
  <2> QED BY <1>1, <2>1, StillKeeps
<1>3. CASE multi_threaded
  <2>1. vector_clocks' = [vector_clocks EXCEPT ![i] = k] /\ race_sc_fence' = FenceGlobal(vector_clocks[i], ord, race_sc_fence)
    BY <1>3 DEF RaceFence
  <2>2. /\ Present \in Clocks /\ i \in Thread /\ Good(vector_clocks[i], i, Present)
        /\ race_sc_fence \in Clocks /\ PastOf(race_sc_fence, Present) /\ obj_clock \in Clocks
    BY <1>1, Found
  <2>3. PICK Q \in {Present, Bump(Present, i)} :
          /\ Good(k, i, Q) /\ race_sc_fence' \in Clocks /\ PastOf(race_sc_fence', Q)
    BY <2>1, <2>2, GoodFence
  <2>4. PastOf(obj_clock, Q) /\ (cell.atomic_ops # None => PastOf(cell.atomic_ops.sync_vector, Q))
    BY <1>1, Found
  <2>5. CellShape' /\ halt' \in {"no", "race"}
    <3>1. CellShape /\ RaceTypeOK
      BY Parts
    <3> QED BY <3>1, <1>1 DEF CellShape, AtomicClocks, RaceTypeOK
  <2> HIDE DEF k
  <2> QED BY <1>1, <2>1, <2>2, <2>3, <2>4, <2>5, AccessFrame
<1> QED BY <1>2, <1>3

LEMMA ObjectKeeps ==
    ASSUME RInv, NEW t \in Thread, Release(t) \/ Acquire(t)
    PROVE  RInv'
<1> DEFINE i == vector_index[t]
<1>1. life[t] = "Live" /\ UNCHANGED <<race_program, globalVars, race_sc_fence, cell, halt>>
  BY DEF Release, Acquire, Runs
<1>2. /\ Present \in Clocks /\ i \in Thread /\ Good(vector_clocks[i], i, Present) /\ Clock(t) \in Clocks
      /\ race_sc_fence \in Clocks /\ obj_clock \in Clocks /\ PastOf(obj_clock, Present)
  BY <1>1, Found
<1>3. PICK k \in ClockSets, Q \in {Present, Bump(Present, i)} :
        /\ Good(k, i, Q) /\ vector_clocks' = [vector_clocks EXCEPT ![i] = k]
        /\ obj_clock' \in Clocks /\ PastOf(obj_clock', Q)
  <2>1. CASE Release(t)
    <3>1. obj_clock' = vector_clocks[i].clock /\ vector_clocks' = [vector_clocks EXCEPT ![i] = Tick(vector_clocks[i], i)]
      BY <2>1 DEF Release, Clock, After
    <3>2. Good(Tick(vector_clocks[i], i), i, Bump(Present, i)) /\ PastOf(vector_clocks[i].clock, Bump(Present, i))
      BY <1>2, GoodTick
    <3>3. obj_clock' \in Clocks /\ PastOf(obj_clock', Bump(Present, i)) /\ Bump(Present, i) \in {Present, Bump(Present, i)}
      BY <3>1, <3>2, <1>2 DEF Clock
    <3> QED BY <3>1, <3>2, <3>3 DEF Good
  <2>2. CASE Acquire(t)
    <3>1. obj_clock' = obj_clock /\ vector_clocks' = [vector_clocks EXCEPT ![i] = LoadAcquire(vector_clocks[i], obj_clock)]
      BY <2>2 DEF Acquire
    <3>2. Good(LoadAcquire(vector_clocks[i], obj_clock), i, Present)
      BY <1>2, GoodAcquire
    <3>3. obj_clock' \in Clocks /\ PastOf(obj_clock', Present) /\ Present \in {Present, Bump(Present, i)}
      BY <3>1, <1>2
    <3> QED BY <3>1, <3>2, <3>3 DEF Good
  <2> QED BY <2>1, <2>2
<1>4. PastOf(race_sc_fence, Q) /\ (cell.atomic_ops # None => PastOf(cell.atomic_ops.sync_vector, Q))
  BY <1>1, Found
<1>5. CellShape' /\ halt' \in {"no", "race"}
  <2>1. CellShape /\ RaceTypeOK
    BY Parts
  <2> QED BY <2>1, <1>1 DEF CellShape, AtomicClocks, RaceTypeOK
<1> QED BY <1>1, <1>2, <1>3, <1>4, <1>5, AccessFrame

LEMMA TerminatedKeeps ==
    ASSUME RInv, NEW t \in Thread, ThreadTerminated(t)
    PROVE  RInv'
<1> DEFINE i == vector_index[t]
           Q == Bump(Present, i)
<1>1. /\ life[t] = "Live" /\ race_program' = race_program
      /\ life' = [life EXCEPT ![t] = "Terminated"]
      /\ termination_clock' = [termination_clock EXCEPT ![t] = vector_clocks[i].clock]
      /\ vector_clocks' = [vector_clocks EXCEPT ![i] = Tick(vector_clocks[i], i)]
      /\ reuse_candidates' = reuse_candidates \cup {i}
      /\ vector_index' = vector_index /\ allocated' = allocated /\ multi_threaded' = multi_threaded
      /\ race_sc_fence' = race_sc_fence /\ cell' = cell /\ obj_clock' = obj_clock /\ halt' = halt
  BY DEF ThreadTerminated, Runs, Clock
<1>2. RaceTypeOK /\ Indices /\ CellShape /\ Times
  BY Parts
<1>3. /\ Present \in Clocks /\ i \in Thread /\ i \in 0 .. allocated - 1 /\ Good(vector_clocks[i], i, Present)
      /\ PastOf(race_sc_fence, Q) /\ PastOf(obj_clock, Q) /\ vector_clocks[i] \in ClockSets
      /\ \A c \in Clocks : PastOf(c, Present) => PastOf(c, Q)
      /\ cell.atomic_ops # None => PastOf(cell.atomic_ops.sync_vector, Q)
  BY <1>1, Found
<1>4. Good(Tick(vector_clocks[i], i), i, Q) /\ PastOf(vector_clocks[i].clock, Q) /\ vector_clocks[i].clock \in Clocks
  BY <1>3, GoodTick DEF ClockSets
<1>5. life \in [Thread -> {"Unborn", "Live", "Terminated"}] /\ termination_clock \in [Thread -> Clocks \cup {None}]
  BY <1>2 DEF RaceTypeOK
<1>6. \A u \in Thread : life'[u] = "Terminated" => termination_clock'[u] \in Clocks /\ PastOf(termination_clock'[u], Q)
  <2> SUFFICES ASSUME NEW u \in Thread, life'[u] = "Terminated" PROVE termination_clock'[u] \in Clocks /\ PastOf(termination_clock'[u], Q)
    OBVIOUS
  <2> HIDE DEF Q
  <2>1. CASE u = t
    BY <2>1, <1>1, <1>4, <1>5
  <2>2. CASE u # t
    <3>1. life[u] = "Terminated" /\ termination_clock'[u] = termination_clock[u]
      BY <2>2, <1>1, <1>5
    <3> QED BY <3>1, <1>2, <1>3 DEF Times
  <2> QED BY <2>1, <2>2
<1>7. Times' /\ vector_clocks' \in [Thread -> ClockSets]
  BY <1>1, <1>3, <1>4, <1>6, TimesKept
<1>8. /\ life' \in [Thread -> {"Unborn", "Live", "Terminated"}] /\ termination_clock' \in [Thread -> Clocks \cup {None}]
      /\ \A u \in Thread : life'[u] = "Live" => life[u] = "Live" /\ u # t
  BY <1>1, <1>4, <1>5
<1>9. RaceTypeOK'
  <2>1. reuse_candidates' \subseteq Thread
    BY <1>1, <1>2, <1>3 DEF RaceTypeOK
  <2> QED BY <2>1, <1>1, <1>2, <1>7, <1>8 DEF RaceTypeOK
<1>10. Indices'
  <2>1. \A u \in Thread : life'[u] = "Live" => vector_index[u] # i
    BY <1>2, <1>8 DEF RaceTypeOK
  <2> QED BY <2>1, <1>1, <1>2, <1>3, <1>8 DEF Indices
<1>11. CellShape'
  BY <1>1, <1>2 DEF CellShape, AtomicClocks
<1> QED BY <1>7, <1>9, <1>10, <1>11, PartsNext

LEMMA JoinedKeeps ==
    ASSUME RInv, NEW t \in Thread, NEW joinee \in Thread, ThreadJoined(t, joinee)
    PROVE  RInv'
<1> DEFINE i == vector_index[t]
           k == LoadAcquire(vector_clocks[i], termination_clock[joinee])
<1>1. /\ life[t] = "Live" /\ race_program' = race_program /\ life[joinee] = "Terminated"
      /\ vector_clocks' = [vector_clocks EXCEPT ![i] = k]
      /\ life' = life /\ vector_index' = vector_index /\ termination_clock' = termination_clock
      /\ allocated' = allocated /\ reuse_candidates' = reuse_candidates
      /\ race_sc_fence' = race_sc_fence /\ cell' = cell /\ obj_clock' = obj_clock /\ halt' = halt
  BY DEF ThreadJoined, Runs
<1>2. RaceTypeOK /\ Indices /\ CellShape /\ Times
  BY Parts
<1>3. /\ Present \in Clocks /\ i \in Thread /\ i \in 0 .. allocated - 1 /\ Good(vector_clocks[i], i, Present)
      /\ PastOf(race_sc_fence, Present) /\ PastOf(obj_clock, Present)
      /\ cell.atomic_ops # None => PastOf(cell.atomic_ops.sync_vector, Present)
  BY <1>1, Found
<1>4. Good(k, i, Present)
  <2>1. termination_clock[joinee] \in Clocks /\ PastOf(termination_clock[joinee], Present)
    BY <1>1, <1>2 DEF Times
  <2> QED BY <2>1, <1>3, GoodAcquire
<1> HIDE DEF k
<1>5. \A u \in Thread : life'[u] = "Terminated" =>
         termination_clock'[u] \in Clocks /\ PastOf(termination_clock'[u], Present)
  BY <1>1, <1>2 DEF Times
<1>6. Times' /\ vector_clocks' \in [Thread -> ClockSets]
  BY <1>1, <1>3, <1>4, <1>5, TimesKept
<1>7. multi_threaded' \in BOOLEAN
  <2>1. multi_threaded' = FALSE \/ multi_threaded' = multi_threaded
    BY DEF ThreadJoined
  <2>2. multi_threaded \in BOOLEAN
    BY <1>2 DEF RaceTypeOK
  <2> QED BY <2>1, <2>2, Zenon
<1>8. RaceTypeOK'
  BY <1>1, <1>2, <1>6, <1>7 DEF RaceTypeOK
<1>9. Indices' /\ CellShape'
  BY <1>1, <1>2 DEF Indices, CellShape, AtomicClocks
<1> QED BY <1>6, <1>8, <1>9, PartsNext

(* The clocks of a new thread: those of its index, old or new, join those  *)
(* of its parent, and both parent and child leave their present behind.    *)
LEMMA ChildClocks ==
    ASSUME NEW P \in Clocks, NEW p \in Thread, NEW i \in Thread, p # i,
           NEW kp, Good(kp, p, P), NEW ki, Good(ki, i, P), NEW fresh,
           fresh = Tick(ki, i) \/ (fresh = EmptyClockSet /\ P[i] = 0)
    PROVE  \E Q \in Clocks :
             /\ Good(Tick(kp, p), p, Q) /\ Good(Tick(LoadAcquire(fresh, kp.clock), i), i, Q)
             /\ Q[p] = P[p] + 1 /\ Q[i] > P[i] /\ \A j \in Thread \ {p, i} : Q[j] = P[j]
<1> DEFINE B == Bump(P, p)
<1>1. B \in Clocks /\ B[p] = P[p] + 1 /\ \A j \in Thread \ {p} : B[j] = P[j]
  BY BumpShape
<1>2. \A j \in Thread : P[j] \in Nat /\ P[j] <= B[j]
  <2> SUFFICES ASSUME NEW j \in Thread PROVE P[j] \in Nat /\ P[j] <= B[j]
    OBVIOUS
  <2>1. P[j] \in Nat
    BY DEF Clocks
  <2>2. B[j] = P[j] \/ B[j] = P[j] + 1
    BY <1>1
  <2> QED BY <2>1, <2>2
<1>3. Good(Tick(kp, p), p, B) /\ PastOf(kp.clock, B) /\ kp.clock \in Clocks
  BY GoodTick DEF Good, ClockSets
<1>4. Good(ki, i, B)
  BY <1>1, <1>2, GoodGrows
<1> HIDE DEF B
<1>5. PICK C \in Clocks : Good(fresh, i, C) /\ C[i] >= P[i] /\ \A j \in Thread \ {i} : C[j] = B[j]
  <2>1. CASE fresh = Tick(ki, i)
    <3>1. Good(fresh, i, Bump(B, i))
      BY <2>1, <1>1, <1>4, GoodTick
    <3>2. Bump(B, i) \in Clocks /\ Bump(B, i)[i] = P[i] + 1 /\ \A j \in Thread \ {i} : Bump(B, i)[j] = B[j]
      BY <1>1, BumpShape
    <3> QED BY <3>1, <3>2, <1>2
  <2>2. CASE fresh = EmptyClockSet /\ P[i] = 0
    <3>1. fresh \in ClockSets /\ fresh.clock = ZeroClock /\ fresh.fence_acquire = ZeroClock /\ fresh.fence_release = ZeroClock
      BY <2>2, ZeroShape DEF EmptyClockSet, ClockSets
    <3>2. PastOf(ZeroClock, B) /\ ZeroClock[i] = B[i]
      BY <2>2, <1>1, PastZero, ZeroShape
    <3>3. Good(fresh, i, B)
      BY <3>1, <3>2 DEF Good, PastOf
    <3> QED BY <3>3, <1>1, <1>2
  <2> QED BY <2>1, <2>2
<1>6. \A j \in Thread : B[j] <= C[j] /\ B[j] \in Nat /\ C[j] \in Nat
  <2> SUFFICES ASSUME NEW j \in Thread PROVE B[j] <= C[j] /\ B[j] \in Nat /\ C[j] \in Nat
    OBVIOUS
  <2>1. B[j] \in Nat /\ C[j] \in Nat
    BY <1>1, <1>5 DEF Clocks
  <2>2. B[j] <= C[j]
    BY <2>1, <1>1, <1>5
  <2> QED BY <2>1, <2>2
<1>7. PastOf(kp.clock, C)
  BY <1>1, <1>3, <1>5, <1>6, PastGrows
<1>8. Good(LoadAcquire(fresh, kp.clock), i, C)
  BY <1>3, <1>5, <1>7, GoodAcquire
<1> DEFINE Q == Bump(C, i)
<1>9. Good(Tick(LoadAcquire(fresh, kp.clock), i), i, Q)
  BY <1>5, <1>8, GoodTick
<1>10. Q \in Clocks /\ Q[i] = C[i] + 1 /\ \A j \in Thread \ {i} : Q[j] = B[j]
  BY <1>5, BumpShape
<1> HIDE DEF Q
<1>11. \A j \in Thread : B[j] <= Q[j]
  <2> SUFFICES ASSUME NEW j \in Thread PROVE B[j] <= Q[j]
    OBVIOUS
  <2>1. B[j] \in Nat /\ C[j] \in Nat /\ B[j] <= C[j] /\ (Q[j] = B[j] \/ Q[j] = C[j] + 1)
    BY <1>6, <1>10
  <2> QED BY <2>1
<1>12. Good(Tick(kp, p), p, Q)
  BY <1>1, <1>3, <1>10, <1>11, GoodGrows
<1>13. Q[p] = P[p] + 1 /\ Q[i] > P[i] /\ \A j \in Thread \ {p, i} : Q[j] = P[j]
  BY <1>1, <1>2, <1>5, <1>6, <1>10
<1> QED BY <1>9, <1>10, <1>12, <1>13

LEMMA CreatedKeeps ==
    ASSUME RInv, NEW t \in Thread, NEW i \in Thread, ThreadCreated(t, i)
    PROVE  RInv'
<1> DEFINE new == Cardinality({u \in Thread : life[u] # "Unborn"})
           p == vector_index[t]
           fresh == IF i \in reuse_candidates THEN Tick(vector_clocks[i], i) ELSE EmptyClockSet
           child == Tick(LoadAcquire(fresh, vector_clocks[p].clock), i)
<1>1. /\ life[t] = "Live" /\ race_program' = race_program
      /\ i \in reuse_candidates \/ i = allocated
      /\ multi_threaded' = TRUE
      /\ life' = [life EXCEPT ![new] = "Live"]
      /\ vector_index' = [u \in Thread |-> IF u = new THEN i
                                           ELSE IF vector_index[u] = i THEN None ELSE vector_index[u]]
      /\ allocated' = IF i = allocated THEN allocated + 1 ELSE allocated
      /\ reuse_candidates' = reuse_candidates \ {i}
      /\ vector_clocks' = [vector_clocks EXCEPT ![p] = Tick(vector_clocks[p], p), ![i] = child]
      /\ termination_clock' = termination_clock
      /\ race_sc_fence' = race_sc_fence /\ cell' = cell /\ obj_clock' = obj_clock /\ halt' = halt
  BY DEF ThreadCreated, Runs, Reusable, LoadAcquire
<1> HIDE DEF new
<1>2. RaceTypeOK /\ Indices /\ CellShape /\ Times /\ Present \in Clocks /\ Thread \subseteq Nat /\ None \notin Thread
  <2>1. RaceTypeOK
    BY Parts
  <2>2. None \notin Thread
    BY <2>1, DataRaceAssumption DEF RaceTypeOK, RaceProgram
  <2> QED BY <2>1, <2>2, Parts, PresentShape, ThreadsAreNumbers
<1>3. /\ p \in Thread /\ p \in 0 .. allocated - 1 /\ Good(vector_clocks[p], p, Present) /\ Good(vector_clocks[i], i, Present)
      /\ allocated \in Nat /\ allocated > 0 /\ p # i
  <2>1. p \in Thread /\ p \in 0 .. allocated - 1 /\ Good(vector_clocks[p], p, Present) /\ Good(vector_clocks[i], i, Present)
    BY <1>1, <1>2, Found DEF Times
  <2>2. allocated \in Nat /\ allocated > 0 /\ p \notin reuse_candidates
    BY <1>1, <1>2 DEF RaceTypeOK, Indices
  <2> QED BY <2>1, <2>2, <1>1
<1>4. fresh = Tick(vector_clocks[i], i) \/ (fresh = EmptyClockSet /\ Present[i] = 0)
  BY <1>1, <1>2, <1>3 DEF Times
<1> HIDE DEF fresh
<1>5. PICK Q \in Clocks :
        /\ Good(Tick(vector_clocks[p], p), p, Q) /\ Good(child, i, Q)
        /\ Q[p] = Present[p] + 1 /\ Q[i] > Present[i] /\ \A j \in Thread \ {p, i} : Q[j] = Present[j]
  <2>1. Present \in Clocks /\ p \in Thread /\ i \in Thread /\ p # i
    BY <1>2, <1>3
  <2>2. Good(vector_clocks[p], p, Present) /\ Good(vector_clocks[i], i, Present)
    BY <1>3
  <2>3. child = Tick(LoadAcquire(fresh, vector_clocks[p].clock), i)
    OBVIOUS
  <2> DEFINE kp == vector_clocks[p]
             ki == vector_clocks[i]
             P == Present
  <2>4. P \in Clocks /\ Good(kp, p, P) /\ Good(ki, i, P) /\ child = Tick(LoadAcquire(fresh, kp.clock), i)
        /\ (fresh = Tick(ki, i) \/ (fresh = EmptyClockSet /\ P[i] = 0))
    BY <2>1, <2>2, <2>3, <1>4
  <2> HIDE DEF child, p, kp, ki, P
  <2>5. \E Q \in Clocks :
          /\ Good(Tick(kp, p), p, Q) /\ Good(Tick(LoadAcquire(fresh, kp.clock), i), i, Q)
          /\ Q[p] = P[p] + 1 /\ Q[i] > P[i] /\ \A j \in Thread \ {p, i} : Q[j] = P[j]
    BY <2>1, <2>4, ChildClocks
  <2> QED BY <2>4, <2>5 DEF kp, P
<1> HIDE DEF child, p
<1>6. \A j \in Thread : Present[j] \in Nat /\ Q[j] \in Nat /\ Present[j] <= Q[j]
  <2> SUFFICES ASSUME NEW j \in Thread PROVE Present[j] \in Nat /\ Q[j] \in Nat /\ Present[j] <= Q[j]
    OBVIOUS
  <2>1. Present[j] \in Nat /\ Q[j] \in Nat
    BY <1>2, <1>5 DEF Clocks
  <2>2. Q[j] = Present[j] + 1 \/ Q[j] > Present[j] \/ Q[j] = Present[j]
    BY <1>5
  <2> QED BY <2>1, <2>2
<1>7. /\ vector_clocks' \in [Thread -> ClockSets] /\ vector_clocks'[p] = Tick(vector_clocks[p], p) /\ vector_clocks'[i] = child
      /\ \A j \in Thread \ {p, i} : vector_clocks'[j] = vector_clocks[j]
  <2>1. vector_clocks \in [Thread -> ClockSets] /\ child \in ClockSets /\ Tick(vector_clocks[p], p) \in ClockSets
    BY <1>2, <1>5 DEF RaceTypeOK, Good
  <2> QED BY <2>1, <1>1, <1>3
<1>8. \A j \in Thread : Good(vector_clocks'[j], j, Q)
  <2> SUFFICES ASSUME NEW j \in Thread PROVE Good(vector_clocks'[j], j, Q)
    OBVIOUS
  <2>1. CASE j \in {p, i}
    BY <2>1, <1>5, <1>7
  <2>2. CASE j \notin {p, i}
    <3>1. Good(vector_clocks[j], j, Present) /\ vector_clocks'[j] = vector_clocks[j] /\ Q[j] = Present[j]
      BY <2>2, <1>2, <1>5, <1>7 DEF Times
    <3> QED BY <3>1, <1>2, <1>5, <1>6, GoodGrows
  <2> QED BY <2>1, <2>2
<1>9. Present' = Q
  <2>1. \A j \in Thread : vector_clocks'[j].clock[j] = Q[j]
    BY <1>8 DEF Good
  <2>2. Q = [j \in Thread |-> Q[j]]
    BY <1>5 DEF Clocks
  <2> QED BY <2>1, <2>2 DEF Present
<1>10. \A c \in Clocks : PastOf(c, Present) => PastOf(c, Q)
  BY <1>2, <1>5, <1>6, PastGrows
<1>11. /\ life \in [Thread -> {"Unborn", "Live", "Terminated"}] /\ vector_index \in [Thread -> Thread \cup {None}]
       /\ reuse_candidates \subseteq 0 .. allocated - 1 /\ 0 .. allocated - 1 \subseteq Thread
  BY <1>2 DEF RaceTypeOK, Indices
<1>12. /\ life' \in [Thread -> {"Unborn", "Live", "Terminated"}]
       /\ \A u \in Thread : life'[u] = "Terminated" => life[u] = "Terminated"
       /\ \A u \in Thread : life'[u] = "Live" => u = new \/ life[u] = "Live"
  BY <1>1, <1>11
<1>13. Times'
  <2>1. PastOf(race_sc_fence, Q) /\ PastOf(obj_clock, Q)
    BY <1>2, <1>10 DEF Times, RaceTypeOK
  <2>2. \A u \in Thread : life'[u] = "Terminated" => termination_clock'[u] \in Clocks /\ PastOf(termination_clock'[u], Q)
    BY <1>1, <1>2, <1>10, <1>12 DEF Times
  <2>3. cell.atomic_ops # None => PastOf(cell.atomic_ops.sync_vector, Q)
    BY <1>2, <1>10 DEF Times, CellShape, AtomicClocks
  <2>4. \A j \in Thread : j >= allocated' => Q[j] = 0
    <3> SUFFICES ASSUME NEW j \in Thread, j >= allocated' PROVE Q[j] = 0
      OBVIOUS
    <3>1. j \in Nat /\ j >= allocated /\ j \notin {p, i}
      BY <1>1, <1>2, <1>3, <1>11
    <3> QED BY <3>1, <1>2, <1>5 DEF Times
  <2>5. \A j \in 0 .. allocated' - 1 : Q[j] > 0
    <3> SUFFICES ASSUME NEW j \in 0 .. allocated' - 1 PROVE Q[j] > 0
      OBVIOUS
    <3>1. CASE j \in {p, i}
      BY <3>1, <1>3, <1>5, <1>6
    <3>2. CASE j \notin {p, i}
      <4>1. j \in 0 .. allocated - 1
        BY <3>2, <1>1, <1>3
      <4>2. allocated > 1
        BY <4>1, <3>2, <1>3
      <4> QED BY <4>1, <4>2, <3>2, <1>2, <1>5, <1>11 DEF Times
    <3> QED BY <3>1, <3>2
  <2> QED BY <2>1, <2>2, <2>3, <2>4, <2>5, <1>1, <1>8, <1>9 DEF Times
<1>14. \A u \in Thread : life'[u] = "Live" /\ u # new =>
          vector_index[u] # i /\ vector_index'[u] = vector_index[u] /\ vector_index[u] \in 0 .. allocated - 1
  <2> SUFFICES ASSUME NEW u \in Thread, life'[u] = "Live", u # new
               PROVE  vector_index[u] # i /\ vector_index'[u] = vector_index[u] /\ vector_index[u] \in 0 .. allocated - 1
    OBVIOUS
  <2>1. vector_index[u] \in 0 .. allocated - 1 /\ vector_index[u] \notin reuse_candidates
    BY <1>2, <1>12 DEF RaceTypeOK, Indices
  <2>2. vector_index[u] # i
    BY <2>1, <1>1, <1>3
  <2> QED BY <2>1, <2>2, <1>1
<1>15. \A u \in Thread : life'[u] = "Live" => vector_index'[u] \in 0 .. allocated' - 1
  <2> SUFFICES ASSUME NEW u \in Thread, life'[u] = "Live" PROVE vector_index'[u] \in 0 .. allocated' - 1
    OBVIOUS
  <2>1. CASE u = new
    BY <2>1, <1>1, <1>3, <1>11
  <2>2. CASE u # new
    BY <2>2, <1>1, <1>3, <1>14
  <2> QED BY <2>1, <2>2
<1>16. \A u, v \in Thread : life'[u] = "Live" /\ vector_index'[u] = vector_index'[v] => u = v
  <2> SUFFICES ASSUME NEW u \in Thread, NEW v \in Thread, life'[u] = "Live", vector_index'[u] = vector_index'[v] PROVE u = v
    OBVIOUS
  <2>1. v # new => vector_index'[v] = IF vector_index[v] = i THEN None ELSE vector_index[v]
    BY <1>1
  <2>2. CASE u = new
    <3>1. vector_index'[u] = i
      BY <2>2, <1>1
    <3> QED BY <2>1, <2>2, <3>1, <1>2
  <2>3. CASE u # new
    <3>1. vector_index'[u] = vector_index[u] /\ vector_index[u] # i /\ vector_index[u] # None /\ life[u] = "Live"
      BY <2>3, <1>2, <1>11, <1>12, <1>14
    <3>2. v # new
      BY <3>1, <1>1
    <3>3. vector_index[v] = vector_index[u]
      BY <2>1, <3>1, <3>2
    <3> QED BY <3>1, <3>3, <1>2 DEF RaceTypeOK
  <2> QED BY <2>2, <2>3
<1>17. RaceTypeOK'
  <2>1. /\ vector_index' \in [Thread -> Thread \cup {None}] /\ allocated' \in Nat /\ reuse_candidates' \subseteq Thread
    BY <1>1, <1>3, <1>11
  <2>2. multi_threaded' \in BOOLEAN
    BY <1>1, Zenon
  <2> QED BY <2>1, <2>2, <1>1, <1>2, <1>7, <1>12, <1>15, <1>16 DEF RaceTypeOK
<1>18. Indices'
  <2>1. allocated' > 0 /\ 0 .. allocated' - 1 \subseteq Thread /\ reuse_candidates' \subseteq 0 .. allocated' - 1
    BY <1>1, <1>3, <1>11
  <2>2. \A u \in Thread : life'[u] = "Live" => vector_index'[u] \notin reuse_candidates'
    <3> SUFFICES ASSUME NEW u \in Thread, life'[u] = "Live" PROVE vector_index'[u] \notin reuse_candidates \ {i}
      BY <1>1
    <3>1. CASE u = new
      BY <3>1, <1>1
    <3>2. CASE u # new
      BY <3>2, <1>2, <1>12, <1>14 DEF Indices
    <3> QED BY <3>1, <3>2
  <2> QED BY <2>1, <2>2 DEF Indices
<1>19. CellShape'
  BY <1>1, <1>2 DEF CellShape, AtomicClocks
<1> QED BY <1>13, <1>17, <1>18, <1>19, PartsNext

LEMMA InitHolds == RaceInit => RInv
<1> SUFFICES ASSUME RaceInit PROVE RInv
  OBVIOUS
<1>1. ZeroClock \in Clocks /\ EmptyClockSet \in ClockSets /\ Thread \subseteq Nat /\ 0 \in Thread
  BY ZeroShape, ThreadsAreNumbers DEF EmptyClockSet, ClockSets
<1>2. RaceTypeOK
  <2>1. /\ race_program \in RacePrograms /\ allocated = 1 /\ reuse_candidates = {} /\ halt = "no"
        /\ race_sc_fence = ZeroClock /\ obj_clock = ZeroClock
        /\ cell = [write_index |-> 0, write_time |-> 0, read |-> ZeroClock, atomic_ops |-> NoAtomics]
    BY DEF RaceInit
  <2>2. multi_threaded \in BOOLEAN
    BY Zenon DEF RaceInit
  <2>3. /\ life \in [Thread -> {"Unborn", "Live", "Terminated"}] /\ vector_index \in [Thread -> Thread \cup {None}]
        /\ termination_clock \in [Thread -> Clocks \cup {None}] /\ vector_clocks \in [Thread -> ClockSets]
    BY <1>1 DEF RaceInit
  <2>4. \A t \in Thread : life[t] = "Live" => t = 0 /\ vector_index[t] = 0
    BY DEF RaceInit
  <2>5. \A t, u \in Thread : life[t] = "Live" /\ vector_index[t] = vector_index[u] => t = u
    <3>1. None \notin Thread
      BY <2>1, DataRaceAssumption DEF RaceProgram
    <3>2. \A u \in Thread : u # 0 => vector_index[u] = None
      BY DEF RaceInit
    <3> QED BY <3>1, <3>2, <2>4, <1>1
  <2> QED BY <2>1, <2>2, <2>3, <2>4, <2>5, <1>1 DEF RaceTypeOK
<1>3. Indices
  BY <1>1 DEF RaceInit, Indices
<1>4. CellShape
  BY <1>1 DEF RaceInit, CellShape, NoAtomics
<1>5. Present \in Clocks /\ \A i \in Thread : Present[i] = 0
  BY <1>1 DEF RaceInit, Present, EmptyClockSet, Clocks, ZeroClock
<1>6. PastOf(ZeroClock, Present)
  BY <1>5, PastZero
<1>7. \A j \in Thread : Good(vector_clocks[j], j, Present)
  <2> SUFFICES ASSUME NEW j \in Thread PROVE Good(EmptyClockSet, j, Present)
    BY DEF RaceInit
  <2>1. EmptyClockSet.clock = ZeroClock /\ EmptyClockSet.fence_acquire = ZeroClock /\ EmptyClockSet.fence_release = ZeroClock
    BY DEF EmptyClockSet
  <2>2. ZeroClock[j] = Present[j]
    BY <1>5, ZeroShape
  <2> QED BY <1>1, <1>6, <2>1, <2>2 DEF Good, PastOf
<1>8. Times
  BY <1>5, <1>6, <1>7 DEF RaceInit, Times, NoAtomics
<1> QED BY <1>2, <1>3, <1>4, <1>8, Parts

LEMMA NextKeeps == RInv /\ [RaceNext]_raceVars => RInv'
<1> SUFFICES ASSUME RInv, [RaceNext]_raceVars PROVE RInv'
  OBVIOUS
<1>1. CASE UNCHANGED raceVars
  <2>1. UNCHANGED <<race_program, globalVars, vector_clocks, race_sc_fence, cell, obj_clock, halt>>
    BY <1>1 DEF raceVars
  <2> QED BY <2>1, StillKeeps
<1>2. CASE RaceNext
  <2>1. PICK t \in Thread :
          \/ \E a \in Accesses : Report(t, a)
          \/ NaRead(t) \/ NaWrite(t)
          \/ \E size \in race_program.sizes :
              \/ \E ord \in race_program.loads : AtomicLoad(t, ord, size)
              \/ \E ord \in race_program.stores : AtomicStore(t, ord, size)
              \/ \E ord \in race_program.rmws : AtomicRmw(t, ord, size)
          \/ \E ord \in race_program.fences : RaceFence(t, ord)
          \/ Release(t) \/ Acquire(t)
          \/ \E i \in Thread : ThreadCreated(t, i)
          \/ ThreadTerminated(t)
          \/ \E u \in Thread : ThreadJoined(t, u)
    BY <1>2 DEF RaceNext
  <2>2. CASE (\E a \in Accesses : Report(t, a)) \/ NaRead(t) \/ NaWrite(t)
    BY <2>2, PlainKeeps
  <2>3. ASSUME NEW size \in race_program.sizes, NEW ord,
               AtomicLoad(t, ord, size) \/ AtomicStore(t, ord, size) \/ AtomicRmw(t, ord, size)
        PROVE  RInv'
    BY <2>3, AtomicLoadKeeps, AtomicStoreKeeps, AtomicRmwKeeps
  <2>4. ASSUME NEW ord, RaceFence(t, ord) PROVE RInv'
    BY <2>4, FenceKeeps
  <2>5. CASE Release(t) \/ Acquire(t)
    BY <2>5, ObjectKeeps
  <2>6. ASSUME NEW i \in Thread, ThreadCreated(t, i) \/ ThreadJoined(t, i) PROVE RInv'
    BY <2>6, CreatedKeeps, JoinedKeeps
  <2>7. CASE ThreadTerminated(t)
    BY <2>7, TerminatedKeeps
  <2> QED BY <2>1, <2>2, <2>3, <2>4, <2>5, <2>6, <2>7
<1> QED BY <1>1, <1>2

(* The inductive invariant: whatever clock the detector keeps anywhere     *)
(* knows only what every other index has left behind.                      *)
THEOREM Invariance == RaceSpec => []RInv
<1>1. RaceInit => RInv
  BY InitHolds
<1>2. RInv /\ [RaceNext]_raceVars => RInv'
  BY NextKeeps
<1> QED BY <1>1, <1>2, PTL DEF RaceSpec

(* release_clock, the atomic accesses and fences, and the thread hooks: no *)
(* index has ever seen the present time of another one.                    *)
THEOREM OwnTimeNeverSeen == RaceSpec => []OwnTimeIsPrivate
<1>1. RInv => OwnTimeIsPrivate
  <2> SUFFICES ASSUME RInv, NEW i \in 0 .. allocated - 1, NEW j \in 0 .. allocated - 1, i # j
               PROVE  vector_clocks[j].clock[i] < vector_clocks[i].clock[i]
    BY DEF OwnTimeIsPrivate
  <2>1. RaceTypeOK /\ Times /\ i \in Thread /\ j \in Thread /\ allocated \in Nat
    BY Parts DEF Indices, RaceTypeOK
  <2>2. Present[i] = vector_clocks[i].clock[i] /\ Present[i] > 0
    <3>1. allocated > 1
      BY <2>1
    <3> QED BY <3>1, <2>1, PresentShape DEF Times
  <2>3. Before(vector_clocks[j].clock, Present, i)
    BY <2>1 DEF Times, Good
  <2> QED BY <2>2, <2>3 DEF Before
<1> QED BY <1>1, Invariance, PTL

(* The state keeps its shape, and live threads have vector indices of      *)
(* their own, which nobody may re-use.                                     *)
THEOREM RaceTypeCorrect == RaceSpec => []RaceTypeOK
<1>1. RInv => RaceTypeOK
  BY DEF RInv
<1> QED BY <1>1, Invariance, PTL

-----------------------------------------------------------------------------
(* What the invariant says of the re-use of indices and of the switch.     *)

(* The main thread lives on, and detection is on only when a second vector *)
(* index exists.                                                           *)
MainLives == life[0] = "Live" /\ (multi_threaded => allocated > 1)

LEMMA NotReusable ==
    ASSUME RInv, life[0] = "Live"
    PROVE  \A i \in Thread : ~Reusable(i)
<1> SUFFICES ASSUME NEW i \in Thread, Reusable(i) PROVE FALSE
  OBVIOUS
<1> DEFINE p == vector_index[0]
<1>1. RaceTypeOK /\ Indices /\ Times /\ 0 \in Thread
  BY Parts, ThreadsAreNumbers
<1>2. p \in 0 .. allocated - 1 /\ p \notin reuse_candidates /\ i \in 0 .. allocated - 1 /\ i \in reuse_candidates
      /\ allocated \in Nat /\ p \in Thread
  BY <1>1 DEF RaceTypeOK, Indices, Reusable
<1>3. vector_clocks[p].clock[i] >= vector_clocks[i].clock[i]
  BY <1>2 DEF Reusable
<1>4. Present[i] = vector_clocks[i].clock[i] /\ Present[i] > 0 /\ i # p /\ Present[i] \in Nat
  <2>1. allocated > 1 /\ i # p
    BY <1>2
  <2>2. Present[i] > 0
    BY <2>1, <1>1, <1>2 DEF Times
  <2>3. Present[i] = vector_clocks[i].clock[i] /\ Present[i] \in Nat
    <3>1. Present \in Clocks /\ Present[i] = vector_clocks[i].clock[i]
      BY <1>1, PresentShape
    <3> QED BY <3>1 DEF Clocks
  <2> QED BY <2>1, <2>2, <2>3
<1>5. Before(vector_clocks[p].clock, Present, i)
  BY <1>1, <1>2, <1>4 DEF Times, Good
<1>6. vector_clocks[p].clock[i] \in Nat
  BY <1>1, <1>2 DEF RaceTypeOK, ClockSets, Clocks
<1> QED BY <1>3, <1>4, <1>5, <1>6 DEF Before

(* thread_joined never finds that the joinee knows of everything: nobody   *)
(* has seen the present time of the joining thread.                        *)
LEMMA NeverAllKnown ==
    ASSUME RInv, MainLives, NEW t \in Thread, NEW u \in Thread, ThreadJoined(t, u)
    PROVE  multi_threaded' = multi_threaded
<1> SUFFICES ASSUME multi_threaded, vector_index[u] # None,
                    AllKnown([vector_clocks EXCEPT ![vector_index[t]] = LoadAcquire(@, termination_clock[u])], vector_index[u])
             PROVE  FALSE
  <2>1. multi_threaded \in BOOLEAN /\ multi_threaded' \in BOOLEAN
    BY NextKeeps, JoinedKeeps DEF RInv, RaceTypeOK
  <2> QED BY <2>1 DEF ThreadJoined
<1> DEFINE p == vector_index[t]
           q == vector_index[u]
           c == termination_clock[u]
           k == LoadAcquire(vector_clocks[p], c)
           ks == [vector_clocks EXCEPT ![p] = k]
<1>1. RaceTypeOK /\ Times /\ life[t] = "Live" /\ life[u] = "Terminated"
  BY Parts DEF ThreadJoined, Runs
<1>2. p \in 0 .. allocated - 1 /\ p \in Thread /\ q \in Thread /\ p # q /\ allocated > 1 /\ c \in Clocks
      /\ vector_clocks \in [Thread -> ClockSets]
  <2>1. p \in 0 .. allocated - 1 /\ vector_clocks \in [Thread -> ClockSets] /\ p # q
    BY <1>1 DEF RaceTypeOK
  <2>2. p \in Thread
    BY <2>1, Parts DEF Indices
  <2>3. q \in Thread
    BY <1>1 DEF RaceTypeOK
  <2>4. c \in Clocks /\ allocated > 1
    BY <1>1 DEF Times, MainLives
  <2> QED BY <2>1, <2>2, <2>3, <2>4
<1>3. k \in ClockSets /\ k.clock = ClockJoin(vector_clocks[p].clock, c)
  <2>1. vector_clocks[p] \in ClockSets /\ vector_clocks[p].clock \in Clocks
    BY <1>2 DEF ClockSets
  <2>2. ClockJoin(vector_clocks[p].clock, c) \in Clocks
    BY <2>1, <1>2, JoinShape
  <2> QED BY <2>1, <2>2 DEF LoadAcquire, ClockSets
<1> HIDE DEF k
<1>4. ks[p] = k /\ ks[q] = vector_clocks[q]
  BY <1>2
<1>5. ks[p].clock[p] <= ks[q].clock[p]
  <2>1. AllKnown(ks, q)
    BY DEF k
  <2> QED BY <2>1, <1>2 DEF AllKnown
<1>6. /\ vector_clocks[p].clock[p] \in Nat /\ vector_clocks[q].clock[p] \in Nat /\ c[p] \in Nat
      /\ k.clock[p] \in Nat /\ k.clock[p] >= vector_clocks[p].clock[p]
  <2>1. vector_clocks[p].clock \in Clocks /\ vector_clocks[q].clock \in Clocks
    BY <1>2 DEF ClockSets
  <2>2. vector_clocks[p].clock[p] \in Nat /\ vector_clocks[q].clock[p] \in Nat /\ c[p] \in Nat
    BY <2>1, <1>2 DEF Clocks
  <2>3. k.clock[p] = IF vector_clocks[p].clock[p] >= c[p] THEN vector_clocks[p].clock[p] ELSE c[p]
    BY <1>2, <1>3 DEF ClockJoin
  <2> QED BY <2>2, <2>3
<1>7. Present[p] = vector_clocks[p].clock[p] /\ Present[p] > 0
  BY <1>1, <1>2, PresentShape DEF Times
<1>8. Before(vector_clocks[q].clock, Present, p)
  BY <1>1, <1>2 DEF Times, Good
<1> QED BY <1>4, <1>5, <1>6, <1>7, <1>8 DEF Before

LEMMA MainKeeps ==
    ASSUME RInv, MainLives, [RaceNext]_raceVars
    PROVE  MainLives' /\ (multi_threaded => multi_threaded')
<1>1. RaceTypeOK /\ 0 \in Thread /\ life \in [Thread -> {"Unborn", "Live", "Terminated"}] /\ allocated \in Nat
  BY Parts, ThreadsAreNumbers DEF RaceTypeOK
<1>2. CASE UNCHANGED raceVars
  BY <1>2 DEF raceVars, globalVars, MainLives
<1>3. ASSUME NEW t \in Thread, NEW i \in Thread, ThreadCreated(t, i)
      PROVE  MainLives' /\ multi_threaded'
  <2>1. i = allocated /\ multi_threaded'
    BY <1>3, NotReusable DEF ThreadCreated, MainLives
  <2>2. allocated' > 1
    BY <1>1, <1>3, <2>1, Parts DEF ThreadCreated, Indices
  <2>3. life'[0] = "Live"
    BY <1>1, <1>3 DEF ThreadCreated, MainLives
  <2> QED BY <2>1, <2>2, <2>3 DEF MainLives
<1>4. ASSUME NEW t \in Thread, ThreadTerminated(t) PROVE MainLives' /\ (multi_threaded => multi_threaded')
  BY <1>1, <1>4 DEF ThreadTerminated, MainLives
<1>5. ASSUME NEW t \in Thread, NEW u \in Thread, ThreadJoined(t, u) PROVE MainLives' /\ (multi_threaded => multi_threaded')
  <2>1. multi_threaded' = multi_threaded
    BY <1>5, NeverAllKnown
  <2>2. life' = life /\ allocated' = allocated
    BY <1>5 DEF ThreadJoined
  <2> QED BY <2>1, <2>2 DEF MainLives
<1>6. ASSUME UNCHANGED globalVars PROVE MainLives' /\ (multi_threaded => multi_threaded')
  BY <1>6 DEF globalVars, MainLives
<1>7. CASE RaceNext
  <2>1. PICK t \in Thread :
          \/ \E a \in Accesses : Report(t, a)
          \/ NaRead(t) \/ NaWrite(t)
          \/ \E size \in race_program.sizes :
              \/ \E ord \in race_program.loads : AtomicLoad(t, ord, size)
              \/ \E ord \in race_program.stores : AtomicStore(t, ord, size)
              \/ \E ord \in race_program.rmws : AtomicRmw(t, ord, size)
          \/ \E ord \in race_program.fences : RaceFence(t, ord)
          \/ Release(t) \/ Acquire(t)
          \/ \E i \in Thread : ThreadCreated(t, i)
          \/ ThreadTerminated(t)
          \/ \E u \in Thread : ThreadJoined(t, u)
    BY <1>7 DEF RaceNext
  <2>2. ASSUME NEW a, Report(t, a) PROVE UNCHANGED globalVars
    BY <2>2 DEF Report
  <2>3. ASSUME NEW size, NEW ord, AtomicLoad(t, ord, size) \/ AtomicStore(t, ord, size) \/ AtomicRmw(t, ord, size)
        PROVE  UNCHANGED globalVars
    BY <2>3 DEF AtomicLoad, AtomicStore, AtomicRmw
  <2>4. ASSUME NEW ord, RaceFence(t, ord) PROVE UNCHANGED globalVars
    BY <2>4 DEF RaceFence
  <2>5. NaRead(t) \/ NaWrite(t) \/ Release(t) \/ Acquire(t) => UNCHANGED globalVars
    BY DEF NaRead, NaWrite, Release, Acquire
  <2>6. CASE UNCHANGED globalVars
    BY <2>6, <1>6
  <2>7. CASE ~UNCHANGED globalVars
    BY <2>1, <2>2, <2>3, <2>4, <2>5, <2>7, <1>3, <1>4, <1>5
  <2> QED BY <2>6, <2>7
<1> QED BY <1>2, <1>7

LEMMA MainLivesOn == RaceSpec => []MainLives
<1>1. RaceInit => MainLives
  BY ThreadsAreNumbers DEF RaceInit, MainLives
<1>2. RInv /\ MainLives /\ [RaceNext]_raceVars => MainLives'
  BY MainKeeps
<1> QED BY <1>1, <1>2, Invariance, PTL DEF RaceSpec

(* find_vector_index_reuse_candidate never finds one: release_clock makes  *)
(* the index of a terminated thread newer than anything the main thread    *)
(* can learn of it, so every thread gets a vector index of its own.        *)
THEOREM IndicesNeverReused == RaceSpec => [](\A i \in Thread : ~Reusable(i))
<1>1. RInv /\ MainLives => \A i \in Thread : ~Reusable(i)
  BY NotReusable DEF MainLives
<1> QED BY <1>1, Invariance, MainLivesOn, PTL

(* Once thread_created has switched detection on, thread_joined never      *)
(* switches it off again: no race is lost to the switch.                   *)
THEOREM DetectionStaysOn == RaceSpec => [][multi_threaded => multi_threaded']_raceVars
<1>1. RInv /\ MainLives /\ [RaceNext]_raceVars => [multi_threaded => multi_threaded']_raceVars
  BY MainKeeps
<1> QED BY <1>1, Invariance, MainLivesOn, PTL DEF RaceSpec

-----------------------------------------------------------------------------
(* Exactness.  A history G says of every logged access which index made it *)
(* and at what time of that index.  The recent accesses are the last non-  *)
(* atomic write since detection is on, if there is one, and all after it   *)
(* (or all since detection is on); the cell remembers only these.          *)

Histories == [own : [Nat -> Thread], time : [Nat -> Nat], old : SUBSET Nat, recent : SUBSET Nat, last : Nat]

(* The clock c knows of the recent accesses those in H, and of the old     *)
(* ones whatever the last write knew.                                      *)
Match(G, c, H) ==
    /\ H \subseteq G.old \cup G.recent
    /\ \A e \in G.recent : e \in H <=> G.time[e] <= c[G.own[e]]
    /\ G.last # 0 /\ G.last \in H => G.old \subseteq H

(* A clock set and the reference's three sets of the same thread. *)
ThreadMatch(G, k, h, a, r) ==
    /\ Match(G, k.clock, h) /\ Match(G, k.fence_acquire, a) /\ Match(G, k.fence_release, r)
    /\ G.last = 0 => G.old \subseteq h

Proper(G, P) ==
    /\ \A e \in G.recent : 0 < G.time[e] /\ G.time[e] <= P[G.own[e]]
    /\ G.last # 0 => G.last \in G.recent
    /\ 0 \notin G.recent

(* Access n of index i, and the same if it is a non-atomic write that      *)
(* everything happens before.                                              *)
Noted(G, n, i, P) ==
    [own |-> [G.own EXCEPT ![n] = i], time |-> [G.time EXCEPT ![n] = P[i]],
     old |-> G.old, recent |-> G.recent \cup {n}, last |-> G.last]
Overwritten(G, n, i, P) ==
    [own |-> [G.own EXCEPT ![n] = i], time |-> [G.time EXCEPT ![n] = P[i]],
     old |-> G.old \cup G.recent, recent |-> {n}, last |-> n]

LEMMA HistoryShape ==
    ASSUME NEW G \in Histories
    PROVE  /\ G.own \in [Nat -> Thread] /\ G.time \in [Nat -> Nat]
           /\ G.old \subseteq Nat /\ G.recent \subseteq Nat /\ G.last \in Nat
  BY DEF Histories

LEMMA MatchZero ==
    ASSUME NEW G \in Histories, NEW P \in Clocks, Proper(G, P)
    PROVE  Match(G, ZeroClock, {})
<1> SUFFICES ASSUME NEW e \in G.recent PROVE ~(G.time[e] <= ZeroClock[G.own[e]])
  BY DEF Match
<1>1. G.own[e] \in Thread /\ G.time[e] \in Nat /\ G.time[e] > 0
  BY HistoryShape DEF Proper
<1>2. ZeroClock[G.own[e]] = 0
  BY <1>1, ZeroShape
<1> QED BY <1>1, <1>2

LEMMA MatchJoin ==
    ASSUME NEW G \in Histories, NEW c \in Clocks, NEW d \in Clocks, NEW H, NEW K, Match(G, c, H), Match(G, d, K)
    PROVE  Match(G, ClockJoin(c, d), H \cup K)
<1>1. ASSUME NEW e \in G.recent PROVE e \in H \cup K <=> G.time[e] <= ClockJoin(c, d)[G.own[e]]
  <2>1. G.own[e] \in Thread /\ G.time[e] \in Nat
    BY HistoryShape
  <2>2. c[G.own[e]] \in Nat /\ d[G.own[e]] \in Nat
    BY <2>1 DEF Clocks
  <2>3. ClockJoin(c, d)[G.own[e]] = IF c[G.own[e]] >= d[G.own[e]] THEN c[G.own[e]] ELSE d[G.own[e]]
    BY <2>1, JoinShape
  <2>4. (e \in H <=> G.time[e] <= c[G.own[e]]) /\ (e \in K <=> G.time[e] <= d[G.own[e]])
    BY DEF Match
  <2>5. G.time[e] <= ClockJoin(c, d)[G.own[e]] <=> (G.time[e] <= c[G.own[e]] \/ G.time[e] <= d[G.own[e]])
    BY <2>1, <2>2, <2>3
  <2> QED BY <2>4, <2>5
<1>2. H \cup K \subseteq G.old \cup G.recent
  BY DEF Match
<1>3. G.last # 0 /\ G.last \in H \cup K => G.old \subseteq H \cup K
  BY DEF Match
<1> QED BY <1>1, <1>2, <1>3 DEF Match

LEMMA MatchTick ==
    ASSUME NEW G \in Histories, NEW P \in Clocks, Proper(G, P), NEW c \in Clocks, NEW i \in Thread, c[i] = P[i],
           NEW H, Match(G, c, H)
    PROVE  Match(G, ClockIncrement(c, i), H)
<1>1. ASSUME NEW e \in G.recent PROVE e \in H <=> G.time[e] <= ClockIncrement(c, i)[G.own[e]]
  <2>1. G.own[e] \in Thread /\ G.time[e] \in Nat /\ G.time[e] <= P[G.own[e]]
    BY HistoryShape DEF Proper
  <2>2. e \in H <=> G.time[e] <= c[G.own[e]]
    BY DEF Match
  <2>3. CASE G.own[e] = i
    <3>1. ClockIncrement(c, i)[G.own[e]] = c[i] + 1 /\ c[i] \in Nat
      BY <2>3, IncrementShape DEF Clocks
    <3> QED BY <2>1, <2>2, <2>3, <3>1
  <2>4. CASE G.own[e] # i
    BY <2>1, <2>2, <2>4, IncrementShape, SMTT(40)
  <2> QED BY <2>3, <2>4
<1> QED BY <1>1 DEF Match

(* An access of index i at its present time, n, enters the history. *)
Enters(G, G2, n, i, P) ==
    /\ n \in Nat \ {0} /\ n \notin G.old \cup G.recent /\ P[i] > 0
    /\ G2 = Noted(G, n, i, P) \/ G2 = Overwritten(G, n, i, P)

(* What that makes of it. *)
Entered(G, G2, n, i, P) ==
    /\ G2 \in Histories /\ G2.own[n] = i /\ G2.time[n] = P[i] /\ n \in G2.recent
    /\ \A e \in Nat \ {n} : G2.own[e] = G.own[e] /\ G2.time[e] = G.time[e]
    /\ G2.old \cup G2.recent = G.old \cup G.recent \cup {n}
    /\ G2.recent \subseteq G.recent \cup {n}
    /\ \/ G2.last = n /\ G2.old = G.old \cup G.recent /\ G2.recent = {n} /\ G2 = Overwritten(G, n, i, P)
       \/ G2.last = G.last /\ G2.old = G.old /\ G2.recent = G.recent \cup {n}

LEMMA EnteredShape ==
    ASSUME NEW G \in Histories, NEW P \in Clocks, NEW n, NEW i \in Thread, NEW G2, Enters(G, G2, n, i, P)
    PROVE  Entered(G, G2, n, i, P)
<1>1. n \in Nat /\ P[i] \in Nat
  BY DEF Enters, Clocks
<1>2. /\ G.own \in [Nat -> Thread] /\ G.time \in [Nat -> Nat]
      /\ G.old \subseteq Nat /\ G.recent \subseteq Nat /\ G.last \in Nat
  BY HistoryShape
<1>3. /\ G2.own = [G.own EXCEPT ![n] = i] /\ G2.time = [G.time EXCEPT ![n] = P[i]]
  BY DEF Enters, Noted, Overwritten
<1>4. CASE G2 = Noted(G, n, i, P)
  <2>1. G2.old = G.old /\ G2.recent = G.recent \cup {n} /\ G2.last = G.last
    BY <1>4 DEF Noted
  <2>2. G2 \in Histories
    BY <1>1, <1>2, <1>4 DEF Noted, Histories
  <2> QED BY <1>1, <1>2, <1>3, <2>1, <2>2 DEF Entered
<1>5. CASE G2 = Overwritten(G, n, i, P)
  <2>1. G2.old = G.old \cup G.recent /\ G2.recent = {n} /\ G2.last = n
    BY <1>5 DEF Overwritten
  <2>2. G2 \in Histories
    BY <1>1, <1>2, <1>5 DEF Overwritten, Histories
  <2> QED BY <1>1, <1>2, <1>3, <1>5, <2>1, <2>2 DEF Entered
<1> QED BY <1>4, <1>5 DEF Enters

LEMMA EnteredProper ==
    ASSUME NEW G \in Histories, NEW P \in Clocks, NEW n, NEW i \in Thread, NEW G2, Enters(G, G2, n, i, P), Proper(G, P)
    PROVE  Proper(G2, P)
<1>0. Entered(G, G2, n, i, P)
  BY EnteredShape
<1>1. n \in Nat \ {0} /\ P[i] \in Nat /\ P[i] > 0 /\ G.recent \subseteq Nat
  BY HistoryShape DEF Enters, Clocks
<1>2. ASSUME NEW e \in G2.recent PROVE 0 < G2.time[e] /\ G2.time[e] <= P[G2.own[e]]
  <2>1. CASE e = n
    BY <1>1, <2>1, <1>0 DEF Entered
  <2>2. CASE e # n
    <3>1. e \in G.recent /\ e \in Nat \ {n}
      BY <1>1, <2>2, <1>0 DEF Entered
    <3>2. G2.own[e] = G.own[e] /\ G2.time[e] = G.time[e]
      BY <3>1, <1>0 DEF Entered
    <3> QED BY <3>1, <3>2 DEF Proper
  <2> QED BY <2>1, <2>2
<1>3. (G2.last # 0 => G2.last \in G2.recent) /\ 0 \notin G2.recent
  BY <1>1, <1>0 DEF Entered, Proper
<1> QED BY <1>2, <1>3 DEF Proper

(* A clock that knows only the past of i does not know of the access. *)
LEMMA EnteredPast ==
    ASSUME NEW G \in Histories, NEW P \in Clocks, NEW n, NEW i \in Thread, NEW G2, Enters(G, G2, n, i, P), Proper(G, P),
           NEW c \in Clocks, NEW H, Match(G, c, H), Before(c, P, i)
    PROVE  Match(G2, c, H)
<1>0. Entered(G, G2, n, i, P)
  BY EnteredShape
<1>1. n \in Nat \ {0} /\ n \notin G.old \cup G.recent /\ P[i] \in Nat /\ P[i] > 0 /\ G.recent \subseteq Nat /\ c[i] \in Nat
  BY HistoryShape DEF Enters, Clocks
<1>2. H \subseteq G.old \cup G.recent /\ n \notin H
  BY <1>1 DEF Match
<1>3. ASSUME NEW e \in G2.recent PROVE e \in H <=> G2.time[e] <= c[G2.own[e]]
  <2>1. CASE e = n
    <3>1. G2.time[n] = P[i] /\ G2.own[n] = i
      BY <1>0 DEF Entered
    <3>2. c[i] < P[i]
      BY <1>1 DEF Before
    <3> QED BY <1>1, <1>2, <2>1, <3>1, <3>2
  <2>2. CASE e # n
    <3>1. e \in G.recent /\ e \in Nat \ {n}
      BY <1>1, <2>2, <1>0 DEF Entered
    <3>2. G2.own[e] = G.own[e] /\ G2.time[e] = G.time[e]
      BY <3>1, <1>0 DEF Entered
    <3> QED BY <3>1, <3>2 DEF Match
  <2> QED BY <2>1, <2>2
<1>4. H \subseteq G2.old \cup G2.recent
  BY <1>2, <1>0 DEF Entered
<1>5. G2.last # 0 /\ G2.last \in H => G2.old \subseteq H
  <2>1. G2.last = n \/ (G2.last = G.last /\ G2.old = G.old)
    BY <1>0 DEF Entered
  <2> QED BY <1>2, <2>1 DEF Match
<1> QED BY <1>3, <1>4, <1>5 DEF Match

(* The clock of its owner does. *)
LEMMA EnteredOwn ==
    ASSUME NEW G \in Histories, NEW P \in Clocks, NEW n, NEW i \in Thread, NEW G2, Enters(G, G2, n, i, P), Proper(G, P),
           NEW c \in Clocks, NEW H, Match(G, c, H), c[i] = P[i],
           G2 = Overwritten(G, n, i, P) => G.old \cup G.recent \subseteq H
    PROVE  Match(G2, c, H \cup {n})
<1>0. Entered(G, G2, n, i, P)
  BY EnteredShape
<1>1. n \in Nat \ {0} /\ n \notin G.old \cup G.recent /\ P[i] \in Nat /\ G.recent \subseteq Nat
  BY HistoryShape DEF Enters, Clocks
<1>2. H \subseteq G.old \cup G.recent
  BY DEF Match
<1>3. ASSUME NEW e \in G2.recent PROVE e \in H \cup {n} <=> G2.time[e] <= c[G2.own[e]]
  <2>1. CASE e = n
    <3>1. G2.time[n] = P[i] /\ G2.own[n] = i
      BY <1>0 DEF Entered
    <3> QED BY <1>1, <2>1, <3>1
  <2>2. CASE e # n
    <3>1. e \in G.recent /\ e \in Nat \ {n}
      BY <1>1, <2>2, <1>0 DEF Entered
    <3>2. G2.own[e] = G.own[e] /\ G2.time[e] = G.time[e]
      BY <3>1, <1>0 DEF Entered
    <3>3. e \in H <=> G.time[e] <= c[G.own[e]]
      BY <3>1 DEF Match
    <3> QED BY <2>2, <3>2, <3>3
  <2> QED BY <2>1, <2>2
<1>4. H \cup {n} \subseteq G2.old \cup G2.recent
  BY <1>2, <1>0 DEF Entered
<1>5. G2.last # 0 /\ G2.last \in H \cup {n} => G2.old \subseteq H \cup {n}
  <2>1. \/ G2.last = n /\ G2.old = G.old \cup G.recent /\ G2 = Overwritten(G, n, i, P)
        \/ G2.last = G.last /\ G2.old = G.old
    BY <1>0 DEF Entered
  <2>2. G.last # n \/ G.last = 0
    BY <1>1 DEF Proper
  <2> QED BY <2>1, <2>2 DEF Match
<1> QED BY <1>3, <1>4, <1>5 DEF Match

LEMMA EnteredThread ==
    ASSUME NEW G \in Histories, NEW P \in Clocks, NEW n, NEW i \in Thread, NEW G2, Enters(G, G2, n, i, P), Proper(G, P),
           NEW k, NEW j \in Thread \ {i}, Good(k, j, P), NEW h, NEW a, NEW r, ThreadMatch(G, k, h, a, r)
    PROVE  ThreadMatch(G2, k, h, a, r)
<1>0. Entered(G, G2, n, i, P)
  BY EnteredShape
<1>1. k.clock \in Clocks /\ k.fence_acquire \in Clocks /\ k.fence_release \in Clocks
  BY DEF Good, ClockSets
<1>2. Before(k.clock, P, i) /\ Before(k.fence_acquire, P, i) /\ Before(k.fence_release, P, i)
  BY DEF Good, PastOf
<1>3. Match(G2, k.clock, h) /\ Match(G2, k.fence_acquire, a) /\ Match(G2, k.fence_release, r)
  BY <1>1, <1>2, EnteredPast DEF ThreadMatch
<1>4. G2.last = 0 => G2.old = G.old /\ G.last = 0
  BY <1>0 DEF Entered, Enters
<1> QED BY <1>3, <1>4 DEF ThreadMatch

LEMMA EnteredOwnThread ==
    ASSUME NEW G \in Histories, NEW P \in Clocks, NEW n, NEW i \in Thread, NEW G2, Enters(G, G2, n, i, P), Proper(G, P),
           NEW k, Good(k, i, P), NEW h, NEW a, NEW r, ThreadMatch(G, k, h, a, r),
           G2 = Overwritten(G, n, i, P) => G.old \cup G.recent \subseteq h
    PROVE  ThreadMatch(G2, k, h \cup {n}, a, r)
<1>0. Entered(G, G2, n, i, P)
  BY EnteredShape
<1>1. k.clock \in Clocks /\ k.fence_acquire \in Clocks /\ k.fence_release \in Clocks /\ k.clock[i] = P[i]
  BY DEF Good, ClockSets
<1>2. Before(k.fence_acquire, P, i) /\ Before(k.fence_release, P, i)
  BY DEF Good, PastOf
<1>3. Match(G2, k.fence_acquire, a) /\ Match(G2, k.fence_release, r)
  BY <1>1, <1>2, EnteredPast DEF ThreadMatch
<1>4. Match(G2, k.clock, h \cup {n})
  BY <1>1, EnteredOwn DEF ThreadMatch
<1>5. G2.last = 0 => G2.old = G.old /\ G.last = 0
  BY <1>0 DEF Entered, Enters
<1> QED BY <1>3, <1>4, <1>5 DEF ThreadMatch

-----------------------------------------------------------------------------
(* Detection. *)

(* A clock of the cell sums up the accesses in S. *)
Sums(G, v, S) ==
    /\ \A e \in S : G.time[e] <= v[G.own[e]]
    /\ \A j \in Thread : v[j] = 0 \/ \E e \in S : G.own[e] = j /\ G.time[e] = v[j]

OfKind(G, L, kinds) == {e \in G.recent : L[e].kind \in kinds}

SyncOf(x) == IF x.atomic_ops = None THEN ZeroClock ELSE x.atomic_ops.sync_vector
ReadsOf(x) == IF x.atomic_ops = None THEN ZeroClock ELSE x.atomic_ops.read_vector
WritesOf(x) == IF x.atomic_ops = None THEN ZeroClock ELSE x.atomic_ops.write_vector

(* The cell x remembers the recent accesses of the log L. *)
Remembers(G, x, L) ==
    /\ IF G.last # 0 THEN x.write_index = G.own[G.last] /\ x.write_time = G.time[G.last] ELSE x.write_time = 0
    /\ \A e \in G.recent : L[e].kind = "Write" <=> e = G.last
    /\ Sums(G, x.read, OfKind(G, L, {"Read"}))
    /\ Sums(G, ReadsOf(x), OfKind(G, L, {"AtomicLoad", "AtomicRmw"}))
    /\ Sums(G, WritesOf(x), OfKind(G, L, {"AtomicStore", "AtomicRmw"}))

(* The comparison of clocks decides whether all of S is known. *)
LEMMA SumsDecide ==
    ASSUME NEW G \in Histories, NEW c \in Clocks, NEW v \in Clocks, NEW H, NEW S \in SUBSET G.recent,
           Match(G, c, H), Sums(G, v, S)
    PROVE  ClockLeq(v, c) <=> S \subseteq H
<1>1. ASSUME NEW e \in S PROVE /\ G.own[e] \in Thread /\ G.time[e] \in Nat /\ (e \in H <=> G.time[e] <= c[G.own[e]])
                                /\ G.time[e] <= v[G.own[e]] /\ v[G.own[e]] \in Nat /\ c[G.own[e]] \in Nat
  <2>1. G.own[e] \in Thread /\ G.time[e] \in Nat
    BY HistoryShape
  <2> QED BY <2>1 DEF Match, Sums, Clocks
<1>2. ASSUME ClockLeq(v, c), NEW e \in S PROVE e \in H
  <2>1. v[G.own[e]] <= c[G.own[e]]
    BY <1>1, <1>2 DEF ClockLeq
  <2> QED BY <1>1, <2>1
<1>3. ASSUME S \subseteq H, NEW j \in Thread PROVE v[j] <= c[j]
  <2>1. v[j] \in Nat /\ c[j] \in Nat
    BY DEF Clocks
  <2>2. CASE v[j] = 0
    BY <2>1, <2>2
  <2>3. CASE v[j] # 0
    <3>1. PICK e \in S : G.own[e] = j /\ G.time[e] = v[j]
      BY <2>3 DEF Sums
    <3> QED BY <3>1, <1>1, <1>3
  <2> QED BY <2>2, <2>3
<1> QED BY <1>2, <1>3 DEF ClockLeq

(* An access that belongs to S2 enters. *)
LEMMA SumsEnter ==
    ASSUME NEW G \in Histories, NEW P \in Clocks, NEW n, NEW i \in Thread, NEW G2, Enters(G, G2, n, i, P), Proper(G, P),
           NEW v \in Clocks, NEW S \in SUBSET G.recent, Sums(G, v, S)
    PROVE  Sums(G2, [v EXCEPT ![i] = P[i]], S \cup {n}) /\ Sums(G2, v, S)
<1>0. Entered(G, G2, n, i, P)
  BY EnteredShape
<1> DEFINE w == [v EXCEPT ![i] = P[i]]
<1>1. /\ n \notin G.recent /\ G.recent \subseteq Nat /\ P[i] \in Nat
      /\ w[i] = P[i] /\ (\A j \in Thread \ {i} : w[j] = v[j]) /\ G2.own[n] = i /\ G2.time[n] = P[i]
  BY <1>0, HistoryShape DEF Enters, Entered, Clocks
<1>2. ASSUME NEW e \in S
      PROVE  /\ G2.own[e] = G.own[e] /\ G2.time[e] = G.time[e] /\ G.own[e] \in Thread /\ G.time[e] \in Nat
             /\ G.time[e] <= P[G.own[e]] /\ G.time[e] <= v[G.own[e]]
  <2>1. e \in G.recent /\ e \in Nat \ {n}
    BY <1>1
  <2> QED BY <1>0, <2>1, HistoryShape DEF Entered, Proper, Sums
<1> HIDE DEF w
<1>3. ASSUME NEW e \in S \cup {n} PROVE G2.time[e] <= w[G2.own[e]]
  <2>1. CASE e = n
    BY <1>1, <2>1
  <2>2. CASE e \in S
    <3>1. CASE G.own[e] = i
      BY <1>1, <1>2, <2>2, <3>1
    <3>2. CASE G.own[e] # i
      BY <1>1, <1>2, <2>2, <3>2
    <3> QED BY <3>1, <3>2
  <2> QED BY <2>1, <2>2
<1>4. ASSUME NEW j \in Thread, v[j] # 0 PROVE \E e \in S : G2.own[e] = j /\ G2.time[e] = v[j]
  <2>1. PICK e \in S : G.own[e] = j /\ G.time[e] = v[j]
    BY <1>4 DEF Sums
  <2> QED BY <1>2, <2>1
<1>5. ASSUME NEW j \in Thread PROVE w[j] = 0 \/ \E e \in S \cup {n} : G2.own[e] = j /\ G2.time[e] = w[j]
  <2>1. CASE j = i
    BY <1>1, <2>1
  <2>2. CASE j # i
    BY <1>1, <1>4, <2>2
  <2> QED BY <2>1, <2>2
<1>6. Sums(G2, w, S \cup {n})
  BY <1>3, <1>5 DEF Sums
<1>7. Sums(G2, v, S)
  BY <1>2, <1>4 DEF Sums
<1> QED BY <1>6, <1>7 DEF w

LEMMA SumsNothing ==
    ASSUME NEW G, NEW S, S = {}
    PROVE  Sums(G, ZeroClock, S)
  BY ZeroShape DEF Sums

(* What an atomic access or a non-atomic read of index i at time ts makes  *)
(* of the cell x.                                                          *)
Entry(v, marked, i, ts) == IF marked THEN [v EXCEPT ![i] = ts] ELSE v
Marks(x, y, kind, i, ts) ==
    /\ kind # "Write" /\ y.write_index = x.write_index /\ y.write_time = x.write_time
    /\ y.read = Entry(x.read, kind = "Read", i, ts)
    /\ ReadsOf(y) = Entry(ReadsOf(x), kind \in {"AtomicLoad", "AtomicRmw"}, i, ts)
    /\ WritesOf(y) = Entry(WritesOf(x), kind \in {"AtomicStore", "AtomicRmw"}, i, ts)

CellClocks(x) == x.read \in Clocks /\ ReadsOf(x) \in Clocks /\ WritesOf(x) \in Clocks

LEMMA SumsMarked ==
    ASSUME NEW G \in Histories, NEW P \in Clocks, NEW L, NEW i \in Thread, NEW A, L \in Seq(A),
           G.recent \subseteq 1 .. Len(L), NEW a, NEW kinds, Proper(G, P),
           Enters(G, Noted(G, Len(L) + 1, i, P), Len(L) + 1, i, P), NEW v \in Clocks, Sums(G, v, OfKind(G, L, kinds))
    PROVE  Sums(Noted(G, Len(L) + 1, i, P), Entry(v, a.kind \in kinds, i, P[i]),
                OfKind(Noted(G, Len(L) + 1, i, P), Append(L, a), kinds))
<1> DEFINE n == Len(L) + 1
           G2 == Noted(G, n, i, P)
           S == OfKind(G, L, kinds)
           L2 == Append(L, a)
<1>1. OfKind(G2, L2, kinds) = S \cup (IF a.kind \in kinds THEN {n} ELSE {})
  <2>1. G2.recent = G.recent \cup {n} /\ Len(L) \in Nat
    BY DEF Noted
  <2>2. L2[n] = a /\ \A e \in 1 .. Len(L) : L2[e] = L[e]
    BY <2>1
  <2> HIDE DEF n, G2, L2
  <2> QED BY <2>1, <2>2 DEF OfKind
<1>2. S \subseteq G.recent
  BY DEF OfKind
<1> HIDE DEF n, G2, S, L2
<1>3. Sums(G2, [v EXCEPT ![i] = P[i]], S \cup {n}) /\ Sums(G2, v, S)
  <2>1. Enters(G, G2, n, i, P) /\ Sums(G, v, S)
    BY DEF n, G2, S
  <2> QED BY <1>2, <2>1, SumsEnter
<1>4. Sums(G2, Entry(v, a.kind \in kinds, i, P[i]), S \cup (IF a.kind \in kinds THEN {n} ELSE {}))
  <2>1. S \cup {} = S
    OBVIOUS
  <2> QED BY <1>3, <2>1 DEF Entry
<1> QED BY <1>1, <1>4 DEF n, G2, S, L2

LEMMA RemembersNoted ==
    ASSUME NEW G \in Histories, NEW P \in Clocks, NEW L, NEW i \in Thread, NEW A, L \in Seq(A),
           G.recent \subseteq 1 .. Len(L), NEW a, Proper(G, P),
           Enters(G, Noted(G, Len(L) + 1, i, P), Len(L) + 1, i, P),
           NEW x, NEW y, CellClocks(x), Remembers(G, x, L), Marks(x, y, a.kind, i, P[i])
    PROVE  Remembers(Noted(G, Len(L) + 1, i, P), y, Append(L, a))
<1> DEFINE n == Len(L) + 1
           G2 == Noted(G, n, i, P)
           L2 == Append(L, a)
<1>0. Entered(G, G2, n, i, P)
  BY EnteredShape
<1>1. G2.last = G.last /\ G2.recent = G.recent \cup {n} /\ Len(L) \in Nat
  BY DEF Noted
<1>2. L2[n] = a /\ \A e \in 1 .. Len(L) : L2[e] = L[e]
  BY <1>1
<1>3. Sums(G2, y.read, OfKind(G2, L2, {"Read"}))
  <2>1. Sums(G2, Entry(x.read, a.kind \in {"Read"}, i, P[i]), OfKind(G2, L2, {"Read"}))
    BY SumsMarked DEF Remembers, CellClocks
  <2>2. a.kind \in {"Read"} <=> a.kind = "Read"
    OBVIOUS
  <2> QED BY <2>1, <2>2 DEF Marks, Entry
<1>4. Sums(G2, ReadsOf(y), OfKind(G2, L2, {"AtomicLoad", "AtomicRmw"}))
  <2>1. Sums(G2, Entry(ReadsOf(x), a.kind \in {"AtomicLoad", "AtomicRmw"}, i, P[i]), OfKind(G2, L2, {"AtomicLoad", "AtomicRmw"}))
    BY SumsMarked DEF Remembers, CellClocks
  <2> QED BY <2>1 DEF Marks
<1>5. Sums(G2, WritesOf(y), OfKind(G2, L2, {"AtomicStore", "AtomicRmw"}))
  <2>1. Sums(G2, Entry(WritesOf(x), a.kind \in {"AtomicStore", "AtomicRmw"}, i, P[i]), OfKind(G2, L2, {"AtomicStore", "AtomicRmw"}))
    BY SumsMarked DEF Remembers, CellClocks
  <2> QED BY <2>1 DEF Marks
<1> HIDE DEF n, G2, L2
<1>6. G.last # n
  <2>1. n \in Nat \ {0} /\ n \notin G.recent
    BY DEF n, Enters
  <2> QED BY <2>1 DEF Proper
<1>7. \A e \in G2.recent : L2[e].kind = "Write" <=> e = G2.last
  BY <1>1, <1>2, <1>6 DEF Remembers, Marks
<1>8. IF G2.last # 0 THEN y.write_index = G2.own[G2.last] /\ y.write_time = G2.time[G2.last] ELSE y.write_time = 0
  <2>1. G.last # 0 => G2.own[G.last] = G.own[G.last] /\ G2.time[G.last] = G.time[G.last]
    BY <1>0, <1>6, HistoryShape DEF Entered
  <2> QED BY <1>1, <2>1 DEF Remembers, Marks
<1>9. Remembers(G2, y, L2)
  BY <1>3, <1>4, <1>5, <1>7, <1>8 DEF Remembers
<1> QED BY <1>9 DEF n, G2, L2

LEMMA RemembersOverwritten ==
    ASSUME NEW G \in Histories, NEW P \in Clocks, NEW L, NEW i \in Thread, NEW A, L \in Seq(A), NEW a, a.kind = "Write",
           Enters(G, Overwritten(G, Len(L) + 1, i, P), Len(L) + 1, i, P)
    PROVE  Remembers(Overwritten(G, Len(L) + 1, i, P), Written(i, P[i]), Append(L, a))
<1> DEFINE n == Len(L) + 1
           G2 == Overwritten(G, n, i, P)
           L2 == Append(L, a)
           y == Written(i, P[i])
<1>0. Entered(G, G2, n, i, P)
  BY EnteredShape
<1>1. G2.last = n /\ G2.recent = {n} /\ L2[n] = a /\ n # 0
  BY DEF Overwritten, Enters
<1>2. y.write_index = i /\ y.write_time = P[i] /\ y.read = ZeroClock /\ ReadsOf(y) = ZeroClock /\ WritesOf(y) = ZeroClock
  BY DEF Written, ReadsOf, WritesOf, NoAtomics
<1>3. G2.own[n] = i /\ G2.time[n] = P[i]
  BY <1>0 DEF Entered
<1> HIDE DEF n, G2, L2, y
<1>4. \A kinds : "Write" \notin kinds => OfKind(G2, L2, kinds) = {}
  BY <1>1 DEF OfKind
<1>5. /\ Sums(G2, ZeroClock, OfKind(G2, L2, {"Read"})) /\ Sums(G2, ZeroClock, OfKind(G2, L2, {"AtomicLoad", "AtomicRmw"}))
      /\ Sums(G2, ZeroClock, OfKind(G2, L2, {"AtomicStore", "AtomicRmw"}))
  BY <1>4, SumsNothing
<1>6. Remembers(G2, y, L2)
  BY <1>1, <1>2, <1>3, <1>5 DEF Remembers
<1> QED BY <1>6 DEF n, G2, L2, y

-----------------------------------------------------------------------------
(* The relation between the detector and the reference. *)

Threads(G, h) ==
    \A t \in Thread : life[t] = "Live" => ThreadMatch(G, vector_clocks[t], h[t], hb_acquire[t], hb_release[t])
Ends(G) == \A t \in Thread : life[t] = "Terminated" => Match(G, termination_clock[t], hb_end[t])
Carriers(G) == Match(G, SyncOf(cell), hb_cell) /\ Match(G, obj_clock, hb_obj) /\ Match(G, race_sc_fence, hb_sc)

Hist(G) ==
    /\ G \in Histories /\ G.old \cup G.recent = 1 .. Len(log) /\ Proper(G, Present)
    /\ Remembers(G, cell, log) /\ (~multi_threaded => G.recent = {})
    /\ Threads(G, hb) /\ Ends(G) /\ Carriers(G)

(* What the log is made of: every read-modify-write is just one there. *)
LogEntries == {a \in Accesses : a.kind # "AcquireRmw"}

(* Threads are created in order, and the index of a thread is its number:  *)
(* no index is re-used.                                                    *)
Numbered ==
    /\ \A t \in Thread : IF t < allocated THEN life[t] # "Unborn" /\ vector_index[t] = t
                         ELSE life[t] = "Unborn" /\ hb_acquire[t] = {} /\ hb_release[t] = {}
    /\ multi_threaded <=> allocated > 1
    /\ log \in Seq(LogEntries)

(* Where a program has one size of atomic accesses, so has the cell. *)
OneSize ==
    Cardinality(race_program.sizes) <= 1 => cell.atomic_ops = None \/ cell.atomic_ops.size \in race_program.sizes

LEMMA CellParts ==
    ASSUME RInv
    PROVE  /\ CellClocks(cell) /\ SyncOf(cell) \in Clocks /\ cell.write_index \in Thread /\ cell.write_time \in Nat
           /\ \A c \in Clocks : /\ AtomicsBefore("write_vector", c) <=> ClockLeq(WritesOf(cell), c)
                                /\ AtomicsBefore("read_vector", c) <=> ClockLeq(ReadsOf(cell), c)
           /\ PastOf(SyncOf(cell), Present)
<1>1. CellShape /\ Times /\ Present \in Clocks /\ ZeroClock \in Clocks
  BY Parts, PresentShape, ZeroShape
<1>2. cell.read \in Clocks /\ cell.write_index \in Thread /\ cell.write_time \in Nat
  BY <1>1 DEF CellShape
<1>3. CASE cell.atomic_ops = None
  <2>1. SyncOf(cell) = ZeroClock /\ ReadsOf(cell) = ZeroClock /\ WritesOf(cell) = ZeroClock
    BY <1>3 DEF SyncOf, ReadsOf, WritesOf
  <2>2. \A c \in Clocks : ClockLeq(ZeroClock, c)
    BY ZeroShape DEF ClockLeq, Clocks
  <2> QED BY <1>1, <1>2, <1>3, <2>1, <2>2, PastZero DEF CellClocks, AtomicsBefore, NoAtomics
<1>4. CASE cell.atomic_ops # None
  <2>1. cell.atomic_ops \in AtomicClocks /\ PastOf(cell.atomic_ops.sync_vector, Present)
    BY <1>1, <1>4 DEF CellShape, Times
  <2>2. /\ SyncOf(cell) = cell.atomic_ops.sync_vector /\ ReadsOf(cell) = cell.atomic_ops.read_vector
        /\ WritesOf(cell) = cell.atomic_ops.write_vector
        /\ SyncOf(cell) \in Clocks /\ ReadsOf(cell) \in Clocks /\ WritesOf(cell) \in Clocks
    BY <1>4, <2>1 DEF SyncOf, ReadsOf, WritesOf, AtomicClocks
  <2>3. \A c \in Clocks : /\ AtomicsBefore("write_vector", c) <=> ClockLeq(WritesOf(cell), c)
                          /\ AtomicsBefore("read_vector", c) <=> ClockLeq(ReadsOf(cell), c)
    BY <1>4, <2>2 DEF AtomicsBefore, NoAtomics
  <2> QED BY <1>2, <2>1, <2>2, <2>3 DEF CellClocks
<1> QED BY <1>3, <1>4

(* What the checks of the detector find out. *)
LEMMA Decides ==
    ASSUME RInv, NEW G, Hist(G), NEW c \in Clocks, NEW h, Match(G, c, h)
    PROVE  /\ WriteWasBefore(c) <=> (G.last = 0 \/ G.last \in h)
           /\ ClockLeq(cell.read, c) <=> OfKind(G, log, {"Read"}) \subseteq h
           /\ AtomicsBefore("read_vector", c) <=> OfKind(G, log, {"AtomicLoad", "AtomicRmw"}) \subseteq h
           /\ AtomicsBefore("write_vector", c) <=> OfKind(G, log, {"AtomicStore", "AtomicRmw"}) \subseteq h
<1>1. /\ G \in Histories /\ Proper(G, Present) /\ Remembers(G, cell, log)
  BY DEF Hist
<1>2. c \in Clocks
  OBVIOUS
<1>3. Match(G, c, h)
  OBVIOUS
<1>4. CellClocks(cell) /\ cell.write_index \in Thread /\ cell.write_time \in Nat
      /\ (AtomicsBefore("write_vector", c) <=> ClockLeq(WritesOf(cell), c))
      /\ (AtomicsBefore("read_vector", c) <=> ClockLeq(ReadsOf(cell), c))
  BY <1>2, CellParts
<1>5. \A kinds : OfKind(G, log, kinds) \subseteq G.recent
  BY DEF OfKind
<1>6. /\ ClockLeq(cell.read, c) <=> OfKind(G, log, {"Read"}) \subseteq h
      /\ ClockLeq(ReadsOf(cell), c) <=> OfKind(G, log, {"AtomicLoad", "AtomicRmw"}) \subseteq h
      /\ ClockLeq(WritesOf(cell), c) <=> OfKind(G, log, {"AtomicStore", "AtomicRmw"}) \subseteq h
  <2>1. /\ Sums(G, cell.read, OfKind(G, log, {"Read"}))
        /\ Sums(G, ReadsOf(cell), OfKind(G, log, {"AtomicLoad", "AtomicRmw"}))
        /\ Sums(G, WritesOf(cell), OfKind(G, log, {"AtomicStore", "AtomicRmw"}))
        /\ cell.read \in Clocks /\ ReadsOf(cell) \in Clocks /\ WritesOf(cell) \in Clocks
    BY <1>1, <1>4 DEF Remembers, CellClocks
  <2> QED BY <1>1, <1>2, <1>3, <1>5, <2>1, SumsDecide
<1>7. WriteWasBefore(c) <=> (G.last = 0 \/ G.last \in h)
  <2>1. CASE G.last = 0
    <3>1. cell.write_time = 0 /\ c[cell.write_index] \in Nat
      BY <1>1, <1>2, <1>4, <2>1 DEF Remembers, Clocks
    <3> QED BY <2>1, <3>1 DEF WriteWasBefore
  <2>2. CASE G.last # 0
    <3>1. cell.write_index = G.own[G.last] /\ cell.write_time = G.time[G.last] /\ G.last \in G.recent
      BY <1>1, <2>2 DEF Remembers, Proper
    <3> QED BY <1>3, <2>2, <3>1 DEF WriteWasBefore, Match
  <2> QED BY <2>1, <2>2
<1> QED BY <1>4, <1>6, <1>7

LEMMA AccessKinds ==
    ASSUME NEW a \in Accesses
    PROVE  /\ a.kind \in {"Read", "Write", "AtomicLoad", "AtomicStore", "AtomicRmw", "AcquireRmw"}
           /\ a.kind \in {"Read", "Write"} \/ a.size \in race_program.sizes
           /\ a \in LogEntries <=> a.kind # "AcquireRmw"
  BY DEF Accesses, Access, AtomicKinds, LogEntries

LEMMA OneSizeOnly ==
    ASSUME race_program \in RacePrograms, ~(Cardinality(race_program.sizes) > 1),
           NEW r \in race_program.sizes, NEW s \in race_program.sizes
    PROVE  r = s /\ Cardinality(race_program.sizes) <= 1
<1>1. IsFiniteSet(race_program.sizes)
  BY DataRaceAssumption DEF RaceProgram
<1>2. Cardinality(race_program.sizes) \in Nat
  BY <1>1, FS_CardinalityType
<1>3. Cardinality(race_program.sizes) # 0
  BY <1>1, FS_EmptySet
<1>4. Cardinality(race_program.sizes) = 1
  BY <1>2, <1>3
<1>5. \E x : race_program.sizes = {x}
  BY <1>1, <1>4, FS_Singleton
<1> QED BY <1>4, <1>5

LEMMA SameSize ==
    ASSUME race_program \in RacePrograms, NEW a \in Accesses, NEW b \in Accesses,
           ~(IsAtomic(a) /\ Cardinality(race_program.sizes) > 1), IsAtomic(a), IsAtomic(b)
    PROVE  a.size = b.size
<1>1. a.size \in race_program.sizes /\ b.size \in race_program.sizes
  BY AccessKinds DEF IsAtomic, AtomicKinds
<1> QED BY <1>1, OneSizeOnly

(* With one size, sizes are no reason to report. *)
LEMMA NoSizeRace ==
    ASSUME RInv, OneSize, NEW a \in Accesses, IsAtomic(a), ~(Cardinality(race_program.sizes) > 1), NEW c, NEW write
    PROVE  ~SizeRaces(c, a.size, write)
<1> SUFFICES ASSUME cell.atomic_ops # None PROVE cell.atomic_ops.size = a.size
  BY DEF SizeRaces, NoAtomics
<1>1. a.size \in race_program.sizes /\ race_program \in RacePrograms
  BY AccessKinds DEF IsAtomic, AtomicKinds, RInv, RaceTypeOK
<1>2. Cardinality(race_program.sizes) <= 1
  BY <1>1, OneSizeOnly
<1>3. cell.atomic_ops.size \in race_program.sizes
  BY <1>2 DEF OneSize
<1> QED BY <1>1, <1>3, OneSizeOnly

(* Which accesses of the log conflict with a. *)
LEMMA Conflicts ==
    ASSUME RInv, ~CpuLocal, NEW a \in LogEntries, NEW b \in LogEntries,
           ~(IsAtomic(a) /\ Cardinality(race_program.sizes) > 1)
    PROVE  /\ b.kind = "Write" => Conflict(b, a)
           /\ a.kind = "Write" => Conflict(b, a)
           /\ b.kind # "Write" /\ a.kind = "Read" => (Conflict(b, a) <=> b.kind \in {"AtomicStore", "AtomicRmw"})
           /\ b.kind # "Write" /\ a.kind = "AtomicLoad" => ~Conflict(b, a)
           /\ b.kind # "Write" /\ a.kind \in {"AtomicStore", "AtomicRmw"} => (Conflict(b, a) <=> b.kind = "Read")
<1>1. race_program \in RacePrograms
  BY DEF RInv, RaceTypeOK
<1>2. IsAtomic(a) /\ IsAtomic(b) => a.size = b.size
  BY <1>1, SameSize DEF LogEntries
<1> QED BY <1>2, AccessKinds DEF LogEntries, Conflict, IsAtomic, IsWrite, AtomicKinds

(* What an access with clock c is told. *)
Judged(c, a) ==
    CASE a.kind = "Read" -> NaReadRaces(c)
      [] a.kind = "Write" -> NaWriteRaces(c)
      [] a.kind = "AtomicLoad" -> AtomicReadRaces(c, a.size)
      [] OTHER -> AtomicReadRaces(c, a.size) \/ AtomicWriteRaces(c, a.size)

(* A clock that matches h judges as if it knew h itself. *)
LEMMA ExactAt ==
    ASSUME RInv, Numbered, OneSize, ~CpuLocal, NEW G, Hist(G), NEW c \in Clocks, NEW h, Match(G, c, h),
           G.last = 0 => G.old \subseteq h, NEW a \in LogEntries, ~(IsAtomic(a) /\ Cardinality(race_program.sizes) > 1)
    PROVE  Judged(c, a) <=> Unordered(h, a)
<1> DEFINE known == G.last = 0 \/ G.last \in h
           reads == OfKind(G, log, {"Read"})
           loads == OfKind(G, log, {"AtomicLoad", "AtomicRmw"})
           stores == OfKind(G, log, {"AtomicStore", "AtomicRmw"})
<1>1. /\ G \in Histories /\ Proper(G, Present) /\ Remembers(G, cell, log) /\ G.old \cup G.recent = 1 .. Len(log)
  BY DEF Hist
<1>2. /\ WriteWasBefore(c) <=> known
      /\ ClockLeq(cell.read, c) <=> reads \subseteq h
      /\ AtomicsBefore("read_vector", c) <=> loads \subseteq h
      /\ AtomicsBefore("write_vector", c) <=> stores \subseteq h
  BY Decides
<1>3. \A e \in G.old \cup G.recent : log[e] \in LogEntries
  BY <1>1 DEF Numbered
<1>4. known => G.old \subseteq h
  BY DEF Match
<1>5. \A e \in G.recent : log[e].kind = "Write" <=> e = G.last
  BY <1>1 DEF Remembers
<1>6. Unordered(h, a) <=> \E e \in G.old \cup G.recent : e \notin h /\ Conflict(log[e], a)
  BY <1>1 DEF Unordered
<1>7. IsAtomic(a) => ~SizeRaces(c, a.size, FALSE) /\ ~SizeRaces(c, a.size, TRUE)
  BY NoSizeRace DEF LogEntries
<1>8. a.kind \in {"Read", "Write", "AtomicLoad", "AtomicStore", "AtomicRmw"}
  BY AccessKinds DEF LogEntries
<1> HIDE DEF known, reads, loads, stores
<1>9. CASE ~known
  <2>1. G.last \in G.recent /\ G.last \notin h /\ log[G.last].kind = "Write"
    BY <1>1, <1>5, <1>9 DEF known, Proper
  <2>2. Conflict(log[G.last], a)
    BY <1>3, <2>1, Conflicts
  <2>3. Unordered(h, a)
    BY <1>6, <2>1, <2>2
  <2>4. Judged(c, a)
    BY <1>2, <1>9 DEF Judged, NaReadRaces, NaWriteRaces, AtomicReadRaces, AtomicWriteRaces
  <2> QED BY <2>3, <2>4
<1>10. CASE known
  <2>1. Unordered(h, a) <=> \E e \in G.recent : e \notin h /\ log[e].kind # "Write" /\ Conflict(log[e], a)
    <3>1. \A e \in G.recent : e \notin h => log[e].kind # "Write"
      BY <1>1, <1>5, <1>10 DEF known, Proper
    <3> QED BY <1>4, <1>6, <1>10, <3>1
  <2>2. CASE a.kind = "Read"
    <3>1. Unordered(h, a) <=> ~(stores \subseteq h)
      BY <1>3, <2>1, <2>2, Conflicts DEF stores, OfKind
    <3> QED BY <1>2, <1>10, <2>2, <3>1 DEF Judged, NaReadRaces
  <2>3. CASE a.kind = "Write"
    <3>1. Unordered(h, a) <=> ~(reads \subseteq h /\ loads \subseteq h /\ stores \subseteq h)
      <4>1. \A e \in G.recent : Conflict(log[e], a)
        BY <1>3, <2>3, Conflicts
      <4>2. \A e \in G.recent : log[e].kind # "Write" <=> e \in reads \cup loads \cup stores
        BY <1>3, AccessKinds DEF LogEntries, reads, loads, stores, OfKind
      <4>3. reads \subseteq G.recent /\ loads \subseteq G.recent /\ stores \subseteq G.recent
        BY DEF reads, loads, stores, OfKind
      <4> QED BY <2>1, <4>1, <4>2, <4>3
    <3> QED BY <1>2, <1>10, <2>3, <3>1 DEF Judged, NaWriteRaces
  <2>4. CASE a.kind = "AtomicLoad"
    <3>1. ~Unordered(h, a)
      BY <1>3, <2>1, <2>4, Conflicts
    <3> QED BY <1>2, <1>7, <1>10, <2>4, <3>1 DEF Judged, AtomicReadRaces, IsAtomic, AtomicKinds
  <2>5. CASE a.kind \in {"AtomicStore", "AtomicRmw"}
    <3>1. Unordered(h, a) <=> ~(reads \subseteq h)
      BY <1>3, <2>1, <2>5, Conflicts DEF reads, OfKind
    <3>2. IsAtomic(a)
      BY <2>5 DEF IsAtomic, AtomicKinds
    <3> QED BY <1>2, <1>7, <1>10, <2>5, <3>1, <3>2 DEF Judged, AtomicReadRaces, AtomicWriteRaces
  <2> QED BY <1>8, <2>2, <2>3, <2>4, <2>5
<1> QED BY <1>9, <1>10

(* The clock of a live thread, and that clock with what an atomic access   *)
(* of the cell acquires.                                                   *)
LEMMA OwnMatch ==
    ASSUME RInv, Numbered, NEW G, Hist(G), NEW t \in Thread, life[t] = "Live"
    PROVE  /\ Clock(t) \in Clocks /\ Match(G, Clock(t), hb[t])
           /\ ClockJoin(Clock(t), SyncVector) \in Clocks /\ Match(G, ClockJoin(Clock(t), SyncVector), hb[t] \cup hb_cell)
           /\ G.last = 0 => G.old \subseteq hb[t]
<1>1. ThreadMatch(G, vector_clocks[t], hb[t], hb_acquire[t], hb_release[t]) /\ Match(G, SyncOf(cell), hb_cell) /\ G \in Histories
  BY DEF Hist, Threads, Carriers
<1>2. Clock(t) \in Clocks /\ Clock(t) = vector_clocks[t].clock
  <2>1. vector_index[t] = t
    BY DEF Numbered
  <2> QED BY <2>1, Found DEF Clock
<1>3. Match(G, Clock(t), hb[t])
  BY <1>1, <1>2 DEF ThreadMatch
<1>4. SyncVector = SyncOf(cell) /\ SyncOf(cell) \in Clocks
  BY CellParts DEF SyncVector, SyncOf, NoAtomics
<1>5. G.last = 0 => G.old \subseteq hb[t]
  BY <1>1 DEF ThreadMatch
<1> QED BY <1>1, <1>2, <1>3, <1>4, <1>5, JoinShape, MatchJoin

(* The detector reports what the reference calls a race. *)
LEMMA Exact ==
    ASSUME RInv, Numbered, OneSize, ~CpuLocal, NEW G, Hist(G), NEW t \in Thread, life[t] = "Live", NEW a \in Accesses,
           ~(IsAtomic(a) /\ Cardinality(race_program.sizes) > 1)
    PROVE  Reported(t, a) <=> Racy(t, a)
<1> DEFINE c == Clock(t)
           d == ClockJoin(c, SyncVector)
           ld == Access("AtomicLoad", a.size)
           st == Access("AtomicStore", a.size)
<1>1. /\ c \in Clocks /\ Match(G, c, hb[t]) /\ d \in Clocks /\ Match(G, d, hb[t] \cup hb_cell)
      /\ G.last = 0 => G.old \subseteq hb[t] /\ G.old \subseteq hb[t] \cup hb_cell
  BY OwnMatch
<1>2. CASE ~multi_threaded
  <2>1. G.last = 0 /\ G.recent = {} /\ G.old = 1 .. Len(log)
    BY <1>2 DEF Hist, Proper
  <2>2. 1 .. Len(log) \subseteq hb[t]
    BY <1>1, <2>1 DEF Match
  <2>3. \A b : ~Unordered(hb[t], b) /\ ~Unordered(hb[t] \cup hb_cell, b)
    BY <2>2 DEF Unordered
  <2> QED BY <1>2, <2>3 DEF Reported, Racy
<1>3. CASE multi_threaded /\ a.kind # "AcquireRmw"
  <2>1. Reported(t, a) <=> Judged(c, a)
    BY <1>3 DEF Reported, Judged
  <2>2. a \in LogEntries
    BY <1>3, AccessKinds
  <2> QED BY <1>1, <1>3, <2>1, <2>2, ExactAt DEF Racy
<1>4. CASE multi_threaded /\ a.kind = "AcquireRmw"
  <2>1. a.size \in race_program.sizes /\ IsAtomic(a)
    BY <1>4, AccessKinds DEF IsAtomic, AtomicKinds
  <2>2. ld \in LogEntries /\ st \in LogEntries /\ ld.kind = "AtomicLoad" /\ st.kind = "AtomicStore" /\ ld.size = a.size /\ st.size = a.size
    BY <2>1 DEF LogEntries, Accesses, Access, AtomicKinds
  <2> HIDE DEF c, d, ld, st
  <2>3. Judged(c, ld) <=> Unordered(hb[t], ld)
    BY <1>1, <2>1, <2>2, ExactAt
  <2>4. Judged(d, st) <=> Unordered(hb[t] \cup hb_cell, st)
    BY <1>1, <2>1, <2>2, ExactAt
  <2>5. Judged(c, ld) <=> AtomicReadRaces(c, a.size)
    BY <2>2 DEF Judged
  <2>6. Judged(d, st) <=> AtomicWriteRaces(d, a.size)
    BY <2>2 DEF Judged, AtomicReadRaces, AtomicWriteRaces, SizeRaces
  <2>7. Reported(t, a) <=> AtomicReadRaces(c, a.size) \/ AtomicWriteRaces(d, a.size)
    BY <1>4 DEF Reported, c, d
  <2>8. Racy(t, a) <=> Unordered(hb[t], ld) \/ Unordered(hb[t] \cup hb_cell, st)
    BY <1>4 DEF Racy, ld, st
  <2> QED BY <2>3, <2>4, <2>5, <2>6, <2>7, <2>8
<1> QED BY <1>2, <1>3, <1>4

(* In CPU-local memory the cell stays as it was but for its atomic clocks, *)
(* and nothing is reported: accesses of one size do not conflict.          *)
Untouched == CpuLocal => cell.write_time = 0 /\ cell.read = ZeroClock

LEMMA LocalExact ==
    ASSUME RInv, Numbered, OneSize, Untouched, CpuLocal, NEW t \in Thread, life[t] = "Live", NEW a \in Accesses,
           ~(IsAtomic(a) /\ Cardinality(race_program.sizes) > 1)
    PROVE  ~Reported(t, a) /\ ~Racy(t, a)
<1>1. /\ Clock(t) \in Clocks /\ ClockJoin(Clock(t), SyncVector) \in Clocks /\ race_program \in RacePrograms
      /\ cell.write_index \in Thread /\ cell.write_time = 0 /\ cell.read = ZeroClock
  <2>1. SyncVector = SyncOf(cell) /\ SyncOf(cell) \in Clocks /\ cell.write_index \in Thread
    BY CellParts DEF SyncVector, SyncOf, NoAtomics
  <2>2. Clock(t) \in Clocks
    BY Found
  <2> QED BY <2>1, <2>2, JoinShape DEF Untouched, RInv, RaceTypeOK
<1>2. ASSUME NEW c \in Clocks PROVE WriteWasBefore(c) /\ ClockLeq(cell.read, c)
  <2>1. c[cell.write_index] \in Nat /\ \A j \in Thread : c[j] \in Nat
    BY <1>1 DEF Clocks
  <2> QED BY <1>1, <2>1, ZeroShape DEF WriteWasBefore, ClockLeq
<1>3. ASSUME IsAtomic(a), NEW c \in Clocks PROVE ~AtomicReadRaces(c, a.size) /\ ~AtomicWriteRaces(c, a.size)
  BY <1>2, <1>3, NoSizeRace DEF AtomicReadRaces, AtomicWriteRaces
<1>4. ~Reported(t, a)
  <2>1. CASE a.kind \in {"Read", "Write"}
    BY <2>1 DEF Reported
  <2>2. CASE IsAtomic(a)
    BY <1>1, <1>3, <2>2 DEF Reported, IsAtomic, AtomicKinds
  <2> QED BY <2>1, <2>2, AccessKinds DEF IsAtomic, AtomicKinds
<1>5. ASSUME NEW b \in Accesses, b.size = a.size, IsAtomic(b) <=> IsAtomic(a), NEW H PROVE ~Unordered(H, b)
  <2> SUFFICES ASSUME NEW e \in 1 .. Len(log), Conflict(log[e], b) PROVE FALSE
    BY DEF Unordered
  <2>1. log[e] \in Accesses
    BY DEF Numbered, LogEntries
  <2>2. IsAtomic(log[e]) /\ IsAtomic(b) /\ log[e].size # b.size
    BY DEF Conflict
  <2> QED BY <1>1, <1>5, <2>1, <2>2, SameSize
<1>6. ~Racy(t, a)
  <2>1. CASE a.kind = "AcquireRmw"
    <3>1. a.size \in race_program.sizes /\ IsAtomic(a)
      BY <2>1, AccessKinds DEF IsAtomic, AtomicKinds
    <3>2. /\ Access("AtomicLoad", a.size) \in Accesses /\ Access("AtomicStore", a.size) \in Accesses
          /\ Access("AtomicLoad", a.size).size = a.size /\ Access("AtomicStore", a.size).size = a.size
          /\ IsAtomic(Access("AtomicLoad", a.size)) /\ IsAtomic(Access("AtomicStore", a.size))
      BY <3>1 DEF Accesses, Access, IsAtomic, AtomicKinds
    <3> QED BY <1>5, <2>1, <3>1, <3>2 DEF Racy
  <2>2. CASE a.kind # "AcquireRmw"
    BY <1>5, <2>2 DEF Racy
  <2> QED BY <2>1, <2>2
<1> QED BY <1>4, <1>6

-----------------------------------------------------------------------------
(* What synchronization does to a matching clock set. *)

LEMMA MatchAcquire ==
    ASSUME NEW G \in Histories, NEW k \in ClockSets, NEW s \in Clocks, NEW h, NEW a, NEW r, NEW hs,
           ThreadMatch(G, k, h, a, r), Match(G, s, hs)
    PROVE  ThreadMatch(G, LoadAcquire(k, s), h \cup hs, a, r) /\ ThreadMatch(G, LoadRelaxed(k, s), h, a \cup hs, r)
<1>1. k.clock \in Clocks /\ k.fence_acquire \in Clocks
  BY DEF ClockSets
<1>2. Match(G, ClockJoin(k.clock, s), h \cup hs) /\ Match(G, ClockJoin(k.fence_acquire, s), a \cup hs)
  BY <1>1, MatchJoin DEF ThreadMatch
<1>3. /\ LoadAcquire(k, s).clock = ClockJoin(k.clock, s) /\ LoadAcquire(k, s).fence_acquire = k.fence_acquire
      /\ LoadAcquire(k, s).fence_release = k.fence_release
      /\ LoadRelaxed(k, s).clock = k.clock /\ LoadRelaxed(k, s).fence_acquire = ClockJoin(k.fence_acquire, s)
      /\ LoadRelaxed(k, s).fence_release = k.fence_release
  BY DEF LoadAcquire, LoadRelaxed, ClockSets
<1> QED BY <1>2, <1>3 DEF ThreadMatch

LEMMA MatchTicked ==
    ASSUME NEW G \in Histories, NEW P \in Clocks, Proper(G, P), NEW j \in Thread, NEW k, Good(k, j, P),
           NEW h, NEW a, NEW r, ThreadMatch(G, k, h, a, r)
    PROVE  ThreadMatch(G, Tick(k, j), h, a, r)
<1>1. k \in ClockSets /\ k.clock \in Clocks /\ k.clock[j] = P[j]
  BY DEF Good, ClockSets
<1>2. Match(G, ClockIncrement(k.clock, j), h)
  BY <1>1, MatchTick DEF ThreadMatch
<1>3. /\ Tick(k, j).clock = ClockIncrement(k.clock, j) /\ Tick(k, j).fence_acquire = k.fence_acquire
      /\ Tick(k, j).fence_release = k.fence_release
  BY <1>1 DEF Tick, ClockSets
<1> QED BY <1>2, <1>3 DEF ThreadMatch

(* A fence, as in RaceFence: what it acquires, then the SeqCst clock, then *)
(* what it releases.                                                       *)
LEMMA MatchFence ==
    ASSUME NEW G \in Histories, NEW P \in Clocks, Proper(G, P), NEW j \in Thread, NEW k, Good(k, j, P),
           NEW s \in Clocks, PastOf(s, P), NEW h, NEW a, NEW r, NEW hs, ThreadMatch(G, k, h, a, r), Match(G, s, hs), NEW ord,
           NEW H, H = h \cup (IF ord = "Release" THEN {} ELSE a) \cup (IF ord = "SeqCst" THEN hs ELSE {})
    PROVE  /\ ThreadMatch(G, FenceClocks(k, j, ord, s, ZeroClock), H, a, IF ord = "Acquire" THEN r ELSE H)
           /\ Match(G, FenceGlobal(k, ord, s), IF ord = "SeqCst" THEN H ELSE hs)
<1> DEFINE all == LoadAcquire(k, k.fence_acquire)
           acq == IF ord = "Release" THEN k ELSE all
           F == ScFenceClock(all, s)
           sc == IF ord # "SeqCst" THEN acq
                 ELSE [acq EXCEPT !.clock = ClockJoin(@, F), !.write_seqcst = ClockJoin(@, ZeroClock)]
           rel == [sc EXCEPT !.fence_release = sc.clock]
<1>1. k \in ClockSets /\ k.fence_acquire \in Clocks /\ PastOf(k.fence_acquire, P) /\ P[j] \in Nat
  BY DEF Good, ClockSets, Clocks
<1>2. Good(all, j, P) /\ Good(acq, j, P)
  BY <1>1, GoodAcquire
<1>3. ThreadMatch(G, all, h \cup a, a, r)
  BY <1>1, MatchAcquire DEF ThreadMatch
<1> HIDE DEF all
<1>4. ThreadMatch(G, acq, h \cup (IF ord = "Release" THEN {} ELSE a), a, r)
  <2>1. h \cup {} = h
    OBVIOUS
  <2> QED BY <1>3, <2>1
<1>5. all \in ClockSets /\ all.clock \in Clocks /\ all.clock[j] = P[j]
  BY <1>2 DEF Good, ClockSets
<1>6. F \in Clocks /\ Match(G, F, h \cup a \cup hs) /\ F[j] = P[j]
  <2>1. Match(G, F, hs \cup (h \cup a)) /\ F \in Clocks
    BY <1>3, <1>5, MatchJoin, JoinShape DEF ScFenceClock, ThreadMatch
  <2>2. hs \cup (h \cup a) = h \cup a \cup hs
    OBVIOUS
  <2>3. F[j] = P[j]
    <3>1. s[j] \in Nat /\ s[j] <= P[j]
      BY <1>1 DEF PastOf, Before, Clocks
    <3>2. F[j] = IF s[j] >= all.clock[j] THEN s[j] ELSE all.clock[j]
      BY <1>5, JoinShape DEF ScFenceClock
    <3> QED BY <1>1, <1>5, <3>1, <3>2
  <2> QED BY <2>1, <2>2, <2>3
<1> HIDE DEF F
<1>7. ThreadMatch(G, sc, H, a, r) /\ sc \in ClockSets /\ sc.clock[j] = P[j]
  <2>1. CASE ord # "SeqCst"
    <3>1. H = h \cup (IF ord = "Release" THEN {} ELSE a)
      BY <2>1
    <3> QED BY <1>2, <1>4, <2>1, <3>1 DEF Good
  <2>2. CASE ord = "SeqCst"
    <3>1. H = (h \cup a) \cup (h \cup a \cup hs) /\ acq = all
      BY <2>2
    <3>2. Match(G, ClockJoin(all.clock, F), H)
      BY <1>3, <1>5, <1>6, <3>1, MatchJoin DEF ThreadMatch
    <3>3. /\ ClockJoin(all.clock, F) \in Clocks /\ ClockJoin(all.write_seqcst, ZeroClock) \in Clocks
          /\ ClockJoin(all.clock, F)[j] = P[j]
      <4>1. ClockJoin(all.clock, F) \in Clocks /\ ClockJoin(all.write_seqcst, ZeroClock) \in Clocks
        BY <1>5, <1>6, JoinShape, ZeroShape DEF ClockSets
      <4>2. ClockJoin(all.clock, F)[j] = IF all.clock[j] >= F[j] THEN all.clock[j] ELSE F[j]
        BY <1>5, <1>6, JoinShape
      <4> QED BY <1>5, <1>6, <4>1, <4>2
    <3>4. /\ sc \in ClockSets /\ sc.clock = ClockJoin(all.clock, F)
          /\ sc.fence_acquire = all.fence_acquire /\ sc.fence_release = all.fence_release
      BY <1>5, <2>2, <3>1, <3>3 DEF ClockSets
    <3>5. G.last = 0 => G.old \subseteq H
      BY <1>3, <3>1 DEF ThreadMatch
    <3> QED BY <1>3, <3>2, <3>3, <3>4, <3>5 DEF ThreadMatch
  <2> QED BY <2>1, <2>2
<1>8. FenceGlobal(k, ord, s) = IF ord # "SeqCst" THEN s ELSE F
  BY DEF FenceGlobal, F, all
<1>9. FenceClocks(k, j, ord, s, ZeroClock) = IF ord = "Acquire" THEN sc ELSE Tick(rel, j)
  <2>1. CASE ord = "SeqCst"
    <3>1. acq = all /\ ord # "Acquire" /\ F = ScFenceClock(acq, s)
      BY <2>1 DEF F
    <3> HIDE DEF acq
    <3>2. sc = [acq EXCEPT !.clock = ClockJoin(@, ScFenceClock(acq, s)), !.write_seqcst = ClockJoin(@, ZeroClock)]
      BY <2>1, <3>1
    <3> QED BY <2>1, <3>1, <3>2 DEF FenceClocks, acq, all
  <2>2. CASE ord # "SeqCst"
    BY <2>2 DEF FenceClocks, all
  <2> QED BY <2>1, <2>2
<1>10. Match(G, FenceGlobal(k, ord, s), IF ord = "SeqCst" THEN H ELSE hs)
  <2>1. ord = "SeqCst" => H = h \cup a \cup hs
    OBVIOUS
  <2> QED BY <1>6, <1>8, <2>1
<1> HIDE DEF sc
<1>11. ThreadMatch(G, Tick(rel, j), H, a, H)
  <2>1. sc.clock \in Clocks /\ Match(G, ClockIncrement(sc.clock, j), H)
    BY <1>7, MatchTick DEF ThreadMatch, ClockSets
  <2>2. /\ Tick(rel, j).clock = ClockIncrement(sc.clock, j)
        /\ Tick(rel, j).fence_acquire = sc.fence_acquire /\ Tick(rel, j).fence_release = sc.clock
    BY <1>7 DEF Tick, ClockSets
  <2> QED BY <1>7, <2>1, <2>2 DEF ThreadMatch
<1> QED BY <1>7, <1>9, <1>10, <1>11

-----------------------------------------------------------------------------
(* Steps. *)

RefShape ==
    /\ hb \in [Thread -> SUBSET Nat] /\ hb_acquire \in [Thread -> SUBSET Nat]
    /\ hb_release \in [Thread -> SUBSET Nat] /\ hb_end \in [Thread -> SUBSET Nat]
    /\ hb_cell \subseteq Nat /\ hb_obj \subseteq Nat /\ hb_sc \subseteq Nat

LEMMA ProperGrows ==
    ASSUME NEW G \in Histories, NEW P \in Clocks, NEW Q \in Clocks, Proper(G, P), \A j \in Thread : P[j] <= Q[j]
    PROVE  Proper(G, Q)
<1> SUFFICES ASSUME NEW e \in G.recent PROVE G.time[e] <= Q[G.own[e]]
  BY DEF Proper
<1>1. G.own[e] \in Thread /\ G.time[e] \in Nat /\ G.time[e] <= P[G.own[e]]
  BY HistoryShape DEF Proper
<1>2. P[G.own[e]] \in Nat /\ Q[G.own[e]] \in Nat /\ P[G.own[e]] <= Q[G.own[e]]
  BY <1>1 DEF Clocks
<1> QED BY <1>1, <1>2

(* What thread t finds of itself. *)
LEMMA Self ==
    ASSUME RInv, Numbered, NEW t \in Thread, life[t] = "Live"
    PROVE  /\ vector_index[t] = t /\ t \in 0 .. allocated - 1 /\ Present \in Clocks /\ Good(vector_clocks[t], t, Present)
           /\ vector_clocks[t] \in ClockSets /\ Clock(t) = vector_clocks[t].clock /\ Clock(t) \in Clocks
           /\ Clock(t)[t] = Present[t] /\ Present[t] \in Nat /\ (multi_threaded => Present[t] > 0)
<1>1. vector_index[t] = t /\ (multi_threaded => allocated > 1)
  BY DEF Numbered
<1>2. /\ Present \in Clocks /\ t \in 0 .. allocated - 1 /\ Good(vector_clocks[t], t, Present)
      /\ vector_clocks[t] \in ClockSets /\ Clock(t) \in Clocks
  BY <1>1, Found
<1>3. Clock(t) = vector_clocks[t].clock
  BY <1>1 DEF Clock
<1>4. Clock(t)[t] = Present[t] /\ Present[t] \in Nat
  BY <1>2, <1>3 DEF Good, Clocks
<1>5. multi_threaded => Present[t] > 0
  BY <1>1, <1>2, Parts DEF Times
<1> QED BY <1>1, <1>2, <1>3, <1>4, <1>5

(* Only t's clocks and sets change. *)
ByThread(t, h, k, H, A, R) ==
    /\ life' = life
    /\ vector_clocks' = [vector_clocks EXCEPT ![t] = k] /\ hb' = [h EXCEPT ![t] = H]
    /\ hb_acquire' = [hb_acquire EXCEPT ![t] = A] /\ hb_release' = [hb_release EXCEPT ![t] = R]

LEMMA ThreadsKept ==
    ASSUME RInv, RefShape, NEW G, NEW h \in [Thread -> SUBSET Nat], Threads(G, h), NEW t \in Thread, NEW k, NEW H, NEW A, NEW R,
           ByThread(t, h, k, H, A, R), ThreadMatch(G, k, H, A, R)
    PROVE  Threads(G, hb)'
<1>0. vector_clocks \in [Thread -> ClockSets]
  BY DEF RInv, RaceTypeOK
<1>1. /\ hb'[t] = H /\ vector_clocks'[t] = k /\ hb_acquire'[t] = A /\ hb_release'[t] = R
      /\ \A u \in Thread \ {t} : /\ hb'[u] = h[u] /\ vector_clocks'[u] = vector_clocks[u]
                                 /\ hb_acquire'[u] = hb_acquire[u] /\ hb_release'[u] = hb_release[u]
  BY <1>0 DEF ByThread, RefShape
<1> SUFFICES ASSUME NEW u \in Thread, life'[u] = "Live"
             PROVE  ThreadMatch(G, vector_clocks'[u], hb'[u], hb_acquire'[u], hb_release'[u])
  BY DEF Threads
<1>2. life[u] = "Live"
  BY DEF ByThread
<1>3. CASE u = t
  BY <1>1, <1>3
<1>4. CASE u # t
  BY <1>1, <1>2, <1>4 DEF Threads
<1> QED BY <1>3, <1>4

(* A step of t that changes the history to G. *)
LEMMA HistKept ==
    ASSUME RInv, RefShape, Numbered, NEW G \in Histories, NEW h \in [Thread -> SUBSET Nat], NEW t \in Thread, life[t] = "Live",
           Threads(G, h), Proper(G, Present), G.old \cup G.recent = 1 .. Len(log'),
           NEW k, NEW Q \in {Present, Bump(Present, t)}, Good(k, t, Q), NEW H, NEW A, NEW R,
           ByThread(t, h, k, H, A, R), ThreadMatch(G, k, H, A, R),
           Remembers(G, cell', log'), ~multi_threaded' => G.recent = {}, Ends(G)', Carriers(G)'
    PROVE  Hist(G)'
<1>1. Threads(G, hb)'
  BY ThreadsKept
<1>2. Present' = Q /\ Q \in Clocks /\ \A j \in Thread : Present[j] <= Q[j]
  BY OneMoves DEF ByThread
<1>3. Proper(G, Present')
  BY <1>2, Self, ProperGrows
<1> QED BY <1>1, <1>3 DEF Hist

(* Before the second thread: everything is old and known. *)
LEMMA Quiet ==
    ASSUME RInv, RefShape, Numbered, MainLives, ~multi_threaded, NEW G, Hist(G), NEW t \in Thread, life[t] = "Live",
           UNCHANGED <<globalVars, vector_clocks, cell>>,
           log' = log \/ \E a : log' = Append(log, a),
           hb'[t] = 1 .. Len(log'), hb_acquire'[t] \subseteq 1 .. Len(log'), hb_release'[t] \subseteq 1 .. Len(log'),
           hb_cell' \subseteq 1 .. Len(log'), hb_obj' \subseteq 1 .. Len(log'), hb_sc' \subseteq 1 .. Len(log')
    PROVE  \E G2 : Hist(G2)'
<1>1. G \in Histories /\ G.recent = {} /\ G.last = 0 /\ Remembers(G, cell, log)
  BY DEF Hist, Proper
<1>2. Len(log') \in Nat
  BY DEF Numbered
<1>3. PICK G2 : /\ G2 \in Histories /\ G2.recent = {} /\ G2.last = 0 /\ G2.own = G.own /\ G2.time = G.time
                /\ G2.old = 1 .. Len(log')
  <2> DEFINE N == 1 .. Len(log')
             K == [own |-> G.own, time |-> G.time, old |-> N, recent |-> {}, last |-> 0]
  <2>1. N \subseteq Nat
    BY <1>2
  <2> HIDE DEF N
  <2>2. K \in Histories
    BY <1>1, <2>1, HistoryShape DEF Histories
  <2>3. K.recent = {} /\ K.last = 0 /\ K.own = G.own /\ K.time = G.time /\ K.old = N
    OBVIOUS
  <2> QED BY <2>2, <2>3 DEF N
<1>4. \A c, X : X \subseteq 1 .. Len(log') => Match(G2, c, X)
  BY <1>3 DEF Match
<1>5. ASSUME NEW u \in Thread, life[u] # "Unborn" PROVE u = t /\ life[u] = "Live"
  <2>1. \A v \in Thread : v < allocated => v = 0
    BY ThreadsAreNumbers DEF Numbered, RInv, RaceTypeOK
  <2>2. u = 0 /\ t = 0
    BY <1>5, <2>1 DEF Numbered
  <2> QED BY <2>2
<1>6. life' = life /\ multi_threaded' = multi_threaded /\ vector_clocks' = vector_clocks /\ cell' = cell
  BY DEF globalVars
<1>7. Threads(G2, hb)' /\ Ends(G2)' /\ Carriers(G2)'
  <2>1. ASSUME NEW u \in Thread, life'[u] = "Live"
        PROVE  ThreadMatch(G2, vector_clocks'[u], hb'[u], hb_acquire'[u], hb_release'[u])
    <3>1. u = t
      BY <1>5, <1>6, <2>1
    <3> QED BY <1>3, <1>4, <3>1 DEF ThreadMatch
  <2>2. Ends(G2)'
    BY <1>5, <1>6 DEF Ends
  <2>3. Carriers(G2)'
    BY <1>4 DEF Carriers
  <2> QED BY <2>1, <2>2, <2>3 DEF Threads
<1>8. Proper(G2, Present')
  BY <1>3 DEF Proper
<1>9. Remembers(G2, cell', log')
  <2>1. \A L, kinds : OfKind(G, L, kinds) = {} /\ OfKind(G2, L, kinds) = {}
    BY <1>1, <1>3 DEF OfKind
  <2>2. \A v : Sums(G, v, {}) <=> Sums(G2, v, {})
    BY DEF Sums
  <2> QED BY <1>1, <1>3, <1>6, <2>1, <2>2, ZenonT(60) DEF Remembers
<1>10. Hist(G2)'
  BY <1>3, <1>6, <1>7, <1>8, <1>9 DEF Hist
<1> QED BY <1>10

LEMMA QuietState ==
    ASSUME RInv, ~multi_threaded, NEW G, Hist(G), NEW t \in Thread, life[t] = "Live"
    PROVE  /\ hb[t] = 1 .. Len(log) /\ hb_acquire[t] \subseteq 1 .. Len(log) /\ hb_release[t] \subseteq 1 .. Len(log)
           /\ hb_cell \subseteq 1 .. Len(log) /\ hb_obj \subseteq 1 .. Len(log) /\ hb_sc \subseteq 1 .. Len(log)
<1>1. G.recent = {} /\ G.last = 0 /\ G.old = 1 .. Len(log)
  BY DEF Hist, Proper
<1>2. /\ ThreadMatch(G, vector_clocks[t], hb[t], hb_acquire[t], hb_release[t])
      /\ Match(G, SyncOf(cell), hb_cell) /\ Match(G, obj_clock, hb_obj) /\ Match(G, race_sc_fence, hb_sc)
  BY DEF Hist, Threads, Carriers
<1> QED BY <1>1, <1>2 DEF ThreadMatch, Match

(* An access of t other than a race. *)
Accessing(t, ord, size) ==
    \/ NaRead(t) \/ NaWrite(t) \/ AtomicLoad(t, ord, size) \/ AtomicStore(t, ord, size) \/ AtomicRmw(t, ord, size)

LEMMA QuietAccess ==
    ASSUME RInv, RefShape, Numbered, MainLives, ~multi_threaded, NEW G, Hist(G), NEW t \in Thread,
           NEW ord, NEW size, Accessing(t, ord, size)
    PROVE  \E G2 : Hist(G2)'
<1>1. life[t] = "Live" /\ UNCHANGED <<globalVars, vector_clocks, cell>> /\ hb_release' = hb_release /\ hb_obj' = hb_obj /\ hb_sc' = hb_sc
  BY DEF Accessing, NaRead, NaWrite, AtomicLoad, AtomicStore, AtomicRmw, Runs
<1>2. \E a : log' = Append(log, a)
  BY DEF Accessing, NaRead, NaWrite, AtomicLoad, AtomicStore, AtomicRmw, Logged
<1>3. /\ hb[t] = 1 .. Len(log) /\ hb_acquire[t] \subseteq 1 .. Len(log) /\ hb_release[t] \subseteq 1 .. Len(log)
      /\ hb_cell \subseteq 1 .. Len(log) /\ hb_obj \subseteq 1 .. Len(log) /\ hb_sc \subseteq 1 .. Len(log)
  BY <1>1, QuietState
<1>4. Len(log') = Now /\ 1 .. Len(log') = 1 .. Len(log) \cup {Now}
  BY <1>2 DEF Now, Numbered
<1> DEFINE N == 1 .. Len(log)
           M == 1 .. Len(log')
<1>5. M = N \cup {Now} /\ hb[t] = N /\ hb_acquire[t] \subseteq N /\ hb_release[t] \subseteq N /\ hb_cell \subseteq N
  BY <1>3, <1>4
<1> HIDE DEF N, M
<1>6. hb'[t] = M /\ hb_acquire'[t] \subseteq M /\ hb_cell' \subseteq M
  <2>1. CASE NaRead(t) \/ NaWrite(t)
    BY <2>1, <1>5 DEF NaRead, NaWrite, RefShape
  <2>2. CASE AtomicLoad(t, ord, size)
    BY <2>2, <1>5 DEF AtomicLoad, RefShape
  <2>3. CASE AtomicStore(t, ord, size)
    BY <2>3, <1>5 DEF AtomicStore, RefShape
  <2>4. CASE AtomicRmw(t, ord, size)
    <3> DEFINE acquires == ord \in {"Acquire", "AcqRel", "SeqCst"}
               seen == hb[t] \cup {Now} \cup (IF acquires THEN hb_cell ELSE {})
    <3>1. seen = M
      BY <1>5
    <3>2. /\ hb' = [hb EXCEPT ![t] = seen]
          /\ hb_acquire' = IF acquires THEN hb_acquire ELSE [hb_acquire EXCEPT ![t] = @ \cup hb_cell]
          /\ hb_cell' = hb_cell \cup (IF ord \in {"Release", "AcqRel", "SeqCst"} THEN seen ELSE hb_release[t])
      BY <2>4 DEF AtomicRmw
    <3> HIDE DEF acquires, seen
    <3> QED BY <1>5, <3>1, <3>2 DEF RefShape
  <2> QED BY <2>1, <2>2, <2>3, <2>4 DEF Accessing
<1> QED BY <1>1, <1>2, <1>3, <1>4, <1>6, Quiet DEF M

LEMMA QuietFence ==
    ASSUME RInv, RefShape, Numbered, MainLives, ~multi_threaded, NEW G, Hist(G), NEW t \in Thread,
           NEW ord, RaceFence(t, ord)
    PROVE  \E G2 : Hist(G2)'
<1>1. /\ life[t] = "Live" /\ UNCHANGED <<globalVars, vector_clocks, cell>> /\ log' = log
      /\ hb_acquire' = hb_acquire /\ hb_cell' = hb_cell /\ hb_obj' = hb_obj
  BY DEF RaceFence, Runs
<1> DEFINE N == 1 .. Len(log)
           acq == hb[t] \cup (IF ord = "Release" THEN {} ELSE hb_acquire[t])
           all == acq \cup (IF ord = "SeqCst" THEN hb_sc ELSE {})
<1>2. /\ hb[t] = N /\ hb_acquire[t] \subseteq N /\ hb_release[t] \subseteq N
      /\ hb_cell \subseteq N /\ hb_obj \subseteq N /\ hb_sc \subseteq N
  BY <1>1, QuietState
<1> HIDE DEF N
<1>3. all = N
  BY <1>2
<1>4. /\ hb' = [hb EXCEPT ![t] = all] /\ hb_sc' = IF ord = "SeqCst" THEN all ELSE hb_sc
      /\ hb_release' = IF ord = "Acquire" THEN hb_release ELSE [hb_release EXCEPT ![t] = all]
  BY DEF RaceFence
<1> HIDE DEF all
<1>5. hb'[t] = N /\ hb_release'[t] \subseteq N /\ hb_sc' \subseteq N
  BY <1>2, <1>3, <1>4 DEF RefShape
<1>6. N = 1 .. Len(log')
  BY <1>1 DEF N
<1> QED BY <1>1, <1>2, <1>5, <1>6, Quiet

(* While detection is on: the log and the history with the access of t. *)
Entering(G, t) ==
    /\ G \in Histories /\ G.old \cup G.recent = 1 .. Now /\ Proper(G, Present)
    /\ Threads(G, [hb EXCEPT ![t] = @ \cup {Now}]) /\ Ends(G) /\ Carriers(G)

LEMMA Enter ==
    ASSUME RInv, RefShape, Numbered, multi_threaded, NEW G, Hist(G), NEW t \in Thread, life[t] = "Live",
           NEW G2, \/ G2 = Noted(G, Now, t, Present)
                   \/ G2 = Overwritten(G, Now, t, Present) /\ 1 .. Len(log) \subseteq hb[t]
    PROVE  Enters(G, G2, Now, t, Present) /\ Entering(G2, t)
<1>1. G \in Histories /\ Proper(G, Present) /\ G.old \cup G.recent = 1 .. Len(log)
  BY DEF Hist
<1>2. Len(log) \in Nat /\ Now = Len(log) + 1 /\ 1 .. Now = 1 .. Len(log) \cup {Now} /\ Now \in Nat \ {0} /\ Now \notin 1 .. Len(log)
  BY DEF Now, Numbered
<1>3. Present \in Clocks /\ Present[t] > 0 /\ RaceTypeOK /\ Times
  BY Self, Parts
<1> HIDE DEF Now
<1>4. Enters(G, G2, Now, t, Present)
  BY <1>1, <1>2, <1>3 DEF Enters
<1>5. G2 \in Histories /\ Proper(G2, Present) /\ G2.old \cup G2.recent = 1 .. Now
  <2>1. Entered(G, G2, Now, t, Present) /\ Proper(G2, Present)
    BY <1>1, <1>3, <1>4, EnteredShape, EnteredProper
  <2> QED BY <1>1, <1>2, <2>1 DEF Entered
<1>6. Threads(G2, [hb EXCEPT ![t] = @ \cup {Now}])
  <2> SUFFICES ASSUME NEW u \in Thread, life[u] = "Live"
               PROVE  ThreadMatch(G2, vector_clocks[u], [hb EXCEPT ![t] = @ \cup {Now}][u], hb_acquire[u], hb_release[u])
    BY DEF Threads
  <2>1. ThreadMatch(G, vector_clocks[u], hb[u], hb_acquire[u], hb_release[u]) /\ Good(vector_clocks[u], u, Present)
    BY <1>3 DEF Hist, Threads, Times
  <2>2. CASE u = t
    <3>1. G2 = Overwritten(G, Now, t, Present) => G.old \cup G.recent \subseteq hb[t]
      <4>1. Noted(G, Now, t, Present) # Overwritten(G, Now, t, Present) \/ G.old \cup G.recent \subseteq hb[t]
        <5>1. Noted(G, Now, t, Present).last = G.last /\ Overwritten(G, Now, t, Present).last = Now
          BY DEF Noted, Overwritten
        <5>2. G.last # Now
          BY <1>1, <1>2 DEF Proper
        <5> QED BY <5>1, <5>2
      <4> QED BY <1>1, <4>1
    <3>2. ThreadMatch(G2, vector_clocks[t], hb[t] \cup {Now}, hb_acquire[t], hb_release[t])
      BY <1>1, <1>3, <1>4, <2>1, <2>2, <3>1, EnteredOwnThread
    <3>3. [hb EXCEPT ![t] = @ \cup {Now}][t] = hb[t] \cup {Now}
      BY DEF RefShape
    <3> QED BY <2>2, <3>2, <3>3
  <2>3. CASE u # t
    <3>1. ThreadMatch(G2, vector_clocks[u], hb[u], hb_acquire[u], hb_release[u])
      BY <1>1, <1>3, <1>4, <2>1, <2>3, EnteredThread
    <3>2. [hb EXCEPT ![t] = @ \cup {Now}][u] = hb[u]
      BY <2>3 DEF RefShape
    <3> QED BY <3>1, <3>2
  <2> QED BY <2>2, <2>3
<1>7. \A c \in Clocks : PastOf(c, Present) => \A X : Match(G, c, X) => Match(G2, c, X)
  BY <1>1, <1>3, <1>4, EnteredPast DEF PastOf
<1>8. Ends(G2)
  <2>1. \A u \in Thread : life[u] = "Terminated" => termination_clock[u] \in Clocks /\ PastOf(termination_clock[u], Present)
    BY <1>3 DEF Times
  <2> QED BY <1>7, <2>1 DEF Ends, Hist
<1>9. Carriers(G2)
  <2>1. /\ SyncOf(cell) \in Clocks /\ PastOf(SyncOf(cell), Present) /\ obj_clock \in Clocks /\ PastOf(obj_clock, Present)
        /\ race_sc_fence \in Clocks /\ PastOf(race_sc_fence, Present)
    BY <1>3, CellParts DEF Times, RaceTypeOK
  <2> QED BY <1>7, <2>1 DEF Carriers, Hist
<1> QED BY <1>4, <1>5, <1>6, <1>8, <1>9 DEF Entering

(* What t finds once its access has entered. *)
LEMMA EnteringParts ==
    ASSUME RefShape, NEW t \in Thread, life[t] = "Live", NEW G, Entering(G, t)
    PROVE  /\ G \in Histories /\ Proper(G, Present) /\ Match(G, SyncOf(cell), hb_cell)
           /\ ThreadMatch(G, vector_clocks[t], hb[t] \cup {Now}, hb_acquire[t], hb_release[t])
<1>1. [hb EXCEPT ![t] = @ \cup {Now}][t] = hb[t] \cup {Now}
  BY DEF RefShape
<1> QED BY <1>1 DEF Entering, Threads, Carriers

(* The history that an access of t leaves, from what it does to the clocks *)
(* of t and of the cell.                                                   *)
LEMMA EnteringKept ==
    ASSUME RInv, RefShape, Numbered, multi_threaded, NEW t \in Thread, life[t] = "Live", NEW G, Entering(G, t),
           NEW a, log' = Append(log, a), Remembers(G, cell', log'),
           NEW k, NEW Q \in {Present, Bump(Present, t)}, Good(k, t, Q), NEW H, NEW A, ThreadMatch(G, k, H, A, hb_release[t]),
           vector_clocks' = [vector_clocks EXCEPT ![t] = k], hb' = [hb EXCEPT ![t] = H],
           hb_acquire' = [hb_acquire EXCEPT ![t] = A], hb_release' = hb_release,
           UNCHANGED <<globalVars, obj_clock, race_sc_fence, hb_obj, hb_sc, hb_end>>,
           Match(G, SyncOf(cell'), hb_cell')
    PROVE  Hist(G)'
<1> DEFINE h == [hb EXCEPT ![t] = @ \cup {Now}]
<1>1. /\ life' = life /\ multi_threaded' = multi_threaded /\ termination_clock' = termination_clock
      /\ obj_clock' = obj_clock /\ race_sc_fence' = race_sc_fence /\ hb_obj' = hb_obj /\ hb_sc' = hb_sc /\ hb_end' = hb_end
  BY DEF globalVars
<1>2. Now \in Nat /\ Len(log') = Now
  BY DEF Now, Numbered
<1>3. h \in [Thread -> SUBSET Nat] /\ hb' = [h EXCEPT ![t] = H] /\ hb_release' = [hb_release EXCEPT ![t] = hb_release[t]]
  <2> HIDE DEF Now
  <2> QED BY <1>2 DEF RefShape
<1>4. /\ G \in Histories /\ G.old \cup G.recent = 1 .. Now /\ Proper(G, Present)
      /\ Threads(G, h) /\ Ends(G) /\ Carriers(G)
  BY DEF Entering
<1> HIDE DEF h
<1>5. ByThread(t, h, k, H, A, hb_release[t])
  BY <1>1, <1>3 DEF ByThread
<1>6. Ends(G)'
  BY <1>1, <1>4 DEF Ends
<1>7. Carriers(G)'
  BY <1>1, <1>4 DEF Carriers
<1>8. G.old \cup G.recent = 1 .. Len(log')
  BY <1>2, <1>4
<1> DEFINE R == hb_release[t]
<1>9. ByThread(t, h, k, H, A, R) /\ ThreadMatch(G, k, H, A, R)
  BY <1>5
<1>10. ~multi_threaded' => G.recent = {}
  BY <1>1
<1> HIDE DEF R
<1> QED BY <1>3, <1>4, <1>6, <1>7, <1>8, <1>9, <1>10, HistKept

LEMMA MarkedKept ==
    ASSUME RInv, RefShape, Numbered, multi_threaded, NEW G, Hist(G), NEW t \in Thread, life[t] = "Live",
           NEW a, log' = Append(log, a), Marks(cell, cell', a.kind, t, Present[t])
    PROVE  \E G2 : Entering(G2, t) /\ Remembers(G2, cell', log')
<1>1. Entering(Noted(G, Now, t, Present), t) /\ Enters(G, Noted(G, Now, t, Present), Now, t, Present)
  BY Enter
<1>2. G \in Histories /\ Proper(G, Present) /\ Remembers(G, cell, log) /\ G.recent \subseteq 1 .. Len(log)
  BY DEF Hist
<1>3. log \in Seq(LogEntries) /\ CellClocks(cell) /\ Present \in Clocks
  BY CellParts, Self DEF Numbered
<1>4. Remembers(Noted(G, Now, t, Present), cell', log')
  BY <1>1, <1>2, <1>3, RemembersNoted DEF Now
<1> QED BY <1>1, <1>4

LEMMA ReadKept ==
    ASSUME RInv, RefShape, Numbered, multi_threaded, ~CpuLocal, NEW G, Hist(G), NEW t \in Thread, NaRead(t)
    PROVE  \E G2 : Hist(G2)'
<1> DEFINE a == Access("Read", None)
<1>1. life[t] = "Live"
  BY DEF NaRead, Runs
<1>2. /\ vector_index[t] = t /\ Present \in Clocks /\ Good(vector_clocks[t], t, Present)
      /\ Clock(t)[t] = Present[t] /\ CellShape
  BY <1>1, Self, Parts
<1>3. /\ cell' = [cell EXCEPT !.read[t] = Present[t]] /\ log' = Append(log, a)
      /\ hb' = [hb EXCEPT ![t] = @ \cup {Now}]
      /\ hb_acquire' = hb_acquire /\ hb_release' = hb_release /\ vector_clocks' = vector_clocks /\ hb_cell' = hb_cell
      /\ UNCHANGED <<globalVars, obj_clock, race_sc_fence, hb_obj, hb_sc, hb_end>>
  BY <1>2 DEF NaRead, Logged
<1>4. /\ cell'.write_index = cell.write_index /\ cell'.write_time = cell.write_time /\ cell'.atomic_ops = cell.atomic_ops
      /\ cell'.read = [cell.read EXCEPT ![t] = Present[t]]
  BY <1>2, <1>3 DEF CellShape
<1>5. SyncOf(cell') = SyncOf(cell) /\ ReadsOf(cell') = ReadsOf(cell) /\ WritesOf(cell') = WritesOf(cell)
  BY <1>4 DEF SyncOf, ReadsOf, WritesOf
<1>6. Marks(cell, cell', a.kind, t, Present[t])
  BY <1>4, <1>5 DEF Marks, Entry, Access
<1> HIDE DEF a
<1>7. PICK G2 : Entering(G2, t) /\ Remembers(G2, cell', log')
  BY <1>1, <1>3, <1>6, MarkedKept
<1>8. /\ ThreadMatch(G2, vector_clocks[t], hb[t] \cup {Now}, hb_acquire[t], hb_release[t])
      /\ Match(G2, SyncOf(cell'), hb_cell')
  BY <1>1, <1>3, <1>5, <1>7, EnteringParts
<1>9. /\ vector_clocks' = [vector_clocks EXCEPT ![t] = vector_clocks[t]] /\ hb_acquire' = [hb_acquire EXCEPT ![t] = hb_acquire[t]]
      /\ hb' = [hb EXCEPT ![t] = hb[t] \cup {Now}]
  BY <1>3 DEF RefShape, RInv, RaceTypeOK
<1> DEFINE k == vector_clocks[t]
           H == hb[t] \cup {Now}
           A == hb_acquire[t]
<1>10. /\ vector_clocks' = [vector_clocks EXCEPT ![t] = k] /\ hb_acquire' = [hb_acquire EXCEPT ![t] = A]
       /\ hb' = [hb EXCEPT ![t] = H] /\ ThreadMatch(G2, k, H, A, hb_release[t]) /\ Good(k, t, Present)
  BY <1>2, <1>8, <1>9
<1> HIDE DEF k, H, A
<1>11. Hist(G2)'
  BY <1>1, <1>3, <1>7, <1>8, <1>10, EnteringKept, ZenonT(60)
<1> QED BY <1>11

(* An unreported write comes after everything. *)
LEMMA WriteSeesAll ==
    ASSUME RInv, Numbered, OneSize, ~CpuLocal, NEW G, Hist(G), NEW t \in Thread, NaWrite(t)
    PROVE  1 .. Len(log) \subseteq hb[t]
<1> DEFINE a == Access("Write", None)
<1>1. life[t] = "Live" /\ ~Reported(t, a)
  BY DEF NaWrite, Runs
<1>2. a \in Accesses /\ a \in LogEntries /\ a.kind = "Write" /\ ~IsAtomic(a)
  BY DEF Accesses, Access, IsAtomic, AtomicKinds, LogEntries
<1>3. ~Racy(t, a)
  BY <1>1, <1>2, Exact
<1> HIDE DEF a
<1>4. \A e \in 1 .. Len(log) : log[e] \in LogEntries
  BY DEF Numbered
<1>5. \A e \in 1 .. Len(log) : Conflict(log[e], a)
  BY <1>2, <1>4, Conflicts
<1> QED BY <1>2, <1>3, <1>5 DEF Racy, Unordered

LEMMA WriteKept ==
    ASSUME RInv, RefShape, Numbered, OneSize, multi_threaded, ~CpuLocal, NEW G, Hist(G), NEW t \in Thread, NaWrite(t)
    PROVE  \E G2 : Hist(G2)'
<1> DEFINE a == Access("Write", None)
<1>1. life[t] = "Live"
  BY DEF NaWrite, Runs
<1>2. /\ vector_index[t] = t /\ Present \in Clocks /\ Good(vector_clocks[t], t, Present) /\ Clock(t)[t] = Present[t]
  BY <1>1, Self
<1>3. /\ cell' = Written(t, Present[t]) /\ log' = Append(log, a)
      /\ hb' = [hb EXCEPT ![t] = @ \cup {Now}]
      /\ hb_acquire' = hb_acquire /\ hb_release' = hb_release /\ vector_clocks' = vector_clocks /\ hb_cell' = {}
      /\ UNCHANGED <<globalVars, obj_clock, race_sc_fence, hb_obj, hb_sc, hb_end>>
  BY <1>2 DEF NaWrite, Logged
<1>4. PICK G2 : G2 = Overwritten(G, Now, t, Present)
  OBVIOUS
<1>5. Entering(G2, t) /\ Enters(G, G2, Now, t, Present)
  BY <1>1, <1>4, WriteSeesAll, Enter
<1>6. Remembers(G2, cell', log')
  <2>1. a.kind = "Write" /\ log \in Seq(LogEntries) /\ G \in Histories
    BY DEF Access, Numbered, Hist
  <2> HIDE DEF a
  <2> QED BY <1>2, <1>3, <1>4, <1>5, <2>1, RemembersOverwritten DEF Now
<1> HIDE DEF a
<1>7. Match(G2, SyncOf(cell'), hb_cell')
  <2>1. SyncOf(cell') = ZeroClock
    BY <1>3 DEF SyncOf, Written, NoAtomics
  <2>2. G2 \in Histories /\ Proper(G2, Present)
    BY <1>5 DEF Entering
  <2> QED BY <1>2, <1>3, <2>1, <2>2, MatchZero
<1>8. ThreadMatch(G2, vector_clocks[t], hb[t] \cup {Now}, hb_acquire[t], hb_release[t])
  BY <1>1, <1>5, EnteringParts
<1>9. /\ vector_clocks' = [vector_clocks EXCEPT ![t] = vector_clocks[t]] /\ hb_acquire' = [hb_acquire EXCEPT ![t] = hb_acquire[t]]
      /\ hb' = [hb EXCEPT ![t] = hb[t] \cup {Now}]
  BY <1>3 DEF RefShape, RInv, RaceTypeOK
<1> DEFINE k == vector_clocks[t]
           H == hb[t] \cup {Now}
           A == hb_acquire[t]
<1>10. /\ vector_clocks' = [vector_clocks EXCEPT ![t] = k] /\ hb_acquire' = [hb_acquire EXCEPT ![t] = A]
       /\ hb' = [hb EXCEPT ![t] = H] /\ ThreadMatch(G2, k, H, A, hb_release[t]) /\ Good(k, t, Present)
  BY <1>2, <1>8, <1>9
<1> HIDE DEF k, H, A
<1>11. Hist(G2)'
  BY <1>1, <1>3, <1>5, <1>6, <1>7, <1>10, EnteringKept, ZenonT(60)
<1> QED BY <1>11

(* The cell as an atomic access leaves it. *)
LEMMA AtomicCell ==
    ASSUME RInv, NEW b \in AtomicClocks, cell' = [cell EXCEPT !.atomic_ops = b]
    PROVE  /\ cell'.write_index = cell.write_index /\ cell'.write_time = cell.write_time /\ cell'.read = cell.read
           /\ SyncOf(cell') = b.sync_vector /\ ReadsOf(cell') = b.read_vector /\ WritesOf(cell') = b.write_vector
<1>1. CellShape /\ race_program \in RacePrograms
  BY Parts DEF RaceTypeOK
<1>2. b # None
  BY <1>1, DataRaceAssumption DEF RaceProgram, AtomicClocks
<1>3. /\ cell'.write_index = cell.write_index /\ cell'.write_time = cell.write_time /\ cell'.read = cell.read
      /\ cell'.atomic_ops = b
  BY <1>1 DEF CellShape
<1> QED BY <1>2, <1>3 DEF SyncOf, ReadsOf, WritesOf

LEMMA AtomicsFields ==
    ASSUME RInv, NEW t \in Thread, life[t] = "Live", NEW c, NEW size \in race_program.sizes
    PROVE  /\ Atomics(c, size) \in AtomicClocks /\ Atomics(c, size).sync_vector = SyncOf(cell)
           /\ Atomics(c, size).read_vector = ReadsOf(cell) /\ Atomics(c, size).write_vector = WritesOf(cell)
<1>1. CellShape /\ Atomics(c, size) \in AtomicClocks
  BY Parts, AtomicsShape
<1>2. CASE cell.atomic_ops = NoAtomics
  <2>1. Atomics(c, size) = NewAtomics(size)
    BY <1>2 DEF Atomics
  <2> QED BY <1>1, <1>2, <2>1 DEF NewAtomics, SyncOf, ReadsOf, WritesOf, NoAtomics
<1>3. CASE cell.atomic_ops # NoAtomics
  <2>1. cell.atomic_ops \in AtomicClocks
    BY <1>1, <1>3 DEF CellShape, NoAtomics
  <2>2. PICK s : Atomics(c, size) = [cell.atomic_ops EXCEPT !.size = s]
    BY <1>3, <2>1 DEF Atomics, AtomicClocks
  <2> QED BY <1>1, <1>3, <2>1, <2>2 DEF AtomicClocks, SyncOf, ReadsOf, WritesOf, NoAtomics
<1> QED BY <1>2, <1>3

LEMMA LoadKept ==
    ASSUME RInv, RefShape, Numbered, multi_threaded, NEW G, Hist(G), NEW t \in Thread,
           NEW ord, NEW size \in race_program.sizes, AtomicLoad(t, ord, size)
    PROVE  \E G2 : Hist(G2)'
<1> DEFINE a == Access("AtomicLoad", size)
           at == Atomics(Clock(t), size)
           s == SyncOf(cell)
           k == IF ord = "Relaxed" THEN LoadRelaxed(vector_clocks[t], s) ELSE LoadAcquire(vector_clocks[t], s)
           H == (hb[t] \cup {Now}) \cup (IF ord = "Relaxed" THEN {} ELSE hb_cell)
           A == hb_acquire[t] \cup (IF ord = "Relaxed" THEN hb_cell ELSE {})
           b == [at EXCEPT !.read_vector[t] = Present[t]]
<1>1. life[t] = "Live"
  BY DEF AtomicLoad, Runs
<1>2. /\ vector_index[t] = t /\ Present \in Clocks /\ Good(vector_clocks[t], t, Present) /\ vector_clocks[t] \in ClockSets
      /\ Clock(t)[t] = Present[t] /\ Present[t] \in Nat
      /\ at \in AtomicClocks /\ at.sync_vector = s /\ at.read_vector = ReadsOf(cell) /\ at.write_vector = WritesOf(cell)
      /\ s \in Clocks /\ PastOf(s, Present)
  BY <1>1, Self, AtomicsFields, CellParts
<1>3. /\ cell' = [cell EXCEPT !.atomic_ops = b] /\ log' = Append(log, a)
      /\ vector_clocks' = [vector_clocks EXCEPT ![t] = Tick(k, t)]
  BY <1>2 DEF AtomicLoad, Logged, ValidateLoad, Sync
<1>4. /\ hb' = [hb EXCEPT ![t] = H] /\ hb_acquire' = [hb_acquire EXCEPT ![t] = A]
      /\ hb_release' = hb_release /\ hb_cell' = hb_cell
      /\ UNCHANGED <<globalVars, obj_clock, race_sc_fence, hb_obj, hb_sc, hb_end>>
  BY DEF AtomicLoad, RefShape
<1> HIDE DEF at
<1>5. b \in AtomicClocks /\ b.sync_vector = s /\ b.read_vector = [ReadsOf(cell) EXCEPT ![t] = Present[t]] /\ b.write_vector = WritesOf(cell)
  <2>1. [at.read_vector EXCEPT ![t] = Present[t]] \in Clocks
    BY <1>2, EntryShape DEF AtomicClocks
  <2> QED BY <1>2, <2>1 DEF AtomicClocks
<1> HIDE DEF b
<1>6. Marks(cell, cell', a.kind, t, Present[t]) /\ SyncOf(cell') = s
  BY <1>3, <1>5, AtomicCell DEF Marks, Entry, Access
<1> HIDE DEF a, s
<1>7. PICK G2 : Entering(G2, t) /\ Remembers(G2, cell', log')
  BY <1>1, <1>3, <1>6, MarkedKept
<1>8. /\ G2 \in Histories /\ Proper(G2, Present) /\ Match(G2, s, hb_cell)
      /\ ThreadMatch(G2, vector_clocks[t], hb[t] \cup {Now}, hb_acquire[t], hb_release[t])
  BY <1>1, <1>7, EnteringParts DEF s
<1>9. ThreadMatch(G2, k, H, A, hb_release[t])
  <2>1. /\ ThreadMatch(G2, LoadAcquire(vector_clocks[t], s), (hb[t] \cup {Now}) \cup hb_cell, hb_acquire[t], hb_release[t])
        /\ ThreadMatch(G2, LoadRelaxed(vector_clocks[t], s), hb[t] \cup {Now}, hb_acquire[t] \cup hb_cell, hb_release[t])
    BY <1>2, <1>8, MatchAcquire
  <2>2. \A X : X \cup {} = X
    OBVIOUS
  <2> QED BY <2>1, <2>2
<1>10. Good(k, t, Present)
  BY <1>2, GoodAcquire
<1> HIDE DEF k, H, A
<1>11. Good(Tick(k, t), t, Bump(Present, t)) /\ ThreadMatch(G2, Tick(k, t), H, A, hb_release[t])
  BY <1>2, <1>8, <1>9, <1>10, GoodTick, MatchTicked
<1>12. Hist(G2)'
  BY <1>1, <1>3, <1>4, <1>6, <1>7, <1>8, <1>11, EnteringKept
<1> QED BY <1>12

LEMMA StoreKept ==
    ASSUME RInv, RefShape, Numbered, multi_threaded, NEW G, Hist(G), NEW t \in Thread,
           NEW ord, NEW size \in race_program.sizes, AtomicStore(t, ord, size)
    PROVE  \E G2 : Hist(G2)'
<1> DEFINE a == Access("AtomicStore", size)
           at == Atomics(Clock(t), size)
           k == vector_clocks[t]
           s == StoreSync(k, ord)
           H == hb[t] \cup {Now}
           A == hb_acquire[t]
           b == [at EXCEPT !.write_vector[t] = Present[t], !.sync_vector = s]
<1>1. life[t] = "Live"
  BY DEF AtomicStore, Runs
<1>2. /\ vector_index[t] = t /\ Present \in Clocks /\ Good(k, t, Present) /\ k \in ClockSets
      /\ Clock(t)[t] = Present[t] /\ Present[t] \in Nat
      /\ at \in AtomicClocks /\ at.read_vector = ReadsOf(cell) /\ at.write_vector = WritesOf(cell)
  BY <1>1, Self, AtomicsFields
<1>3. /\ cell' = [cell EXCEPT !.atomic_ops = b] /\ log' = Append(log, a)
      /\ vector_clocks' = [vector_clocks EXCEPT ![t] = Tick(k, t)]
  BY <1>2 DEF AtomicStore, Logged
<1>4. /\ hb' = [hb EXCEPT ![t] = H] /\ hb_acquire' = [hb_acquire EXCEPT ![t] = A]
      /\ hb_release' = hb_release /\ hb_cell' = IF ord = "Relaxed" THEN hb_release[t] ELSE H
      /\ UNCHANGED <<globalVars, obj_clock, race_sc_fence, hb_obj, hb_sc, hb_end>>
  BY DEF AtomicStore, RefShape
<1> HIDE DEF at, k
<1>5. s \in Clocks /\ s = IF ord = "Relaxed" THEN k.fence_release ELSE k.clock
  BY <1>2 DEF StoreSync, ClockSets
<1> HIDE DEF s
<1>6. b \in AtomicClocks /\ b.sync_vector = s /\ b.read_vector = ReadsOf(cell) /\ b.write_vector = [WritesOf(cell) EXCEPT ![t] = Present[t]]
  <2>1. [at.write_vector EXCEPT ![t] = Present[t]] \in Clocks
    BY <1>2, EntryShape DEF AtomicClocks
  <2> QED BY <1>2, <1>5, <2>1 DEF AtomicClocks
<1> HIDE DEF b
<1>7. Marks(cell, cell', a.kind, t, Present[t]) /\ SyncOf(cell') = s
  BY <1>3, <1>6, AtomicCell DEF Marks, Entry, Access
<1> HIDE DEF a
<1>8. PICK G2 : Entering(G2, t) /\ Remembers(G2, cell', log')
  BY <1>1, <1>3, <1>7, MarkedKept
<1>9. G2 \in Histories /\ Proper(G2, Present) /\ ThreadMatch(G2, k, H, A, hb_release[t])
  BY <1>1, <1>8, EnteringParts DEF k
<1> HIDE DEF H, A
<1>10. Good(Tick(k, t), t, Bump(Present, t)) /\ ThreadMatch(G2, Tick(k, t), H, A, hb_release[t])
  BY <1>2, <1>9, GoodTick, MatchTicked
<1>11. Match(G2, SyncOf(cell'), hb_cell')
  BY <1>4, <1>5, <1>7, <1>9 DEF ThreadMatch
<1>12. Hist(G2)'
  BY <1>1, <1>3, <1>4, <1>8, <1>10, <1>11, EnteringKept
<1> QED BY <1>12

LEMMA RmwKept ==
    ASSUME RInv, RefShape, Numbered, multi_threaded, NEW G, Hist(G), NEW t \in Thread,
           NEW ord, NEW size \in race_program.sizes, AtomicRmw(t, ord, size)
    PROVE  \E G2 : Hist(G2)'
<1> DEFINE a == Access("AtomicRmw", size)
           acquires == ord \in {"Acquire", "AcqRel", "SeqCst"}
           s == SyncOf(cell)
           k == RmwAcquire(vector_clocks[t], ord, s)
           at == Atomics(k.clock, size)
           s2 == RmwSync(k, ord, s)
           H == (hb[t] \cup {Now}) \cup (IF acquires THEN hb_cell ELSE {})
           A == hb_acquire[t] \cup (IF acquires THEN {} ELSE hb_cell)
           b == [at EXCEPT !.read_vector[t] = Present[t], !.write_vector[t] = Present[t], !.sync_vector = s2]
<1>1. life[t] = "Live"
  BY DEF AtomicRmw, Runs
<1>2. /\ vector_index[t] = t /\ Present \in Clocks /\ Good(vector_clocks[t], t, Present) /\ vector_clocks[t] \in ClockSets
      /\ Clock(t)[t] = Present[t] /\ Present[t] \in Nat
      /\ at \in AtomicClocks /\ at.sync_vector = s /\ at.read_vector = ReadsOf(cell) /\ at.write_vector = WritesOf(cell)
      /\ s \in Clocks /\ PastOf(s, Present)
  BY <1>1, Self, AtomicsFields, CellParts
<1>15. SyncVector = s /\ k.clock[t] = Present[t]
  <2>1. Good(k, t, Present)
    BY <1>2, GoodAcquire DEF RmwAcquire
  <2> QED BY <2>1 DEF Good, SyncVector, SyncOf, NoAtomics
<1>3. /\ cell' = [cell EXCEPT !.atomic_ops = b] /\ log' = Append(log, a)
      /\ vector_clocks' = [vector_clocks EXCEPT ![t] = Tick(k, t)]
  BY <1>2, <1>15 DEF AtomicRmw, Logged, AtomicClocks
<1>4. /\ hb' = [hb EXCEPT ![t] = H] /\ hb_acquire' = [hb_acquire EXCEPT ![t] = A] /\ hb_release' = hb_release
      /\ hb_cell' = hb_cell \cup (IF ord \in {"Release", "AcqRel", "SeqCst"} THEN H ELSE hb_release[t])
      /\ UNCHANGED <<globalVars, obj_clock, race_sc_fence, hb_obj, hb_sc, hb_end>>
  BY DEF AtomicRmw, RefShape
<1> HIDE DEF at
<1>5. Good(k, t, Present) /\ k \in ClockSets
  BY <1>2, GoodAcquire DEF RmwAcquire, Good
<1> HIDE DEF k
<1>6. s2 \in Clocks /\ s2 = ClockJoin(s, IF ord \in {"Release", "AcqRel", "SeqCst"} THEN k.clock ELSE k.fence_release)
      /\ k.clock \in Clocks /\ k.fence_release \in Clocks
  BY <1>2, <1>5, JoinShape DEF RmwSync, ClockSets
<1> HIDE DEF s2
<1>7. /\ b \in AtomicClocks /\ b.sync_vector = s2 /\ b.read_vector = [ReadsOf(cell) EXCEPT ![t] = Present[t]]
      /\ b.write_vector = [WritesOf(cell) EXCEPT ![t] = Present[t]]
  <2>1. [at.write_vector EXCEPT ![t] = Present[t]] \in Clocks /\ [at.read_vector EXCEPT ![t] = Present[t]] \in Clocks
    BY <1>2, EntryShape DEF AtomicClocks
  <2> QED BY <1>2, <1>6, <2>1 DEF AtomicClocks
<1> HIDE DEF b
<1>8. Marks(cell, cell', a.kind, t, Present[t]) /\ SyncOf(cell') = s2
  BY <1>3, <1>7, AtomicCell DEF Marks, Entry, Access
<1> HIDE DEF a, s
<1>9. PICK G2 : Entering(G2, t) /\ Remembers(G2, cell', log')
  BY <1>1, <1>3, <1>8, MarkedKept
<1>10. /\ G2 \in Histories /\ Proper(G2, Present) /\ Match(G2, s, hb_cell)
       /\ ThreadMatch(G2, vector_clocks[t], hb[t] \cup {Now}, hb_acquire[t], hb_release[t])
  BY <1>1, <1>9, EnteringParts DEF s
<1>11. ThreadMatch(G2, k, H, A, hb_release[t])
  <2>1. /\ ThreadMatch(G2, LoadAcquire(vector_clocks[t], s), (hb[t] \cup {Now}) \cup hb_cell, hb_acquire[t], hb_release[t])
        /\ ThreadMatch(G2, LoadRelaxed(vector_clocks[t], s), hb[t] \cup {Now}, hb_acquire[t] \cup hb_cell, hb_release[t])
    BY <1>2, <1>10, MatchAcquire
  <2>2. \A X : X \cup {} = X
    OBVIOUS
  <2>3. k = IF acquires THEN LoadAcquire(vector_clocks[t], s) ELSE LoadRelaxed(vector_clocks[t], s)
    BY DEF k, RmwAcquire
  <2> HIDE DEF acquires
  <2> QED BY <2>1, <2>2, <2>3
<1> HIDE DEF H, A
<1>12. Good(Tick(k, t), t, Bump(Present, t)) /\ ThreadMatch(G2, Tick(k, t), H, A, hb_release[t])
  BY <1>2, <1>5, <1>10, <1>11, GoodTick, MatchTicked
<1>13. Match(G2, SyncOf(cell'), hb_cell')
  <2>1. Match(G2, k.clock, H) /\ Match(G2, k.fence_release, hb_release[t])
    BY <1>11 DEF ThreadMatch
  <2>2. Match(G2, ClockJoin(s, k.clock), hb_cell \cup H) /\ Match(G2, ClockJoin(s, k.fence_release), hb_cell \cup hb_release[t])
    BY <1>2, <1>6, <1>10, <2>1, MatchJoin
  <2> QED BY <1>4, <1>6, <1>8, <2>2
<1>14. Hist(G2)'
  BY <1>1, <1>3, <1>4, <1>9, <1>12, <1>13, EnteringKept
<1> QED BY <1>14

(* Steps of t that leave the log and the cell alone. *)
LEMMA SyncKept ==
    ASSUME RInv, RefShape, Numbered, NEW G, Hist(G), NEW t \in Thread, life[t] = "Live",
           NEW k, NEW Q \in {Present, Bump(Present, t)}, Good(k, t, Q), NEW H, NEW A, NEW R,
           ByThread(t, hb, k, H, A, R), ThreadMatch(G, k, H, A, R),
           UNCHANGED <<cell, log, hb_cell, hb_end, termination_clock, multi_threaded>>,
           Match(G, obj_clock', hb_obj'), Match(G, race_sc_fence', hb_sc')
    PROVE  Hist(G)'
<1>1. /\ G \in Histories /\ G.old \cup G.recent = 1 .. Len(log') /\ Proper(G, Present) /\ Threads(G, hb)
      /\ Remembers(G, cell', log') /\ (~multi_threaded' => G.recent = {})
  BY DEF Hist
<1>2. Ends(G)'
  <2>1. Ends(G) /\ life' = life
    BY DEF Hist, ByThread
  <2> QED BY <2>1 DEF Ends
<1>3. Carriers(G)'
  <2>1. Carriers(G) /\ cell' = cell /\ hb_cell' = hb_cell
    BY DEF Hist
  <2> QED BY <2>1 DEF Carriers
<1>4. hb \in [Thread -> SUBSET Nat]
  BY DEF RefShape
<1> QED BY <1>1, <1>2, <1>3, <1>4, HistKept

LEMMA FenceKept ==
    ASSUME RInv, RefShape, Numbered, multi_threaded, NEW G, Hist(G), NEW t \in Thread, NEW ord, RaceFence(t, ord)
    PROVE  \E G2 : Hist(G2)'
<1> DEFINE k == FenceClocks(vector_clocks[t], t, ord, race_sc_fence, ZeroClock)
           H == hb[t] \cup (IF ord = "Release" THEN {} ELSE hb_acquire[t]) \cup (IF ord = "SeqCst" THEN hb_sc ELSE {})
           A == hb_acquire[t]
           R == IF ord = "Acquire" THEN hb_release[t] ELSE H
<1>1. life[t] = "Live"
  BY DEF RaceFence, Runs
<1>2. /\ vector_index[t] = t /\ Present \in Clocks /\ Good(vector_clocks[t], t, Present)
      /\ race_sc_fence \in Clocks /\ PastOf(race_sc_fence, Present)
  BY <1>1, Self, Parts DEF Times, RaceTypeOK
<1>3. /\ vector_clocks' = [vector_clocks EXCEPT ![t] = k] /\ race_sc_fence' = FenceGlobal(vector_clocks[t], ord, race_sc_fence)
      /\ hb_sc' = IF ord = "SeqCst" THEN H ELSE hb_sc
      /\ UNCHANGED <<globalVars, cell, obj_clock, log, hb_acquire, hb_cell, hb_obj, hb_end>>
  BY <1>2 DEF RaceFence
<1>4. /\ hb' = [hb EXCEPT ![t] = H] /\ hb_release' = [hb_release EXCEPT ![t] = R]
      /\ hb_acquire' = [hb_acquire EXCEPT ![t] = A]
  BY DEF RaceFence, RefShape
<1>5. /\ G \in Histories /\ Proper(G, Present) /\ Match(G, race_sc_fence, hb_sc) /\ Match(G, obj_clock, hb_obj)
      /\ ThreadMatch(G, vector_clocks[t], hb[t], hb_acquire[t], hb_release[t])
  BY <1>1 DEF Hist, Threads, Carriers
<1>6. ThreadMatch(G, k, H, A, R) /\ Match(G, race_sc_fence', hb_sc')
  BY <1>2, <1>3, <1>5, MatchFence, ZenonT(60)
<1>7. PICK Q \in {Present, Bump(Present, t)} : Good(k, t, Q)
  BY <1>2, GoodFence
<1> HIDE DEF k, H, A, R
<1>8. /\ ByThread(t, hb, k, H, A, R) /\ Match(G, obj_clock', hb_obj')
      /\ UNCHANGED <<cell, log, hb_cell, hb_end, termination_clock, multi_threaded>>
  BY <1>3, <1>4, <1>5 DEF ByThread, globalVars
<1>9. Hist(G)'
  BY <1>1, <1>6, <1>7, <1>8, SyncKept
<1> QED BY <1>9

LEMMA ReleaseKept ==
    ASSUME RInv, RefShape, Numbered, NEW G, Hist(G), NEW t \in Thread, Release(t)
    PROVE  \E G2 : Hist(G2)'
<1> DEFINE k == vector_clocks[t]
           H == hb[t]
           A == hb_acquire[t]
           R == hb_release[t]
<1>1. life[t] = "Live"
  BY DEF Release, Runs
<1>2. /\ vector_index[t] = t /\ Present \in Clocks /\ Good(k, t, Present) /\ Clock(t) = k.clock
  BY <1>1, Self
<1>3. /\ vector_clocks' = [vector_clocks EXCEPT ![t] = Tick(k, t)] /\ obj_clock' = k.clock /\ hb_obj' = H
      /\ UNCHANGED <<globalVars, race_sc_fence, cell, log, hb, hb_acquire, hb_release, hb_cell, hb_end, hb_sc>>
  BY <1>2 DEF Release, After
<1>4. /\ hb' = [hb EXCEPT ![t] = H] /\ hb_release' = [hb_release EXCEPT ![t] = R]
      /\ hb_acquire' = [hb_acquire EXCEPT ![t] = A]
  BY <1>3 DEF RefShape
<1>5. G \in Histories /\ Proper(G, Present) /\ Match(G, race_sc_fence, hb_sc) /\ ThreadMatch(G, k, H, A, R)
  BY <1>1 DEF Hist, Threads, Carriers
<1> HIDE DEF k, H, A, R
<1>6. ThreadMatch(G, Tick(k, t), H, A, R) /\ Good(Tick(k, t), t, Bump(Present, t))
  BY <1>2, <1>5, MatchTicked, GoodTick
<1>7. /\ ByThread(t, hb, Tick(k, t), H, A, R) /\ Match(G, obj_clock', hb_obj') /\ Match(G, race_sc_fence', hb_sc')
      /\ UNCHANGED <<cell, log, hb_cell, hb_end, termination_clock, multi_threaded>>
  BY <1>3, <1>4, <1>5 DEF ByThread, globalVars, ThreadMatch
<1>8. Hist(G)'
  BY <1>1, <1>6, <1>7, SyncKept
<1> QED BY <1>8

(* t acquires the clock s, and with it hs. *)
LEMMA AcquireKept ==
    ASSUME RInv, RefShape, Numbered, NEW G, Hist(G), NEW t \in Thread, life[t] = "Live",
           NEW s \in Clocks, PastOf(s, Present), NEW hs, Match(G, s, hs),
           vector_clocks' = [vector_clocks EXCEPT ![t] = LoadAcquire(vector_clocks[t], s)],
           hb' = [hb EXCEPT ![t] = hb[t] \cup hs],
           UNCHANGED <<life, cell, log, hb_acquire, hb_release, hb_cell, hb_end, hb_sc, hb_obj,
                       obj_clock, race_sc_fence, termination_clock, multi_threaded>>
    PROVE  \E G2 : Hist(G2)'
<1> DEFINE k == LoadAcquire(vector_clocks[t], s)
           H == hb[t] \cup hs
           A == hb_acquire[t]
           R == hb_release[t]
<1>1. Present \in Clocks /\ Good(vector_clocks[t], t, Present) /\ vector_clocks[t] \in ClockSets
  BY Self
<1>2. /\ hb_release' = [hb_release EXCEPT ![t] = R] /\ hb_acquire' = [hb_acquire EXCEPT ![t] = A]
  BY DEF RefShape
<1>3. G \in Histories /\ Match(G, race_sc_fence, hb_sc) /\ Match(G, obj_clock, hb_obj) /\ ThreadMatch(G, vector_clocks[t], hb[t], A, R)
  BY DEF Hist, Threads, Carriers
<1>4. ThreadMatch(G, k, H, A, R) /\ Good(k, t, Present)
  BY <1>1, <1>3, MatchAcquire, GoodAcquire
<1>5. ByThread(t, hb, k, H, A, R) /\ Match(G, obj_clock', hb_obj') /\ Match(G, race_sc_fence', hb_sc')
  BY <1>2, <1>3 DEF ByThread
<1> HIDE DEF k, H, A, R
<1>6. Hist(G)'
  BY <1>4, <1>5, SyncKept
<1> QED BY <1>6

LEMMA TerminatedKept ==
    ASSUME RInv, RefShape, Numbered, NEW G, Hist(G), NEW t \in Thread, ThreadTerminated(t)
    PROVE  \E G2 : Hist(G2)'
<1> DEFINE k == vector_clocks[t]
<1>1. life[t] = "Live"
  BY DEF ThreadTerminated, Runs
<1>2. /\ vector_index[t] = t /\ Present \in Clocks /\ Good(k, t, Present) /\ Clock(t) = k.clock
      /\ vector_clocks \in [Thread -> ClockSets] /\ life \in [Thread -> {"Unborn", "Live", "Terminated"}]
      /\ termination_clock \in [Thread -> Clocks \cup {None}]
  BY <1>1, Self DEF RInv, RaceTypeOK
<1>3. /\ vector_clocks' = [vector_clocks EXCEPT ![t] = Tick(k, t)]
      /\ life' = [life EXCEPT ![t] = "Terminated"]
      /\ termination_clock' = [termination_clock EXCEPT ![t] = k.clock]
      /\ hb_end' = [hb_end EXCEPT ![t] = hb[t]]
      /\ UNCHANGED <<multi_threaded, race_sc_fence, cell, obj_clock, log, hb, hb_acquire, hb_release, hb_cell, hb_obj, hb_sc>>
  BY <1>2 DEF ThreadTerminated
<1>4. /\ G \in Histories /\ G.old \cup G.recent = 1 .. Len(log) /\ Proper(G, Present) /\ Remembers(G, cell, log)
      /\ (~multi_threaded => G.recent = {}) /\ Threads(G, hb) /\ Ends(G) /\ Carriers(G)
      /\ ThreadMatch(G, k, hb[t], hb_acquire[t], hb_release[t])
  BY <1>1 DEF Hist, Threads
<1>5. Good(Tick(k, t), t, Bump(Present, t))
  BY <1>2, GoodTick
<1>6. Present' \in Clocks /\ \A j \in Thread : Present[j] <= Present'[j]
  BY <1>3, <1>5, OneMoves
<1>7. Proper(G, Present')
  BY <1>2, <1>4, <1>6, ProperGrows
<1> HIDE DEF k
<1>8. \A u \in Thread \ {t} : /\ life'[u] = life[u] /\ vector_clocks'[u] = vector_clocks[u] /\ hb_end'[u] = hb_end[u]
                              /\ termination_clock'[u] = termination_clock[u]
  BY <1>2, <1>3 DEF RefShape
<1>9. life'[t] = "Terminated" /\ termination_clock'[t] = k.clock /\ hb_end'[t] = hb[t]
  BY <1>2, <1>3 DEF RefShape
<1>10. Threads(G, hb)'
  BY <1>3, <1>4, <1>8, <1>9 DEF Threads
<1>11. Ends(G)'
  <2> SUFFICES ASSUME NEW u \in Thread, life'[u] = "Terminated" PROVE Match(G, termination_clock'[u], hb_end'[u])
    BY DEF Ends
  <2>1. CASE u = t
    BY <1>4, <1>9, <2>1 DEF ThreadMatch
  <2>2. CASE u # t
    BY <1>4, <1>8, <2>2 DEF Ends
  <2> QED BY <2>1, <2>2
<1>12. Carriers(G)'
  BY <1>3, <1>4 DEF Carriers
<1>13. Hist(G)'
  BY <1>3, <1>4, <1>7, <1>10, <1>11, <1>12 DEF Hist
<1> QED BY <1>13

(* A new thread gets the next number, and the index of that number. *)
LEMMA NextNumber ==
    ASSUME RInv, MainLives, Numbered, NEW t \in Thread, NEW i \in Thread, ThreadCreated(t, i)
    PROVE  i = allocated /\ Cardinality({u \in Thread : life[u] # "Unborn"}) = allocated
<1>1. i = allocated
  BY NotReusable DEF ThreadCreated, MainLives
<1>2. allocated \in Nat /\ allocated > 0 /\ 0 .. allocated - 1 \subseteq Thread /\ Thread \subseteq Nat
  BY Parts, ThreadsAreNumbers DEF RaceTypeOK, Indices
<1>3. {u \in Thread : life[u] # "Unborn"} = 0 .. allocated - 1
  <2>1. \A u \in Thread : life[u] # "Unborn" <=> u < allocated
    BY DEF Numbered
  <2>2. \A u \in Thread : u < allocated <=> u \in 0 .. allocated - 1
    BY <1>2
  <2> QED BY <1>2, <2>1, <2>2
<1>4. Cardinality(0 .. allocated - 1) = allocated
  BY <1>2, FS_Interval
<1> QED BY <1>1, <1>3, <1>4

LEMMA CreatedKept ==
    ASSUME RInv, MainLives, RefShape, Numbered, NEW G, Hist(G), NEW t \in Thread, NEW i \in Thread, ThreadCreated(t, i)
    PROVE  \E G2 : Hist(G2)'
<1> DEFINE kp == vector_clocks[t]
           child == Tick(LoadAcquire(EmptyClockSet, kp.clock), i)
<1>1. life[t] = "Live"
  BY DEF ThreadCreated, Runs
<1>2. /\ vector_index[t] = t /\ Present \in Clocks /\ Good(kp, t, Present) /\ t \in 0 .. allocated - 1
      /\ vector_clocks \in [Thread -> ClockSets] /\ life \in [Thread -> {"Unborn", "Live", "Terminated"}]
      /\ reuse_candidates \subseteq 0 .. allocated - 1 /\ allocated \in Nat
  BY <1>1, Self, Parts DEF RaceTypeOK, Indices
<1>3. i = allocated /\ Cardinality({u \in Thread : life[u] # "Unborn"}) = i /\ t # i /\ i \notin reuse_candidates
  <2>1. i = allocated /\ Cardinality({u \in Thread : life[u] # "Unborn"}) = allocated
    BY NextNumber
  <2>2. allocated \notin 0 .. allocated - 1
    BY <1>2
  <2> QED BY <1>2, <2>1, <2>2
<1>4. /\ vector_clocks' = [vector_clocks EXCEPT ![t] = Tick(kp, t), ![i] = child]
      /\ life' = [life EXCEPT ![i] = "Live"] /\ multi_threaded' = TRUE /\ hb' = [hb EXCEPT ![i] = hb[t]]
      /\ UNCHANGED <<termination_clock, race_sc_fence, cell, obj_clock, log, hb_acquire, hb_release, hb_cell, hb_obj, hb_end, hb_sc>>
  BY <1>2, <1>3 DEF ThreadCreated, LoadAcquire
<1>5. /\ G \in Histories /\ G.old \cup G.recent = 1 .. Len(log) /\ Proper(G, Present) /\ Remembers(G, cell, log)
      /\ Threads(G, hb) /\ Ends(G) /\ Carriers(G)
      /\ ThreadMatch(G, kp, hb[t], hb_acquire[t], hb_release[t])
  BY <1>1 DEF Hist, Threads
<1>6. Present[i] = 0 /\ hb_acquire[i] = {} /\ hb_release[i] = {} /\ life[i] = "Unborn"
  BY <1>2, <1>3, Parts DEF Times, Numbered
<1>7. ThreadMatch(G, Tick(kp, t), hb[t], hb_acquire[t], hb_release[t])
  BY <1>2, <1>5, MatchTicked
<1> HIDE DEF kp
<1>8. ThreadMatch(G, child, hb[t], {}, {})
  <2> DEFINE E == EmptyClockSet
             F == LoadAcquire(E, kp.clock)
             c == kp.clock
  <2>1. /\ E \in ClockSets /\ E.clock = ZeroClock /\ E.fence_acquire = ZeroClock /\ E.fence_release = ZeroClock
        /\ c \in Clocks /\ Match(G, ZeroClock, {}) /\ ZeroClock \in Clocks /\ Match(G, c, hb[t])
    BY <1>2, <1>5, ZeroShape, MatchZero DEF EmptyClockSet, ClockSets, Good, ThreadMatch
  <2>2. Match(G, ClockJoin(ZeroClock, c), {} \cup hb[t]) /\ {} \cup hb[t] = hb[t] /\ ClockJoin(ZeroClock, c) \in Clocks
    BY <2>1, <1>5, MatchJoin, JoinShape
  <2> HIDE DEF E, c
  <2>3. ClockJoin(ZeroClock, c)[i] = Present[i]
    <3>1. Before(c, Present, i) /\ c[i] \in Nat
      BY <1>2, <1>3, <2>1 DEF c, Good, Clocks
    <3>2. c[i] = 0
      BY <1>6, <3>1 DEF Before
    <3> QED BY <1>6, <2>1, <3>2, JoinShape, ZeroShape
  <2>4. F \in ClockSets /\ F.clock = ClockJoin(ZeroClock, c) /\ F.fence_acquire = ZeroClock /\ F.fence_release = ZeroClock
    BY <2>1, <2>2 DEF LoadAcquire, ClockSets, c
  <2>5. Match(G, ClockIncrement(F.clock, i), hb[t])
    BY <1>2, <1>5, <2>2, <2>3, <2>4, MatchTick
  <2>6. child = Tick(F, i)
    BY DEF E
  <2> HIDE DEF F, child
  <2>7. child.clock = ClockIncrement(F.clock, i) /\ child.fence_acquire = ZeroClock /\ child.fence_release = ZeroClock
    BY <2>4, <2>6 DEF Tick, ClockSets
  <2>8. G.last = 0 => G.old \subseteq hb[t]
    BY <1>5 DEF ThreadMatch
  <2> QED BY <2>1, <2>5, <2>7, <2>8 DEF ThreadMatch
<1> HIDE DEF child
<1>9. /\ vector_clocks'[t] = Tick(kp, t) /\ vector_clocks'[i] = child
      /\ hb'[i] = hb[t] /\ life'[i] = "Live" /\ hb_acquire'[i] = {} /\ hb_release'[i] = {}
      /\ \A u \in Thread \ {i} : hb'[u] = hb[u] /\ life'[u] = life[u]
      /\ \A u \in Thread \ {t, i} : vector_clocks'[u] = vector_clocks[u]
  BY <1>2, <1>3, <1>4, <1>6 DEF RefShape
<1>10. Threads(G, hb)'
  <2> SUFFICES ASSUME NEW u \in Thread, life'[u] = "Live"
               PROVE  ThreadMatch(G, vector_clocks'[u], hb'[u], hb_acquire'[u], hb_release'[u])
    BY DEF Threads
  <2>1. CASE u = i
    BY <1>8, <1>9, <2>1
  <2>2. CASE u = t
    BY <1>3, <1>4, <1>7, <1>9, <2>2
  <2>3. CASE u \notin {t, i}
    BY <1>4, <1>5, <1>9, <2>3 DEF Threads
  <2> QED BY <2>1, <2>2, <2>3
<1>11. Ends(G)'
  BY <1>4, <1>5, <1>9 DEF Ends
<1>12. Carriers(G)'
  BY <1>4, <1>5 DEF Carriers
<1>13. Proper(G, Present')
  <2>1. RaceTypeOK'
    BY CreatedKeeps, PartsNext
  <2>2. Present' \in Clocks /\ \A j \in Thread : Present'[j] = vector_clocks'[j].clock[j] /\ Present[j] = vector_clocks[j].clock[j]
    <3>1. \A j \in Thread : vector_clocks'[j].clock[j] \in Nat
      <4>1. \A j \in Thread : vector_clocks'[j].clock \in Clocks
        BY <2>1 DEF RaceTypeOK, ClockSets
      <4> QED BY <4>1 DEF Clocks
    <3> QED BY <3>1 DEF Present, Clocks
  <2>3. ASSUME NEW j \in Thread PROVE Present[j] <= Present'[j]
    <3>0. Present[j] \in Nat /\ Present'[j] \in Nat
      BY <1>2, <2>2 DEF Clocks
    <3>1. CASE j = i
      BY <1>6, <3>0, <3>1
    <3>2. CASE j = t
      <4>1. Present'[t] = ClockIncrement(kp.clock, t)[t] /\ kp.clock \in Clocks /\ kp.clock[t] = Present[t]
        BY <1>2, <1>9, <2>2, GoodTick, SMTT(40) DEF Good, ClockSets
      <4>2. ClockIncrement(kp.clock, t)[t] = kp.clock[t] + 1
        BY <4>1, IncrementShape
      <4> QED BY <3>0, <3>2, <4>1, <4>2
    <3>3. CASE j \notin {t, i}
      BY <1>9, <2>2, <3>0, <3>3
    <3> QED BY <3>1, <3>2, <3>3
  <2> QED BY <1>2, <1>5, <2>2, <2>3, ProperGrows
<1>14. Hist(G)'
  BY <1>4, <1>5, <1>10, <1>11, <1>12, <1>13 DEF Hist
<1> QED BY <1>14

-----------------------------------------------------------------------------
(* The other parts of the invariant. *)

(* The steps of thread t. *)
StepOf(t) ==
    \/ \E a \in Accesses : Report(t, a)
    \/ NaRead(t) \/ NaWrite(t)
    \/ \E ord : \E size \in race_program.sizes : AtomicLoad(t, ord, size) \/ AtomicStore(t, ord, size) \/ AtomicRmw(t, ord, size)
    \/ \E ord : RaceFence(t, ord)
    \/ Release(t) \/ Acquire(t)
    \/ \E i \in Thread : ThreadCreated(t, i)
    \/ ThreadTerminated(t)
    \/ \E u \in Thread : ThreadJoined(t, u)

LEMMA Steps ==
    ASSUME RaceNext
    PROVE  \E t \in Thread : StepOf(t)
  BY DEF RaceNext, StepOf

LEMMA SameProgram ==
    ASSUME [RaceNext]_raceVars
    PROVE  race_program' = race_program
<1>1. CASE UNCHANGED raceVars
  BY <1>1 DEF raceVars
<1>2. ASSUME NEW t \in Thread, StepOf(t) PROVE race_program' = race_program
  <2>1. Runs(t) => race_program' = race_program
    BY DEF Runs
  <2>2. \A a : Report(t, a) => Runs(t)
    BY DEF Report
  <2>3. NaRead(t) \/ NaWrite(t) \/ Release(t) \/ Acquire(t) \/ ThreadTerminated(t) => Runs(t)
    BY DEF NaRead, NaWrite, Release, Acquire, ThreadTerminated
  <2>4. \A ord, size : AtomicLoad(t, ord, size) \/ AtomicStore(t, ord, size) \/ AtomicRmw(t, ord, size) => Runs(t)
    BY DEF AtomicLoad, AtomicStore, AtomicRmw
  <2>5. \A ord : RaceFence(t, ord) => Runs(t)
    BY DEF RaceFence
  <2>6. \A i : ThreadCreated(t, i) \/ ThreadJoined(t, i) => Runs(t)
    BY DEF ThreadCreated, ThreadJoined
  <2> QED BY <1>2, <2>1, <2>2, <2>3, <2>4, <2>5, <2>6 DEF StepOf
<1> QED BY <1>1, <1>2, Steps

LEMMA AtomicsSize ==
    ASSUME RInv, OneSize, NEW c, NEW size \in race_program.sizes, ~(Cardinality(race_program.sizes) > 1)
    PROVE  Atomics(c, size).size = size
<1>1. CellShape /\ race_program \in RacePrograms
  BY Parts DEF RaceTypeOK
<1>2. CASE cell.atomic_ops = NoAtomics
  BY <1>2 DEF Atomics, NewAtomics
<1>3. CASE cell.atomic_ops # NoAtomics
  <2>1. cell.atomic_ops \in AtomicClocks
    BY <1>1, <1>3 DEF CellShape, NoAtomics
  <2>2. cell.atomic_ops.size \in race_program.sizes
    BY <1>1, <1>3, OneSizeOnly DEF OneSize, NoAtomics
  <2>3. cell.atomic_ops.size = size
    BY <1>1, <2>2, OneSizeOnly
  <2> QED BY <1>3, <2>1, <2>3 DEF Atomics, AtomicClocks
<1> QED BY <1>2, <1>3

LEMMA OneSizeKeeps ==
    ASSUME RInv, OneSize, [RaceNext]_raceVars
    PROVE  OneSize'
<1>1. race_program' = race_program /\ CellShape
  BY Parts, SameProgram
<1>2. ASSUME cell'.atomic_ops = cell.atomic_ops \/ cell'.atomic_ops = None PROVE OneSize'
  BY <1>1, <1>2 DEF OneSize
<1>3. ASSUME NEW t \in Thread, NEW ord, NEW size \in race_program.sizes,
             AtomicLoad(t, ord, size) \/ AtomicStore(t, ord, size) \/ AtomicRmw(t, ord, size)
      PROVE  OneSize'
  <2> DEFINE at == Atomics(Clock(t), size)
             i == vector_index[t]
  <2>1. life[t] = "Live"
    BY <1>3 DEF AtomicLoad, AtomicStore, AtomicRmw, Runs
  <2>2. at \in AtomicClocks
    BY <2>1, AtomicsShape
  <2>3. cell' = cell \/ \E b, d : cell' = [cell EXCEPT !.atomic_ops = b] /\ b.size = Atomics(d, size).size
    <3>1. CASE ~multi_threaded
      BY <1>3, <3>1 DEF AtomicLoad, AtomicStore, AtomicRmw
    <3>2. CASE multi_threaded /\ AtomicLoad(t, ord, size)
      <4>1. cell' = [cell EXCEPT !.atomic_ops = [at EXCEPT !.read_vector[i] = Clock(t)[i]]]
        BY <3>2 DEF AtomicLoad
      <4> HIDE DEF at
      <4>2. [at EXCEPT !.read_vector[i] = Clock(t)[i]].size = at.size
        BY <2>2 DEF AtomicClocks
      <4> QED BY <4>1, <4>2 DEF at
    <3>3. CASE multi_threaded /\ AtomicStore(t, ord, size)
      <4> DEFINE s == StoreSync(vector_clocks[i], ord)
      <4>1. cell' = [cell EXCEPT !.atomic_ops = [at EXCEPT !.write_vector[i] = Clock(t)[i], !.sync_vector = s]]
        BY <3>3 DEF AtomicStore
      <4> HIDE DEF at, s
      <4>2. [at EXCEPT !.write_vector[i] = Clock(t)[i], !.sync_vector = s].size = at.size
        BY <2>2 DEF AtomicClocks
      <4> QED BY <4>1, <4>2 DEF at
    <3>4. CASE multi_threaded /\ AtomicRmw(t, ord, size)
      <4> DEFINE k == RmwAcquire(vector_clocks[i], ord, SyncVector)
                 at2 == Atomics(k.clock, size)
                 s == RmwSync(k, ord, at2.sync_vector)
      <4>0. at2 \in AtomicClocks
        BY <2>1, AtomicsShape
      <4>1. cell' = [cell EXCEPT !.atomic_ops = [at2 EXCEPT !.read_vector[i] = Clock(t)[i], !.write_vector[i] = k.clock[i], !.sync_vector = s]]
        BY <4>0, <3>4 DEF AtomicRmw, AtomicClocks
      <4> HIDE DEF at2, s, k
      <4>2. [at2 EXCEPT !.read_vector[i] = Clock(t)[i], !.write_vector[i] = k.clock[i], !.sync_vector = s].size = at2.size
        BY <4>0 DEF AtomicClocks
      <4> QED BY <4>1, <4>2 DEF at2
    <3> QED BY <1>3, <3>1, <3>2, <3>3, <3>4
  <2>4. CASE cell' = cell
    BY <1>2, <2>4
  <2>5. CASE \E b, d : cell' = [cell EXCEPT !.atomic_ops = b] /\ b.size = Atomics(d, size).size
    <3>1. PICK b, d : cell' = [cell EXCEPT !.atomic_ops = b] /\ b.size = Atomics(d, size).size
      BY <2>5
    <3>2. cell'.atomic_ops = b
      BY <1>1, <3>1 DEF CellShape
    <3> SUFFICES ASSUME Cardinality(race_program.sizes) <= 1 PROVE b.size \in race_program.sizes
      BY <1>1, <3>2 DEF OneSize
    <3>3. ~(Cardinality(race_program.sizes) > 1)
      <4>1. IsFiniteSet(race_program.sizes)
        BY DataRaceAssumption DEF RaceProgram, RInv, RaceTypeOK
      <4>2. Cardinality(race_program.sizes) \in Nat
        BY <4>1, FS_CardinalityType
      <4> QED BY <4>2
    <3>4. Atomics(d, size).size = size
      BY <3>3, AtomicsSize
    <3> QED BY <3>1, <3>4
  <2> QED BY <2>3, <2>4, <2>5
<1>4. CASE UNCHANGED raceVars
  BY <1>2, <1>4 DEF raceVars
<1>5. CASE RaceNext
  <2>1. ASSUME NEW t \in Thread,
               \/ \E a \in Accesses : Report(t, a)
               \/ \E ord : RaceFence(t, ord)
               \/ Release(t) \/ Acquire(t) \/ ThreadTerminated(t)
               \/ \E i \in Thread : ThreadCreated(t, i)
               \/ \E u \in Thread : ThreadJoined(t, u)
        PROVE  cell' = cell
    BY <2>1 DEF Report, RaceFence, Release, Acquire, ThreadTerminated, ThreadCreated, ThreadJoined
  <2>2. ASSUME NEW t \in Thread, NaRead(t) \/ NaWrite(t) PROVE cell'.atomic_ops = cell.atomic_ops \/ cell'.atomic_ops = None
    BY <1>1, <2>2 DEF NaRead, NaWrite, Written, NoAtomics, CellShape
  <2> QED BY <1>2, <1>3, <1>5, <2>1, <2>2 DEF RaceNext
<1> QED BY <1>4, <1>5

LEMMA RefKeeps ==
    ASSUME RefShape, log \in Seq(LogEntries), [RaceNext]_raceVars
    PROVE  RefShape'
<1>1. CASE UNCHANGED raceVars
  BY <1>1 DEF raceVars, refVars, RefShape
<1>2. ASSUME NEW t \in Thread, StepOf(t) PROVE RefShape'
  <2>0. Now \in Nat
    BY DEF Now
  <2> HIDE DEF Now
  <2>1. ASSUME NEW a, Report(t, a) PROVE RefShape'
    BY <2>1 DEF Report, refVars, RefShape
  <2>2. CASE NaRead(t) \/ NaWrite(t)
    BY <2>0, <2>2 DEF NaRead, NaWrite, RefShape
  <2>3. ASSUME NEW ord, NEW size, AtomicLoad(t, ord, size) PROVE RefShape'
    BY <2>0, <2>3 DEF AtomicLoad, RefShape
  <2>4. ASSUME NEW ord, NEW size, AtomicStore(t, ord, size) PROVE RefShape'
    BY <2>0, <2>4 DEF AtomicStore, RefShape
  <2>5. ASSUME NEW ord, NEW size, AtomicRmw(t, ord, size) PROVE RefShape'
    <3> DEFINE acquires == ord \in {"Acquire", "AcqRel", "SeqCst"}
               seen == hb[t] \cup {Now} \cup (IF acquires THEN hb_cell ELSE {})
    <3>1. /\ hb' = [hb EXCEPT ![t] = seen] /\ hb_acquire' = IF acquires THEN hb_acquire ELSE [hb_acquire EXCEPT ![t] = @ \cup hb_cell]
          /\ hb_cell' = hb_cell \cup (IF ord \in {"Release", "AcqRel", "SeqCst"} THEN seen ELSE hb_release[t])
          /\ UNCHANGED <<hb_release, hb_obj, hb_end, hb_sc>>
      BY <2>5 DEF AtomicRmw
    <3>2. seen \subseteq Nat
      BY <2>0 DEF RefShape
    <3> HIDE DEF acquires, seen
    <3> QED BY <3>1, <3>2 DEF RefShape
  <2>6. ASSUME NEW ord, RaceFence(t, ord) PROVE RefShape'
    <3> DEFINE all == hb[t] \cup (IF ord = "Release" THEN {} ELSE hb_acquire[t]) \cup (IF ord = "SeqCst" THEN hb_sc ELSE {})
    <3>1. /\ hb' = [hb EXCEPT ![t] = all] /\ hb_release' = IF ord = "Acquire" THEN hb_release ELSE [hb_release EXCEPT ![t] = all]
          /\ hb_sc' = IF ord = "SeqCst" THEN all ELSE hb_sc
          /\ UNCHANGED <<hb_acquire, hb_cell, hb_obj, hb_end>>
      BY <2>6 DEF RaceFence
    <3>2. all \subseteq Nat
      BY DEF RefShape
    <3> HIDE DEF all
    <3> QED BY <3>1, <3>2 DEF RefShape
  <2>7. CASE Release(t) \/ Acquire(t)
    BY <2>7, ZenonT(60) DEF Release, Acquire, RefShape
  <2>8. ASSUME NEW i, ThreadCreated(t, i) PROVE RefShape'
    <3> DEFINE new == Cardinality({u \in Thread : life[u] # "Unborn"})
    <3>1. hb' = [hb EXCEPT ![new] = hb[t]] /\ UNCHANGED <<hb_acquire, hb_release, hb_cell, hb_obj, hb_end, hb_sc>>
      BY <2>8 DEF ThreadCreated
    <3> HIDE DEF new
    <3> QED BY <3>1 DEF RefShape
  <2>9. ASSUME ThreadTerminated(t) PROVE RefShape'
    BY <2>9 DEF ThreadTerminated, RefShape
  <2>10. ASSUME NEW u \in Thread, ThreadJoined(t, u) PROVE RefShape'
    BY <2>10 DEF ThreadJoined, RefShape
  <2> QED BY <1>2, <2>1, <2>2, <2>3, <2>4, <2>5, <2>6, <2>7, <2>8, <2>9, <2>10 DEF StepOf
<1> QED BY <1>1, <1>2, Steps

(* What a step of a live thread leaves as it is, unless it creates or ends *)
(* a thread.                                                               *)
Usual(t) ==
    /\ UNCHANGED <<life, vector_index, allocated, multi_threaded>>
    /\ log' = log \/ \E a \in LogEntries : log' = Append(log, a)
    /\ \A u \in Thread \ {t} : hb_acquire'[u] = hb_acquire[u] /\ hb_release'[u] = hb_release[u]

LEMMA UsualSteps ==
    ASSUME RInv, MainLives, RefShape, NEW t \in Thread, StepOf(t)
    PROVE  \/ life[t] = "Live" /\ Usual(t)
           \/ ThreadTerminated(t) \/ \E i \in Thread : ThreadCreated(t, i)
<1>1. ASSUME NEW a, Report(t, a) PROVE life[t] = "Live" /\ Usual(t)
  BY <1>1 DEF Report, Runs, globalVars, refVars, Usual
<1>2. CASE NaRead(t)
  <2>1. Access("Read", None) \in LogEntries
    BY DEF Accesses, Access, LogEntries
  <2> QED BY <1>2, <2>1 DEF NaRead, Runs, Logged, globalVars, Usual
<1>3. CASE NaWrite(t)
  <2>1. Access("Write", None) \in LogEntries
    BY DEF Accesses, Access, LogEntries
  <2> QED BY <1>3, <2>1 DEF NaWrite, Runs, Logged, globalVars, Usual
<1>4. ASSUME NEW ord, NEW size \in race_program.sizes, AtomicLoad(t, ord, size) \/ AtomicStore(t, ord, size) \/ AtomicRmw(t, ord, size)
      PROVE  life[t] = "Live" /\ Usual(t)
  <2>1. /\ Access("AtomicLoad", size) \in LogEntries /\ Access("AtomicStore", size) \in LogEntries
        /\ Access("AtomicRmw", size) \in LogEntries
    BY DEF Accesses, Access, AtomicKinds, LogEntries
  <2>2. life[t] = "Live" /\ UNCHANGED <<life, vector_index, allocated, multi_threaded>>
    BY <1>4 DEF AtomicLoad, AtomicStore, AtomicRmw, Runs, globalVars
  <2>3. \E a \in LogEntries : log' = Append(log, a)
    BY <1>4, <2>1 DEF AtomicLoad, AtomicStore, AtomicRmw, Logged
  <2>4. \A u \in Thread \ {t} : hb_acquire'[u] = hb_acquire[u] /\ hb_release'[u] = hb_release[u]
    BY <1>4 DEF AtomicLoad, AtomicStore, AtomicRmw, RefShape
  <2> QED BY <2>2, <2>3, <2>4 DEF Usual
<1>5. ASSUME NEW ord, RaceFence(t, ord) PROVE life[t] = "Live" /\ Usual(t)
  <2>1. \A u \in Thread \ {t} : hb_acquire'[u] = hb_acquire[u] /\ hb_release'[u] = hb_release[u]
    BY <1>5 DEF RaceFence, RefShape
  <2> QED BY <1>5, <2>1 DEF RaceFence, Runs, globalVars, Usual
<1>6. CASE Release(t) \/ Acquire(t)
  BY <1>6 DEF Release, Acquire, Runs, globalVars, Usual
<1>7. ASSUME NEW u \in Thread, ThreadJoined(t, u) PROVE life[t] = "Live" /\ Usual(t)
  <2>1. multi_threaded' = multi_threaded
    BY <1>7, NeverAllKnown
  <2> QED BY <1>7, <2>1 DEF ThreadJoined, Runs, Usual
<1> QED BY <1>1, <1>2, <1>3, <1>4, <1>5, <1>6, <1>7 DEF StepOf

LEMMA NumberedKeeps ==
    ASSUME RInv, MainLives, RefShape, Numbered, [RaceNext]_raceVars
    PROVE  Numbered'
<1>1. LogEntries' = LogEntries
  BY SameProgram DEF Accesses, LogEntries
<1>2. log \in Seq(LogEntries) /\ (\A a \in LogEntries : Append(log, a) \in Seq(LogEntries)) /\ allocated \in Nat /\ Thread \subseteq Nat
  BY ThreadsAreNumbers DEF Numbered, RInv, RaceTypeOK
<1>3. CASE UNCHANGED raceVars
  <2>1. UNCHANGED <<life, vector_index, hb_acquire, hb_release, multi_threaded, allocated, log>>
    BY <1>3 DEF raceVars, globalVars, refVars
  <2> QED BY <1>1, <2>1 DEF Numbered
<1>4. ASSUME NEW t \in Thread, life[t] = "Live", Usual(t) PROVE Numbered'
  <2>1. log' \in Seq(LogEntries') /\ (multi_threaded' <=> allocated' > 1)
    <3>1. log' \in Seq(LogEntries)
      BY <1>2, <1>4 DEF Usual
    <3> QED BY <1>1, <1>4, <3>1 DEF Usual, Numbered
  <2>2. ASSUME NEW u \in Thread
        PROVE  IF u < allocated' THEN life'[u] # "Unborn" /\ vector_index'[u] = u
               ELSE life'[u] = "Unborn" /\ hb_acquire'[u] = {} /\ hb_release'[u] = {}
    BY <1>4 DEF Usual, Numbered
  <2> QED BY <2>1, <2>2 DEF Numbered
<1>5. ASSUME NEW t \in Thread, ThreadTerminated(t) PROVE Numbered'
  <2>1. /\ life[t] = "Live" /\ life' = [life EXCEPT ![t] = "Terminated"]
        /\ UNCHANGED <<vector_index, allocated, multi_threaded, log, hb_acquire, hb_release>>
    BY <1>5 DEF ThreadTerminated, Runs
  <2>2. life \in [Thread -> {"Unborn", "Live", "Terminated"}]
    BY DEF RInv, RaceTypeOK
  <2>3. \A u \in Thread : life'[u] = "Unborn" <=> life[u] = "Unborn"
    BY <2>1, <2>2
  <2> QED BY <1>1, <2>1, <2>3 DEF Numbered
<1>6. ASSUME NEW t \in Thread, NEW i \in Thread, ThreadCreated(t, i) PROVE Numbered'
  <2> DEFINE new == Cardinality({u \in Thread : life[u] # "Unborn"})
  <2>1. i = allocated /\ new = allocated /\ allocated > 0
    BY <1>6, NextNumber, Parts DEF Indices
  <2>2. /\ life' = [life EXCEPT ![new] = "Live"] /\ allocated' = IF i = allocated THEN allocated + 1 ELSE allocated
        /\ vector_index' = [u \in Thread |-> IF u = new THEN i ELSE IF vector_index[u] = i THEN None ELSE vector_index[u]]
        /\ multi_threaded' = TRUE /\ UNCHANGED <<log, hb_acquire, hb_release>>
    BY <1>6 DEF ThreadCreated
  <2> HIDE DEF new
  <2>3. life \in [Thread -> {"Unborn", "Live", "Terminated"}] /\ allocated' = allocated + 1
    BY <2>1, <2>2 DEF RInv, RaceTypeOK
  <2>4. multi_threaded' <=> allocated' > 1
    BY <1>2, <2>1, <2>2, <2>3
  <2>5. ASSUME NEW u \in Thread
        PROVE  IF u < allocated' THEN life'[u] # "Unborn" /\ vector_index'[u] = u
               ELSE life'[u] = "Unborn" /\ hb_acquire'[u] = {} /\ hb_release'[u] = {}
    <3>1. u \in Nat /\ (u < allocated' <=> u < allocated \/ u = i)
      BY <1>2, <2>1, <2>3
    <3>2. CASE u = i
      BY <2>1, <2>2, <2>3, <3>1, <3>2
    <3>3. CASE u # i
      <4>1. life'[u] = life[u] /\ hb_acquire'[u] = hb_acquire[u] /\ hb_release'[u] = hb_release[u]
        BY <2>1, <2>2, <2>3, <3>3
      <4>2. vector_index[u] = u => vector_index'[u] = u
        BY <2>1, <2>2, <3>3
      <4> QED BY <3>1, <3>3, <4>1, <4>2 DEF Numbered
    <3> QED BY <3>2, <3>3
  <2> QED BY <1>1, <1>2, <2>2, <2>4, <2>5 DEF Numbered
<1> QED BY <1>3, <1>4, <1>5, <1>6, Steps, UsualSteps

-----------------------------------------------------------------------------
(* Every race is reported, and nothing else. *)

(* The inductive invariant. *)
XInv == RInv /\ MainLives /\ RefShape /\ Numbered /\ OneSize /\ Untouched /\ (halt = "no" /\ ~CpuLocal => \E G : Hist(G))

LEMMA UntouchedKeeps ==
    ASSUME RInv, Untouched, [RaceNext]_raceVars
    PROVE  Untouched'
<1>1. race_program' = race_program /\ CellShape
  BY Parts, SameProgram
<1> SUFFICES ASSUME CpuLocal PROVE cell'.write_time = cell.write_time /\ cell'.read = cell.read
  BY <1>1 DEF Untouched, CpuLocal
<1>2. CASE UNCHANGED raceVars
  BY <1>2 DEF raceVars
<1>3. ASSUME NEW t \in Thread, StepOf(t) PROVE cell'.write_time = cell.write_time /\ cell'.read = cell.read
  <2>1. ASSUME \/ \E a \in Accesses : Report(t, a)
               \/ NaRead(t) \/ NaWrite(t)
               \/ \E ord : RaceFence(t, ord)
               \/ Release(t) \/ Acquire(t) \/ ThreadTerminated(t)
               \/ \E i \in Thread : ThreadCreated(t, i)
               \/ \E u \in Thread : ThreadJoined(t, u)
        PROVE  cell' = cell
    BY <2>1 DEF Report, NaRead, NaWrite, RaceFence, Release, Acquire, ThreadTerminated, ThreadCreated, ThreadJoined
  <2>2. ASSUME NEW ord, NEW size, AtomicLoad(t, ord, size) \/ AtomicStore(t, ord, size) \/ AtomicRmw(t, ord, size)
        PROVE  cell' = cell \/ \E b : cell' = [cell EXCEPT !.atomic_ops = b]
    BY <2>2 DEF AtomicLoad, AtomicStore, AtomicRmw
  <2> QED BY <1>1, <1>3, <2>1, <2>2 DEF StepOf, CellShape
<1> QED BY <1>2, <1>3, Steps

LEMMA HistKeeps ==
    ASSUME ~CpuLocal, RInv, MainLives, RefShape, Numbered, OneSize, halt = "no" => \E G : Hist(G), [RaceNext]_raceVars, halt' = "no"
    PROVE  \E G : Hist(G)'
<1>1. CASE UNCHANGED raceVars
  <2>1. halt = "no"
    BY <1>1 DEF raceVars
  <2>2. PICK G : Hist(G)
    BY <2>1
  <2>3. UNCHANGED <<life, termination_clock, multi_threaded, vector_clocks, race_sc_fence, cell, obj_clock, log,
                    hb, hb_acquire, hb_release, hb_cell, hb_obj, hb_end, hb_sc>>
    BY <1>1 DEF raceVars, globalVars, refVars
  <2>4. Present' = Present
    BY <2>3 DEF Present
  <2>5. Hist(G)'
    BY <2>2, <2>3, <2>4 DEF Hist, Threads, Ends, Carriers
  <2> QED BY <2>5
<1>2. ASSUME NEW t \in Thread, StepOf(t) PROVE \E G : Hist(G)'
  <2>1. ~\E a : Report(t, a)
    BY DEF Report
  <2>2. Runs(t) => halt = "no" /\ life[t] = "Live"
    BY DEF Runs
  <2>3. ASSUME NEW G, Hist(G), NEW ord, NEW size \in race_program.sizes,
               AtomicLoad(t, ord, size) \/ AtomicStore(t, ord, size) \/ AtomicRmw(t, ord, size)
        PROVE  \E G2 : Hist(G2)'
    <3>1. CASE ~multi_threaded
      <4>1. Accessing(t, ord, size)
        BY <2>3 DEF Accessing
      <4> QED BY <2>3, <3>1, <4>1, QuietAccess
    <3>2. CASE multi_threaded
      BY <2>3, <3>2, LoadKept, StoreKept, RmwKept
    <3> QED BY <3>1, <3>2
  <2>4. ASSUME NEW G, Hist(G), NaRead(t) \/ NaWrite(t) PROVE \E G2 : Hist(G2)'
    <3>1. CASE ~multi_threaded
      <4>1. Accessing(t, "Relaxed", None)
        BY <2>4 DEF Accessing
      <4> QED BY <2>4, <3>1, <4>1, QuietAccess
    <3>2. CASE multi_threaded
      BY <2>4, <3>2, ReadKept, WriteKept
    <3> QED BY <3>1, <3>2
  <2>5. ASSUME NEW G, Hist(G), NEW ord, RaceFence(t, ord) PROVE \E G2 : Hist(G2)'
    BY <2>5, QuietFence, FenceKept
  <2>6. ASSUME NEW G, Hist(G), Release(t) PROVE \E G2 : Hist(G2)'
    BY <2>6, ReleaseKept
  <2>7. ASSUME NEW G, Hist(G), Acquire(t) PROVE \E G2 : Hist(G2)'
    <3>1. life[t] = "Live"
      BY <2>7 DEF Acquire, Runs
    <3>2. vector_index[t] = t /\ obj_clock \in Clocks /\ PastOf(obj_clock, Present) /\ Match(G, obj_clock, hb_obj)
      BY <2>7, <3>1, Self, Parts DEF Times, RaceTypeOK, Hist, Carriers
    <3>3. /\ vector_clocks' = [vector_clocks EXCEPT ![t] = LoadAcquire(vector_clocks[t], obj_clock)]
          /\ hb' = [hb EXCEPT ![t] = hb[t] \cup hb_obj]
          /\ UNCHANGED <<life, cell, log, hb_acquire, hb_release, hb_cell, hb_end, hb_sc, hb_obj,
                         obj_clock, race_sc_fence, termination_clock, multi_threaded>>
      BY <2>7, <3>2 DEF Acquire, globalVars
    <3> QED BY <2>7, <3>1, <3>2, <3>3, AcquireKept
  <2>8. ASSUME NEW G, Hist(G), NEW i \in Thread, ThreadCreated(t, i) PROVE \E G2 : Hist(G2)'
    BY <2>8, CreatedKept
  <2>9. ASSUME NEW G, Hist(G), ThreadTerminated(t) PROVE \E G2 : Hist(G2)'
    BY <2>9, TerminatedKept
  <2>10. ASSUME NEW G, Hist(G), NEW u \in Thread, ThreadJoined(t, u) PROVE \E G2 : Hist(G2)'
    <3>1. life[t] = "Live" /\ life[u] = "Terminated"
      BY <2>10 DEF ThreadJoined, Runs
    <3> DEFINE s == termination_clock[u]
               hs == hb_end[u]
    <3>2. vector_index[t] = t /\ s \in Clocks /\ PastOf(s, Present) /\ Match(G, s, hs)
      BY <2>10, <3>1, Self, Parts DEF Times, Hist, Ends
    <3>3. multi_threaded' = multi_threaded
      BY <2>10, NeverAllKnown
    <3>4. /\ vector_clocks' = [vector_clocks EXCEPT ![t] = LoadAcquire(vector_clocks[t], s)]
          /\ hb' = [hb EXCEPT ![t] = hb[t] \cup hs]
          /\ UNCHANGED <<life, cell, log, hb_acquire, hb_release, hb_cell, hb_end, hb_sc, hb_obj,
                         obj_clock, race_sc_fence, termination_clock, multi_threaded>>
      BY <2>10, <3>2, <3>3 DEF ThreadJoined
    <3> HIDE DEF s, hs
    <3> QED BY <2>10, <3>1, <3>2, <3>4, AcquireKept
  <2>11. halt = "no"
    <3>1. NaRead(t) \/ NaWrite(t) \/ Release(t) \/ Acquire(t) \/ ThreadTerminated(t) => Runs(t)
      BY DEF NaRead, NaWrite, Release, Acquire, ThreadTerminated
    <3>2. \A ord, size : AtomicLoad(t, ord, size) \/ AtomicStore(t, ord, size) \/ AtomicRmw(t, ord, size) => Runs(t)
      BY DEF AtomicLoad, AtomicStore, AtomicRmw
    <3>3. (\A ord : RaceFence(t, ord) => Runs(t)) /\ (\A i : ThreadCreated(t, i) \/ ThreadJoined(t, i) => Runs(t))
      BY DEF RaceFence, ThreadCreated, ThreadJoined
    <3> QED BY <1>2, <2>1, <2>2, <3>1, <3>2, <3>3 DEF StepOf
  <2>12. PICK G : Hist(G)
    BY <2>11
  <2> QED BY <1>2, <2>1, <2>3, <2>4, <2>5, <2>6, <2>7, <2>8, <2>9, <2>10, <2>12 DEF StepOf
<1> QED BY <1>1, <1>2, Steps

LEMMA InitHistory == RaceInit => RefShape /\ Numbered /\ OneSize /\ \E G : Hist(G)
<1> SUFFICES ASSUME RaceInit PROVE RefShape /\ Numbered /\ OneSize /\ \E G : Hist(G)
  OBVIOUS
<1>1. RInv /\ Thread \subseteq Nat /\ 0 \in Thread
  BY InitHolds, ThreadsAreNumbers
<1>2. RefShape
  BY DEF RaceInit, RefShape
<1>3. Numbered
  <2>1. \A t \in Thread : t < 1 <=> t = 0
    BY <1>1
  <2> QED BY <1>1, <2>1 DEF RaceInit, Numbered
<1>4. OneSize
  BY DEF RaceInit, OneSize, NoAtomics
<1>5. PICK G : G \in Histories /\ G.recent = {} /\ G.old = {} /\ G.last = 0
  <2> DEFINE K == [own |-> [e \in Nat |-> 0], time |-> [e \in Nat |-> 0], old |-> {}, recent |-> {}, last |-> 0]
  <2>1. [e \in Nat |-> 0] \in [Nat -> Thread] /\ [e \in Nat |-> 0] \in [Nat -> Nat]
    BY <1>1
  <2>2. K \in Histories
    BY <2>1 DEF Histories
  <2>3. K.recent = {} /\ K.old = {} /\ K.last = 0
    OBVIOUS
  <2> QED BY <2>2, <2>3
<1>6. \A c : Match(G, c, {})
  BY <1>5 DEF Match
<1>7. Threads(G, hb) /\ Ends(G) /\ Carriers(G)
  <2>1. \A t \in Thread : hb[t] = {} /\ hb_acquire[t] = {} /\ hb_release[t] = {} /\ life[t] # "Terminated"
    BY DEF RaceInit
  <2>2. hb_cell = {} /\ hb_obj = {} /\ hb_sc = {}
    BY DEF RaceInit
  <2> QED BY <1>5, <1>6, <2>1, <2>2 DEF Threads, Ends, Carriers, ThreadMatch
<1>8. Proper(G, Present)
  BY <1>5 DEF Proper
<1>9. Remembers(G, cell, log)
  <2>1. cell.write_time = 0 /\ cell.read = ZeroClock /\ ReadsOf(cell) = ZeroClock /\ WritesOf(cell) = ZeroClock
    BY DEF RaceInit, ReadsOf, WritesOf, NoAtomics
  <2>2. \A kinds : OfKind(G, log, kinds) = {}
    BY <1>5 DEF OfKind
  <2> QED BY <1>5, <2>1, <2>2, SumsNothing DEF Remembers
<1>10. G.old \cup G.recent = 1 .. Len(log)
  BY <1>5 DEF RaceInit
<1>11. Hist(G)
  BY <1>5, <1>7, <1>8, <1>9, <1>10 DEF Hist
<1> QED BY <1>2, <1>3, <1>4, <1>11

(* While the program has no race so far, read_non_atomic, write_non_atomic *)
(* and the atomic accesses report an access if and only if it conflicts    *)
(* with an earlier one that does not happen before it: for any number of   *)
(* threads, accesses, fences, locks and joins.  The reference knows no     *)
(* clocks, so the theorem says that the vector clocks and the one write,   *)
(* the reads and the atomic accesses that a cell keeps are enough; a       *)
(* read-modify-write that acquires is judged by what it knows when it      *)
(* reads, and then by what it knows when it writes.                        *)
THEOREM RacesExactlyReported == RaceSpec => []RaceIffUnordered
<1>1. RaceInit => XInv
  <2>1. RaceInit => MainLives
    BY ThreadsAreNumbers DEF RaceInit, MainLives
  <2>2. RaceInit => Untouched
    BY DEF RaceInit, Untouched
  <2> QED BY <2>1, <2>2, InitHolds, InitHistory DEF XInv
<1>2. XInv /\ [RaceNext]_raceVars => XInv'
  <2> SUFFICES ASSUME XInv, [RaceNext]_raceVars PROVE XInv'
    OBVIOUS
  <2>1. RInv /\ MainLives /\ RefShape /\ Numbered /\ OneSize /\ Untouched /\ (halt = "no" /\ ~CpuLocal => \E G : Hist(G)) /\ log \in Seq(LogEntries)
    BY DEF XInv, Numbered
  <2>2. RInv' /\ MainLives'
    BY <2>1, NextKeeps, MainKeeps
  <2>3. RefShape' /\ Numbered' /\ OneSize'
    BY <2>1, RefKeeps, NumberedKeeps, OneSizeKeeps
  <2>4. Untouched' /\ CpuLocal' = CpuLocal
    BY <2>1, UntouchedKeeps, SameProgram DEF CpuLocal
  <2>5. halt' = "no" /\ ~CpuLocal' => \E G : Hist(G)'
    BY <2>1, <2>4, HistKeeps
  <2> QED BY <2>2, <2>3, <2>4, <2>5 DEF XInv
<1>3. XInv => RaceIffUnordered
  BY Exact, LocalExact DEF XInv, RaceIffUnordered
<1> QED BY <1>1, <1>2, <1>3, PTL DEF RaceSpec

=============================================================================
