-------------------------- MODULE WeakMemoryProofs --------------------------
(***************************************************************************)
(* Proofs about WeakMemory: whatever fetch_store may pick is coherent with *)
(* all that happened before the load, and SC-only programs see the last    *)
(* store.                                                                  *)
(***************************************************************************)
EXTENDS WeakMemory, TLAPS

Elements == [store_thread : Thread, store_timestamp : Nat, sync_clock : Clocks,
             is_seqcst : BOOLEAN, val : Nat, loads : Clocks, sc_loaded : BOOLEAN]

(* A thread with clock c must not look further back than e: the first two  *)
(* conditions of keep_searching.                                           *)
Happened(e, c) == e.store_timestamp <= c[e.store_thread] \/ SomeLoadIsBefore(e, c)

(* The clock c covers the view v on the locations L: the newest stores     *)
(* that v knows there are, if still buffered, in the past of c.            *)
Covers(b, c, v, L) ==
    \A l \in L : \A i \in 1 .. Len(b[l]) : b[l][i].val = v[l] => Happened(b[l][i], c)

(* The view v knows of no store that was not made. *)
Known(m, v) == v \in Views /\ \A l \in Loc : v[l] <= Len(m[l])

(* A buffer holds the newest stores, numbered in modification order. *)
Buffers(b, m) ==
    \A l \in Loc :
        /\ Len(b[l]) \in 1 .. StoreBufferLimit /\ Len(b[l]) <= Len(m[l])
        /\ \A i \in 1 .. Len(b[l]) : b[l][i].val = Len(m[l]) - Len(b[l]) + i

(* What a buffered store publishes is covered by its sync_clock, but for   *)
(* the store itself: a relaxed one does not publish itself by its clock.   *)
MessageOk(b, m, l, e) ==
    /\ m[l][e.val][l] = e.val /\ Known(m, m[l][e.val])
    /\ Covers(b, e.sync_clock, m[l][e.val], Loc \ {l})
Messages(b, m) == \A l \in Loc : \A i \in 1 .. Len(b[l]) : MessageOk(b, m, l, b[l][i])

(* Recorded loads are in the past of the loading thread. *)
OwnLoads(b, ks) ==
    \A l \in Loc : \A i \in 1 .. Len(b[l]) : \A t \in Thread : b[l][i].loads[t] <= ks[t].clock[t]

(* What thread knows by its clocks: now, after an acquire fence, and what  *)
(* its last release fence published.                                       *)
ThreadOk(b, m, k, v, va, vr) ==
    /\ Known(m, v) /\ Known(m, va) /\ Known(m, vr)
    /\ Covers(b, k.clock, v, Loc)
    /\ Covers(b, ClockJoin(k.clock, k.fence_acquire), va, Loc)
    /\ Covers(b, k.fence_release, vr, Loc)

Shape ==
    /\ program \in Programs /\ clocks \in [Thread -> ClockSets]
    /\ buffer \in [Loc -> Seq(Elements)] /\ message \in [Loc -> Seq(Views)]
    /\ last_sc_fence \in Clocks /\ last_sc_write_per_thread \in Clocks
    /\ view \in [Thread -> Views] /\ view_acquire \in [Thread -> Views] /\ view_release \in [Thread -> Views]

ScOk(b, m, c, v) == Known(m, v) /\ Covers(b, c, v, Loc)

(* All that a program with SC stores only has buffered is marked SC, but   *)
(* for the initial value until the first store.                            *)
ScMarks(b) ==
    \A l \in Loc : \A i \in 1 .. Len(b[l]) :
        b[l][i].is_seqcst \/ (Len(b[l]) = 1 /\ b[l][i].store_timestamp = 0)

WInv ==
    /\ Shape /\ Buffers(buffer, message) /\ Messages(buffer, message) /\ OwnLoads(buffer, clocks)
    /\ \A t \in Thread : ThreadOk(buffer, message, clocks[t], view[t], view_acquire[t], view_release[t])
    /\ ScOk(buffer, message, last_sc_fence, view_sc)

-----------------------------------------------------------------------------
(* Clocks and views. *)

LEMMA JoinUp ==
    ASSUME NEW a \in Clocks, NEW b \in Clocks
    PROVE  ClockJoin(a, b) \in Clocks /\ ClockLeq(a, ClockJoin(a, b)) /\ ClockLeq(b, ClockJoin(a, b))
  BY DEF Clocks, ClockLeq, ClockJoin

LEMMA TickUp ==
    ASSUME NEW a \in Clocks, NEW t \in Thread
    PROVE  /\ ClockIncrement(a, t) \in Clocks /\ ClockLeq(a, ClockIncrement(a, t))
           /\ ClockIncrement(a, t)[t] = a[t] + 1
  BY DEF Clocks, ClockLeq, ClockIncrement

LEMMA LeqTransitive ==
    ASSUME NEW a \in Clocks, NEW b \in Clocks, NEW c \in Clocks, ClockLeq(a, b), ClockLeq(b, c)
    PROVE  ClockLeq(a, c)
<1> SUFFICES ASSUME NEW u \in Thread PROVE a[u] <= c[u]
  BY DEF ClockLeq
<1>1. a[u] \in Nat /\ b[u] \in Nat /\ c[u] \in Nat
  BY DEF Clocks
<1>2. a[u] <= b[u] /\ b[u] <= c[u]
  BY DEF ClockLeq
<1> QED BY <1>1, <1>2

LEMMA LeqReflexive ==
    ASSUME NEW a \in Clocks
    PROVE  ClockLeq(a, a)
  BY DEF ClockLeq, Clocks

(* ClockJoin is monotone. *)
LEMMA JoinMonotone ==
    ASSUME NEW a \in Clocks, NEW b \in Clocks, NEW c \in Clocks, NEW d \in Clocks, ClockLeq(a, c), ClockLeq(b, d)
    PROVE  ClockLeq(ClockJoin(a, b), ClockJoin(c, d))
<1> SUFFICES ASSUME NEW u \in Thread PROVE ClockJoin(a, b)[u] <= ClockJoin(c, d)[u]
  BY DEF ClockLeq
<1>1. a[u] \in Nat /\ b[u] \in Nat /\ c[u] \in Nat /\ d[u] \in Nat
  BY DEF Clocks
<1>2. a[u] <= c[u] /\ b[u] <= d[u]
  BY DEF ClockLeq
<1>3. /\ ClockJoin(a, b)[u] = IF a[u] >= b[u] THEN a[u] ELSE b[u]
      /\ ClockJoin(c, d)[u] = IF c[u] >= d[u] THEN c[u] ELSE d[u]
  BY DEF ClockJoin
<1> QED BY <1>1, <1>2, <1>3

(* What is in the past stays there while clocks grow. *)
LEMMA HappenedGrows ==
    ASSUME NEW e \in Elements, NEW c \in Clocks, NEW d \in Clocks, ClockLeq(c, d), Happened(e, c)
    PROVE  Happened(e, d)
<1>1. \A u \in Thread : c[u] \in Nat /\ d[u] \in Nat /\ c[u] <= d[u]
  BY DEF Clocks, ClockLeq
<1>2. e.store_thread \in Thread /\ e.store_timestamp \in Nat /\ \A u \in Thread : e.loads[u] \in Nat
  BY DEF Elements, Clocks
<1>3. CASE e.store_timestamp <= c[e.store_thread]
  <2>1. e.store_timestamp <= d[e.store_thread]
    BY <1>1, <1>2, <1>3
  <2> QED BY <2>1 DEF Happened
<1>4. CASE SomeLoadIsBefore(e, c)
  <2>1. PICK u \in Thread : e.loads[u] \in 1 .. c[u]
    BY <1>4 DEF SomeLoadIsBefore
  <2>2. e.loads[u] \in 1 .. d[u]
    BY <1>1, <1>2, <2>1
  <2> QED BY <2>2 DEF Happened, SomeLoadIsBefore
<1> QED BY <1>3, <1>4 DEF Happened

LEMMA CoversGrows ==
    ASSUME NEW b \in [Loc -> Seq(Elements)], NEW c \in Clocks, NEW d \in Clocks, ClockLeq(c, d),
           NEW v, NEW L \in SUBSET Loc, Covers(b, c, v, L)
    PROVE  Covers(b, d, v, L)
<1> SUFFICES ASSUME NEW l \in L, NEW i \in 1 .. Len(b[l]), b[l][i].val = v[l]
             PROVE  Happened(b[l][i], d)
  BY DEF Covers
<1>1. b[l][i] \in Elements
  OBVIOUS
<1>2. Happened(b[l][i], c)
  BY DEF Covers
<1> QED BY <1>1, <1>2, HappenedGrows

LEMMA ViewJoinShape ==
    ASSUME NEW v \in Views, NEW w \in Views
    PROVE  /\ ViewJoin(v, w) \in Views
           /\ \A l \in Loc : ViewJoin(v, w)[l] = v[l] \/ ViewJoin(v, w)[l] = w[l]
  BY DEF ViewJoin, Views

(* Joining clocks covers joined views. *)
LEMMA CoversJoin ==
    ASSUME NEW b \in [Loc -> Seq(Elements)], NEW c \in Clocks, NEW d \in Clocks,
           NEW v \in Views, NEW w \in Views, NEW L \in SUBSET Loc, Covers(b, c, v, L), Covers(b, d, w, L)
    PROVE  Covers(b, ClockJoin(c, d), ViewJoin(v, w), L)
<1> DEFINE j == ClockJoin(c, d)
           z == ViewJoin(v, w)
<1>1. j \in Clocks /\ ClockLeq(c, j) /\ ClockLeq(d, j)
  BY JoinUp
<1>2. \A l \in Loc : z[l] = v[l] \/ z[l] = w[l]
  BY ViewJoinShape
<1> HIDE DEF j, z
<1>3. Covers(b, j, v, L) /\ Covers(b, j, w, L)
  BY <1>1, CoversGrows
<1>4. Covers(b, j, z, L)
  BY <1>2, <1>3 DEF Covers
<1> QED BY <1>4 DEF j, z

LEMMA KnownJoin ==
    ASSUME NEW m, NEW v, NEW w, Known(m, v), Known(m, w)
    PROVE  Known(m, ViewJoin(v, w))
<1>1. ViewJoin(v, w) \in Views /\ \A l \in Loc : ViewJoin(v, w)[l] = v[l] \/ ViewJoin(v, w)[l] = w[l]
  BY ViewJoinShape DEF Known
<1> QED BY <1>1 DEF Known

-----------------------------------------------------------------------------
(* Buffers from one step to the next. *)

(* The element e with more loads recorded, or marked SC. *)
Heir(f, e) ==
    /\ f.val = e.val /\ f.store_thread = e.store_thread /\ f.store_timestamp = e.store_timestamp
    /\ f.sync_clock = e.sync_clock
    /\ \A u \in Thread : e.loads[u] # 0 => f.loads[u] = e.loads[u]

(* Messages are only added, and a buffered store is an old one or new. *)
Follows(b, m, b2, m2) ==
    /\ \A l \in Loc : /\ Len(m[l]) <= Len(m2[l])
                      /\ \A n \in 1 .. Len(m[l]) : m2[l][n] = m[l][n]
    /\ \A l \in Loc : \A i \in 1 .. Len(b2[l]) :
          b2[l][i].val > Len(m[l]) \/ \E j \in 1 .. Len(b[l]) : Heir(b2[l][i], b[l][j])

LEMMA HeirHappened ==
    ASSUME NEW e \in Elements, NEW f \in Elements, Heir(f, e), NEW c \in Clocks, Happened(e, c)
    PROVE  Happened(f, c)
<1>1. CASE e.store_timestamp <= c[e.store_thread]
  BY <1>1 DEF Happened, Heir
<1>2. CASE SomeLoadIsBefore(e, c)
  <2>1. PICK u \in Thread : e.loads[u] \in 1 .. c[u]
    BY <1>2 DEF SomeLoadIsBefore
  <2>2. e.loads[u] # 0
    BY <2>1 DEF Clocks
  <2>3. f.loads[u] \in 1 .. c[u]
    BY <2>1, <2>2 DEF Heir
  <2> QED BY <2>3 DEF Happened, SomeLoadIsBefore
<1> QED BY <1>1, <1>2 DEF Happened

LEMMA CoversFollow ==
    ASSUME NEW b \in [Loc -> Seq(Elements)], NEW b2 \in [Loc -> Seq(Elements)],
           NEW m \in [Loc -> Seq(Views)], NEW m2 \in [Loc -> Seq(Views)], Follows(b, m, b2, m2),
           NEW c \in Clocks, NEW v, Known(m, v), NEW L \in SUBSET Loc, Covers(b, c, v, L)
    PROVE  Covers(b2, c, v, L)
<1> SUFFICES ASSUME NEW l \in L, NEW i \in 1 .. Len(b2[l]), b2[l][i].val = v[l]
             PROVE  Happened(b2[l][i], c)
  BY DEF Covers
<1>1. b2[l][i] \in Elements /\ l \in Loc
  OBVIOUS
<1>2. ~(b2[l][i].val > Len(m[l]))
  <2>1. v[l] <= Len(m[l]) /\ v[l] \in Nat /\ Len(m[l]) \in Nat
    BY <1>1 DEF Known, Views
  <2> QED BY <2>1
<1>3. PICK j \in 1 .. Len(b[l]) : Heir(b2[l][i], b[l][j])
  BY <1>1, <1>2 DEF Follows
<1>4. b[l][j] \in Elements /\ b[l][j].val = v[l]
  BY <1>1, <1>3 DEF Heir
<1>5. Happened(b[l][j], c)
  BY <1>4 DEF Covers
<1> QED BY <1>1, <1>3, <1>4, <1>5, HeirHappened

LEMMA KnownFollow ==
    ASSUME NEW b, NEW b2, NEW m \in [Loc -> Seq(Views)], NEW m2 \in [Loc -> Seq(Views)], Follows(b, m, b2, m2),
           NEW v, Known(m, v)
    PROVE  Known(m2, v)
<1> SUFFICES ASSUME NEW l \in Loc PROVE v[l] <= Len(m2[l])
  BY DEF Known
<1>1. v[l] \in Nat /\ Len(m[l]) \in Nat /\ Len(m2[l]) \in Nat /\ v[l] <= Len(m[l]) /\ Len(m[l]) <= Len(m2[l])
  BY DEF Known, Views, Follows
<1> QED BY <1>1

LEMMA ThreadFollow ==
    ASSUME NEW b \in [Loc -> Seq(Elements)], NEW b2 \in [Loc -> Seq(Elements)],
           NEW m \in [Loc -> Seq(Views)], NEW m2 \in [Loc -> Seq(Views)], Follows(b, m, b2, m2),
           NEW k \in ClockSets, NEW v, NEW va, NEW vr, ThreadOk(b, m, k, v, va, vr)
    PROVE  ThreadOk(b2, m2, k, v, va, vr)
<1>1. /\ k.clock \in Clocks /\ k.fence_release \in Clocks /\ ClockJoin(k.clock, k.fence_acquire) \in Clocks
      /\ Loc \in SUBSET Loc
  <2>1. k.clock \in Clocks /\ k.fence_release \in Clocks /\ k.fence_acquire \in Clocks
    BY DEF ClockSets
  <2> QED BY <2>1, JoinUp
<1>2. Known(m2, v) /\ Known(m2, va) /\ Known(m2, vr)
  BY KnownFollow DEF ThreadOk
<1>3. Covers(b2, k.clock, v, Loc) /\ Covers(b2, k.fence_release, vr, Loc)
  BY <1>1, CoversFollow DEF ThreadOk
<1>4. Covers(b2, ClockJoin(k.clock, k.fence_acquire), va, Loc)
  <2> DEFINE c == ClockJoin(k.clock, k.fence_acquire)
  <2>1. c \in Clocks /\ Known(m, va) /\ Covers(b, c, va, Loc)
    BY <1>1 DEF ThreadOk
  <2> HIDE DEF c
  <2>2. Covers(b2, c, va, Loc)
    BY <2>1, <1>1, CoversFollow
  <2> QED BY <2>2 DEF c
<1> QED BY <1>2, <1>3, <1>4 DEF ThreadOk

(* Old elements keep their messages. *)
LEMMA MessagesFollow ==
    ASSUME NEW b \in [Loc -> Seq(Elements)], NEW b2 \in [Loc -> Seq(Elements)],
           NEW m \in [Loc -> Seq(Views)], NEW m2 \in [Loc -> Seq(Views)], Follows(b, m, b2, m2),
           Messages(b, m), Buffers(b, m),
           \A l \in Loc : \A i \in 1 .. Len(b2[l]) : b2[l][i].val > Len(m[l]) => MessageOk(b2, m2, l, b2[l][i])
    PROVE  Messages(b2, m2)
<1> SUFFICES ASSUME NEW l \in Loc, NEW i \in 1 .. Len(b2[l])
             PROVE  MessageOk(b2, m2, l, b2[l][i])
  BY DEF Messages
<1>1. CASE b2[l][i].val > Len(m[l])
  BY <1>1
<1>2. CASE ~(b2[l][i].val > Len(m[l]))
  <2>1. PICK j \in 1 .. Len(b[l]) : Heir(b2[l][i], b[l][j])
    BY <1>2 DEF Follows
  <2> DEFINE e == b[l][j]
             n == e.val
             f == b2[l][i]
  <2>2. e \in Elements /\ f \in Elements /\ MessageOk(b, m, l, e) /\ f.val = n /\ f.sync_clock = e.sync_clock
    BY <2>1 DEF Messages, Heir
  <2>3. n \in 1 .. Len(m[l])
    <3>1. /\ n = Len(m[l]) - Len(b[l]) + j /\ Len(b[l]) \in Nat /\ Len(m[l]) \in Nat
          /\ Len(b[l]) <= Len(m[l]) /\ j \in 1 .. Len(b[l])
      BY <2>1 DEF Buffers
    <3> HIDE DEF n
    <3> QED BY <3>1
  <2>4. m2[l][n] = m[l][n]
    BY <2>3 DEF Follows
  <2>5. e.sync_clock \in Clocks
    BY <2>2 DEF Elements
  <2> HIDE DEF e, f, n
  <2>6. m[l][e.val][l] = e.val /\ Known(m, m[l][e.val]) /\ Covers(b, e.sync_clock, m[l][e.val], Loc \ {l})
    BY <2>2 DEF MessageOk
  <2>7. Known(m2, m[l][e.val])
    BY <2>6, KnownFollow, ZenonT(60)
  <2>8. Covers(b2, e.sync_clock, m[l][e.val], Loc \ {l})
    <3> DEFINE c == e.sync_clock
               w == m[l][e.val]
               L == Loc \ {l}
    <3>1. c \in Clocks /\ Known(m, w) /\ L \in SUBSET Loc /\ Covers(b, c, w, L)
      BY <2>5, <2>6
    <3> HIDE DEF c, w, L
    <3>2. Covers(b2, c, w, L)
      BY <3>1, CoversFollow
    <3> QED BY <3>2 DEF c, w, L
  <2>9. MessageOk(b2, m2, l, f)
    BY <2>2, <2>4, <2>6, <2>7, <2>8 DEF MessageOk, n
  <2> QED BY <2>9 DEF f
<1> QED BY <1>1, <1>2

(* What every step has to show, for its own thread t. *)
LEMMA StepKeeps ==
    ASSUME WInv, NEW t \in Thread, program' = program,
           NEW k \in ClockSets, clocks' = [clocks EXCEPT ![t] = k], ClockLeq(clocks[t].clock, k.clock),
           buffer' \in [Loc -> Seq(Elements)], message' \in [Loc -> Seq(Views)],
           Follows(buffer, message, buffer', message'), Buffers(buffer', message'),
           \A l \in Loc : \A i \in 1 .. Len(buffer'[l]) :
              buffer'[l][i].val > Len(message[l]) => MessageOk(buffer', message', l, buffer'[l][i]),
           \A l \in Loc : \A i \in 1 .. Len(buffer'[l]) :
              /\ buffer'[l][i].loads[t] <= k.clock[t]
              /\ \A u \in Thread \ {t} : buffer'[l][i].loads[u] <= clocks[u].clock[u],
           NEW v, NEW va, NEW vr, ThreadOk(buffer', message', k, v, va, vr),
           view' = [view EXCEPT ![t] = v], view_acquire' = [view_acquire EXCEPT ![t] = va],
           view_release' = [view_release EXCEPT ![t] = vr],
           last_sc_fence' \in Clocks, last_sc_write_per_thread' \in Clocks,
           ScOk(buffer', message', last_sc_fence', view_sc')
    PROVE  WInv'
<1>1. Shape /\ Buffers(buffer, message) /\ Messages(buffer, message)
  BY DEF WInv
<1>2. v \in Views /\ va \in Views /\ vr \in Views
  BY DEF ThreadOk, Known
<1>3. /\ clocks' \in [Thread -> ClockSets] /\ clocks'[t] = k /\ \A u \in Thread \ {t} : clocks'[u] = clocks[u]
  BY <1>1 DEF Shape
<1>4. /\ view' \in [Thread -> Views] /\ view'[t] = v /\ \A u \in Thread \ {t} : view'[u] = view[u]
      /\ view_acquire' \in [Thread -> Views] /\ view_acquire'[t] = va /\ \A u \in Thread \ {t} : view_acquire'[u] = view_acquire[u]
      /\ view_release' \in [Thread -> Views] /\ view_release'[t] = vr /\ \A u \in Thread \ {t} : view_release'[u] = view_release[u]
  BY <1>1, <1>2 DEF Shape
<1>5. Shape'
  BY <1>1, <1>3, <1>4 DEF Shape
<1>6. Messages(buffer', message')
  BY <1>1, MessagesFollow DEF Shape
<1>7. OwnLoads(buffer', clocks')
  <2> SUFFICES ASSUME NEW l \in Loc, NEW i \in 1 .. Len(buffer'[l]), NEW u \in Thread
               PROVE  buffer'[l][i].loads[u] <= clocks'[u].clock[u]
    BY DEF OwnLoads
  <2>1. CASE u = t
    BY <2>1, <1>3
  <2>2. CASE u # t
    BY <2>2, <1>3
  <2> QED BY <2>1, <2>2
<1>8. ASSUME NEW u \in Thread
      PROVE  ThreadOk(buffer', message', clocks'[u], view'[u], view_acquire'[u], view_release'[u])
  <2>1. CASE u = t
    BY <2>1, <1>3, <1>4
  <2>2. CASE u # t
    <3>1. ThreadOk(buffer, message, clocks[u], view[u], view_acquire[u], view_release[u]) /\ clocks[u] \in ClockSets
      BY <1>1 DEF WInv, Shape
    <3>2. ThreadOk(buffer', message', clocks[u], view[u], view_acquire[u], view_release[u])
      BY <3>1, <1>1, ThreadFollow DEF Shape
    <3> QED BY <3>2, <2>2, <1>3, <1>4
  <2> QED BY <2>1, <2>2
<1> QED BY <1>5, <1>6, <1>7, <1>8 DEF WInv

-----------------------------------------------------------------------------
(* A load. *)

(* p is the buffer b after thread t loaded element i at time k.            *)
Loaded(b, p, i, t, k) ==
    /\ p \in Seq(Elements) /\ Len(p) = Len(b)
    /\ \A j \in 1 .. Len(b) : /\ Heir(p[j], b[j]) /\ p[j].is_seqcst = b[j].is_seqcst
                              /\ \A u \in Thread \ {t} : p[j].loads[u] = b[j].loads[u]
                              /\ p[j].loads[t] = b[j].loads[t] \/ p[j].loads[t] = k.clock[t]
    /\ p[i].loads[t] \in 1 .. k.clock[t]

(* load_impl records the load, and nothing else. *)
LEMMA LoadImplShape ==
    ASSUME NEW b \in Seq(Elements), NEW i \in 1 .. Len(b), NEW t \in Thread, NEW k \in ClockSets, NEW sc \in BOOLEAN,
           b[i].loads[t] <= k.clock[t], k.clock[t] > 0, NEW p, p = LoadImpl(b, i, t, k, sc)
    PROVE  Loaded(b, p, i, t, k)
<1> DEFINE x == IF b[i].loads[t] = 0 THEN k.clock[t] ELSE b[i].loads[t]
           e == [b[i] EXCEPT !.sc_loaded = b[i].sc_loaded \/ sc, !.loads = [b[i].loads EXCEPT ![t] = x]]
<1>1. b[i] \in Elements /\ Len(b) \in Nat
  OBVIOUS
<1>2. b[i].loads \in Clocks /\ b[i].loads[t] \in Nat /\ k.clock[t] \in Nat /\ b[i].sc_loaded \in BOOLEAN
  BY <1>1 DEF Elements, ClockSets, Clocks
<1>3. x \in 1 .. k.clock[t] /\ x \in Nat /\ (b[i].loads[t] # 0 => x = b[i].loads[t])
      /\ (x = b[i].loads[t] \/ x = k.clock[t])
  BY <1>2
<1>4. p = [b EXCEPT ![i] = e]
  BY <1>1 DEF LoadImpl, Elements
<1> HIDE DEF x
<1>5. /\ [b[i].loads EXCEPT ![t] = x] \in Clocks /\ [b[i].loads EXCEPT ![t] = x][t] = x
      /\ \A u \in Thread \ {t} : [b[i].loads EXCEPT ![t] = x][u] = b[i].loads[u]
  BY <1>2, <1>3 DEF Clocks
<1>6. /\ e \in Elements /\ e.store_thread = b[i].store_thread /\ e.store_timestamp = b[i].store_timestamp
      /\ e.val = b[i].val /\ e.sync_clock = b[i].sync_clock /\ e.is_seqcst = b[i].is_seqcst
      /\ e.loads = [b[i].loads EXCEPT ![t] = x]
  BY <1>1, <1>2, <1>5 DEF Elements
<1> HIDE DEF e
<1>7. Heir(e, b[i])
  <2> SUFFICES ASSUME NEW u \in Thread, b[i].loads[u] # 0 PROVE e.loads[u] = b[i].loads[u]
    BY <1>6 DEF Heir
  <2> QED BY <1>3, <1>5, <1>6
<1>8. /\ [b EXCEPT ![i] = e] \in Seq(Elements) /\ Len([b EXCEPT ![i] = e]) = Len(b)
      /\ \A j \in 1 .. Len(b) : [b EXCEPT ![i] = e][j] = IF j = i THEN e ELSE b[j]
  BY <1>1, <1>6
<1>9. ASSUME NEW j \in 1 .. Len(b)
      PROVE  /\ Heir(p[j], b[j]) /\ p[j].is_seqcst = b[j].is_seqcst
             /\ \A u \in Thread \ {t} : p[j].loads[u] = b[j].loads[u]
             /\ p[j].loads[t] = b[j].loads[t] \/ p[j].loads[t] = k.clock[t]
  <2>1. CASE j = i
    <3>1. p[j] = e
      BY <2>1, <1>4, <1>8
    <3> QED BY <3>1, <2>1, <1>3, <1>5, <1>6, <1>7
  <2>2. CASE j # i
    <3>1. p[j] = b[j]
      BY <2>2, <1>4, <1>8
    <3> QED BY <3>1 DEF Heir
  <2> QED BY <2>1, <2>2
<1>10. p[i].loads[t] \in 1 .. k.clock[t]
  BY <1>3, <1>4, <1>5, <1>6, <1>8, ZenonT(60)
<1> QED BY <1>4, <1>8, <1>9, <1>10 DEF Loaded

LEMMA CoversSplit ==
    ASSUME NEW b, NEW c, NEW v, NEW l \in Loc, Covers(b, c, v, Loc \ {l}), Covers(b, c, v, {l})
    PROVE  Covers(b, c, v, Loc)
  BY DEF Covers

LEMMA CoversEither ==
    ASSUME NEW b, NEW c, NEW v \in Views, NEW w \in Views, Covers(b, c, v, Loc), Covers(b, c, w, Loc)
    PROVE  Covers(b, c, ViewJoin(v, w), Loc)
<1> DEFINE z == ViewJoin(v, w)
<1>1. \A l \in Loc : z[l] = v[l] \/ z[l] = w[l]
  BY ViewJoinShape
<1> HIDE DEF z
<1>2. Covers(b, c, z, Loc)
  BY <1>1 DEF Covers
<1> QED BY <1>2 DEF z

(* The parts of the invariant, with their types. *)
LEMMA Parts ==
    ASSUME WInv, NEW t \in Thread
    PROVE  /\ Shape /\ Buffers(buffer, message) /\ Messages(buffer, message)
           /\ ThreadOk(buffer, message, clocks[t], view[t], view_acquire[t], view_release[t])
           /\ ScOk(buffer, message, last_sc_fence, view_sc)
           /\ clocks[t] \in ClockSets /\ clocks[t].clock \in Clocks /\ clocks[t].fence_acquire \in Clocks
           /\ clocks[t].fence_release \in Clocks /\ clocks[t].write_seqcst \in Clocks /\ clocks[t].read_seqcst \in Clocks
           /\ view[t] \in Views /\ view_acquire[t] \in Views /\ view_release[t] \in Views
           /\ \A l \in Loc : \A i \in 1 .. Len(buffer[l]) : \A u \in Thread :
                 buffer[l][i].loads[u] \in Nat /\ buffer[l][i].loads[u] <= clocks[u].clock[u]
<1>1. Shape
  BY DEF WInv
<1>2. clocks[t] \in ClockSets /\ view[t] \in Views /\ view_acquire[t] \in Views /\ view_release[t] \in Views
  BY <1>1 DEF Shape
<1>3. \A l \in Loc : \A i \in 1 .. Len(buffer[l]) : \A u \in Thread : buffer[l][i].loads[u] \in Nat
  <2> SUFFICES ASSUME NEW l \in Loc, NEW i \in 1 .. Len(buffer[l]) PROVE \A u \in Thread : buffer[l][i].loads[u] \in Nat
    OBVIOUS
  <2>1. buffer[l] \in Seq(Elements)
    BY <1>1 DEF Shape
  <2>2. buffer[l][i] \in Elements
    BY <2>1
  <2> QED BY <2>2 DEF Elements, Clocks
<1> QED BY <1>1, <1>2, <1>3 DEF WInv, ClockSets, OwnLoads

(* Numbers tell the buffered stores of a location apart. *)
Distinct(b, m, l, i) ==
    /\ b[l][i].val \in 1 .. Len(m[l])
    /\ \A j \in 1 .. Len(b[l]) : b[l][j].val = b[l][i].val => j = i

LEMMA NumbersDiffer ==
    ASSUME NEW b \in [Loc -> Seq(Elements)], NEW m \in [Loc -> Seq(Views)], Buffers(b, m), NEW l \in Loc,
           NEW i \in 1 .. Len(b[l])
    PROVE  Distinct(b, m, l, i)
<1>1. /\ \A j \in 1 .. Len(b[l]) : b[l][j].val = Len(m[l]) - Len(b[l]) + j
      /\ Len(b[l]) \in Nat /\ Len(m[l]) \in Nat /\ Len(b[l]) <= Len(m[l])
  BY DEF Buffers
<1> QED BY <1>1 DEF Distinct

(* b are the buffers after thread t loaded element i of l at time k. *)
LoadDone(b, t, l, i, k) ==
    /\ b \in [Loc -> Seq(Elements)] /\ Follows(buffer, message, b, message) /\ Buffers(b, message)
    /\ (ScMarks(buffer) => ScMarks(b))
    /\ \A x \in Loc : \A j \in 1 .. Len(b[x]) :
          /\ ~(b[x][j].val > Len(message[x]))
          /\ b[x][j].loads[t] <= k.clock[t]
          /\ \A u \in Thread \ {t} : b[x][j].loads[u] <= clocks[u].clock[u]
    /\ \A c \in Clocks : \A w : ClockLeq(k.clock, c) /\ w[l] = buffer[l][i].val => Covers(b, c, w, {l})

(* A load that changes the clocks to k and records itself. *)
LEMMA LoadedBuffer ==
    ASSUME WInv, NEW t \in Thread, NEW l \in Loc, NEW i \in 1 .. Len(buffer[l]), NEW sc \in BOOLEAN,
           NEW k \in ClockSets, ClockLeq(clocks[t].clock, k.clock), k.clock[t] > 0,
           NEW b, b = [buffer EXCEPT ![l] = LoadImpl(buffer[l], i, t, k, sc)]
    PROVE  LoadDone(b, t, l, i, k)
<1> DEFINE p == LoadImpl(buffer[l], i, t, k, sc)
<1>1. /\ Shape /\ Buffers(buffer, message)
      /\ \A x \in Loc : \A j \in 1 .. Len(buffer[x]) : \A u \in Thread :
            buffer[x][j].loads[u] \in Nat /\ buffer[x][j].loads[u] <= clocks[u].clock[u]
  BY Parts
<1>2. buffer \in [Loc -> Seq(Elements)] /\ message \in [Loc -> Seq(Views)] /\ buffer[l] \in Seq(Elements)
  BY <1>1 DEF Shape
<1>3. clocks[t].clock[t] \in Nat /\ k.clock[t] \in Nat /\ clocks[t].clock[t] <= k.clock[t] /\ k.clock \in Clocks
  <2>1. clocks[t].clock \in Clocks /\ k.clock \in Clocks
    BY Parts DEF ClockSets
  <2> QED BY <2>1 DEF Clocks, ClockLeq
<1>4. \A x \in Loc : \A j \in 1 .. Len(buffer[x]) : buffer[x][j].loads[t] <= k.clock[t]
  BY <1>1, <1>3, SMTT(40)
<1>5. /\ p \in Seq(Elements) /\ Len(p) = Len(buffer[l])
      /\ \A j \in 1 .. Len(buffer[l]) :
            /\ Heir(p[j], buffer[l][j]) /\ p[j].is_seqcst = buffer[l][j].is_seqcst
            /\ \A u \in Thread \ {t} : p[j].loads[u] = buffer[l][j].loads[u]
            /\ p[j].loads[t] = buffer[l][j].loads[t] \/ p[j].loads[t] = k.clock[t]
      /\ p[i].loads[t] \in 1 .. k.clock[t]
  <2> DEFINE q == buffer[l]
  <2>1. q \in Seq(Elements) /\ i \in 1 .. Len(q) /\ q[i].loads[t] <= k.clock[t] /\ k.clock[t] > 0 /\ p = LoadImpl(q, i, t, k, sc)
    BY <1>2, <1>4
  <2> HIDE DEF q, p
  <2>2. Loaded(q, p, i, t, k)
    BY <2>1, LoadImplShape
  <2> QED BY <2>2 DEF q, Loaded
<1> HIDE DEF p
<1>6. b \in [Loc -> Seq(Elements)] /\ b[l] = p /\ \A x \in Loc \ {l} : b[x] = buffer[x]
  BY <1>2, <1>5 DEF p
<1>7. \A x \in Loc : Len(b[x]) = Len(buffer[x])
  BY <1>5, <1>6
<1>8. ASSUME NEW x \in Loc, NEW j \in 1 .. Len(buffer[x])
      PROVE  /\ Heir(b[x][j], buffer[x][j]) /\ b[x][j].is_seqcst = buffer[x][j].is_seqcst
             /\ \A u \in Thread \ {t} : b[x][j].loads[u] = buffer[x][j].loads[u]
             /\ b[x][j].loads[t] = buffer[x][j].loads[t] \/ b[x][j].loads[t] = k.clock[t]
  <2>1. CASE x = l
    BY <2>1, <1>5, <1>6
  <2>2. CASE x # l
    BY <2>2, <1>6 DEF Heir
  <2> QED BY <2>1, <2>2
<1>9. Follows(buffer, message, b, message)
  <2>1. \A x \in Loc : Len(message[x]) <= Len(message[x])
    <3> SUFFICES ASSUME NEW x \in Loc PROVE Len(message[x]) <= Len(message[x])
      OBVIOUS
    <3>1. Len(message[x]) \in Nat
      BY <1>2
    <3> QED BY <3>1
  <2>2. \A x \in Loc : \A j \in 1 .. Len(b[x]) : \E y \in 1 .. Len(buffer[x]) : Heir(b[x][j], buffer[x][y])
    BY <1>7, <1>8
  <2> QED BY <2>1, <2>2 DEF Follows
<1>10. Buffers(b, message)
  <2>1. \A x \in Loc : \A j \in 1 .. Len(buffer[x]) : b[x][j].val = buffer[x][j].val
    BY <1>8 DEF Heir
  <2> QED BY <2>1, <1>1, <1>7, ZenonT(60) DEF Buffers
<1>14. ASSUME NEW x \in Loc, NEW j \in 1 .. Len(b[x])
       PROVE  /\ b[x][j].val \in 1 .. Len(message[x])
              /\ \A y \in 1 .. Len(b[x]) : b[x][y].val = b[x][j].val => y = j
  <2> DEFINE m == message
  <2>1. m \in [Loc -> Seq(Views)] /\ b \in [Loc -> Seq(Elements)] /\ Buffers(b, m)
    BY <1>2, <1>6, <1>10
  <2> HIDE DEF m
  <2>2. Distinct(b, m, x, j)
    BY <2>1, NumbersDiffer
  <2> QED BY <2>2 DEF m, Distinct
<1>11. ASSUME NEW x \in Loc, NEW j \in 1 .. Len(b[x])
       PROVE  /\ ~(b[x][j].val > Len(message[x]))
              /\ b[x][j].loads[t] <= k.clock[t]
              /\ \A u \in Thread \ {t} : b[x][j].loads[u] <= clocks[u].clock[u]
  <2>1. b[x][j].val \in 1 .. Len(message[x]) /\ Len(message[x]) \in Nat
    BY <1>2, <1>14
  <2>2. j \in 1 .. Len(buffer[x])
    BY <1>7
  <2>3. b[x][j].loads[t] <= k.clock[t]
    BY <2>2, <1>3, <1>4, <1>8, SMTT(40)
  <2>4. \A u \in Thread \ {t} : b[x][j].loads[u] <= clocks[u].clock[u]
    BY <2>2, <1>1, <1>8
  <2> QED BY <2>1, <2>3, <2>4
<1>12. ASSUME NEW c \in Clocks, NEW w, ClockLeq(k.clock, c), w[l] = buffer[l][i].val
       PROVE  Covers(b, c, w, {l})
  <2> SUFFICES ASSUME NEW j \in 1 .. Len(b[l]), b[l][j].val = w[l] PROVE Happened(b[l][j], c)
    BY DEF Covers
  <2>1. i \in 1 .. Len(b[l]) /\ b[l][i].val = buffer[l][i].val
    BY <1>7, <1>8 DEF Heir
  <2>2. j = i
    BY <2>1, <1>12, <1>14, SMTT(40)
  <2>3. b[l][i].loads[t] \in 1 .. c[t]
    <3>1. b[l][i].loads[t] \in 1 .. k.clock[t]
      BY <1>5, <1>6
    <3>2. k.clock[t] <= c[t] /\ c[t] \in Nat
      BY <1>12 DEF ClockLeq, Clocks
    <3> QED BY <3>1, <3>2, <1>3, SMTT(40)
  <2> QED BY <2>2, <2>3 DEF Happened, SomeLoadIsBefore
<1>13. \A x \in Loc : \A j \in 1 .. Len(b[x]) :
          b[x][j].is_seqcst = buffer[x][j].is_seqcst /\ b[x][j].store_timestamp = buffer[x][j].store_timestamp
  BY <1>7, <1>8 DEF Heir
<1>15. ScMarks(buffer) => ScMarks(b)
  BY <1>7, <1>13, SMTT(40) DEF ScMarks
<1> QED BY <1>6, <1>9, <1>10, <1>11, <1>12, <1>15 DEF LoadDone

(* The views after a read of store n, as ViewRead sets them. *)
Seen(v, l, n) == [v EXCEPT ![l] = IF @ >= n THEN @ ELSE n]

LEMMA SeenShape ==
    ASSUME NEW v \in Views, NEW l \in Loc, NEW n \in Nat
    PROVE  /\ Seen(v, l, n) \in Views /\ (Seen(v, l, n)[l] = v[l] \/ Seen(v, l, n)[l] = n)
           /\ \A x \in Loc \ {l} : Seen(v, l, n)[x] = v[x]
  BY DEF Seen, Views

(* What a load from element i means for the clocks k it leaves behind:     *)
(* they cover what the store carries, now or after an acquire fence.       *)
LEMMA ReadCovers ==
    ASSUME WInv, NEW t \in Thread, NEW l \in Loc, NEW i \in 1 .. Len(buffer[l]), NEW sc \in BOOLEAN,
           NEW k \in ClockSets, ClockLeq(clocks[t].clock, k.clock), k.clock[t] > 0,
           NEW b, b = [buffer EXCEPT ![l] = LoadImpl(buffer[l], i, t, k, sc)],
           NEW c \in Clocks, ClockLeq(k.clock, c), ClockLeq(buffer[l][i].sync_clock, c)
    PROVE  LET n == buffer[l][i].val IN
           Covers(b, c, message[l][n], Loc) /\ Known(message, message[l][n]) /\ n \in 1 .. Len(message[l])
<1> DEFINE n == buffer[l][i].val
           w == message[l][n]
           s == buffer[l][i].sync_clock
           m == message
<1>1. Shape /\ Buffers(buffer, message) /\ Messages(buffer, message)
  BY Parts
<1>2. buffer \in [Loc -> Seq(Elements)] /\ m \in [Loc -> Seq(Views)] /\ buffer[l][i] \in Elements
  <2>1. buffer \in [Loc -> Seq(Elements)] /\ m \in [Loc -> Seq(Views)]
    BY <1>1 DEF Shape
  <2> QED BY <2>1
<1>3. s \in Clocks
  BY <1>2 DEF Elements
<1>4. w[l] = n /\ Known(m, w) /\ Covers(buffer, s, w, Loc \ {l})
  BY <1>1 DEF Messages, MessageOk
<1>5. Distinct(buffer, m, l, i)
  BY <1>1, <1>2, NumbersDiffer
<1>6. b \in [Loc -> Seq(Elements)] /\ Follows(buffer, message, b, message)
      /\ \A d \in Clocks : \A z : ClockLeq(k.clock, d) /\ z[l] = buffer[l][i].val => Covers(b, d, z, {l})
  <2>1. LoadDone(b, t, l, i, k)
    BY LoadedBuffer
  <2> QED BY <2>1 DEF LoadDone
<1>7. Covers(b, c, w, {l})
  BY <1>4, <1>6
<1> DEFINE L == Loc \ {l}
<1>8. ClockLeq(s, c) /\ Covers(buffer, s, w, L) /\ L \in SUBSET Loc /\ Follows(buffer, m, b, m)
  BY <1>4, <1>6
<1>9. n \in 1 .. Len(m[l])
  BY <1>5 DEF Distinct
<1> HIDE DEF n, w, s, L, m
<1>10. Covers(b, s, w, L)
  BY <1>2, <1>3, <1>4, <1>6, <1>8, CoversFollow
<1>11. Covers(b, c, w, L)
  BY <1>3, <1>6, <1>8, <1>10, CoversGrows
<1>12. Covers(b, c, w, Loc)
  BY <1>7, <1>11, CoversSplit DEF L
<1> QED BY <1>4, <1>9, <1>12 DEF n, w, m

(* read_scalar_atomic and a failed compare-exchange, once the clocks are   *)
(* known to be joined with what the store carries.                         *)
LEMMA ReadKeeps ==
    ASSUME WInv, NEW t \in Thread, NEW l \in Loc, NEW i \in 1 .. Len(buffer[l]), NEW sc \in BOOLEAN,
           NEW k \in ClockSets, NEW ord, program' = program,
           LET s == buffer[l][i].sync_clock IN
           IF Acquires(ord)
           THEN k.clock = ClockIncrement(ClockJoin(clocks[t].clock, s), t) /\ k.fence_acquire = clocks[t].fence_acquire
           ELSE k.clock = ClockIncrement(clocks[t].clock, t) /\ k.fence_acquire = ClockJoin(clocks[t].fence_acquire, s),
           k.fence_release = clocks[t].fence_release,
           clocks' = [clocks EXCEPT ![t] = k],
           buffer' = [buffer EXCEPT ![l] = LoadImpl(buffer[l], i, t, k, sc)],
           ViewRead(t, l, ord, Number(l, i)),
           UNCHANGED <<last_sc_fence, last_sc_write_per_thread, view_release, view_sc, message>>
    PROVE  WInv' /\ (ScMarks(buffer) => ScMarks(buffer'))
<1> DEFINE s == buffer[l][i].sync_clock
           n == buffer[l][i].val
           w == message[l][n]
           old == clocks[t]
           J == ClockJoin(k.clock, k.fence_acquire)
           v0 == Seen(view[t], l, n)
           b == buffer'
<1>1. /\ Shape /\ ThreadOk(buffer, message, old, view[t], view_acquire[t], view_release[t])
      /\ ScOk(buffer, message, last_sc_fence, view_sc)
      /\ old.clock \in Clocks /\ old.fence_acquire \in Clocks /\ old.fence_release \in Clocks
      /\ view[t] \in Views /\ view_acquire[t] \in Views /\ view_release[t] \in Views
  BY Parts
<1>2. buffer \in [Loc -> Seq(Elements)] /\ message \in [Loc -> Seq(Views)] /\ buffer[l][i] \in Elements
      /\ last_sc_fence \in Clocks /\ last_sc_write_per_thread \in Clocks
  <2>1. buffer \in [Loc -> Seq(Elements)] /\ message \in [Loc -> Seq(Views)]
        /\ last_sc_fence \in Clocks /\ last_sc_write_per_thread \in Clocks
    BY <1>1 DEF Shape
  <2> QED BY <2>1
<1>3. s \in Clocks /\ n \in Nat /\ k.clock \in Clocks /\ k.fence_acquire \in Clocks
  BY <1>2 DEF Elements, ClockSets
<1>4. J \in Clocks /\ ClockLeq(k.clock, J) /\ ClockLeq(k.fence_acquire, J)
  BY <1>3, JoinUp
<1>5. /\ ClockLeq(old.clock, k.clock) /\ k.clock[t] > 0 /\ ClockLeq(old.fence_acquire, k.fence_acquire)
      /\ (Acquires(ord) => ClockLeq(s, k.clock)) /\ (~Acquires(ord) => ClockLeq(s, k.fence_acquire))
  <2>0. old.clock[t] \in Nat /\ ClockJoin(old.clock, s) \in Clocks
    <3>1. ClockJoin(old.clock, s) \in Clocks
      BY <1>1, <1>3, JoinUp
    <3> QED BY <1>1, <3>1 DEF Clocks
  <2>1. CASE Acquires(ord)
    <3> DEFINE j == ClockJoin(old.clock, s)
    <3>1. j \in Clocks /\ ClockLeq(old.clock, j) /\ ClockLeq(s, j)
      BY <1>1, <1>3, JoinUp
    <3>2. k.clock = ClockIncrement(j, t) /\ k.fence_acquire = old.fence_acquire
      BY <2>1
    <3> HIDE DEF j
    <3>3. ClockLeq(j, k.clock) /\ k.clock[t] = j[t] + 1 /\ j[t] \in Nat
      BY <3>1, <3>2, TickUp DEF Clocks
    <3>4. ClockLeq(old.clock, k.clock) /\ ClockLeq(s, k.clock)
      BY <3>1, <3>3, <1>1, <1>3, LeqTransitive
    <3>5. ClockLeq(old.fence_acquire, old.fence_acquire)
      BY <1>1, LeqReflexive
    <3> QED BY <2>1, <3>2, <3>3, <3>4, <3>5
  <2>2. CASE ~Acquires(ord)
    <3>1. k.clock = ClockIncrement(old.clock, t) /\ k.fence_acquire = ClockJoin(old.fence_acquire, s)
      BY <2>2
    <3>2. ClockLeq(old.clock, k.clock) /\ k.clock[t] = old.clock[t] + 1
      BY <3>1, <1>1, TickUp
    <3>3. ClockLeq(old.fence_acquire, k.fence_acquire) /\ ClockLeq(s, k.fence_acquire)
      BY <3>1, <1>1, <1>3, JoinUp
    <3> QED BY <2>0, <2>2, <3>2, <3>3
  <2> QED BY <2>1, <2>2
<1>6. /\ b \in [Loc -> Seq(Elements)] /\ Follows(buffer, message, b, message) /\ Buffers(b, message)
      /\ \A x \in Loc : \A j \in 1 .. Len(b[x]) :
            /\ ~(b[x][j].val > Len(message[x]))
            /\ b[x][j].loads[t] <= k.clock[t]
            /\ \A u \in Thread \ {t} : b[x][j].loads[u] <= clocks[u].clock[u]
      /\ \A c \in Clocks : \A z : ClockLeq(k.clock, c) /\ z[l] = n => Covers(b, c, z, {l})
      /\ (ScMarks(buffer) => ScMarks(b))
  <2>1. LoadDone(b, t, l, i, k)
    BY <1>5, LoadedBuffer
  <2> QED BY <2>1 DEF LoadDone
<1> SUFFICES WInv'
  BY <1>6
<1>7. ASSUME NEW c \in Clocks, ClockLeq(k.clock, c), ClockLeq(s, c)
      PROVE  Covers(b, c, w, Loc) /\ Known(message, w)
  BY <1>5, <1>7, ReadCovers
<1>8. n \in 1 .. Len(message[l]) /\ w \in Views /\ Known(message, w)
  <2>1. ClockJoin(k.clock, s) \in Clocks /\ ClockLeq(k.clock, ClockJoin(k.clock, s)) /\ ClockLeq(s, ClockJoin(k.clock, s))
    BY <1>3, JoinUp
  <2>2. Known(message, w)
    BY <2>1, <1>7
  <2>3. Distinct(buffer, message, l, i)
    BY <1>1, <1>2, NumbersDiffer DEF WInv
  <2> QED BY <2>2, <2>3 DEF Known, Distinct
<1> HIDE DEF b
<1>9. ThreadOk(b, message, old, view[t], view_acquire[t], view_release[t])
  <2>1. old \in ClockSets
    BY Parts
  <2> QED BY <2>1, <1>1, <1>2, <1>6, ThreadFollow
<1>10. v0 \in Views /\ Known(message, v0) /\ Covers(b, k.clock, v0, Loc)
  <2>1. v0 \in Views /\ (v0[l] = view[t][l] \/ v0[l] = n) /\ \A x \in Loc \ {l} : v0[x] = view[t][x]
    BY <1>1, <1>3, SeenShape
  <2>2. Covers(b, k.clock, view[t], Loc)
    <3>1. Covers(b, old.clock, view[t], Loc) /\ Loc \in SUBSET Loc
      BY <1>9 DEF ThreadOk
    <3> QED BY <3>1, <1>1, <1>3, <1>5, <1>6, CoversGrows
  <2> HIDE DEF v0, n
  <2>3. Covers(b, k.clock, v0, Loc \ {l})
    BY <2>1, <2>2 DEF Covers
  <2>4. Covers(b, k.clock, v0, {l})
    <3>1. CASE v0[l] = view[t][l]
      BY <3>1, <2>2 DEF Covers
    <3>2. CASE v0[l] = n
      <4>1. ClockLeq(k.clock, k.clock)
        BY <1>3 DEF ClockLeq, Clocks
      <4> QED BY <4>1, <3>2, <1>3, <1>6
    <3> QED BY <3>1, <3>2, <2>1
  <2>5. Known(message, v0)
    <3>1. Known(message, view[t]) /\ n <= Len(message[l])
      BY <1>1, <1>8 DEF ThreadOk
    <3> QED BY <3>1, <2>1 DEF Known
  <2> QED BY <2>1, <2>3, <2>4, <2>5, CoversSplit
<1>11. Covers(b, J, view_acquire[t], Loc) /\ Known(message, view_acquire[t])
  <2> DEFINE I == ClockJoin(old.clock, old.fence_acquire)
  <2>1. I \in Clocks /\ ClockLeq(I, J)
    BY <1>1, <1>3, <1>5, JoinUp, JoinMonotone
  <2>2. Covers(b, I, view_acquire[t], Loc) /\ Loc \in SUBSET Loc /\ Known(message, view_acquire[t])
    BY <1>9 DEF ThreadOk
  <2> HIDE DEF I, J
  <2> QED BY <2>1, <2>2, <1>4, <1>6, CoversGrows
<1>12. Covers(b, k.fence_release, view_release[t], Loc) /\ Known(message, view_release[t])
  BY <1>9 DEF ThreadOk
<1>13. ScOk(b, message, last_sc_fence, view_sc)
  <2>1. Covers(buffer, last_sc_fence, view_sc, Loc) /\ Known(message, view_sc) /\ Loc \in SUBSET Loc
    BY <1>1 DEF ScOk
  <2>2. Covers(b, last_sc_fence, view_sc, Loc)
    BY <2>1, <1>2, <1>6, CoversFollow
  <2> QED BY <2>1, <2>2 DEF ScOk
<1>14. ASSUME NEW v, NEW va, ThreadOk(b, message, k, v, va, view_release[t]),
              view' = [view EXCEPT ![t] = v], view_acquire' = [view_acquire EXCEPT ![t] = va]
       PROVE  WInv'
  <2> DEFINE vr == view_release[t]
  <2>1. view_release' = [view_release EXCEPT ![t] = vr] /\ message' = message /\ last_sc_fence' = last_sc_fence
        /\ last_sc_write_per_thread' = last_sc_write_per_thread /\ view_sc' = view_sc /\ b = buffer'
    BY <1>1 DEF Shape, b
  <2>2. ThreadOk(buffer', message', k, v, va, vr) /\ ScOk(buffer', message', last_sc_fence', view_sc')
    BY <2>1, <1>13, <1>14
  <2>3. /\ buffer' \in [Loc -> Seq(Elements)] /\ message' \in [Loc -> Seq(Views)]
        /\ Follows(buffer, message, buffer', message') /\ Buffers(buffer', message')
        /\ last_sc_fence' \in Clocks /\ last_sc_write_per_thread' \in Clocks
    BY <2>1, <1>2, <1>6
  <2>4. \A x \in Loc : \A j \in 1 .. Len(buffer'[x]) :
          /\ buffer'[x][j].loads[t] <= k.clock[t]
          /\ \A u \in Thread \ {t} : buffer'[x][j].loads[u] <= clocks[u].clock[u]
    BY <2>1, <1>6
  <2>5. \A x \in Loc : \A j \in 1 .. Len(buffer'[x]) :
          buffer'[x][j].val > Len(message[x]) => MessageOk(buffer', message', x, buffer'[x][j])
    BY <2>1, <1>6
  <2> HIDE DEF vr
  <2> QED BY <2>1, <2>2, <2>3, <2>4, <2>5, <1>5, <1>14, StepKeeps
<1>15. CASE Acquires(ord)
  <2> DEFINE v == ViewJoin(v0, w)
  <2>1. view' = [view EXCEPT ![t] = v] /\ view_acquire' = view_acquire
    BY <1>15 DEF ViewRead, Number, Seen
  <2>2. view_acquire' = [view_acquire EXCEPT ![t] = view_acquire[t]]
    BY <2>1, <1>1 DEF Shape
  <2>3. Covers(b, k.clock, w, Loc)
    <3>1. ClockLeq(k.clock, k.clock) /\ ClockLeq(s, k.clock)
      BY <1>3, <1>5, <1>15 DEF ClockLeq, Clocks
    <3> QED BY <3>1, <1>3, <1>7
  <2> HIDE DEF v0, w, J
  <2>4. Covers(b, k.clock, v, Loc) /\ Known(message, v)
    BY <2>3, <1>8, <1>10, CoversEither, KnownJoin
  <2>5. ThreadOk(b, message, k, v, view_acquire[t], view_release[t])
    BY <2>4, <1>11, <1>12 DEF ThreadOk, J
  <2> QED BY <2>1, <2>2, <2>5, <1>14
<1>16. CASE ~Acquires(ord)
  <2> DEFINE va == ViewJoin(view_acquire[t], w)
  <2>1. view' = [view EXCEPT ![t] = v0] /\ view_acquire' = [view_acquire EXCEPT ![t] = va]
    BY <1>16 DEF ViewRead, Number, Seen
  <2>3. Covers(b, J, w, Loc)
    <3>1. ClockLeq(s, J)
      BY <1>3, <1>4, <1>5, <1>16, LeqTransitive
    <3> QED BY <3>1, <1>4, <1>7
  <2> HIDE DEF v0, w, J
  <2>4. Covers(b, J, va, Loc) /\ Known(message, va)
    BY <2>3, <1>1, <1>8, <1>11, CoversEither, KnownJoin
  <2>5. ThreadOk(b, message, k, v0, va, view_release[t])
    BY <2>4, <1>10, <1>12 DEF ThreadOk, J
  <2> QED BY <2>1, <2>5, <1>14
<1> QED BY <1>15, <1>16

(* The clocks r after a load, joined with the clock s of the store. *)
ReadClocks(k, r, t, ord, s) ==
    /\ r \in ClockSets /\ r.fence_release = k.fence_release
    /\ IF Acquires(ord)
       THEN r.clock = ClockIncrement(ClockJoin(k.clock, s), t) /\ r.fence_acquire = k.fence_acquire
       ELSE r.clock = ClockIncrement(k.clock, t) /\ r.fence_acquire = ClockJoin(k.fence_acquire, s)

LEMMA LoadClocks ==
    ASSUME NEW k \in ClockSets, NEW t \in Thread, NEW ord, NEW s \in Clocks, NEW last \in Clocks, NEW sc \in BOOLEAN,
           ord = "Relaxed" <=> ~Acquires(ord),
           NEW r, r = ValidateLoad(ScRead(k, last, sc), t, ord, s) \/ r = ScRead(ValidateLoad(k, t, ord, s), last, sc)
    PROVE  ReadClocks(k, r, t, ord, s)
<1> DEFINE c == IF Acquires(ord) THEN ClockIncrement(ClockJoin(k.clock, s), t) ELSE ClockIncrement(k.clock, t)
           f == IF Acquires(ord) THEN k.fence_acquire ELSE ClockJoin(k.fence_acquire, s)
           d == IF sc THEN ClockJoin(k.read_seqcst, last) ELSE k.read_seqcst
<1>1. k.clock \in Clocks /\ k.fence_acquire \in Clocks /\ k.read_seqcst \in Clocks
  BY DEF ClockSets
<1>2. c \in Clocks /\ f \in Clocks /\ d \in Clocks
  <2>1. ClockJoin(k.clock, s) \in Clocks /\ ClockJoin(k.fence_acquire, s) \in Clocks /\ ClockJoin(k.read_seqcst, last) \in Clocks
    BY <1>1, JoinUp
  <2>2. \A a \in Clocks : ClockIncrement(a, t) \in Clocks
    BY TickUp
  <2> QED BY <1>1, <2>1, <2>2
<1>3. r = [k EXCEPT !.clock = c, !.fence_acquire = f, !.read_seqcst = d]
  <2>1. CASE Acquires(ord) /\ sc
    BY <2>1 DEF ValidateLoad, ScRead, LoadAcquire, Tick, ClockSets
  <2>2. CASE Acquires(ord) /\ ~sc
    BY <2>2 DEF ValidateLoad, ScRead, LoadAcquire, Tick, ClockSets
  <2>3. CASE ~Acquires(ord) /\ sc
    BY <2>3 DEF ValidateLoad, ScRead, LoadRelaxed, Tick, ClockSets
  <2>4. CASE ~Acquires(ord) /\ ~sc
    BY <2>4 DEF ValidateLoad, ScRead, LoadRelaxed, Tick, ClockSets
  <2> QED BY <2>1, <2>2, <2>3, <2>4
<1> HIDE DEF c, f, d
<1>4. r \in ClockSets /\ r.fence_release = k.fence_release /\ r.clock = c /\ r.fence_acquire = f
  BY <1>2, <1>3 DEF ClockSets
<1> QED BY <1>4 DEF c, f, ReadClocks

LEMMA LoadOrders ==
    ASSUME WInv, NEW ord \in program.loads
    PROVE  ord = "Relaxed" <=> ~Acquires(ord)
<1>1. ord \in {"Relaxed", "Acquire", "SeqCst"}
  BY WeakMemoryAssumption DEF WInv, Shape, Program
<1> QED BY <1>1 DEF Acquires

LEMMA LoadKeeps ==
    ASSUME WInv, NEW t \in Thread, NEW l \in Loc, NEW ord \in program.loads,
           Load(t, l, ord) \/ CompareExchangeFails(t, l, ord)
    PROVE  WInv' /\ program' = program /\ (ScMarks(buffer) => ScMarks(buffer'))
<1> DEFINE sc == ord = "SeqCst"
           last == Len(buffer[l])
<1>1. /\ Shape /\ Buffers(buffer, message) /\ clocks[t] \in ClockSets /\ (ord = "Relaxed" <=> ~Acquires(ord))
  BY Parts, LoadOrders
<1>2. /\ buffer \in [Loc -> Seq(Elements)] /\ last_sc_fence \in Clocks /\ last \in 1 .. Len(buffer[l])
      /\ \A i \in 1 .. Len(buffer[l]) : buffer[l][i].sync_clock \in Clocks
  <2>1. buffer \in [Loc -> Seq(Elements)] /\ last_sc_fence \in Clocks
    BY <1>1 DEF Shape
  <2>2. \A i \in 1 .. Len(buffer[l]) : buffer[l][i] \in Elements
    BY <2>1
  <2>3. Len(buffer[l]) \in Nat /\ Len(buffer[l]) \in 1 .. StoreBufferLimit
    BY <1>1, <2>1 DEF Buffers
  <2>4. last \in 1 .. Len(buffer[l])
    BY <2>3
  <2>5. \A i \in 1 .. Len(buffer[l]) : buffer[l][i].sync_clock \in Clocks
    BY <2>2 DEF Elements
  <2> QED BY <2>1, <2>4, <2>5
<1>r. PICK i \in 1 .. Len(buffer[l]) :
      \E k :
        /\ \/ k = ValidateLoad(ScRead(clocks[t], last_sc_fence, sc), t, ord, buffer[l][i].sync_clock)
           \/ k = ScRead(ValidateLoad(clocks[t], t, ord, buffer[l][i].sync_clock), last_sc_fence, sc)
        /\ clocks' = [clocks EXCEPT ![t] = k]
        /\ buffer' = [buffer EXCEPT ![l] = LoadImpl(buffer[l], i, t, k, sc)]
        /\ ViewRead(t, l, ord, Number(l, i))
  <2>1. CASE Load(t, l, ord)
    BY <2>1 DEF Load, Candidates
  <2>2. CASE CompareExchangeFails(t, l, ord)
    <3> DEFINE k == ScRead(ValidateLoad(clocks[t], t, ord, buffer[l][last].sync_clock), last_sc_fence, sc)
    <3>1. /\ clocks' = [clocks EXCEPT ![t] = k] /\ buffer' = [buffer EXCEPT ![l] = LoadImpl(buffer[l], last, t, k, sc)]
          /\ ViewRead(t, l, ord, Number(l, last))
      BY <2>2 DEF CompareExchangeFails
    <3> QED BY <3>1, <1>2
  <2> QED BY <2>1, <2>2
<1>3. PICK k :
        /\ \/ k = ValidateLoad(ScRead(clocks[t], last_sc_fence, sc), t, ord, buffer[l][i].sync_clock)
           \/ k = ScRead(ValidateLoad(clocks[t], t, ord, buffer[l][i].sync_clock), last_sc_fence, sc)
        /\ clocks' = [clocks EXCEPT ![t] = k]
        /\ buffer' = [buffer EXCEPT ![l] = LoadImpl(buffer[l], i, t, k, sc)]
        /\ ViewRead(t, l, ord, Number(l, i))
  BY <1>r
<1>4. program' = program /\ UNCHANGED <<last_sc_fence, last_sc_write_per_thread, view_release, view_sc, message>>
  BY DEF Load, CompareExchangeFails, Step
<1> DEFINE s == buffer[l][i].sync_clock
<1>5. s \in Clocks /\ sc \in BOOLEAN
  BY <1>2
<1>6. /\ k \in ClockSets /\ k.fence_release = clocks[t].fence_release
      /\ IF Acquires(ord)
         THEN k.clock = ClockIncrement(ClockJoin(clocks[t].clock, s), t) /\ k.fence_acquire = clocks[t].fence_acquire
         ELSE k.clock = ClockIncrement(clocks[t].clock, t) /\ k.fence_acquire = ClockJoin(clocks[t].fence_acquire, s)
  <2> DEFINE old == clocks[t]
             f == last_sc_fence
  <2>1. /\ old \in ClockSets /\ f \in Clocks
        /\ k = ValidateLoad(ScRead(old, f, sc), t, ord, s) \/ k = ScRead(ValidateLoad(old, t, ord, s), f, sc)
    BY <1>1, <1>2, <1>3
  <2> HIDE DEF old, f, s, sc
  <2>2. ReadClocks(old, k, t, ord, s)
    BY <2>1, <1>1, <1>5, LoadClocks
  <2> QED BY <2>2 DEF old, ReadClocks
<1> HIDE DEF sc
<1> QED BY <1>3, <1>4, <1>5, <1>6, ReadKeeps

-----------------------------------------------------------------------------
(* A store. *)

(* p is the buffer b with a store of thread t at time ts pushed. *)
Pushed(b, p, t, ts, sc, sync, n) ==
    /\ p \in Seq(Elements) /\ Len(p) \in 1 .. StoreBufferLimit /\ Len(p) <= Len(b) + 1
    /\ \A j \in 1 .. Len(p) - 1 :
          /\ j + (Len(b) + 1 - Len(p)) \in 1 .. Len(b)
          /\ Heir(p[j], b[j + (Len(b) + 1 - Len(p))])
          /\ p[j].loads = b[j + (Len(b) + 1 - Len(p))].loads
          /\ b[j + (Len(b) + 1 - Len(p))].is_seqcst => p[j].is_seqcst
          /\ sc /\ b[j + (Len(b) + 1 - Len(p))].store_timestamp = 0 => p[j].is_seqcst
    /\ p[Len(p)].store_thread = t /\ p[Len(p)].store_timestamp = ts /\ p[Len(p)].sync_clock = sync
    /\ p[Len(p)].val = n /\ p[Len(p)].loads = ZeroClock /\ (sc => p[Len(p)].is_seqcst)

LEMMA KeptShape ==
    ASSUME NEW b \in Seq(Elements), Len(b) \in 1 .. StoreBufferLimit, NEW q, q = Kept(b)
    PROVE  /\ q \in Seq(Elements) /\ Len(q) \in 0 .. StoreBufferLimit - 1 /\ Len(q) <= Len(b)
           /\ \A j \in 1 .. Len(q) : j + (Len(b) - Len(q)) \in 1 .. Len(b) /\ q[j] = b[j + (Len(b) - Len(q))]
<1>1. b # <<>> /\ StoreBufferLimit \in Nat \ {0} /\ Len(b) \in Nat
  BY StoreBufferAssumption
<1>2. CASE Len(b) >= StoreBufferLimit
  <2>1. q = Tail(b)
    BY <1>2 DEF Kept
  <2>2. q \in Seq(Elements) /\ Len(q) = Len(b) - 1 /\ \A j \in 1 .. Len(q) : q[j] = b[j + 1]
    BY <1>1, <2>1
  <2> QED BY <1>1, <1>2, <2>2
<1>3. CASE ~(Len(b) >= StoreBufferLimit)
  <2>1. q = b
    BY <1>3 DEF Kept
  <2> QED BY <1>1, <1>3, <2>1
<1> QED BY <1>2, <1>3

LEMMA PushShape ==
    ASSUME NEW b \in Seq(Elements), Len(b) \in 1 .. StoreBufferLimit, NEW t \in Thread, NEW k \in ClockSets,
           NEW sc \in BOOLEAN, NEW sync \in Clocks, NEW n \in Nat,
           NEW p, p = StoreImpl(b, t, k, sc, sync, n)
    PROVE  Pushed(b, p, t, k.clock[t], sc, sync, n)
<1> DEFINE q == Kept(b)
           e == Element(t, k.clock[t], sync, sc, n)
           a == Append(q, e)
<1>1. /\ q \in Seq(Elements) /\ Len(q) \in 0 .. StoreBufferLimit - 1 /\ Len(q) <= Len(b)
      /\ \A j \in 1 .. Len(q) : j + (Len(b) - Len(q)) \in 1 .. Len(b) /\ q[j] = b[j + (Len(b) - Len(q))]
  BY KeptShape
<1>2. k.clock \in Clocks /\ k.clock[t] \in Nat /\ ZeroClock \in Clocks /\ StoreBufferLimit \in Nat
  BY StoreBufferAssumption DEF ClockSets, Clocks, ZeroClock
<1>3. /\ e \in Elements /\ e.store_thread = t /\ e.store_timestamp = k.clock[t] /\ e.sync_clock = sync
      /\ e.val = n /\ e.loads = ZeroClock /\ e.is_seqcst = sc
  BY <1>2 DEF Element, Elements
<1>4. p = IF sc THEN Marked(a, k.clock) ELSE a
  BY DEF StoreImpl
<1> HIDE DEF q, e
<1>5. a \in Seq(Elements) /\ Len(a) = Len(q) + 1 /\ a[Len(q) + 1] = e /\ \A j \in 1 .. Len(q) : a[j] = q[j]
  BY <1>1, <1>3
<1> HIDE DEF a
<1>6. Len(a) \in 1 .. StoreBufferLimit /\ Len(a) <= Len(b) + 1 /\ Len(b) \in Nat /\ Len(a) \in Nat
  BY <1>1, <1>2, <1>5
<1>7. /\ p \in Seq(Elements) /\ Len(p) = Len(a)
      /\ \A j \in 1 .. Len(a) :
            /\ Heir(p[j], a[j]) /\ p[j].loads = a[j].loads /\ (a[j].is_seqcst => p[j].is_seqcst)
            /\ (sc /\ a[j].store_timestamp = 0 => p[j].is_seqcst)
  <2>1. CASE ~sc
    <3>1. p = a
      BY <2>1, <1>4
    <3> QED BY <2>1, <3>1, <1>5 DEF Heir
  <2>2. CASE sc
    <3> DEFINE g(j) == [a[j] EXCEPT !.is_seqcst = \/ a[j].is_seqcst
                                                  \/ a[j].store_timestamp <= k.clock[a[j].store_thread]
                                                  \/ SomeLoadIsBefore(a[j], k.clock)]
    <3>1. p = [j \in 1 .. Len(a) |-> g(j)]
      BY <2>2, <1>4, <1>5 DEF Marked, Elements
    <3>2. ASSUME NEW j \in 1 .. Len(a)
          PROVE  /\ g(j) \in Elements /\ Heir(g(j), a[j]) /\ g(j).loads = a[j].loads
                 /\ (a[j].is_seqcst => g(j).is_seqcst) /\ (a[j].store_timestamp = 0 => g(j).is_seqcst)
      <4>1. a[j] \in Elements
        BY <1>5
      <4>2. k.clock[a[j].store_thread] \in Nat /\ a[j].is_seqcst \in BOOLEAN
        BY <4>1, <1>2 DEF Elements, Clocks
      <4>3. SomeLoadIsBefore(a[j], k.clock) \in BOOLEAN
        BY DEF SomeLoadIsBefore
      <4> DEFINE x == \/ a[j].is_seqcst
                      \/ a[j].store_timestamp <= k.clock[a[j].store_thread]
                      \/ SomeLoadIsBefore(a[j], k.clock)
      <4>4. x \in BOOLEAN /\ (a[j].is_seqcst => x) /\ (a[j].store_timestamp = 0 => x)
        BY <4>2, <4>3
      <4>5. g(j) = [a[j] EXCEPT !.is_seqcst = x]
        OBVIOUS
      <4> HIDE DEF x, g
      <4> QED BY <4>1, <4>4, <4>5 DEF Elements, Heir
    <3> HIDE DEF g
    <3>3. p \in Seq(Elements) /\ Len(p) = Len(a) /\ \A j \in 1 .. Len(a) : p[j] = g(j)
      BY <3>1, <3>2, <1>6
    <3> QED BY <2>2, <3>2, <3>3
  <2> QED BY <2>1, <2>2
<1>8. ASSUME NEW j \in 1 .. Len(p) - 1
      PROVE  /\ j + (Len(b) + 1 - Len(p)) \in 1 .. Len(b)
             /\ Heir(p[j], b[j + (Len(b) + 1 - Len(p))])
             /\ p[j].loads = b[j + (Len(b) + 1 - Len(p))].loads
             /\ (b[j + (Len(b) + 1 - Len(p))].is_seqcst => p[j].is_seqcst)
             /\ (sc /\ b[j + (Len(b) + 1 - Len(p))].store_timestamp = 0 => p[j].is_seqcst)
  <2>1. j \in 1 .. Len(q) /\ j \in 1 .. Len(a) /\ Len(b) + 1 - Len(p) = Len(b) - Len(q)
    BY <1>1, <1>5, <1>6, <1>7
  <2>2. a[j] = b[j + (Len(b) - Len(q))] /\ j + (Len(b) - Len(q)) \in 1 .. Len(b)
    BY <2>1, <1>1, <1>5
  <2> QED BY <2>1, <2>2, <1>7
<1>9. Len(a) \in 1 .. Len(a) /\ a[Len(a)] = e
  BY <1>5, <1>6
<1>10. Heir(p[Len(p)], e) /\ p[Len(p)].loads = e.loads /\ (e.is_seqcst => p[Len(p)].is_seqcst)
  BY <1>7, <1>9
<1> QED BY <1>3, <1>6, <1>7, <1>8, <1>10 DEF Pushed, Heir

LEMMA HeirTransitive ==
    ASSUME NEW e \in Elements, NEW f \in Elements, NEW g \in Elements, Heir(f, e), Heir(g, f)
    PROVE  Heir(g, e)
<1>1. \A u \in Thread : e.loads[u] # 0 => g.loads[u] = e.loads[u]
  BY DEF Heir
<1> QED BY <1>1 DEF Heir

LEMMA FollowsTransitive ==
    ASSUME NEW b \in [Loc -> Seq(Elements)], NEW b0 \in [Loc -> Seq(Elements)], NEW b2 \in [Loc -> Seq(Elements)],
           NEW m \in [Loc -> Seq(Views)], NEW m2 \in [Loc -> Seq(Views)],
           Follows(b, m, b0, m), Follows(b0, m, b2, m2)
    PROVE  Follows(b, m, b2, m2)
<1>1. ASSUME NEW x \in Loc, NEW i \in 1 .. Len(b2[x]), ~(b2[x][i].val > Len(m[x]))
      PROVE  \E j \in 1 .. Len(b[x]) : Heir(b2[x][i], b[x][j])
  <2>1. PICK j \in 1 .. Len(b0[x]) : Heir(b2[x][i], b0[x][j])
    BY <1>1 DEF Follows
  <2>2. ~(b0[x][j].val > Len(m[x]))
    BY <1>1, <2>1 DEF Heir
  <2>3. PICK y \in 1 .. Len(b[x]) : Heir(b0[x][j], b[x][y])
    BY <2>2 DEF Follows
  <2>4. b[x][y] \in Elements /\ b0[x][j] \in Elements /\ b2[x][i] \in Elements
    OBVIOUS
  <2>5. Heir(b2[x][i], b[x][y])
    BY <2>1, <2>3, <2>4, HeirTransitive, SMTT(40)
  <2> QED BY <2>5
<1> QED BY <1>1 DEF Follows

(* The buffers b0 onto which thread t pushes: those of the state, but for  *)
(* a load that the same operation recorded.                                *)
Ready(b0, t, k) ==
    /\ b0 \in [Loc -> Seq(Elements)] /\ Follows(buffer, message, b0, message) /\ Buffers(b0, message)
    /\ (ScMarks(buffer) => ScMarks(b0))
    /\ \A x \in Loc : \A j \in 1 .. Len(b0[x]) :
          /\ b0[x][j].loads[t] <= k.clock[t]
          /\ \A u \in Thread \ {t} : b0[x][j].loads[u] <= clocks[u].clock[u]

(* b and m are the buffers and the messages after the push of store        *)
(* Len(message[l]) + 1, which carries w.                                   *)
PushDone(b0, b, m, t, l, k, sync, w) ==
    /\ b \in [Loc -> Seq(Elements)] /\ m \in [Loc -> Seq(Views)]
    /\ Follows(b0, message, b, m) /\ Buffers(b, m)
    /\ \A x \in Loc : \A j \in 1 .. Len(b[x]) :
          b[x][j].val > Len(message[x]) =>
              x = l /\ b[x][j].sync_clock = sync /\ m[l][b[x][j].val] = w /\ b[x][j].val = Len(message[l]) + 1
    /\ \A x \in Loc : \A j \in 1 .. Len(b[x]) :
          /\ b[x][j].loads[t] <= k.clock[t]
          /\ \A u \in Thread \ {t} : b[x][j].loads[u] <= clocks[u].clock[u]
    /\ \A c \in Clocks : \A z : ClockLeq(k.clock, c) /\ z[l] = Len(message[l]) + 1 => Covers(b, c, z, {l})
    /\ Len(m[l]) = Len(message[l]) + 1

LEMMA PushedBuffer ==
    ASSUME WInv, NEW t \in Thread, NEW l \in Loc, NEW k \in ClockSets, NEW b0, Ready(b0, t, k), NEW sc \in BOOLEAN,
           NEW sync \in Clocks, NEW w \in Views, NEW p, Pushed(b0[l], p, t, k.clock[t], sc, sync, Len(message[l]) + 1),
           NEW b, b = [b0 EXCEPT ![l] = p], NEW m, m = [message EXCEPT ![l] = Append(message[l], w)]
    PROVE  PushDone(b0, b, m, t, l, k, sync, w)
<1> DEFINE q == b0[l]
           n == Len(message[l]) + 1
           d == Len(q) + 1 - Len(p)
<1>1. Shape
  BY Parts
<1>2. /\ message \in [Loc -> Seq(Views)] /\ message[l] \in Seq(Views) /\ Len(message[l]) \in Nat
      /\ b0 \in [Loc -> Seq(Elements)] /\ q \in Seq(Elements) /\ Len(q) \in Nat
  BY <1>1 DEF Shape, Ready
<1>3. /\ p \in Seq(Elements) /\ Len(p) \in 1 .. StoreBufferLimit /\ Len(p) <= Len(q) + 1 /\ Len(p) \in Nat
      /\ \A j \in 1 .. Len(p) - 1 : j + d \in 1 .. Len(q) /\ Heir(p[j], q[j + d]) /\ p[j].loads = q[j + d].loads
      /\ p[Len(p)].store_thread = t /\ p[Len(p)].store_timestamp = k.clock[t] /\ p[Len(p)].sync_clock = sync
      /\ p[Len(p)].val = n /\ p[Len(p)].loads = ZeroClock
  BY DEF Pushed
<1>4. b \in [Loc -> Seq(Elements)] /\ b[l] = p /\ \A x \in Loc \ {l} : b[x] = b0[x]
  BY <1>2, <1>3
<1>5. /\ m \in [Loc -> Seq(Views)] /\ Len(m[l]) = n /\ m[l][n] = w
      /\ \A j \in 1 .. Len(message[l]) : m[l][j] = message[l][j]
      /\ \A x \in Loc \ {l} : m[x] = message[x]
  BY <1>2
<1>6. /\ Len(q) \in 1 .. StoreBufferLimit /\ Len(q) <= Len(message[l])
      /\ \A j \in 1 .. Len(q) : q[j].val = Len(message[l]) - Len(q) + j
  BY DEF Ready, Buffers
<1>7. \A j \in 1 .. Len(p) : p[j].val = n - Len(p) + j
  <2> SUFFICES ASSUME NEW j \in 1 .. Len(p) PROVE p[j].val = n - Len(p) + j
    OBVIOUS
  <2>1. CASE j = Len(p)
    BY <2>1, <1>2, <1>3
  <2>2. CASE j # Len(p)
    <3>1. j \in 1 .. Len(p) - 1
      BY <2>2, <1>3
    <3>2. j + d \in 1 .. Len(q) /\ p[j].val = q[j + d].val
      BY <3>1, <1>3 DEF Heir
    <3>3. p[j].val = Len(message[l]) - Len(q) + (j + d)
      BY <3>2, <1>6
    <3> QED BY <3>3, <1>2, <1>3
  <2> QED BY <2>1, <2>2
<1>8. \A x \in Loc : Len(message[x]) \in Nat
  BY <1>2
<1>9. Buffers(b, m)
  <2> SUFFICES ASSUME NEW x \in Loc
               PROVE  /\ Len(b[x]) \in 1 .. StoreBufferLimit /\ Len(b[x]) <= Len(m[x])
                      /\ \A i \in 1 .. Len(b[x]) : b[x][i].val = Len(m[x]) - Len(b[x]) + i
    BY DEF Buffers
  <2>1. CASE x = l
    <3>1. Len(p) <= n
      BY <1>2, <1>3, <1>6
    <3> HIDE DEF n
    <3> QED BY <2>1, <3>1, <1>3, <1>4, <1>5, <1>7
  <2>2. CASE x # l
    BY <2>2, <1>4, <1>5 DEF Ready, Buffers
  <2> QED BY <2>1, <2>2
<1>10. Follows(b0, message, b, m)
  <2>1. ASSUME NEW x \in Loc PROVE Len(message[x]) <= Len(m[x]) /\ \A j \in 1 .. Len(message[x]) : m[x][j] = message[x][j]
    BY <1>5, <1>8
  <2>2. ASSUME NEW x \in Loc, NEW i \in 1 .. Len(b[x])
        PROVE  b[x][i].val > Len(message[x]) \/ \E j \in 1 .. Len(b0[x]) : Heir(b[x][i], b0[x][j])
    <3>1. CASE x # l
      BY <3>1, <1>4 DEF Heir
    <3>2. CASE x = l /\ i = Len(p)
      BY <3>2, <1>2, <1>3, <1>4
    <3>3. CASE x = l /\ i # Len(p)
      <4>1. i \in 1 .. Len(p) - 1
        BY <3>3, <1>3, <1>4
      <4> QED BY <4>1, <3>3, <1>3, <1>4
    <3> QED BY <3>1, <3>2, <3>3
  <2> QED BY <2>1, <2>2 DEF Follows
<1>11. ASSUME NEW x \in Loc, NEW j \in 1 .. Len(b[x]), b[x][j].val > Len(message[x])
       PROVE  x = l /\ j = Len(p)
  <2>1. x = l
    <3> SUFFICES ASSUME x # l PROVE FALSE
      OBVIOUS
    <3>1. j \in 1 .. Len(b0[x]) /\ b[x][j] = b0[x][j]
      BY <1>4
    <3>2. b0[x][j].val = Len(message[x]) - Len(b0[x]) + j /\ Len(b0[x]) \in Nat
      BY <1>2, <3>1 DEF Ready, Buffers
    <3>3. Len(message[x]) \in Nat
      BY <1>8
    <3>4. ~(b0[x][j].val > Len(message[x]))
      <4> DEFINE y == Len(message[x])
                 r == Len(b0[x])
                 e == b0[x][j].val
      <4>1. y \in Nat /\ r \in Nat /\ j \in 1 .. r /\ e = y - r + j
        BY <3>1, <3>2, <3>3
      <4> HIDE DEF y, r, e
      <4>2. ~(e > y)
        BY <4>1
      <4> QED BY <4>2 DEF e, y
    <3> QED BY <3>1, <3>4, <1>11
  <2>2. p[j].val = n - Len(p) + j /\ j \in 1 .. Len(p) /\ p[j].val > Len(message[l])
    BY <2>1, <1>4, <1>7, <1>11
  <2> QED BY <2>1, <2>2, <1>2, <1>3
<1>12. ASSUME NEW x \in Loc, NEW j \in 1 .. Len(b[x]), b[x][j].val > Len(message[x])
       PROVE  x = l /\ b[x][j].sync_clock = sync /\ m[l][b[x][j].val] = w /\ b[x][j].val = Len(message[l]) + 1
  BY <1>3, <1>4, <1>5, <1>11, <1>12
<1>13. ASSUME NEW x \in Loc, NEW j \in 1 .. Len(b[x])
       PROVE  /\ b[x][j].loads[t] <= k.clock[t]
              /\ \A u \in Thread \ {t} : b[x][j].loads[u] <= clocks[u].clock[u]
  <2>1. CASE x # l
    BY <2>1, <1>4 DEF Ready
  <2>2. CASE x = l /\ j = Len(p)
    <3>1. k.clock[t] \in Nat /\ \A u \in Thread : clocks[u].clock[u] \in Nat /\ ZeroClock[u] = 0
      BY <1>1 DEF Shape, ClockSets, Clocks, ZeroClock
    <3> QED BY <3>1, <2>2, <1>3, <1>4
  <2>3. CASE x = l /\ j # Len(p)
    <3>1. j \in 1 .. Len(p) - 1
      BY <2>3, <1>3, <1>4
    <3>2. j + d \in 1 .. Len(q) /\ p[j].loads = q[j + d].loads
      BY <3>1, <1>3
    <3> QED BY <2>3, <3>2, <1>4 DEF Ready
  <2> QED BY <2>1, <2>2, <2>3
<1>14. ASSUME NEW c \in Clocks, NEW z, ClockLeq(k.clock, c), z[l] = n
       PROVE  Covers(b, c, z, {l})
  <2> SUFFICES ASSUME NEW j \in 1 .. Len(b[l]), b[l][j].val = n PROVE Happened(b[l][j], c)
    BY <1>14 DEF Covers
  <2>1. j = Len(p)
    BY <1>2, <1>11
  <2>2. b[l][j].store_thread = t /\ b[l][j].store_timestamp = k.clock[t] /\ k.clock[t] <= c[t]
    BY <2>1, <1>3, <1>4, <1>14 DEF ClockLeq
  <2> QED BY <2>2 DEF Happened
<1> QED BY <1>4, <1>5, <1>9, <1>10, <1>12, <1>13, <1>14 DEF PushDone

(* The views of a thread that wrote store n of l. *)
Written(b, m, l, n, c, w) == w \in Views /\ w[l] = n /\ Known(m, w) /\ Covers(b, c, w, Loc \ {l})

LEMMA WrittenView ==
    ASSUME NEW b, NEW m, NEW l \in Loc, NEW n \in Nat, NEW c, NEW v, Len(m[l]) = n, Known(m, v), Covers(b, c, v, Loc \ {l}),
           NEW w, w = [v EXCEPT ![l] = n]
    PROVE  Written(b, m, l, n, c, w)
<1>1. w \in Views /\ w[l] = n /\ \A x \in Loc \ {l} : w[x] = v[x]
  BY DEF Known, Views
<1>2. \A x \in Loc : w[x] <= Len(m[x])
  BY <1>1 DEF Known
<1>3. Covers(b, c, w, Loc \ {l})
  BY <1>1 DEF Covers
<1> QED BY <1>1, <1>2, <1>3 DEF Known, Written

(* An SC store marks what was there before it. *)
LEMMA PushedMarks ==
    ASSUME NEW b0 \in [Loc -> Seq(Elements)], NEW l \in Loc, NEW t, NEW ts, NEW sync, NEW n,
           NEW p, Pushed(b0[l], p, t, ts, TRUE, sync, n), ScMarks(b0), NEW b, b = [b0 EXCEPT ![l] = p]
    PROVE  ScMarks(b)
<1> DEFINE d == Len(b0[l]) + 1 - Len(p)
<1>1. b[l] = p /\ \A x \in Loc \ {l} : b[x] = b0[x]
  OBVIOUS
<1>2. /\ p[Len(p)].is_seqcst /\ Len(p) \in Nat
      /\ \A j \in 1 .. Len(p) - 1 :
            /\ j + d \in 1 .. Len(b0[l])
            /\ (b0[l][j + d].is_seqcst => p[j].is_seqcst) /\ (b0[l][j + d].store_timestamp = 0 => p[j].is_seqcst)
  BY DEF Pushed
<1> HIDE DEF d
<1>3. \A j \in 1 .. Len(p) - 1 : p[j].is_seqcst
  BY <1>2 DEF ScMarks
<1>4. ASSUME NEW j \in 1 .. Len(p) PROVE p[j].is_seqcst
  <2>1. CASE j = Len(p)
    BY <2>1, <1>2
  <2>2. CASE j # Len(p)
    <3>1. j \in 1 .. Len(p) - 1
      BY <2>2, <1>2
    <3> QED BY <3>1, <1>3
  <2> QED BY <2>1, <2>2
<1>5. ASSUME NEW x \in Loc, NEW j \in 1 .. Len(b[x])
      PROVE  b[x][j].is_seqcst \/ (Len(b[x]) = 1 /\ b[x][j].store_timestamp = 0)
  <2>1. CASE x = l
    BY <2>1, <1>1, <1>4
  <2>2. CASE x # l
    BY <2>2, <1>1, SMTT(40) DEF ScMarks
  <2> QED BY <2>1, <2>2
<1> QED BY <1>5 DEF ScMarks

(* A store as the step of thread t that pushes p onto the buffer of l. *)
WriteStep(t, l, k, b0, p, v, va, vr, z) ==
    /\ program' = program /\ clocks' = [clocks EXCEPT ![t] = k] /\ buffer' = [b0 EXCEPT ![l] = p]
    /\ message' = [message EXCEPT ![l] = Append(message[l], [z EXCEPT ![l] = Len(message[l]) + 1])]
    /\ view' = [view EXCEPT ![t] = [v EXCEPT ![l] = Len(message[l]) + 1]]
    /\ view_acquire' = [view_acquire EXCEPT ![t] = va] /\ view_release' = [view_release EXCEPT ![t] = vr]
    /\ last_sc_fence' = last_sc_fence /\ last_sc_write_per_thread' \in Clocks /\ view_sc' = view_sc

(* A store: the thread's clocks and the published clock cover what the     *)
(* thread knows and what it publishes, before the store itself.            *)
LEMMA WriteKeeps ==
    ASSUME WInv, NEW t \in Thread, NEW l \in Loc, NEW k \in ClockSets, ClockLeq(clocks[t].clock, k.clock),
           NEW b0, Ready(b0, t, k), NEW v, NEW va, NEW vr, ThreadOk(b0, message, k, v, va, vr),
           NEW sc \in BOOLEAN, NEW sync \in Clocks, NEW z, Known(message, z), Covers(b0, sync, z, Loc \ {l}),
           NEW p, Pushed(b0[l], p, t, k.clock[t], sc, sync, Len(message[l]) + 1), WriteStep(t, l, k, b0, p, v, va, vr, z)
    PROVE  WInv' /\ (sc /\ ScMarks(buffer) => ScMarks(buffer'))
<1>0. ASSUME sc, ScMarks(buffer) PROVE ScMarks(buffer')
  <2> DEFINE b2 == buffer'
             ts == k.clock[t]
             n == Len(message[l]) + 1
  <2>1. b0 \in [Loc -> Seq(Elements)] /\ ScMarks(b0) /\ b2 = [b0 EXCEPT ![l] = p]
    BY <1>0 DEF Ready, WriteStep
  <2>2. Pushed(b0[l], p, t, ts, TRUE, sync, n)
    BY <1>0 DEF Pushed
  <2> HIDE DEF b2, ts, n
  <2>3. ScMarks(b2)
    BY <2>1, <2>2, PushedMarks
  <2> QED BY <2>3 DEF b2
<1> SUFFICES WInv'
  BY <1>0
<1> USE DEF WriteStep
<1> DEFINE n == Len(message[l]) + 1
           w == [z EXCEPT ![l] = n]
           v2 == [v EXCEPT ![l] = n]
           b == buffer'
           m == message'
           L == Loc \ {l}
           m0 == message
<1>1. Shape /\ ScOk(buffer, message, last_sc_fence, view_sc)
  BY Parts
<1>2. /\ buffer \in [Loc -> Seq(Elements)] /\ m0 \in [Loc -> Seq(Views)] /\ last_sc_fence \in Clocks
      /\ b0 \in [Loc -> Seq(Elements)] /\ Follows(buffer, m0, b0, m0)
      /\ k.clock \in Clocks /\ Loc \in SUBSET Loc /\ L \in SUBSET Loc
  BY <1>1 DEF Shape, Ready, ClockSets
<1>3. n \in Nat /\ Known(m0, z) /\ Covers(b0, sync, z, L) /\ Known(m0, v) /\ Covers(b0, k.clock, v, Loc)
  BY <1>2 DEF ThreadOk
<1>4. w \in Views
  BY <1>3 DEF Known, Views
<1>5. PushDone(b0, b, m, t, l, k, sync, w)
  <2>1. m = [message EXCEPT ![l] = Append(message[l], w)] /\ b = [b0 EXCEPT ![l] = p]
    OBVIOUS
  <2> HIDE DEF w, m, b
  <2> QED BY <2>1, <1>4, PushedBuffer
<1>6. /\ b \in [Loc -> Seq(Elements)] /\ m \in [Loc -> Seq(Views)] /\ Follows(b0, m0, b, m) /\ Buffers(b, m)
      /\ Len(m[l]) = n /\ w = [z EXCEPT ![l] = n] /\ v2 = [v EXCEPT ![l] = n]
  BY <1>5 DEF PushDone
<1> HIDE DEF n, w, v2, b, m, L, m0
<1>7. Follows(buffer, m0, b, m)
  BY <1>2, <1>6, FollowsTransitive
<1>8. Known(m, z) /\ Covers(b, sync, z, L) /\ Known(m, v) /\ Covers(b, k.clock, v, L)
  <2>1. Known(m, z) /\ Known(m, v)
    BY <1>2, <1>3, <1>6, KnownFollow
  <2>2. Covers(b, sync, z, L) /\ Covers(b, k.clock, v, Loc)
    BY <1>2, <1>3, <1>6, CoversFollow
  <2>3. Covers(b, k.clock, v, L)
    BY <2>2 DEF Covers, L
  <2> QED BY <2>1, <2>2, <2>3
<1>9. w[l] = n /\ Known(m, w) /\ Covers(b, sync, w, L)
  <2>1. Covers(b, sync, z, Loc \ {l})
    BY <1>8 DEF L
  <2>2. Written(b, m, l, n, sync, w)
    BY <2>1, <1>3, <1>6, <1>8, WrittenView
  <2> QED BY <2>2 DEF Written, L
<1>10. v2[l] = n /\ Known(m, v2) /\ Covers(b, k.clock, v2, L)
  <2> DEFINE c == k.clock
  <2>1. Covers(b, c, v, Loc \ {l})
    BY <1>8 DEF L
  <2> HIDE DEF c
  <2>2. Written(b, m, l, n, c, v2)
    BY <2>1, <1>3, <1>6, <1>8, WrittenView
  <2> QED BY <2>2 DEF Written, L, c
<1>11. Covers(b, k.clock, v2, Loc)
  <2>1. ClockLeq(k.clock, k.clock)
    BY <1>2, LeqReflexive
  <2>2. Covers(b, k.clock, v2, {l})
    BY <2>1, <1>2, <1>5, <1>10 DEF PushDone, n
  <2> QED BY <2>2, <1>10, CoversSplit DEF L
<1>12. ThreadOk(b, m, k, v, va, vr)
  <2>1. ThreadOk(b0, m0, k, v, va, vr)
    BY DEF m0
  <2> QED BY <2>1, <1>2, <1>6, ThreadFollow
<1>13. ThreadOk(b, m, k, v2, va, vr)
  BY <1>10, <1>11, <1>12 DEF ThreadOk
<1>14. ScOk(b, m, last_sc_fence, view_sc)
  <2>1. Known(m0, view_sc) /\ Covers(buffer, last_sc_fence, view_sc, Loc)
    BY <1>1 DEF ScOk, m0
  <2>2. Known(m, view_sc) /\ Covers(b, last_sc_fence, view_sc, Loc)
    BY <2>1, <1>2, <1>6, <1>7, KnownFollow, CoversFollow
  <2> QED BY <2>2 DEF ScOk
<1>15. ASSUME NEW x \in Loc, NEW i \in 1 .. Len(b[x]), b[x][i].val > Len(message[x])
       PROVE  MessageOk(b, m, x, b[x][i])
  <2>1. x = l /\ b[x][i].sync_clock = sync /\ m[l][b[x][i].val] = w /\ b[x][i].val = n
    BY <1>5, <1>15 DEF PushDone, n
  <2> QED BY <2>1, <1>9 DEF MessageOk, L
<1>16. \A x \in Loc : \A i \in 1 .. Len(b[x]) :
         /\ b[x][i].loads[t] <= k.clock[t]
         /\ \A u \in Thread \ {t} : b[x][i].loads[u] <= clocks[u].clock[u]
  BY <1>5 DEF PushDone
<1>17. view' = [view EXCEPT ![t] = v2]
  BY DEF v2, n
<1>18. /\ buffer' \in [Loc -> Seq(Elements)] /\ message' \in [Loc -> Seq(Views)]
       /\ Follows(buffer, message, buffer', message') /\ Buffers(buffer', message')
       /\ ThreadOk(buffer', message', k, v2, va, vr) /\ ScOk(buffer', message', last_sc_fence', view_sc')
       /\ last_sc_fence' \in Clocks
  BY <1>2, <1>6, <1>7, <1>13, <1>14 DEF b, m, m0
<1>19. \A x \in Loc : \A i \in 1 .. Len(buffer'[x]) :
         buffer'[x][i].val > Len(message[x]) => MessageOk(buffer', message', x, buffer'[x][i])
  BY <1>15 DEF b, m
<1>20. \A x \in Loc : \A i \in 1 .. Len(buffer'[x]) :
         /\ buffer'[x][i].loads[t] <= k.clock[t]
         /\ \A u \in Thread \ {t} : buffer'[x][i].loads[u] <= clocks[u].clock[u]
  BY <1>16 DEF b
<1> QED BY <1>17, <1>18, <1>19, <1>20, StepKeeps

LEMMA StoreKeeps ==
    ASSUME WInv, NEW t \in Thread, NEW l \in Loc, NEW ord \in program.stores, Store(t, l, ord)
    PROVE  WInv' /\ program' = program /\ (ord = "SeqCst" /\ ScMarks(buffer) => ScMarks(buffer'))
<1> DEFINE sc == ord = "SeqCst"
           k == Tick(clocks[t], t)
           old == clocks[t]
           sync == StoreSync(old, ord)
           n == Len(message[l]) + 1
           p == StoreImpl(buffer[l], t, k, sc, sync, n)
           v == view[t]
           va == view_acquire[t]
           vr == view_release[t]
           z == IF Releases(ord) THEN v ELSE vr
<1>1. /\ Shape /\ Buffers(buffer, message) /\ ThreadOk(buffer, message, old, v, va, vr)
      /\ old \in ClockSets /\ old.clock \in Clocks /\ old.fence_acquire \in Clocks /\ old.fence_release \in Clocks
      /\ v \in Views /\ va \in Views /\ vr \in Views
      /\ \A x \in Loc : \A i \in 1 .. Len(buffer[x]) : \A u \in Thread :
            buffer[x][i].loads[u] \in Nat /\ buffer[x][i].loads[u] <= clocks[u].clock[u]
  BY Parts
<1>2. /\ buffer \in [Loc -> Seq(Elements)] /\ message \in [Loc -> Seq(Views)] /\ last_sc_write_per_thread \in Clocks
      /\ buffer[l] \in Seq(Elements) /\ Len(buffer[l]) \in 1 .. StoreBufferLimit
      /\ n \in Nat /\ view_acquire \in [Thread -> Views] /\ view_release \in [Thread -> Views]
  BY <1>1 DEF Shape, Buffers
<1>3. /\ k \in ClockSets /\ k.clock = ClockIncrement(old.clock, t) /\ k.clock \in Clocks
      /\ k.fence_acquire = old.fence_acquire /\ k.fence_release = old.fence_release
  <2>1. ClockIncrement(old.clock, t) \in Clocks
    BY <1>1, TickUp
  <2> QED BY <2>1, <1>1 DEF Tick, ClockSets
<1>4. ClockLeq(old.clock, k.clock) /\ k.clock[t] \in Nat /\ old.clock[t] \in Nat /\ old.clock[t] <= k.clock[t]
  <2>1. ClockLeq(old.clock, k.clock)
    BY <1>1, <1>3, TickUp
  <2> QED BY <2>1, <1>1, <1>3 DEF ClockLeq, Clocks
<1>5. ord \in {"Relaxed", "Release", "SeqCst"}
  BY WeakMemoryAssumption, <1>1 DEF Shape, Program
<1>6. sync \in Clocks /\ sync = (IF Releases(ord) THEN old.clock ELSE old.fence_release)
  BY <1>1, <1>5 DEF StoreSync, Releases
<1>7. Ready(buffer, t, k)
  <2>1. Follows(buffer, message, buffer, message)
    <3>1. \A x \in Loc : Len(message[x]) \in Nat
      BY <1>2
    <3> QED BY <3>1 DEF Follows, Heir
  <2>2. \A x \in Loc : \A i \in 1 .. Len(buffer[x]) :
          /\ buffer[x][i].loads[t] <= k.clock[t]
          /\ \A u \in Thread \ {t} : buffer[x][i].loads[u] <= clocks[u].clock[u]
    BY <1>1, <1>4, SMTT(40)
  <2> QED BY <2>1, <2>2, <1>1, <1>2 DEF Ready
<1>8. Known(message, z) /\ Covers(buffer, sync, z, Loc \ {l})
  <2>1. Known(message, z) /\ Covers(buffer, sync, z, Loc)
    <3>1. CASE Releases(ord)
      BY <3>1, <1>1, <1>6 DEF ThreadOk
    <3>2. CASE ~Releases(ord)
      BY <3>2, <1>1, <1>6 DEF ThreadOk
    <3> QED BY <3>1, <3>2
  <2> HIDE DEF z, sync
  <2> QED BY <2>1 DEF Covers
<1>9. ThreadOk(buffer, message, k, v, va, vr)
  <2> DEFINE I == ClockJoin(old.clock, old.fence_acquire)
             J == ClockJoin(k.clock, k.fence_acquire)
  <2>1. I \in Clocks /\ J \in Clocks /\ ClockLeq(I, J) /\ Loc \in SUBSET Loc
    <3>1. ClockLeq(old.fence_acquire, k.fence_acquire) /\ k.fence_acquire \in Clocks
      BY <1>1, <1>3, LeqReflexive
    <3> QED BY <3>1, <1>1, <1>3, <1>4, JoinUp, JoinMonotone
  <2>2. /\ Known(message, v) /\ Known(message, va) /\ Known(message, vr)
        /\ Covers(buffer, old.clock, v, Loc) /\ Covers(buffer, I, va, Loc) /\ Covers(buffer, k.fence_release, vr, Loc)
    BY <1>1, <1>3 DEF ThreadOk
  <2> HIDE DEF I, J, k, old, v, va, vr
  <2>3. Covers(buffer, k.clock, v, Loc)
    BY <2>1, <2>2, <1>1, <1>2, <1>3, <1>4, CoversGrows
  <2>4. Covers(buffer, J, va, Loc)
    BY <2>1, <2>2, <1>2, CoversGrows
  <2> QED BY <2>2, <2>3, <2>4 DEF ThreadOk, J
<1>10. Pushed(buffer[l], p, t, k.clock[t], sc, sync, n)
  <2> DEFINE q == buffer[l]
  <2>1. p = StoreImpl(q, t, k, sc, sync, n) /\ q \in Seq(Elements) /\ Len(q) \in 1 .. StoreBufferLimit /\ sc \in BOOLEAN
    BY <1>2
  <2> HIDE DEF q, p, k, sync, sc, n
  <2>2. Pushed(q, p, t, k.clock[t], sc, sync, n)
    BY <2>1, <1>2, <1>3, <1>6, PushShape
  <2> QED BY <2>2 DEF q
<1>11. /\ program' = program /\ clocks' = [clocks EXCEPT ![t] = k] /\ buffer' = [buffer EXCEPT ![l] = p]
       /\ view' = [view EXCEPT ![t] = [v EXCEPT ![l] = n]]
       /\ message' = [message EXCEPT ![l] = Append(message[l], [z EXCEPT ![l] = n])]
       /\ last_sc_write_per_thread' = ScWrite(last_sc_write_per_thread, k, t, sc)
       /\ last_sc_fence' = last_sc_fence /\ view_acquire' = view_acquire /\ view_release' = view_release /\ view_sc' = view_sc
  <2>1. /\ program' = program /\ clocks' = [clocks EXCEPT ![t] = k] /\ buffer' = [buffer EXCEPT ![l] = p]
        /\ view' = [view EXCEPT ![t] = [v EXCEPT ![l] = n]]
        /\ message' = [message EXCEPT ![l] =
              Append(message[l], IF Releases(ord) THEN [v EXCEPT ![l] = n] ELSE [vr EXCEPT ![l] = n])]
        /\ last_sc_write_per_thread' = ScWrite(last_sc_write_per_thread, k, t, sc)
        /\ last_sc_fence' = last_sc_fence /\ view_acquire' = view_acquire /\ view_release' = view_release /\ view_sc' = view_sc
    BY DEF Store, Step, NextNumber
  <2> QED BY <2>1
<1>12. last_sc_write_per_thread' \in Clocks
  BY <1>2, <1>4, <1>11 DEF ScWrite, Clocks
<1>13. view_acquire' = [view_acquire EXCEPT ![t] = va] /\ view_release' = [view_release EXCEPT ![t] = vr]
  BY <1>2, <1>11
<1>14. sc \in BOOLEAN
  OBVIOUS
<1> HIDE DEF sc, k, old, sync, p, v, va, vr, z
<1>15. ClockLeq(clocks[t].clock, k.clock)
  BY <1>4 DEF old
<1>16. WriteStep(t, l, k, buffer, p, v, va, vr, z)
  BY <1>11, <1>12, <1>13 DEF WriteStep
<1>17. Pushed(buffer[l], p, t, k.clock[t], sc, sync, Len(message[l]) + 1)
  BY <1>10
<1> HIDE DEF n
<1>18. WInv' /\ (sc /\ ScMarks(buffer) => ScMarks(buffer'))
  BY <1>3, <1>6, <1>7, <1>8, <1>9, <1>14, <1>15, <1>16, <1>17, WriteKeeps
<1> QED BY <1>11, <1>18 DEF sc

-----------------------------------------------------------------------------
(* A read-modify-write. *)

(* The clock and what is published of the clocks r after the acquire half. *)
RmwHalf(k, r, ord, s) ==
    /\ r \in ClockSets /\ r.fence_release = k.fence_release
    /\ r.clock = IF Acquires(ord) THEN ClockJoin(k.clock, s) ELSE k.clock

LEMMA RmwClocks ==
    ASSUME NEW k \in ClockSets, NEW t \in Thread, NEW ord, NEW s \in Clocks, NEW last \in Clocks, NEW sc \in BOOLEAN,
           NEW h, h = RmwAcquire(k, ord, s), NEW r, r = ScRead(Tick(h, t), last, sc)
    PROVE  ReadClocks(k, r, t, ord, s) /\ RmwHalf(k, h, ord, s)
<1> DEFINE c0 == IF Acquires(ord) THEN ClockJoin(k.clock, s) ELSE k.clock
           c == ClockIncrement(c0, t)
           f == IF Acquires(ord) THEN k.fence_acquire ELSE ClockJoin(k.fence_acquire, s)
           d == IF sc THEN ClockJoin(k.read_seqcst, last) ELSE k.read_seqcst
<1>1. k.clock \in Clocks /\ k.fence_acquire \in Clocks /\ k.read_seqcst \in Clocks
  BY DEF ClockSets
<1>2. c0 \in Clocks /\ f \in Clocks /\ d \in Clocks
  <2>1. ClockJoin(k.clock, s) \in Clocks /\ ClockJoin(k.fence_acquire, s) \in Clocks /\ ClockJoin(k.read_seqcst, last) \in Clocks
    BY <1>1, JoinUp
  <2> QED BY <1>1, <2>1
<1>3. h = [k EXCEPT !.clock = c0, !.fence_acquire = f]
  <2>1. CASE Acquires(ord)
    BY <2>1 DEF RmwAcquire, LoadAcquire, ClockSets, Acquires
  <2>2. CASE ~Acquires(ord)
    BY <2>2 DEF RmwAcquire, LoadRelaxed, ClockSets, Acquires
  <2> QED BY <2>1, <2>2
<1> HIDE DEF c0, f
<1>4. h \in ClockSets /\ h.fence_release = k.fence_release /\ h.clock = c0 /\ h.fence_acquire = f
      /\ h.read_seqcst = k.read_seqcst
  BY <1>2, <1>3 DEF ClockSets
<1>5. c \in Clocks
  BY <1>2, TickUp
<1>6. r = [h EXCEPT !.clock = c, !.read_seqcst = d]
  <2>1. CASE sc
    BY <2>1, <1>4 DEF ScRead, Tick, ClockSets
  <2>2. CASE ~sc
    BY <2>2, <1>4 DEF ScRead, Tick, ClockSets
  <2> QED BY <2>1, <2>2
<1> HIDE DEF c, d
<1>7. r \in ClockSets /\ r.fence_release = k.fence_release /\ r.clock = c /\ r.fence_acquire = f
  BY <1>2, <1>4, <1>5, <1>6 DEF ClockSets
<1>8. RmwHalf(k, h, ord, s)
  BY <1>4 DEF RmwHalf, c0
<1>9. CASE Acquires(ord)
  BY <1>7, <1>8, <1>9 DEF ReadClocks, c, c0, f
<1>10. CASE ~Acquires(ord)
  BY <1>7, <1>8, <1>10 DEF ReadClocks, c, c0, f
<1> QED BY <1>8, <1>9, <1>10

(* The clocks of a read grow, and have the store's clock in their past. *)
ReadGrows(k, r, t, ord, s) ==
    /\ r.clock \in Clocks /\ r.fence_acquire \in Clocks /\ ClockLeq(k.clock, r.clock) /\ r.clock[t] > 0
    /\ ClockLeq(k.fence_acquire, r.fence_acquire)
    /\ ClockLeq(ClockJoin(k.clock, k.fence_acquire), ClockJoin(r.clock, r.fence_acquire))
    /\ ClockJoin(r.clock, r.fence_acquire) \in Clocks /\ ClockJoin(k.clock, k.fence_acquire) \in Clocks
    /\ ClockLeq(r.clock, ClockJoin(r.clock, r.fence_acquire))
    /\ (Acquires(ord) => ClockLeq(s, r.clock)) /\ (~Acquires(ord) => ClockLeq(s, ClockJoin(r.clock, r.fence_acquire)))

LEMMA ReadGrowing ==
    ASSUME NEW k \in ClockSets, NEW r \in ClockSets, NEW t \in Thread, NEW ord, NEW s \in Clocks, ReadClocks(k, r, t, ord, s)
    PROVE  ReadGrows(k, r, t, ord, s)
<1>1. k.clock \in Clocks /\ k.fence_acquire \in Clocks /\ r.clock \in Clocks /\ r.fence_acquire \in Clocks
  BY DEF ClockSets
<1>2. CASE Acquires(ord)
  <2> DEFINE j == ClockJoin(k.clock, s)
  <2>1. j \in Clocks /\ ClockLeq(k.clock, j) /\ ClockLeq(s, j)
    BY <1>1, JoinUp
  <2>2. r.clock = ClockIncrement(j, t) /\ r.fence_acquire = k.fence_acquire
    BY <1>2 DEF ReadClocks
  <2> HIDE DEF j
  <2>3. ClockLeq(j, r.clock) /\ r.clock[t] = j[t] + 1 /\ j[t] \in Nat
    BY <2>1, <2>2, TickUp DEF Clocks
  <2>4. ClockLeq(k.clock, r.clock) /\ ClockLeq(s, r.clock) /\ r.clock[t] > 0
    BY <2>1, <2>3, <1>1, LeqTransitive
  <2>5. ClockLeq(k.fence_acquire, r.fence_acquire)
    BY <2>2, <1>1, LeqReflexive
  <2> QED BY <1>1, <1>2, <2>4, <2>5, JoinUp, JoinMonotone DEF ReadGrows
<1>3. CASE ~Acquires(ord)
  <2>1. r.clock = ClockIncrement(k.clock, t) /\ r.fence_acquire = ClockJoin(k.fence_acquire, s) /\ k.clock[t] \in Nat
    BY <1>1, <1>3 DEF ReadClocks, Clocks
  <2>2. ClockLeq(k.clock, r.clock) /\ r.clock[t] > 0
    BY <1>1, <2>1, TickUp
  <2>3. ClockLeq(k.fence_acquire, r.fence_acquire) /\ ClockLeq(s, r.fence_acquire)
    BY <1>1, <2>1, JoinUp
  <2> DEFINE J == ClockJoin(r.clock, r.fence_acquire)
  <2>4. J \in Clocks /\ ClockLeq(r.clock, J) /\ ClockLeq(r.fence_acquire, J)
    BY <1>1, JoinUp
  <2>5. ClockLeq(s, J)
    <3> HIDE DEF J
    <3> QED BY <1>1, <2>3, <2>4, LeqTransitive
  <2>6. ClockLeq(ClockJoin(k.clock, k.fence_acquire), J) /\ ClockJoin(k.clock, k.fence_acquire) \in Clocks
    BY <1>1, <2>2, <2>3, JoinUp, JoinMonotone
  <2> QED BY <1>1, <1>3, <2>2, <2>3, <2>4, <2>5, <2>6 DEF ReadGrows
<1> QED BY <1>2, <1>3

(* The views after reading the last store, and the clocks that cover them. *)
RmwRead(b0, t, l, r, ord, before) ==
    /\ Ready(b0, t, r) /\ before \in Views /\ before[l] = Len(message[l]) /\ Known(message, before)
    /\ ThreadOk(b0, message, r,
          IF Acquires(ord) THEN ViewJoin(view[t], before) ELSE view[t],
          IF Acquires(ord) THEN view_acquire[t] ELSE ViewJoin(view_acquire[t], before), view_release[t])
    /\ Covers(b0, buffer[l][Len(buffer[l])].sync_clock, before, Loc \ {l})

LEMMA RmwReads ==
    ASSUME WInv, NEW t \in Thread, NEW l \in Loc, NEW ord, NEW sc \in BOOLEAN, NEW r \in ClockSets,
           ReadClocks(clocks[t], r, t, ord, buffer[l][Len(buffer[l])].sync_clock),
           NEW b0, b0 = [buffer EXCEPT ![l] = LoadImpl(buffer[l], Len(buffer[l]), t, r, sc)]
    PROVE  RmwRead(b0, t, l, r, ord, message[l][Len(message[l])])
<1> DEFINE last == Len(buffer[l])
           s == buffer[l][last].sync_clock
           old == clocks[t]
           before == message[l][Len(message[l])]
           I == ClockJoin(old.clock, old.fence_acquire)
           J == ClockJoin(r.clock, r.fence_acquire)
           v == view[t]
           va == view_acquire[t]
           vr == view_release[t]
           m == message
<1>1. /\ Shape /\ Buffers(buffer, m) /\ Messages(buffer, m) /\ ThreadOk(buffer, m, old, v, va, vr)
      /\ old \in ClockSets /\ old.clock \in Clocks /\ old.fence_release \in Clocks
      /\ v \in Views /\ va \in Views /\ vr \in Views
  BY Parts
<1>2. buffer \in [Loc -> Seq(Elements)] /\ m \in [Loc -> Seq(Views)] /\ Len(buffer[l]) \in Nat /\ Len(m[l]) \in Nat
  BY <1>1 DEF Shape
<1>3. last \in 1 .. Len(buffer[l]) /\ buffer[l][last].val = Len(m[l])
  <2>1. /\ last \in 1 .. StoreBufferLimit
        /\ \A i \in 1 .. Len(buffer[l]) : buffer[l][i].val = Len(m[l]) - Len(buffer[l]) + i
    BY <1>1 DEF Buffers
  <2>2. last \in 1 .. Len(buffer[l])
    BY <2>1, <1>2
  <2> QED BY <2>1, <2>2, <1>2
<1>4. s \in Clocks
  <2>1. buffer[l][last] \in Elements
    BY <1>2, <1>3
  <2> QED BY <2>1 DEF Elements
<1>5. ReadGrows(old, r, t, ord, s)
  <2> HIDE DEF old, s
  <2>1. ReadClocks(old, r, t, ord, s)
    BY DEF old, s
  <2> QED BY <2>1, <1>1, <1>4, ReadGrowing
<1>6. /\ r.clock \in Clocks /\ J \in Clocks /\ I \in Clocks /\ ClockLeq(old.clock, r.clock) /\ r.clock[t] > 0
      /\ ClockLeq(I, J) /\ ClockLeq(r.clock, J)
      /\ (Acquires(ord) => ClockLeq(s, r.clock)) /\ (~Acquires(ord) => ClockLeq(s, J))
      /\ r.fence_release = old.fence_release
  BY <1>5 DEF ReadGrows, ReadClocks
<1>7. b0 \in [Loc -> Seq(Elements)] /\ Follows(buffer, m, b0, m) /\ Ready(b0, t, r)
  <2>1. LoadDone(b0, t, l, last, r)
    BY <1>3, <1>6, LoadedBuffer
  <2> QED BY <2>1 DEF LoadDone, Ready
<1>8. ASSUME NEW c \in Clocks, ClockLeq(r.clock, c), ClockLeq(s, c)
      PROVE  Covers(b0, c, before, Loc)
  <2>1. LET n == buffer[l][last].val IN Covers(b0, c, message[l][n], Loc)
    BY <1>3, <1>6, <1>8, ReadCovers
  <2> QED BY <2>1, <1>3
<1>9. before[l] = Len(m[l]) /\ Known(m, before) /\ before \in Views /\ Covers(buffer, s, before, Loc \ {l})
  BY <1>1, <1>3 DEF Messages, MessageOk, Known
<1> DEFINE L == Loc \ {l}
<1>10. Covers(b0, s, before, L)
  <2>1. Covers(buffer, s, before, L) /\ L \in SUBSET Loc
    BY <1>9
  <2> HIDE DEF L, s, before, m
  <2> QED BY <2>1, <1>2, <1>4, <1>7, <1>9, CoversFollow
<1>11. ThreadOk(b0, m, old, v, va, vr)
  <2> HIDE DEF m, old, v, va, vr
  <2> QED BY <1>1, <1>2, <1>7, ThreadFollow
<1>12. /\ Covers(b0, old.clock, v, Loc) /\ Covers(b0, I, va, Loc) /\ Covers(b0, r.fence_release, vr, Loc)
       /\ Known(m, v) /\ Known(m, va) /\ Known(m, vr)
  BY <1>6, <1>11 DEF ThreadOk
<1>13. Covers(b0, r.clock, v, Loc) /\ Covers(b0, J, va, Loc)
  <2>1. Loc \in SUBSET Loc
    OBVIOUS
  <2> HIDE DEF old, v, va, I, J
  <2> QED BY <2>1, <1>1, <1>6, <1>7, <1>12, CoversGrows
<1> HIDE DEF s, v, va, vr, before, m, old, I, J, L
<1>14. CASE Acquires(ord)
  <2>1. Covers(b0, r.clock, before, Loc)
    <3>1. ClockLeq(r.clock, r.clock)
      BY <1>6, LeqReflexive
    <3> QED BY <3>1, <1>6, <1>8, <1>14
  <2>2. Covers(b0, r.clock, ViewJoin(v, before), Loc) /\ Known(m, ViewJoin(v, before))
    BY <2>1, <1>1, <1>9, <1>12, <1>13, CoversEither, KnownJoin
  <2>3. ThreadOk(b0, m, r, ViewJoin(v, before), va, vr)
    BY <2>2, <1>12, <1>13 DEF ThreadOk, J
  <2> QED BY <2>3, <1>7, <1>9, <1>10, <1>14 DEF RmwRead, L, s, last, m, before, v, va, vr
<1>15. CASE ~Acquires(ord)
  <2>1. Covers(b0, J, before, Loc)
    BY <1>6, <1>8, <1>15
  <2>2. Covers(b0, J, ViewJoin(va, before), Loc) /\ Known(m, ViewJoin(va, before))
    BY <2>1, <1>1, <1>9, <1>12, <1>13, CoversEither, KnownJoin
  <2>3. ThreadOk(b0, m, r, v, ViewJoin(va, before), vr)
    BY <2>2, <1>12, <1>13 DEF ThreadOk, J
  <2> QED BY <2>3, <1>7, <1>9, <1>10, <1>15 DEF RmwRead, L, s, last, m, before, v, va, vr
<1> QED BY <1>14, <1>15

(* What a read-modify-write publishes, but for the location itself. *)
RmwPublished(b0, l, sync, z) ==
    sync \in Clocks /\ z \in Views /\ Known(message, z) /\ Covers(b0, sync, z, Loc \ {l})

LEMMA RmwPublishes ==
    ASSUME WInv, NEW t \in Thread, NEW l \in Loc, NEW ord, NEW s \in Clocks, NEW h \in ClockSets, RmwHalf(clocks[t], h, ord, s),
           NEW b0 \in [Loc -> Seq(Elements)], Follows(buffer, message, b0, message),
           NEW before \in Views, Known(message, before), Covers(b0, s, before, Loc \ {l}),
           NEW v, v = IF Acquires(ord) THEN ViewJoin(view[t], before) ELSE view[t],
           NEW z, z = ViewJoin(before, IF Releases(ord) THEN v ELSE view_release[t])
    PROVE  RmwPublished(b0, l, RmwSync(h, ord, s), z)
<1> DEFINE L == Loc \ {l}
           old == clocks[t]
           w == view[t]
           vr == view_release[t]
           m == message
           c == IF Releases(ord) THEN h.clock ELSE h.fence_release
           x == IF Releases(ord) THEN v ELSE vr
<1>1. /\ Shape /\ ThreadOk(buffer, m, old, w, view_acquire[t], vr)
      /\ old.clock \in Clocks /\ old.fence_release \in Clocks /\ w \in Views /\ vr \in Views
  BY Parts
<1>2. buffer \in [Loc -> Seq(Elements)] /\ m \in [Loc -> Seq(Views)] /\ L \in SUBSET Loc /\ Loc \in SUBSET Loc
  BY <1>1 DEF Shape
<1>3. /\ h.clock \in Clocks /\ h.fence_release \in Clocks /\ h.fence_release = old.fence_release
      /\ h.clock = IF Acquires(ord) THEN ClockJoin(old.clock, s) ELSE old.clock
  BY DEF RmwHalf, ClockSets
<1>4. RmwSync(h, ord, s) = ClockJoin(s, c) /\ z = ViewJoin(before, x) /\ c \in Clocks /\ Covers(b0, s, before, L)
  BY <1>3 DEF RmwSync, Releases
<1>5. Known(m, w) /\ Known(m, vr) /\ Covers(buffer, old.clock, w, L) /\ Covers(buffer, old.fence_release, vr, L)
  <2>1. Known(m, w) /\ Known(m, vr) /\ Covers(buffer, old.clock, w, Loc) /\ Covers(buffer, old.fence_release, vr, Loc)
    BY <1>1 DEF ThreadOk
  <2> HIDE DEF old, w, vr, m
  <2> QED BY <2>1 DEF Covers
<1> HIDE DEF L, old, w, vr, m
<1>6. Follows(buffer, m, b0, m) /\ Known(m, before)
  BY DEF m
<1>7. Covers(b0, old.clock, w, L) /\ Covers(b0, old.fence_release, vr, L)
  BY <1>1, <1>2, <1>5, <1>6, CoversFollow
<1>8. v \in Views /\ Known(m, v) /\ Covers(b0, h.clock, v, L)
  <2>1. CASE Acquires(ord)
    <3>1. h.clock = ClockJoin(old.clock, s) /\ v = ViewJoin(w, before)
      BY <2>1, <1>3 DEF w
    <3>2. v \in Views /\ Known(m, v)
      BY <3>1, <1>1, <1>5, <1>6, ViewJoinShape, KnownJoin
    <3> QED BY <3>1, <3>2, <1>1, <1>2, <1>4, <1>7, CoversJoin, ZenonT(60)
  <2>2. CASE ~Acquires(ord)
    BY <2>2, <1>1, <1>3, <1>5, <1>7 DEF w
  <2> QED BY <2>1, <2>2
<1>9. x \in Views /\ Known(m, x) /\ Covers(b0, c, x, L)
  <2>1. CASE Releases(ord)
    BY <2>1, <1>8
  <2>2. CASE ~Releases(ord)
    BY <2>2, <1>1, <1>3, <1>5, <1>7
  <2> QED BY <2>1, <2>2
<1> HIDE DEF c, x
<1>10. ClockJoin(s, c) \in Clocks /\ z \in Views /\ Known(m, z)
  BY <1>4, <1>6, <1>9, JoinUp, ViewJoinShape, KnownJoin
<1>11. Covers(b0, ClockJoin(s, c), z, L)
  BY <1>2, <1>4, <1>9, CoversJoin
<1> QED BY <1>4, <1>10, <1>11 DEF RmwPublished, L, m

LEMMA RmwKeeps ==
    ASSUME WInv, NEW t \in Thread, NEW l \in Loc, NEW ord \in program.rmws, Rmw(t, l, ord)
    PROVE  WInv' /\ program' = program /\ (ord = "SeqCst" /\ ScMarks(buffer) => ScMarks(buffer'))
<1> DEFINE sc == ord = "SeqCst"
           last == Len(buffer[l])
           s == buffer[l][last].sync_clock
           old == clocks[t]
           h == RmwAcquire(old, ord, s)
           r == ScRead(Tick(h, t), last_sc_fence, sc)
           sync == RmwSync(h, ord, s)
           n == Len(message[l]) + 1
           before == message[l][Len(message[l])]
           q == LoadImpl(buffer[l], last, t, r, sc)
           b0 == [buffer EXCEPT ![l] = q]
           p == StoreImpl(q, t, r, sc, sync, n)
           v == IF Acquires(ord) THEN ViewJoin(view[t], before) ELSE view[t]
           va == IF Acquires(ord) THEN view_acquire[t] ELSE ViewJoin(view_acquire[t], before)
           vr == view_release[t]
           x == IF Releases(ord) THEN v ELSE vr
           z == ViewJoin(before, x)
<1>1. /\ Shape /\ Buffers(buffer, message) /\ old \in ClockSets /\ view[t] \in Views /\ vr \in Views
      /\ old.clock \in Clocks /\ old.fence_acquire \in Clocks
  BY Parts
<1>2. /\ buffer \in [Loc -> Seq(Elements)] /\ message \in [Loc -> Seq(Views)] /\ last_sc_write_per_thread \in Clocks
      /\ last_sc_fence \in Clocks /\ n \in Nat /\ Len(message[l]) \in Nat
      /\ view_acquire \in [Thread -> Views] /\ view_release \in [Thread -> Views] /\ sc \in BOOLEAN
      /\ Len(buffer[l]) \in 1 .. StoreBufferLimit /\ Len(buffer[l]) \in Nat
  BY <1>1 DEF Shape, Buffers
<1>3. s \in Clocks
  <2>1. last \in 1 .. Len(buffer[l])
    BY <1>2
  <2>2. buffer[l][last] \in Elements
    BY <2>1, <1>2
  <2> QED BY <2>2 DEF Elements
<1>4. ReadClocks(old, r, t, ord, s) /\ RmwHalf(old, h, ord, s)
  <2> DEFINE f == last_sc_fence
  <2>1. r = ScRead(Tick(h, t), f, sc) /\ f \in Clocks
    BY <1>2
  <2> HIDE DEF old, s, h, r, f, sc
  <2>2. h = RmwAcquire(old, ord, s)
    BY DEF h
  <2> QED BY <2>1, <2>2, <1>1, <1>2, <1>3, RmwClocks
<1>5. r \in ClockSets /\ h \in ClockSets
  <2> HIDE DEF old, s, h, r
  <2>1. r \in ClockSets
    BY <1>4, ZenonT(60) DEF ReadClocks
  <2>2. h \in ClockSets
    BY <1>4, ZenonT(60) DEF RmwHalf
  <2> QED BY <2>1, <2>2
<1>6. ClockLeq(clocks[t].clock, r.clock) /\ r.clock[t] \in Nat
  <2>1. ReadGrows(old, r, t, ord, s)
    <3> HIDE DEF old, r, s
    <3> QED BY <1>1, <1>3, <1>4, <1>5, ReadGrowing
  <2> QED BY <2>1 DEF ReadGrows, Clocks
<1>7. RmwRead(b0, t, l, r, ord, before)
  <2>1. ReadClocks(clocks[t], r, t, ord, buffer[l][Len(buffer[l])].sync_clock)
    BY <1>4
  <2>2. b0 = [buffer EXCEPT ![l] = LoadImpl(buffer[l], Len(buffer[l]), t, r, sc)]
    OBVIOUS
  <2> HIDE DEF r, b0, sc
  <2> QED BY <2>1, <2>2, <1>2, <1>5, RmwReads
<1>8. /\ Ready(b0, t, r) /\ ThreadOk(b0, message, r, v, va, vr) /\ Covers(b0, s, before, Loc \ {l})
      /\ before \in Views /\ before[l] < n /\ Known(message, before)
  <2>1. /\ Ready(b0, t, r) /\ ThreadOk(b0, message, r, v, va, vr) /\ Covers(b0, s, before, Loc \ {l})
        /\ before \in Views /\ before[l] = Len(message[l]) /\ Known(message, before)
    BY <1>7 DEF RmwRead
  <2> HIDE DEF before, b0, r, v, va, vr
  <2> QED BY <2>1, <1>2
<1>9. /\ b0 \in [Loc -> Seq(Elements)] /\ Follows(buffer, message, b0, message) /\ Len(b0[l]) \in 1 .. StoreBufferLimit
      /\ b0[l] \in Seq(Elements)
  BY <1>8 DEF Ready, Buffers
<1>10. b0[l] = q
  BY <1>2
<1>11. RmwPublished(b0, l, sync, z)
  <2>1. RmwHalf(clocks[t], h, ord, s) /\ v = (IF Acquires(ord) THEN ViewJoin(view[t], before) ELSE view[t])
        /\ z = ViewJoin(before, IF Releases(ord) THEN v ELSE view_release[t])
    BY <1>4
  <2> HIDE DEF h, s, v, z, before, b0
  <2>2. RmwPublished(b0, l, RmwSync(h, ord, s), z)
    BY <2>1, <1>3, <1>5, <1>8, <1>9, RmwPublishes
  <2> QED BY <2>2
<1>12. sync \in Clocks /\ z \in Views /\ Known(message, z) /\ Covers(b0, sync, z, Loc \ {l})
  BY <1>11 DEF RmwPublished
<1>13. Pushed(b0[l], p, t, r.clock[t], sc, sync, n)
  <2>1. p = StoreImpl(q, t, r, sc, sync, n) /\ q \in Seq(Elements) /\ Len(q) \in 1 .. StoreBufferLimit
    BY <1>9, <1>10
  <2> HIDE DEF q, p, r, sync, sc, n, b0
  <2>2. Pushed(q, p, t, r.clock[t], sc, sync, n)
    BY <2>1, <1>2, <1>5, <1>12, PushShape
  <2> QED BY <2>2, <1>10
<1>14. [b0 EXCEPT ![l] = p] = [buffer EXCEPT ![l] = p]
  <2> HIDE DEF p, q
  <2> QED BY <1>2
<1>15. x \in Views
  <2>1. v \in Views
    <3> HIDE DEF before
    <3> QED BY <1>1, <1>8, ViewJoinShape
  <2> QED BY <2>1, <1>1
<1>16. ViewJoin(before, [x EXCEPT ![l] = n]) = [z EXCEPT ![l] = n]
  <2> HIDE DEF before, x, n
  <2>1. n \in Nat /\ before \in Views /\ x \in Views /\ before[l] < n
    BY <1>2, <1>8, <1>15
  <2>2. before[l] \in Nat /\ ~(before[l] >= n)
    BY <2>1 DEF Views
  <2> QED BY <2>1, <2>2 DEF ViewJoin, Views
<1>17. /\ program' = program /\ clocks' = [clocks EXCEPT ![t] = r] /\ buffer' = [buffer EXCEPT ![l] = p]
       /\ view' = [view EXCEPT ![t] = [v EXCEPT ![l] = n]]
       /\ message' = [message EXCEPT ![l] = Append(message[l], ViewJoin(before, [x EXCEPT ![l] = n]))]
       /\ last_sc_write_per_thread' = ScWrite(last_sc_write_per_thread, r, t, sc)
       /\ view_acquire' = (IF Acquires(ord) THEN view_acquire ELSE [view_acquire EXCEPT ![t] = ViewJoin(view_acquire[t], before)])
       /\ last_sc_fence' = last_sc_fence /\ view_release' = view_release /\ view_sc' = view_sc
  <2>1. n - 1 = Len(message[l])
    BY <1>2
  <2>2. /\ program' = program /\ clocks' = [clocks EXCEPT ![t] = r] /\ buffer' = [buffer EXCEPT ![l] = p]
        /\ last_sc_write_per_thread' = ScWrite(last_sc_write_per_thread, r, t, sc)
        /\ last_sc_fence' = last_sc_fence /\ view_release' = view_release /\ view_sc' = view_sc
    BY DEF Rmw, Step, NextNumber
  <2>3. view' = [view EXCEPT ![t] = [v EXCEPT ![l] = n]]
    BY <2>1 DEF Rmw, NextNumber
  <2>4. view_acquire' = (IF Acquires(ord) THEN view_acquire ELSE [view_acquire EXCEPT ![t] = ViewJoin(view_acquire[t], before)])
    BY <2>1 DEF Rmw, NextNumber
  <2>5. message' = [message EXCEPT ![l] = Append(message[l],
            ViewJoin(before, IF Releases(ord) THEN [v EXCEPT ![l] = n] ELSE [vr EXCEPT ![l] = n]))]
    BY <2>1 DEF Rmw, NextNumber
  <2>6. (IF Releases(ord) THEN [v EXCEPT ![l] = n] ELSE [vr EXCEPT ![l] = n]) = [x EXCEPT ![l] = n]
    <3> HIDE DEF v, vr, n
    <3> QED BY SMTT(40)
  <2> QED BY <2>2, <2>3, <2>4, <2>5, <2>6
<1>18. last_sc_write_per_thread' \in Clocks
  BY <1>2, <1>6, <1>17 DEF ScWrite, Clocks
<1>19. view_acquire' = [view_acquire EXCEPT ![t] = va] /\ view_release' = [view_release EXCEPT ![t] = vr]
  <2> HIDE DEF before
  <2> QED BY <1>2, <1>17
<1> HIDE DEF sc, s, old, h, r, sync, before, q, b0, p, v, va, vr, x, z
<1>20. WriteStep(t, l, r, b0, p, v, va, vr, z)
  BY <1>14, <1>16, <1>17, <1>18, <1>19 DEF WriteStep
<1>21. Pushed(b0[l], p, t, r.clock[t], sc, sync, Len(message[l]) + 1)
  BY <1>13
<1> HIDE DEF n
<1>22. WInv' /\ (sc /\ ScMarks(buffer) => ScMarks(buffer'))
  BY <1>2, <1>5, <1>6, <1>8, <1>12, <1>20, <1>21, WriteKeeps
<1> QED BY <1>17, <1>22 DEF sc

-----------------------------------------------------------------------------
(* A fence. *)

(* The clock of a fence after its acquire half and after its SC half, and  *)
(* the clocks r it leaves behind.                                          *)
AcquiredClock(k, ord) == IF Acquires(ord) THEN ClockJoin(k.clock, k.fence_acquire) ELSE k.clock
FencedClock(k, ord, last) ==
    IF ord = "SeqCst" THEN ClockJoin(AcquiredClock(k, ord), ClockJoin(last, AcquiredClock(k, ord)))
    ELSE AcquiredClock(k, ord)
Fenced(k, r, t, ord, last) ==
    /\ r \in ClockSets /\ r.fence_acquire = k.fence_acquire
    /\ r.clock = IF ord = "Acquire" THEN FencedClock(k, ord, last) ELSE ClockIncrement(FencedClock(k, ord, last), t)
    /\ r.fence_release = IF ord = "Acquire" THEN k.fence_release ELSE FencedClock(k, ord, last)

LEMMA FenceShape ==
    ASSUME NEW k \in ClockSets, NEW t \in Thread, NEW ord \in {"Acquire", "Release", "AcqRel", "SeqCst"},
           NEW last \in Clocks, NEW write \in Clocks, NEW r, r = FenceClocks(k, t, ord, last, write)
    PROVE  Fenced(k, r, t, ord, last)
<1> DEFINE a == AcquiredClock(k, ord)
           d == FencedClock(k, ord, last)
           x == IF ord = "SeqCst" THEN ClockJoin(k.write_seqcst, write) ELSE k.write_seqcst
           c == IF ord = "Acquire" THEN d ELSE ClockIncrement(d, t)
           f == IF ord = "Acquire" THEN k.fence_release ELSE d
           acq == [k EXCEPT !.clock = a]
           sc == [k EXCEPT !.clock = d, !.write_seqcst = x]
<1>1. k.clock \in Clocks /\ k.fence_acquire \in Clocks /\ k.fence_release \in Clocks /\ k.write_seqcst \in Clocks
  BY DEF ClockSets
<1>2. a \in Clocks /\ x \in Clocks
  <2>1. ClockJoin(k.clock, k.fence_acquire) \in Clocks /\ ClockJoin(k.write_seqcst, write) \in Clocks
    BY <1>1, JoinUp
  <2> QED BY <1>1, <2>1 DEF AcquiredClock
<1>3. d = (IF ord = "SeqCst" THEN ClockJoin(a, ClockJoin(last, a)) ELSE a)
  BY DEF FencedClock
<1> HIDE DEF a
<1>4. d \in Clocks
  <2>1. ClockJoin(last, a) \in Clocks
    BY <1>2, JoinUp
  <2>2. ClockJoin(a, ClockJoin(last, a)) \in Clocks
    BY <2>1, <1>2, JoinUp
  <2> QED BY <2>2, <1>2, <1>3
<1> HIDE DEF d
<1>5. c \in Clocks /\ f \in Clocks
  <2>1. ClockIncrement(d, t) \in Clocks
    BY <1>4, TickUp
  <2> QED BY <2>1, <1>1, <1>4
<1>6. (IF ord = "Release" THEN k ELSE LoadAcquire(k, k.fence_acquire)) = acq
  BY DEF LoadAcquire, AcquiredClock, Acquires, ClockSets, a
<1>7. acq \in ClockSets /\ acq.clock = a /\ acq.write_seqcst = k.write_seqcst
  BY <1>2 DEF ClockSets
<1>8. (IF ord # "SeqCst" THEN acq ELSE [acq EXCEPT !.clock = ClockJoin(acq.clock, ScFenceClock(acq, last)),
                                                   !.write_seqcst = ClockJoin(acq.write_seqcst, write)]) = sc
  <2> HIDE DEF acq
  <2>1. CASE ord = "SeqCst"
    BY <2>1, <1>3, <1>7 DEF ScFenceClock, ClockSets, acq
  <2>2. CASE ord # "SeqCst"
    BY <2>2, <1>3 DEF ClockSets, acq
  <2> QED BY <2>1, <2>2
<1>9. r = IF ord = "Acquire" THEN sc ELSE Tick([sc EXCEPT !.fence_release = sc.clock], t)
  <2> DEFINE acq0 == IF ord = "Release" THEN k ELSE LoadAcquire(k, k.fence_acquire)
             sc0 == IF ord # "SeqCst" THEN acq0
                    ELSE [acq0 EXCEPT !.clock = ClockJoin(acq0.clock, ScFenceClock(acq0, last)),
                                      !.write_seqcst = ClockJoin(acq0.write_seqcst, write)]
  <2>1. r = IF ord = "Acquire" THEN sc0 ELSE Tick([sc0 EXCEPT !.fence_release = sc0.clock], t)
    BY DEF FenceClocks
  <2>2. acq0 = acq
    BY <1>6
  <2> HIDE DEF acq0, acq, sc
  <2>3. sc0 = sc
    BY <2>2, <1>8
  <2> HIDE DEF sc0
  <2> QED BY <2>1, <2>3
<1>10. sc \in ClockSets /\ sc.clock = d /\ sc.fence_release = k.fence_release /\ sc.fence_acquire = k.fence_acquire
  BY <1>2, <1>4 DEF ClockSets
<1> HIDE DEF sc
<1>11. r = [sc EXCEPT !.clock = c, !.fence_release = f]
  <2>1. CASE ord = "Acquire"
    BY <2>1, <1>9, <1>10 DEF ClockSets
  <2>2. CASE ord # "Acquire"
    BY <2>2, <1>9, <1>10 DEF ClockSets, Tick
  <2> QED BY <2>1, <2>2
<1> HIDE DEF c, f
<1>12. r \in ClockSets /\ r.clock = c /\ r.fence_release = f /\ r.fence_acquire = k.fence_acquire
  BY <1>5, <1>10, <1>11 DEF ClockSets
<1> QED BY <1>12 DEF Fenced, c, f, d

(* The views after a fence. *)
AcquiredView(t, ord) == IF Acquires(ord) THEN ViewJoin(view[t], view_acquire[t]) ELSE view[t]
FencedView(t, ord) == IF ord = "SeqCst" THEN ViewJoin(AcquiredView(t, ord), view_sc) ELSE AcquiredView(t, ord)

(* They are covered by the clock of the fence, and after an SC fence by    *)
(* last_sc_fence too.                                                      *)
FenceCovered(t, ord, g) ==
    LET d == FencedClock(clocks[t], ord, last_sc_fence) IN
    /\ d \in Clocks /\ g \in Clocks /\ ClockLeq(clocks[t].clock, d)
    /\ FencedView(t, ord) \in Views /\ Known(message, FencedView(t, ord)) /\ Covers(buffer, d, FencedView(t, ord), Loc)
    /\ ScOk(buffer, message, g, IF ord = "SeqCst" THEN FencedView(t, ord) ELSE view_sc)

LEMMA FenceCovers ==
    ASSUME WInv, NEW t \in Thread, NEW ord \in {"Acquire", "Release", "AcqRel", "SeqCst"},
           NEW g, g = FenceGlobal(clocks[t], ord, last_sc_fence)
    PROVE  FenceCovered(t, ord, g)
<1> DEFINE k == clocks[t]
           last == last_sc_fence
           a == AcquiredClock(k, ord)
           d == FencedClock(k, ord, last)
           J == ClockJoin(k.clock, k.fence_acquire)
           v == view[t]
           va == view_acquire[t]
           w == AcquiredView(t, ord)
           x == FencedView(t, ord)
           m == message
           G == ClockJoin(last, a)
           vs == view_sc
<1>1. /\ Shape /\ ThreadOk(buffer, m, k, v, va, view_release[t]) /\ ScOk(buffer, m, last, vs)
      /\ k \in ClockSets /\ k.clock \in Clocks /\ k.fence_acquire \in Clocks /\ v \in Views /\ va \in Views
  BY Parts
<1>2. buffer \in [Loc -> Seq(Elements)] /\ last \in Clocks /\ Loc \in SUBSET Loc
  BY <1>1 DEF Shape
<1>3. J \in Clocks /\ ClockLeq(k.clock, J)
  BY <1>1, JoinUp
<1>4. /\ Known(m, v) /\ Known(m, va) /\ Covers(buffer, k.clock, v, Loc) /\ Covers(buffer, J, va, Loc)
      /\ Known(m, vs) /\ vs \in Views /\ Covers(buffer, last, vs, Loc)
  BY <1>1 DEF ThreadOk, ScOk, Known
<1>5. /\ w = (IF Acquires(ord) THEN ViewJoin(v, va) ELSE v)
      /\ a = (IF Acquires(ord) THEN J ELSE k.clock)
  BY DEF AcquiredView, AcquiredClock
<1>6. /\ x = (IF ord = "SeqCst" THEN ViewJoin(w, vs) ELSE w)
      /\ d = (IF ord = "SeqCst" THEN ClockJoin(a, G) ELSE a)
  BY DEF FencedView, FencedClock
<1>7. g = IF ord = "SeqCst" THEN G ELSE last
  <2>1. LoadAcquire(k, k.fence_acquire).clock = J
    BY <1>1 DEF LoadAcquire, ClockSets
  <2>2. CASE ord = "SeqCst"
    BY <2>1, <2>2, <1>5 DEF FenceGlobal, ScFenceClock, Acquires
  <2>3. CASE ord # "SeqCst"
    BY <2>3 DEF FenceGlobal
  <2> QED BY <2>2, <2>3
<1> HIDE DEF k, last, a, d, J, v, va, w, x, m, G, vs
<1>8. a \in Clocks /\ ClockLeq(k.clock, a) /\ w \in Views /\ Known(m, w) /\ Covers(buffer, a, w, Loc)
  <2>1. CASE Acquires(ord)
    <3>1. Covers(buffer, J, v, Loc)
      BY <1>1, <1>2, <1>3, <1>4, CoversGrows
    <3>2. ViewJoin(v, va) \in Views /\ Known(m, ViewJoin(v, va)) /\ Covers(buffer, J, ViewJoin(v, va), Loc)
      BY <3>1, <1>1, <1>4, ViewJoinShape, KnownJoin, CoversEither
    <3> QED BY <2>1, <3>2, <1>3, <1>5
  <2>2. CASE ~Acquires(ord)
    BY <2>2, <1>1, <1>4, <1>5, LeqReflexive
  <2> QED BY <2>1, <2>2
<1>9. CASE ord = "SeqCst"
  <2>1. G \in Clocks /\ ClockLeq(last, G) /\ ClockLeq(a, G)
    BY <1>2, <1>8, JoinUp DEF G
  <2>2. d \in Clocks /\ ClockLeq(a, d) /\ ClockLeq(G, d)
    BY <2>1, <1>6, <1>8, <1>9, JoinUp
  <2>3. ClockLeq(k.clock, d)
    BY <2>2, <1>1, <1>8, LeqTransitive
  <2>4. Covers(buffer, G, w, Loc) /\ Covers(buffer, G, vs, Loc)
    BY <2>1, <1>2, <1>4, <1>8, CoversGrows
  <2>5. x \in Views /\ Known(m, x) /\ Covers(buffer, G, x, Loc)
    BY <2>4, <1>4, <1>6, <1>8, <1>9, ViewJoinShape, KnownJoin, CoversEither
  <2>6. Covers(buffer, d, x, Loc)
    BY <2>1, <2>2, <2>5, <1>2, CoversGrows
  <2>7. g = G
    BY <1>7, <1>9
  <2> QED BY <2>1, <2>2, <2>3, <2>5, <2>6, <2>7, <1>9 DEF FenceCovered, ScOk, d, x, m, k, last
<1>10. CASE ord # "SeqCst"
  <2>1. x = w /\ d = a /\ g = last
    BY <1>6, <1>7, <1>10
  <2>2. ScOk(buffer, m, g, vs)
    BY <2>1, <1>1
  <2> QED BY <2>1, <2>2, <1>2, <1>8, <1>10 DEF FenceCovered, d, x, m, k, last, vs
<1> QED BY <1>9, <1>10

LEMMA FenceKeeps ==
    ASSUME WInv, NEW t \in Thread, NEW ord \in program.fences, Fence(t, ord)
    PROVE  WInv' /\ program' = program /\ buffer' = buffer
<1> DEFINE old == clocks[t]
           last == last_sc_fence
           write == last_sc_write_per_thread
           r == FenceClocks(old, t, ord, last, write)
           g == FenceGlobal(old, ord, last)
           d == FencedClock(old, ord, last)
           v == FencedView(t, ord)
           va == view_acquire[t]
           vr == IF Releases(ord) THEN v ELSE view_release[t]
           m == message
           I == ClockJoin(old.clock, old.fence_acquire)
           J == ClockJoin(r.clock, r.fence_acquire)
<1>1. /\ Shape /\ Buffers(buffer, m) /\ Messages(buffer, m) /\ ThreadOk(buffer, m, old, view[t], va, view_release[t])
      /\ old \in ClockSets /\ old.clock \in Clocks /\ old.fence_acquire \in Clocks
      /\ \A x \in Loc : \A i \in 1 .. Len(buffer[x]) : \A u \in Thread :
            buffer[x][i].loads[u] \in Nat /\ buffer[x][i].loads[u] <= clocks[u].clock[u]
  BY Parts
<1>2. /\ buffer \in [Loc -> Seq(Elements)] /\ m \in [Loc -> Seq(Views)] /\ last \in Clocks /\ write \in Clocks
      /\ view_acquire \in [Thread -> Views] /\ view_release \in [Thread -> Views] /\ Loc \in SUBSET Loc
  BY <1>1 DEF Shape
<1>3. ord \in {"Acquire", "Release", "AcqRel", "SeqCst"}
  BY WeakMemoryAssumption, <1>1 DEF Shape, Program
<1>4. FenceCovered(t, ord, g)
  BY <1>3, FenceCovers
<1>5. /\ d \in Clocks /\ g \in Clocks /\ ClockLeq(old.clock, d) /\ v \in Views /\ Known(m, v) /\ Covers(buffer, d, v, Loc)
      /\ ScOk(buffer, m, g, IF ord = "SeqCst" THEN v ELSE view_sc)
  BY <1>4 DEF FenceCovered
<1>6. Fenced(old, r, t, ord, last)
  <2>1. r = FenceClocks(old, t, ord, last, write)
    OBVIOUS
  <2> HIDE DEF old, r, last, write
  <2> QED BY <2>1, <1>1, <1>2, <1>3, FenceShape
<1>7. /\ r \in ClockSets /\ r.fence_acquire = old.fence_acquire
      /\ r.clock = (IF ord = "Acquire" THEN d ELSE ClockIncrement(d, t))
      /\ r.fence_release = (IF ord = "Acquire" THEN old.fence_release ELSE d)
  BY <1>6 DEF Fenced
<1>8. /\ program' = program /\ clocks' = [clocks EXCEPT ![t] = r] /\ last_sc_fence' = g
      /\ view_sc' = (IF ord = "SeqCst" THEN v ELSE view_sc)
      /\ buffer' = buffer /\ message' = message /\ last_sc_write_per_thread' = write
      /\ view' = [view EXCEPT ![t] = v] /\ view_acquire' = view_acquire
      /\ view_release' = (IF Releases(ord) THEN [view_release EXCEPT ![t] = v] ELSE view_release)
  BY DEF Fence, Step, FencedView, AcquiredView
<1>9. view_acquire' = [view_acquire EXCEPT ![t] = va] /\ view_release' = [view_release EXCEPT ![t] = vr]
  <2> HIDE DEF v
  <2> QED BY <1>2, <1>8
<1> HIDE DEF r, d, g, v, old, last, write
<1>10. r.clock \in Clocks /\ r.fence_acquire \in Clocks /\ ClockLeq(d, r.clock) /\ ClockLeq(old.clock, r.clock)
  <2>1. r.clock \in Clocks /\ r.fence_acquire \in Clocks
    BY <1>7 DEF ClockSets
  <2>2. ClockLeq(d, r.clock)
    BY <1>5, <1>7, TickUp, LeqReflexive
  <2> QED BY <2>1, <2>2, <1>1, <1>5, LeqTransitive
<1>11. Covers(buffer, r.clock, v, Loc)
  BY <1>2, <1>5, <1>10, CoversGrows
<1>12. Covers(buffer, J, va, Loc) /\ Known(m, va)
  <2>1. ClockLeq(old.fence_acquire, r.fence_acquire)
    BY <1>1, <1>7, LeqReflexive
  <2>2. I \in Clocks /\ J \in Clocks /\ ClockLeq(I, J)
    BY <2>1, <1>1, <1>10, JoinUp, JoinMonotone
  <2>3. Covers(buffer, I, va, Loc) /\ Known(m, va)
    BY <1>1 DEF ThreadOk
  <2> HIDE DEF I, J, va
  <2> QED BY <2>2, <2>3, <1>2, CoversGrows
<1>13. Covers(buffer, r.fence_release, vr, Loc) /\ Known(m, vr)
  <2>1. CASE ord = "Acquire"
    <3>1. vr = view_release[t] /\ r.fence_release = old.fence_release
      BY <2>1, <1>7 DEF Releases
    <3> QED BY <3>1, <1>1 DEF ThreadOk
  <2>2. CASE ord # "Acquire"
    <3>1. vr = v /\ r.fence_release = d
      BY <2>2, <1>3, <1>7 DEF Releases
    <3> QED BY <3>1, <1>5
  <2> QED BY <2>1, <2>2
<1>14. ThreadOk(buffer, m, r, v, va, vr)
  <2> HIDE DEF va, vr
  <2> QED BY <1>5, <1>11, <1>12, <1>13 DEF ThreadOk, J
<1>15. Follows(buffer, message, buffer, message)
  <2>1. \A x \in Loc : Len(message[x]) \in Nat
    BY <1>2
  <2> QED BY <2>1 DEF Follows, Heir
<1>16. ASSUME NEW x \in Loc, NEW i \in 1 .. Len(buffer[x])
       PROVE  /\ ~(buffer[x][i].val > Len(message[x]))
              /\ buffer[x][i].loads[t] <= r.clock[t]
              /\ \A u \in Thread \ {t} : buffer[x][i].loads[u] <= clocks[u].clock[u]
  <2>1. ~(buffer[x][i].val > Len(message[x]))
    <3>1. Distinct(buffer, m, x, i)
      <4> HIDE DEF m
      <4> QED BY <1>1, <1>2, NumbersDiffer
    <3>2. buffer[x][i].val \in 1 .. Len(m[x]) /\ Len(m[x]) \in Nat
      BY <3>1, <1>2 DEF Distinct
    <3> QED BY <3>2
  <2>2. buffer[x][i].loads[t] <= r.clock[t]
    <3>1. buffer[x][i].loads[t] \in Nat /\ buffer[x][i].loads[t] <= old.clock[t]
      BY <1>1 DEF old
    <3>2. old.clock[t] <= r.clock[t] /\ old.clock[t] \in Nat /\ r.clock[t] \in Nat
      BY <1>1, <1>10 DEF ClockLeq, Clocks
    <3> QED BY <3>1, <3>2
  <2>3. \A u \in Thread \ {t} : buffer[x][i].loads[u] <= clocks[u].clock[u]
    BY <1>1
  <2> QED BY <2>1, <2>2, <2>3
<1> HIDE DEF va, vr
<1>17. /\ buffer' \in [Loc -> Seq(Elements)] /\ message' \in [Loc -> Seq(Views)]
       /\ Follows(buffer, message, buffer', message') /\ Buffers(buffer', message')
       /\ ThreadOk(buffer', message', r, v, va, vr) /\ ScOk(buffer', message', last_sc_fence', view_sc')
       /\ last_sc_fence' \in Clocks /\ last_sc_write_per_thread' \in Clocks /\ ClockLeq(clocks[t].clock, r.clock)
  BY <1>1, <1>2, <1>5, <1>8, <1>10, <1>14, <1>15 DEF old
<1>18. \A x \in Loc : \A i \in 1 .. Len(buffer'[x]) :
         buffer'[x][i].val > Len(message[x]) => MessageOk(buffer', message', x, buffer'[x][i])
  BY <1>8, <1>16
<1>19. \A x \in Loc : \A i \in 1 .. Len(buffer'[x]) :
         /\ buffer'[x][i].loads[t] <= r.clock[t]
         /\ \A u \in Thread \ {t} : buffer'[x][i].loads[u] <= clocks[u].clock[u]
  BY <1>8, <1>16
<1> QED BY <1>7, <1>8, <1>9, <1>17, <1>18, <1>19, StepKeeps

-----------------------------------------------------------------------------

LEMMA InitKeeps == Init => WInv
<1> SUFFICES ASSUME Init PROVE WInv
  OBVIOUS
<1> USE DEF Init
<1> DEFINE e == Element(0, 0, ZeroClock, FALSE, 1)
<1>1. ZeroClock \in Clocks /\ Oldest \in Views /\ 0 \in Thread /\ \A u \in Thread : ZeroClock[u] = 0
  BY StoreBufferAssumption DEF ZeroClock, Clocks, Oldest, Views
<1>2. ASSUME NEW t \in Thread
      PROVE  /\ NewClockSet(t) \in ClockSets /\ NewClockSet(t).clock \in Clocks /\ NewClockSet(t).fence_acquire = ZeroClock
             /\ NewClockSet(t).fence_release = ZeroClock
  <2>1. ClockIncrement(ZeroClock, t) \in Clocks
    BY <1>1, TickUp
  <2> QED BY <2>1, <1>1 DEF NewClockSet, ClockSets
<1>3. e \in Elements /\ e.val = 1 /\ e.store_timestamp = 0 /\ e.store_thread = 0 /\ e.loads = ZeroClock
      /\ e.sync_clock = ZeroClock
  BY <1>1 DEF Element, Elements
<1>4. ASSUME NEW l \in Loc
      PROVE  /\ buffer[l] = <<e>> /\ Len(buffer[l]) = 1 /\ buffer[l][1] = e /\ message[l] = <<Oldest>>
             /\ Len(message[l]) = 1 /\ message[l][1] = Oldest
  BY DEF NewBuffer
<1> HIDE DEF e
<1>5. Shape
  <2>1. clocks \in [Thread -> ClockSets]
    BY <1>2
  <2>2. <<e>> \in Seq(Elements) /\ <<Oldest>> \in Seq(Views)
    BY <1>1, <1>3
  <2>3. buffer \in [Loc -> Seq(Elements)] /\ message \in [Loc -> Seq(Views)]
    BY <2>2 DEF NewBuffer, e
  <2>4. view \in [Thread -> Views] /\ view_acquire \in [Thread -> Views] /\ view_release \in [Thread -> Views]
    BY <1>1
  <2> QED BY <2>1, <2>3, <2>4, <1>1 DEF Shape
<1>6. Buffers(buffer, message)
  <2> SUFFICES ASSUME NEW l \in Loc
               PROVE  /\ Len(buffer[l]) \in 1 .. StoreBufferLimit /\ Len(buffer[l]) <= Len(message[l])
                      /\ \A i \in 1 .. Len(buffer[l]) : buffer[l][i].val = Len(message[l]) - Len(buffer[l]) + i
    BY DEF Buffers
  <2>1. Len(buffer[l]) = 1 /\ Len(message[l]) = 1 /\ buffer[l][1].val = 1
    BY <1>3, <1>4
  <2> HIDE DEF Init
  <2> QED BY <2>1, StoreBufferAssumption
<1>7. \A c \in Clocks : \A v : \A L \in SUBSET Loc : Covers(buffer, c, v, L)
  <2> SUFFICES ASSUME NEW c \in Clocks, NEW l \in Loc PROVE Happened(e, c)
    BY <1>4 DEF Covers
  <2>1. c[0] \in Nat
    BY <1>1 DEF Clocks
  <2> QED BY <2>1, <1>3 DEF Happened
<1>8. Known(message, Oldest)
  BY <1>1, <1>4 DEF Known, Oldest
<1>9. Messages(buffer, message)
  <2> SUFFICES ASSUME NEW l \in Loc PROVE MessageOk(buffer, message, l, e)
    BY <1>4, SMTT(40) DEF Messages
  <2>1. Covers(buffer, ZeroClock, Oldest, Loc \ {l})
    <3>1. Loc \ {l} \in SUBSET Loc
      OBVIOUS
    <3> HIDE DEF Init
    <3> QED BY <3>1, <1>1, <1>7
  <2> QED BY <2>1, <1>3, <1>4, <1>8 DEF MessageOk, Oldest
<1>10. OwnLoads(buffer, clocks)
  <2> SUFFICES ASSUME NEW t \in Thread, NEW l \in Loc, NEW i \in 1 .. Len(buffer[l])
               PROVE  buffer[l][i].loads[t] <= clocks[t].clock[t]
    BY DEF OwnLoads
  <2>2. buffer[l][i] = e
    <3> HIDE DEF Init
    <3> QED BY <1>4
  <2>1. clocks[t].clock[t] \in Nat
    BY <1>2 DEF Clocks
  <2> QED BY <2>1, <2>2, <1>1, <1>3
<1>11. ASSUME NEW t \in Thread
       PROVE  ThreadOk(buffer, message, clocks[t], view[t], view_acquire[t], view_release[t])
  <2>1. view[t] = Oldest /\ view_acquire[t] = Oldest /\ view_release[t] = Oldest /\ clocks[t] = NewClockSet(t)
    OBVIOUS
  <2>2. ClockJoin(clocks[t].clock, clocks[t].fence_acquire) \in Clocks
    BY <2>1, <1>1, <1>2, JoinUp
  <2>3. clocks[t].clock \in Clocks /\ clocks[t].fence_release \in Clocks
    BY <2>1, <1>1, <1>2
  <2>4. Loc \in SUBSET Loc
    OBVIOUS
  <2> HIDE DEF Init
  <2> QED BY <2>1, <2>2, <2>3, <2>4, <1>7, <1>8 DEF ThreadOk
<1>12. ScOk(buffer, message, last_sc_fence, view_sc)
  <2>1. last_sc_fence = ZeroClock /\ view_sc = Oldest /\ Loc \in SUBSET Loc
    OBVIOUS
  <2> HIDE DEF Init
  <2> QED BY <2>1, <1>1, <1>7, <1>8 DEF ScOk
<1> QED BY <1>5, <1>6, <1>9, <1>10, <1>11, <1>12 DEF WInv

LEMMA NextKeeps ==
    ASSUME WInv, OnlySeqCst => ScMarks(buffer), [Next]_vars
    PROVE  WInv' /\ (OnlySeqCst => ScMarks(buffer))'
<1>1. CASE UNCHANGED vars
  BY <1>1 DEF vars, codeVars, viewVars, WInv, Shape, OnlySeqCst
<1>2. CASE Next
  <2>1. PICK t \in Thread :
          \/ \E l \in Loc :
              \/ \E ord \in program.loads : Load(t, l, ord) \/ CompareExchangeFails(t, l, ord)
              \/ \E ord \in program.stores : Store(t, l, ord)
              \/ \E ord \in program.rmws : Rmw(t, l, ord)
          \/ \E ord \in program.fences : Fence(t, ord)
    BY <1>2 DEF Next
  <2>2. ASSUME NEW l \in Loc, NEW ord \in program.loads, Load(t, l, ord) \/ CompareExchangeFails(t, l, ord)
        PROVE  WInv' /\ program' = program /\ (OnlySeqCst => ScMarks(buffer'))
    BY <2>2, LoadKeeps
  <2>3. ASSUME NEW l \in Loc, NEW ord \in program.stores, Store(t, l, ord)
        PROVE  WInv' /\ program' = program /\ (OnlySeqCst => ScMarks(buffer'))
    <3>1. WInv' /\ program' = program /\ (ord = "SeqCst" /\ ScMarks(buffer) => ScMarks(buffer'))
      BY <2>3, StoreKeeps
    <3> QED BY <3>1 DEF OnlySeqCst
  <2>4. ASSUME NEW l \in Loc, NEW ord \in program.rmws, Rmw(t, l, ord)
        PROVE  WInv' /\ program' = program /\ (OnlySeqCst => ScMarks(buffer'))
    <3>1. WInv' /\ program' = program /\ (ord = "SeqCst" /\ ScMarks(buffer) => ScMarks(buffer'))
      BY <2>4, RmwKeeps
    <3> QED BY <3>1 DEF OnlySeqCst
  <2>5. ASSUME NEW ord \in program.fences, Fence(t, ord)
        PROVE  WInv' /\ program' = program /\ (OnlySeqCst => ScMarks(buffer'))
    BY <2>5, FenceKeeps
  <2>6. WInv' /\ program' = program /\ (OnlySeqCst => ScMarks(buffer'))
    BY <2>1, <2>2, <2>3, <2>4, <2>5
  <2> QED BY <2>6 DEF OnlySeqCst
<1> QED BY <1>1, <1>2

LEMMA Invariant == Spec => []WInv /\ [](OnlySeqCst => ScMarks(buffer))
<1>1. Init => (OnlySeqCst => ScMarks(buffer))
  <2> SUFFICES ASSUME Init, NEW l \in Loc, NEW i \in 1 .. Len(buffer[l])
               PROVE  Len(buffer[l]) = 1 /\ buffer[l][i].store_timestamp = 0
    BY DEF ScMarks
  <2>1. buffer[l] = <<Element(0, 0, ZeroClock, FALSE, 1)>>
    BY DEF Init, NewBuffer
  <2>2. Len(buffer[l]) = 1 /\ i = 1 /\ buffer[l][1] = Element(0, 0, ZeroClock, FALSE, 1)
    BY <2>1
  <2> QED BY <2>2 DEF Element
<1>2. WInv /\ (OnlySeqCst => ScMarks(buffer)) /\ [Next]_vars => WInv' /\ (OnlySeqCst => ScMarks(buffer))'
  BY NextKeeps
<1> QED BY <1>1, <1>2, InitKeeps, PTL DEF Spec

-----------------------------------------------------------------------------

(* read_scalar_atomic, write_scalar_atomic, the read-modify-writes and     *)
(* atomic_fence keep clock sets, bounded non-empty buffers of well-formed  *)
(* elements and views of the shape TypeOK states.                          *)
THEOREM TypeCorrect == Spec => []TypeOK
<1>1. WInv => TypeOK
  <2> SUFFICES ASSUME WInv PROVE TypeOK
    OBVIOUS
  <2>1. Shape /\ Buffers(buffer, message) /\ view_sc \in Views
    BY DEF WInv, ScOk, Known
  <2>2. ASSUME NEW l \in Loc, NEW i \in 1 .. Len(buffer[l]) PROVE buffer[l][i] \in Elements
    <3>1. buffer[l] \in Seq(Elements)
      BY <2>1 DEF Shape
    <3> QED BY <3>1
  <2> QED BY <2>1, <2>2 DEF TypeOK, Shape, Buffers, Elements
<1> QED BY <1>1, Invariant, PTL

(* fetch_store never offers a store older than one that happened before    *)
(* the load, for any number of threads, locations and operations and any   *)
(* STORE_BUFFER_LIMIT: the timestamps and the recorded loads together      *)
(* do what the views of the memory model do.                               *)
THEOREM ReadsAreCoherent == Spec => []ReadsCoherent
<1>1. WInv => ReadsCoherent
  <2> SUFFICES ASSUME WInv, NEW t \in Thread, NEW l \in Loc, NEW sc \in BOOLEAN, NEW i \in Readable(t, l, sc)
               PROVE  Number(l, i) >= view[t][l]
    BY DEF ReadsCoherent
  <2> DEFINE k == ScRead(clocks[t], last_sc_fence, sc)
             B == Len(buffer[l])
             M == Len(message[l])
             v == view[t][l]
  <2>1. /\ Shape /\ Buffers(buffer, message) /\ clocks[t] \in ClockSets /\ view[t] \in Views
        /\ ThreadOk(buffer, message, clocks[t], view[t], view_acquire[t], view_release[t])
    BY Parts
  <2>2. k.clock = clocks[t].clock
    BY <2>1 DEF ScRead, ClockSets
  <2>3. i \in 1 .. B /\ \A j \in i + 1 .. B : KeepSearching(buffer[l][j], k, sc)
    BY DEF Readable, Candidates
  <2>4. B \in Nat /\ M \in Nat /\ B <= M /\ \A j \in 1 .. B : buffer[l][j].val = M - B + j
    BY <2>1 DEF Buffers, Shape
  <2>5. v \in Nat /\ v <= M
    BY <2>1 DEF ThreadOk, Known, Views
  <2> SUFFICES ASSUME ~(M - B + i >= v) PROVE FALSE
    BY <2>3, <2>4 DEF Number
  <2> DEFINE j == v - (M - B)
  <2> HIDE DEF k, B, M, v
  <2>6. j \in i + 1 .. B /\ j \in 1 .. B /\ M - B + j = v
    BY <2>3, <2>4, <2>5
  <2> HIDE DEF j
  <2>7. buffer[l][j].val = v
    BY <2>4, <2>6
  <2>8. Happened(buffer[l][j], k.clock)
    BY <2>1, <2>2, <2>6, <2>7 DEF ThreadOk, Covers, B, v
  <2>9. KeepSearching(buffer[l][j], k, sc)
    BY <2>3, <2>6
  <2> QED BY <2>8, <2>9 DEF Happened, KeepSearching
<1> QED BY <1>1, Invariant, PTL

(* A program that uses only SC accesses cannot tell the store buffer from  *)
(* a single cell: fetch_store has no choice but the last store.            *)
THEOREM SeqCstPrograms == Spec => []SeqCstIsSequential
<1>1. WInv /\ (OnlySeqCst => ScMarks(buffer)) => SeqCstIsSequential
  <2> SUFFICES ASSUME WInv, ScMarks(buffer), NEW t \in Thread, NEW l \in Loc
               PROVE  Readable(t, l, TRUE) = {Len(buffer[l])}
    BY DEF SeqCstIsSequential
  <2> DEFINE k == ScRead(clocks[t], last_sc_fence, TRUE)
             b == buffer[l]
  <2>1. Len(b) \in Nat /\ Len(b) >= 1
    <3>1. Shape /\ Buffers(buffer, message)
      BY Parts
    <3>2. Len(b) \in Nat /\ Len(b) \in 1 .. StoreBufferLimit
      BY <3>1 DEF Buffers, Shape
    <3> QED BY <3>2
  <2>2. \A i \in 1 .. Len(b) : b[i].is_seqcst \/ Len(b) = 1
    BY DEF ScMarks
  <2>3. Readable(t, l, TRUE) = Candidates(b, k, TRUE)
    BY DEF Readable
  <2> HIDE DEF b, k
  <2>4. ASSUME NEW i \in Candidates(b, k, TRUE) PROVE i = Len(b)
    <3> SUFFICES ASSUME i # Len(b) PROVE FALSE
      OBVIOUS
    <3>1. i \in 1 .. Len(b) /\ ~(b[i].is_seqcst /\ \E j \in i + 1 .. Len(b) : b[j].is_seqcst)
      BY DEF Candidates
    <3>2. Len(b) \in i + 1 .. Len(b) /\ Len(b) \in 1 .. Len(b) /\ Len(b) # 1
      <4> DEFINE N == Len(b)
      <4>1. N \in Nat /\ N >= 1 /\ i \in 1 .. N /\ i # N
        BY <2>1, <3>1
      <4> HIDE DEF N
      <4>2. N \in i + 1 .. N /\ N \in 1 .. N /\ N # 1
        BY <4>1
      <4> QED BY <4>2 DEF N
    <3> QED BY <2>2, <3>1, <3>2
  <2>5. Len(b) \in Candidates(b, k, TRUE)
    <3>1. Len(b) \in 1 .. Len(b) /\ Len(b) + 1 .. Len(b) = {}
      BY <2>1
    <3> QED BY <3>1 DEF Candidates
  <2>6. Candidates(b, k, TRUE) = {Len(b)}
    BY <2>4, <2>5
  <2> QED BY <2>3, <2>6 DEF b
<1> QED BY <1>1, Invariant, PTL

=============================================================================
