------------------------------ MODULE DataRace ------------------------------
(***************************************************************************)
(* The vector-clock race detector of src/src/concurrency/data_race.rs for  *)
(* one memory cell: MemoryCellClocks, the thread hooks of GlobalState      *)
(* (creation, termination, join, re-use of vector indices, the switch that *)
(* turns detection off while a program is single-threaded), fences, and    *)
(* one synchronization object that threads release and acquire.  Threads   *)
(* and vector indices are told apart.                                      *)
(*                                                                         *)
(* The reference is the definition of a race: `log` lists the accesses and *)
(* hb[t] the accesses that happen before t's next one, propagated along    *)
(* synchronizes-with edges without any clock.                              *)
(***************************************************************************)
EXTENDS StoreBuffer, FiniteSets

CONSTANTS
    None,
    RacePrograms  \* the kinds of program the detector is given, see RaceProgram

(* What a program may do: how many threads it has, the sizes and orderings *)
(* of its atomic accesses, its fences, whether it uses the synchronization *)
(* object, whether the cell is in CPU-local memory, and the bound on its   *)
(* operations.                                                             *)
RaceProgram(p) ==
    /\ p.threads \in Nat /\ 0 .. p.threads - 1 \subseteq Thread
    /\ None \notin Thread \cup p.sizes /\ IsFiniteSet(p.sizes)
    /\ None \notin [read_vector : Clocks, write_vector : Clocks, sync_vector : Clocks, size : p.sizes \cup {None}]
    /\ p.object \in BOOLEAN /\ p.cpu_local \in BOOLEAN /\ p.max_ops \in Nat
    /\ p.loads \subseteq {"Relaxed", "Acquire", "SeqCst"}
    /\ p.stores \subseteq {"Relaxed", "Release", "SeqCst"}
    /\ p.rmws \subseteq {"Relaxed", "Acquire", "Release", "AcqRel", "SeqCst"}
    /\ p.fences \subseteq {"Acquire", "Release", "AcqRel", "SeqCst"}

ASSUME DataRaceAssumption == \A p \in RacePrograms : RaceProgram(p)

VARIABLES
    race_program,       \* the program under detection
    life,               \* Unborn, Live or Terminated
    vector_index,       \* ThreadExtraState.vector_index
    termination_clock,  \* ThreadExtraState.termination_vector_clock
    vector_clocks,      \* vector_clocks: by vector index
    allocated,          \* how many vector indices exist
    reuse_candidates,
    multi_threaded,
    race_sc_fence,
    cell,               \* MemoryCellClocks
    obj_clock,          \* the clock of a mutex, condition variable ...
    log, hb, hb_acquire, hb_release, hb_cell, hb_obj, hb_end, hb_sc,   \* reference
    race_ops, halt

globalVars == <<life, vector_index, termination_clock, allocated, reuse_candidates, multi_threaded>>
refVars == <<log, hb, hb_acquire, hb_release, hb_cell, hb_obj, hb_end, hb_sc>>
raceVars == <<race_program, globalVars, vector_clocks, race_sc_fence, cell, obj_clock, refVars, race_ops, halt>>

NoAtomics == None
NewAtomics(size) == [read_vector |-> ZeroClock, write_vector |-> ZeroClock,
                     sync_vector |-> ZeroClock, size |-> size]
EmptyClockSet == [clock |-> ZeroClock, fence_acquire |-> ZeroClock, fence_release |-> ZeroClock,
                  write_seqcst |-> ZeroClock, read_seqcst |-> ZeroClock]

(* GlobalState::new, and a cell allocated by the main thread. *)
RaceInit ==
    /\ race_program \in RacePrograms
    /\ life = [t \in Thread |-> IF t = 0 THEN "Live" ELSE "Unborn"]
    /\ vector_index = [t \in Thread |-> IF t = 0 THEN 0 ELSE None]
    /\ termination_clock = [t \in Thread |-> None]
    /\ vector_clocks = [i \in Thread |-> EmptyClockSet]
    /\ allocated = 1 /\ reuse_candidates = {} /\ multi_threaded = FALSE
    /\ race_sc_fence = ZeroClock
    /\ cell = [write_index |-> 0, write_time |-> 0, read |-> ZeroClock, atomic_ops |-> NoAtomics]
    /\ obj_clock = ZeroClock
    /\ log = <<>> /\ hb_cell = {} /\ hb_obj = {} /\ hb_sc = {}
    /\ hb = [t \in Thread |-> {}] /\ hb_acquire = [t \in Thread |-> {}]
    /\ hb_release = [t \in Thread |-> {}] /\ hb_end = [t \in Thread |-> {}]
    /\ race_ops = 0 /\ halt = "no"

-----------------------------------------------------------------------------
(* Detection. *)

Clock(t) == vector_clocks[vector_index[t]].clock

(* cpu_local_alloc_set: non-atomic accesses are neither checked nor noted. *)
CpuLocal == race_program.cpu_local

WriteWasBefore(c) == cell.write_time <= c[cell.write_index]

AtomicsBefore(f, c) == cell.atomic_ops = NoAtomics \/ ClockLeq(cell.atomic_ops[f], c)

(* Mutant: a non-atomic read is not checked against atomic stores. *)
NaReadRacesIgnoringAtomics(c) == ~WriteWasBefore(c)

(* non_atomic_read_detect. *)
NaReadRaces(c) == ~(WriteWasBefore(c) /\ AtomicsBefore("write_vector", c))

(* non_atomic_write_detect. *)
NaWriteRaces(c) ==
    ~(/\ WriteWasBefore(c) /\ ClockLeq(cell.read, c)
      /\ AtomicsBefore("write_vector", c) /\ AtomicsBefore("read_vector", c))

(* atomic_access: sizes may only be mixed when enough is ordered. *)
SizeRaces(c, size, write) ==
    /\ cell.atomic_ops # NoAtomics /\ cell.atomic_ops.size # size
    /\ ~(AtomicsBefore("write_vector", c) /\ (~write \/ AtomicsBefore("read_vector", c)))

(* atomic_read_detect and atomic_write_detect. *)
AtomicReadRaces(c, size) == SizeRaces(c, size, FALSE) \/ ~WriteWasBefore(c)
AtomicWriteRaces(c, size) ==
    SizeRaces(c, size, TRUE) \/ ~(WriteWasBefore(c) /\ ClockLeq(cell.read, c))

(* AtomicMemoryCellClocks as atomic_access returns them. *)
Atomics(c, size) ==
    IF cell.atomic_ops = NoAtomics THEN NewAtomics(size)
    ELSE [cell.atomic_ops EXCEPT !.size =
            IF @ = size \/ (AtomicsBefore("read_vector", c) /\ AtomicsBefore("write_vector", c))
            THEN size ELSE None]

(* What an atomic access finds to acquire. *)
SyncVector == IF cell.atomic_ops = NoAtomics THEN ZeroClock ELSE cell.atomic_ops.sync_vector

-----------------------------------------------------------------------------
(* The reference. *)

(* AcquireRmw: a read-modify-write that acquires. *)
AtomicKinds == {"AtomicLoad", "AtomicStore", "AtomicRmw", "AcquireRmw"}
IsAtomic(a) == a.kind \in AtomicKinds
IsWrite(a) == a.kind \in {"Write", "AtomicStore", "AtomicRmw", "AcquireRmw"}

(* Two accesses to the cell conflict if one writes and they are not two    *)
(* atomic accesses of the same size; in CPU-local memory only atomic ones. *)
Conflict(a, b) ==
    /\ IsWrite(a) \/ IsWrite(b)
    /\ ~(IsAtomic(a) /\ IsAtomic(b) /\ a.size = b.size)
    /\ CpuLocal => IsAtomic(a) /\ IsAtomic(b)

Access(kind, size) == [kind |-> kind, size |-> size]

Accesses == {Access(k, None) : k \in {"Read", "Write"}}
              \cup {Access(k, s) : k \in AtomicKinds, s \in race_program.sizes}

(* Some access that conflicts with a is not in H. *)
Unordered(H, a) == \E e \in 1 .. Len(log) : e \notin H /\ Conflict(log[e], a)

(* A read-modify-write that acquires reads first, and what that acquires   *)
(* happens before its write.                                               *)
Racy(t, a) ==
    IF a.kind = "AcquireRmw"
    THEN \/ Unordered(hb[t], Access("AtomicLoad", a.size))
         \/ Unordered(hb[t] \cup hb_cell, Access("AtomicStore", a.size))
    ELSE Unordered(hb[t], a)

(* What the detector says of the same access. *)
Reported(t, a) ==
    LET c == Clock(t) IN
    /\ multi_threaded
    /\ CASE a.kind = "Read" -> ~CpuLocal /\ NaReadRaces(c)
         [] a.kind = "Write" -> ~CpuLocal /\ NaWriteRaces(c)
         [] a.kind = "AtomicLoad" -> AtomicReadRaces(c, a.size)
         [] a.kind = "AcquireRmw" ->
              AtomicReadRaces(c, a.size) \/ AtomicWriteRaces(ClockJoin(c, SyncVector), a.size)
         [] OTHER -> AtomicReadRaces(c, a.size) \/ AtomicWriteRaces(c, a.size)

-----------------------------------------------------------------------------
(* Accesses. *)

Runs(t) == /\ halt = "no" /\ life[t] = "Live"
           /\ race_ops < race_program.max_ops /\ race_ops' = race_ops + 1
           /\ UNCHANGED race_program

(* The access enters the log, and the thread's own past. *)
Logged(t, a) == log' = Append(log, a)
Now == Len(log) + 1

Report(t, a) ==
    /\ Runs(t) /\ Reported(t, a)
    /\ halt' = "race"
    /\ UNCHANGED <<globalVars, vector_clocks, race_sc_fence, cell, obj_clock, refVars>>

(* read_non_atomic. *)
NaRead(t) ==
    LET i == vector_index[t] a == Access("Read", None) IN
    /\ Runs(t) /\ ~Reported(t, a)
    /\ cell' = IF multi_threaded /\ ~CpuLocal THEN [cell EXCEPT !.read[i] = Clock(t)[i]] ELSE cell
    /\ Logged(t, a) /\ hb' = [hb EXCEPT ![t] = @ \cup {Now}]
    /\ UNCHANGED <<globalVars, vector_clocks, race_sc_fence, obj_clock, hb_acquire, hb_release,
                   hb_cell, hb_obj, hb_end, hb_sc, halt>>

Written(i, ts) == [write_index |-> i, write_time |-> ts, read |-> ZeroClock, atomic_ops |-> NoAtomics]

(* write_non_atomic; also deallocation. *)
NaWrite(t) ==
    LET i == vector_index[t] a == Access("Write", None) IN
    /\ Runs(t) /\ ~Reported(t, a)
    /\ cell' = IF multi_threaded /\ ~CpuLocal THEN Written(i, Clock(t)[i]) ELSE cell
    /\ Logged(t, a) /\ hb' = [hb EXCEPT ![t] = @ \cup {Now}]
    /\ hb_cell' = IF CpuLocal THEN hb_cell ELSE {}
    /\ UNCHANGED <<globalVars, vector_clocks, race_sc_fence, obj_clock, hb_acquire, hb_release,
                   hb_obj, hb_end, hb_sc, halt>>

(* What an atomic access of the cell carries when nothing was stored. *)
Sync(at) == at.sync_vector

(* validate_atomic_load. *)
AtomicLoad(t, ord, size) ==
    LET i == vector_index[t] a == Access("AtomicLoad", size)
        at == Atomics(Clock(t), size)
    IN
    /\ Runs(t) /\ ~Reported(t, a)
    /\ IF multi_threaded
       THEN /\ cell' = [cell EXCEPT !.atomic_ops = [at EXCEPT !.read_vector[i] = Clock(t)[i]]]
            /\ vector_clocks' = [vector_clocks EXCEPT ![i] = ValidateLoad(@, i, ord, Sync(at))]
       ELSE UNCHANGED <<cell, vector_clocks>>
    /\ Logged(t, a)
    /\ hb' = [hb EXCEPT ![t] = @ \cup {Now} \cup (IF ord = "Relaxed" THEN {} ELSE hb_cell)]
    /\ hb_acquire' = IF ord = "Relaxed" THEN [hb_acquire EXCEPT ![t] = @ \cup hb_cell] ELSE hb_acquire
    /\ UNCHANGED <<globalVars, race_sc_fence, obj_clock, hb_release, hb_cell, hb_obj, hb_end, hb_sc, halt>>

(* validate_atomic_store. *)
AtomicStore(t, ord, size) ==
    LET i == vector_index[t] a == Access("AtomicStore", size)
        at == Atomics(Clock(t), size)
    IN
    /\ Runs(t) /\ ~Reported(t, a)
    /\ IF multi_threaded
       THEN /\ cell' = [cell EXCEPT !.atomic_ops =
                          [at EXCEPT !.write_vector[i] = Clock(t)[i],
                                     !.sync_vector = StoreSync(vector_clocks[i], ord)]]
            /\ vector_clocks' = [vector_clocks EXCEPT ![i] = Tick(@, i)]
       ELSE UNCHANGED <<cell, vector_clocks>>
    /\ Logged(t, a) /\ hb' = [hb EXCEPT ![t] = @ \cup {Now}]
    /\ hb_cell' = IF ord = "Relaxed" THEN hb_release[t] ELSE hb[t] \cup {Now}
    /\ UNCHANGED <<globalVars, race_sc_fence, obj_clock, hb_acquire, hb_release, hb_obj, hb_end, hb_sc, halt>>

(* validate_atomic_rmw: load_acquire or load_relaxed, then rmw_release or  *)
(* rmw_relaxed with the clock the load has left.                           *)
AtomicRmw(t, ord, size) ==
    LET i == vector_index[t]
        acquires == ord \in {"Acquire", "AcqRel", "SeqCst"}
        a == Access(IF acquires THEN "AcquireRmw" ELSE "AtomicRmw", size)
        k == RmwAcquire(vector_clocks[i], ord, SyncVector)
        at == Atomics(k.clock, size)
        seen == hb[t] \cup {Now} \cup (IF acquires THEN hb_cell ELSE {})
    IN
    /\ Runs(t) /\ ~Reported(t, a)
    /\ IF multi_threaded
       THEN /\ cell' = [cell EXCEPT !.atomic_ops =
                          [at EXCEPT !.read_vector[i] = Clock(t)[i], !.write_vector[i] = k.clock[i],
                                     !.sync_vector = RmwSync(k, ord, @)]]
            /\ vector_clocks' = [vector_clocks EXCEPT ![i] = Tick(k, i)]
       ELSE UNCHANGED <<cell, vector_clocks>>
    /\ Logged(t, Access("AtomicRmw", size)) /\ hb' = [hb EXCEPT ![t] = seen]
    /\ hb_acquire' = IF acquires THEN hb_acquire ELSE [hb_acquire EXCEPT ![t] = @ \cup hb_cell]
    /\ hb_cell' = hb_cell \cup (IF ord \in {"Release", "AcqRel", "SeqCst"} THEN seen ELSE hb_release[t])
    /\ UNCHANGED <<globalVars, race_sc_fence, obj_clock, hb_release, hb_obj, hb_end, hb_sc, halt>>

(* GlobalState::atomic_fence. *)
RaceFence(t, ord) ==
    LET i == vector_index[t]
        acq == hb[t] \cup (IF ord = "Release" THEN {} ELSE hb_acquire[t])
        all == acq \cup (IF ord = "SeqCst" THEN hb_sc ELSE {})
    IN
    /\ Runs(t)
    /\ IF multi_threaded
       THEN /\ vector_clocks' = [vector_clocks EXCEPT ![i] = FenceClocks(@, i, ord, race_sc_fence, ZeroClock)]
            /\ race_sc_fence' = FenceGlobal(vector_clocks[i], ord, race_sc_fence)
       ELSE UNCHANGED <<vector_clocks, race_sc_fence>>
    /\ hb' = [hb EXCEPT ![t] = all]
    /\ hb_release' = IF ord = "Acquire" THEN hb_release ELSE [hb_release EXCEPT ![t] = all]
    /\ hb_sc' = IF ord = "SeqCst" THEN all ELSE hb_sc
    /\ UNCHANGED <<globalVars, cell, obj_clock, log, hb_acquire, hb_cell, hb_obj, hb_end, halt>>

-----------------------------------------------------------------------------
(* Synchronization objects and threads. *)

(* Mutant: the clock is not advanced after a release. *)
AfterUnadvanced(k, i) == k

(* release_clock: the own time advances after the clock was handed out. *)
After(k, i) == Tick(k, i)

(* A mutex is unlocked, a condition variable signalled ... *)
Release(t) ==
    LET i == vector_index[t] IN
    /\ Runs(t)
    /\ obj_clock' = Clock(t)
    /\ vector_clocks' = [vector_clocks EXCEPT ![i] = After(@, i)]
    /\ hb_obj' = hb[t]
    /\ UNCHANGED <<globalVars, race_sc_fence, cell, log, hb, hb_acquire, hb_release, hb_cell,
                   hb_end, hb_sc, halt>>

(* A mutex is locked, a wait ends ... *)
Acquire(t) ==
    /\ Runs(t)
    /\ vector_clocks' = [vector_clocks EXCEPT ![vector_index[t]] = LoadAcquire(@, obj_clock)]
    /\ hb' = [hb EXCEPT ![t] = @ \cup hb_obj]
    /\ UNCHANGED <<globalVars, race_sc_fence, cell, obj_clock, log, hb_acquire, hb_release,
                   hb_cell, hb_obj, hb_end, hb_sc, halt>>

(* find_vector_index_reuse_candidate: nobody alive lags behind the index. *)
Reusable(i) ==
    /\ i \in reuse_candidates
    /\ \A j \in 0 .. allocated - 1 :
        vector_clocks[j].clock[i] >= vector_clocks[i].clock[i] \/ j \in reuse_candidates

(* thread_created by t: an old vector index or a new one. *)
ThreadCreated(t, i) ==
    LET new == Cardinality({u \in Thread : life[u] # "Unborn"})
        p == vector_index[t]
        fresh == IF i \in reuse_candidates THEN Tick(vector_clocks[i], i) ELSE EmptyClockSet
    IN
    /\ Runs(t) /\ new < race_program.threads
    /\ IF \E j \in Thread : Reusable(j) THEN Reusable(i) ELSE i = allocated
    /\ multi_threaded' = TRUE
    /\ life' = [life EXCEPT ![new] = "Live"]
    /\ vector_index' = [u \in Thread |-> IF u = new THEN i
                                         ELSE IF vector_index[u] = i THEN None ELSE vector_index[u]]
    /\ allocated' = IF i = allocated THEN allocated + 1 ELSE allocated
    /\ reuse_candidates' = reuse_candidates \ {i}
    /\ vector_clocks' = [vector_clocks EXCEPT ![p] = Tick(@, p),
                                              ![i] = Tick([fresh EXCEPT !.clock = ClockJoin(@, vector_clocks[p].clock)], i)]
    /\ hb' = [hb EXCEPT ![new] = hb[t]]
    /\ UNCHANGED <<termination_clock, race_sc_fence, cell, obj_clock, log, hb_acquire,
                   hb_release, hb_cell, hb_obj, hb_end, hb_sc, halt>>

(* thread_terminated. *)
ThreadTerminated(t) ==
    LET i == vector_index[t] IN
    /\ Runs(t) /\ t # 0
    /\ life' = [life EXCEPT ![t] = "Terminated"]
    /\ termination_clock' = [termination_clock EXCEPT ![t] = Clock(t)]
    /\ vector_clocks' = [vector_clocks EXCEPT ![i] = Tick(@, i)]
    /\ reuse_candidates' = reuse_candidates \cup {i}
    /\ hb_end' = [hb_end EXCEPT ![t] = hb[t]]
    /\ UNCHANGED <<vector_index, allocated, multi_threaded, race_sc_fence, cell, obj_clock, log,
                   hb, hb_acquire, hb_release, hb_cell, hb_obj, hb_sc, halt>>

(* thread_joined: does the clock with index i know of everything? *)
AllKnown(ks, i) == \A j \in 0 .. allocated - 1 : ks[j].clock[j] <= ks[i].clock[j]

(* thread_joined, in thread t; the index examined is the joinee's. *)
ThreadJoined(t, joinee) ==
    LET ks == [vector_clocks EXCEPT ![vector_index[t]] = LoadAcquire(@, termination_clock[joinee])] IN
    /\ Runs(t) /\ life[joinee] = "Terminated"
    /\ vector_clocks' = ks
    /\ multi_threaded' =
          IF /\ vector_index[joinee] # None
             /\ Cardinality({u \in Thread : life[u] = "Live"}) = 1
             /\ AllKnown(ks, vector_index[joinee])
          THEN FALSE ELSE multi_threaded
    /\ hb' = [hb EXCEPT ![t] = @ \cup hb_end[joinee]]
    /\ UNCHANGED <<life, vector_index, termination_clock, allocated, reuse_candidates, race_sc_fence,
                   cell, obj_clock, log, hb_acquire, hb_release, hb_cell, hb_obj, hb_end, hb_sc, halt>>

RaceNext ==
    \E t \in Thread :
        \/ \E a \in Accesses : Report(t, a)
        \/ NaRead(t) \/ NaWrite(t)
        \/ \E size \in race_program.sizes :
            \/ \E ord \in race_program.loads : AtomicLoad(t, ord, size)
            \/ \E ord \in race_program.stores : AtomicStore(t, ord, size)
            \/ \E ord \in race_program.rmws : AtomicRmw(t, ord, size)
        \/ \E ord \in race_program.fences : RaceFence(t, ord)
        \/ race_program.object /\ (Release(t) \/ Acquire(t))
        \/ \E i \in Thread : ThreadCreated(t, i)
        \/ ThreadTerminated(t)
        \/ \E u \in Thread : ThreadJoined(t, u)

RaceSpec == RaceInit /\ [][RaceNext]_raceVars

-----------------------------------------------------------------------------

(* The shape of the state; live threads have vector indices of their own. *)
RaceTypeOK ==
    /\ race_program \in RacePrograms
    /\ \A t \in Thread : life[t] = "Live" => vector_index[t] \in 0 .. allocated - 1
    /\ \A t, u \in Thread : life[t] = "Live" /\ vector_index[t] = vector_index[u] => t = u
    /\ life \in [Thread -> {"Unborn", "Live", "Terminated"}]
    /\ vector_index \in [Thread -> Thread \cup {None}]
    /\ termination_clock \in [Thread -> Clocks \cup {None}]
    /\ vector_clocks \in [Thread -> ClockSets] /\ race_sc_fence \in Clocks /\ obj_clock \in Clocks
    /\ allocated \in Nat /\ reuse_candidates \subseteq Thread /\ multi_threaded \in BOOLEAN
    /\ cell.write_index \in Thread /\ cell.write_time \in Nat /\ cell.read \in Clocks
    /\ halt \in {"no", "race"}

(* While the program has no race so far, the detector reports an access if *)
(* and only if it conflicts with an earlier one that does not happen       *)
(* before it: no race is missed, none is invented, through creation, join, *)
(* detached ends, locks, release sequences and fences.  Where the sizes of *)
(* atomic accesses differ the detector keeps only the last one, and this   *)
(* holds of the non-atomic accesses only.  In CPU-local memory, which the  *)
(* detector leaves to the kernel, non-atomic accesses count as no conflict.*)
RaceIffUnordered ==
    halt = "no" => \A t \in Thread : life[t] = "Live" =>
        \A a \in Accesses : (IsAtomic(a) /\ Cardinality(race_program.sizes) > 1) \/ (Reported(t, a) <=> Racy(t, a))

(* release_clock: "all following events cannot be confused with anything   *)
(* that occurred before the release": no thread has ever seen the present  *)
(* time of another one.                                                    *)
OwnTimeIsPrivate ==
    \A i, j \in 0 .. allocated - 1 : i # j => vector_clocks[j].clock[i] < vector_clocks[i].clock[i]
=============================================================================
