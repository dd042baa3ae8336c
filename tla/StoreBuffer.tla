---------------------------- MODULE StoreBuffer ----------------------------
(***************************************************************************)
(* The store buffer of one atomic location (StoreBuffer of                 *)
(* src/src/concurrency/weak_memory.rs) and the clock set of one thread     *)
(* (ThreadClockSet of data_race.rs), as constant operators: what an atomic *)
(* load may return, and how loads, stores, read-modify-writes and fences   *)
(* change the two.  An element's sync field is also the sync_vector the    *)
(* race detector keeps for the location when the element is the last one.  *)
(***************************************************************************)
EXTENDS VClock, Sequences

CONSTANT StoreBufferLimit    \* STORE_BUFFER_LIMIT

ASSUME StoreBufferAssumption == 0 \in Thread /\ StoreBufferLimit \in Nat \ {0}

(* ThreadClockSet. *)
ClockSets == [clock : Clocks, fence_acquire : Clocks, fence_release : Clocks,
              write_seqcst : Clocks, read_seqcst : Clocks]

(* A thread that was just created by thread_created. *)
NewClockSet(t) == [clock |-> ClockIncrement(ZeroClock, t),
                   fence_acquire |-> ZeroClock, fence_release |-> ZeroClock,
                   write_seqcst |-> ZeroClock, read_seqcst |-> ZeroClock]

(* StoreElement; loads[u] is 0 when u has not loaded it. *)
Element(t, ts, sync, sc, val) ==
    [store_thread |-> t, store_timestamp |-> ts, sync_clock |-> sync, is_seqcst |-> sc,
     val |-> val, loads |-> ZeroClock, sc_loaded |-> FALSE]

(* StoreBuffer::new. *)
NewBuffer(val) == <<Element(0, 0, ZeroClock, FALSE, val)>>

-----------------------------------------------------------------------------

(* Mutant: a load by another thread does not order the current one. *)
SomeLoadIsBeforeForgotten(e, clock) == FALSE

(* CoRR: some load of e happens-before a thread with this clock. *)
SomeLoadIsBefore(e, clock) == \E u \in Thread : e.loads[u] \in 1 .. clock[u]

(* keep_searching in fetch_store: nothing forbids looking further back. *)
KeepSearching(e, k, sc) ==
    /\ ~(e.store_timestamp <= k.clock[e.store_thread])
    /\ ~SomeLoadIsBefore(e, k.clock)
    /\ ~(e.is_seqcst /\ e.store_timestamp <= k.write_seqcst[e.store_thread])
    /\ ~(sc /\ e.store_timestamp <= k.read_seqcst[e.store_thread])
    /\ ~(sc /\ e.sc_loaded)

(* fetch_store: the positions a load may read from.  An SC load skips all  *)
(* but the last element marked SC.                                         *)
Candidates(buffer, k, sc) ==
    {i \in 1 .. Len(buffer) :
        /\ \A j \in i + 1 .. Len(buffer) : KeepSearching(buffer[j], k, sc)
        /\ ~(sc /\ buffer[i].is_seqcst /\ \E j \in i + 1 .. Len(buffer) : buffer[j].is_seqcst)}

(* load_impl: only a thread's first load is recorded. *)
LoadImpl(buffer, i, t, k, sc) ==
    [buffer EXCEPT ![i].sc_loaded = @ \/ sc,
                   ![i].loads[t] = IF @ = 0 THEN k.clock[t] ELSE @]

(* Mutant: an SC store leaves the marks of older stores alone. *)
MarkedNothing(buffer, clock) == buffer

(* What an SC store marks as SC: all that precedes it, itself included. *)
Marked(buffer, clock) ==
    [i \in 1 .. Len(buffer) |->
        [buffer[i] EXCEPT !.is_seqcst =
            \/ @
            \/ buffer[i].store_timestamp <= clock[buffer[i].store_thread]
            \/ SomeLoadIsBefore(buffer[i], clock)]]

(* A full buffer drops its oldest store before a new one is pushed. *)
Kept(buffer) == IF Len(buffer) >= StoreBufferLimit THEN Tail(buffer) ELSE buffer

(* store_impl: bounded push, then the SC marking. *)
StoreImpl(buffer, t, k, sc, sync, val) ==
    LET pushed == Append(Kept(buffer), Element(t, k.clock[t], sync, sc, val))
    IN IF sc THEN Marked(pushed, k.clock) ELSE pushed

-----------------------------------------------------------------------------
(* The clock sets.  Every validated atomic operation ends by advancing the *)
(* thread's own timestamp (maybe_perform_sync_operation).                  *)

Tick(k, t) == [k EXCEPT !.clock = ClockIncrement(@, t)]

(* sc_read: an SC load or read-modify-write sees the last SC fences. *)
ScRead(k, last_sc_fence, sc) ==
    IF sc THEN [k EXCEPT !.read_seqcst = ClockJoin(@, last_sc_fence)] ELSE k

(* sc_write: threads only update their own index. *)
ScWrite(last_sc_write, k, t, sc) ==
    IF sc THEN [last_sc_write EXCEPT ![t] = k.clock[t]] ELSE last_sc_write

(* load_acquire and load_relaxed. *)
LoadAcquire(k, sync) == [k EXCEPT !.clock = ClockJoin(@, sync)]
LoadRelaxed(k, sync) == [k EXCEPT !.fence_acquire = ClockJoin(@, sync)]

(* validate_atomic_load. *)
ValidateLoad(k, t, ord, sync) ==
    Tick(IF ord = "Relaxed" THEN LoadRelaxed(k, sync) ELSE LoadAcquire(k, sync), t)

(* store_release and store_relaxed: the clock the store publishes. *)
StoreSync(k, ord) == IF ord = "Relaxed" THEN k.fence_release ELSE k.clock

(* validate_atomic_rmw, the acquire half. *)
RmwAcquire(k, ord, sync) ==
    IF ord \in {"Acquire", "AcqRel", "SeqCst"} THEN LoadAcquire(k, sync) ELSE LoadRelaxed(k, sync)

(* rmw_release and rmw_relaxed join, which is how release sequences live on. *)
RmwSync(k, ord, sync) ==
    ClockJoin(sync, IF ord \in {"Release", "AcqRel", "SeqCst"} THEN k.clock ELSE k.fence_release)

(* What an SC fence joins into last_sc_fence and then into its clock. *)
ScFenceClock(k, last_sc_fence) == ClockJoin(last_sc_fence, k.clock)

(* GlobalState::atomic_fence: acquire, the global SC location, release. *)
FenceClocks(k, t, ord, last_sc_fence, last_sc_write) ==
    LET acq == IF ord = "Release" THEN k ELSE LoadAcquire(k, k.fence_acquire)
        sc == IF ord # "SeqCst" THEN acq
              ELSE [acq EXCEPT !.clock = ClockJoin(@, ScFenceClock(acq, last_sc_fence)),
                               !.write_seqcst = ClockJoin(@, last_sc_write)]
        rel == [sc EXCEPT !.fence_release = sc.clock]
    IN IF ord = "Acquire" THEN sc ELSE Tick(rel, t)

(* last_sc_fence after the fence. *)
FenceGlobal(k, ord, last_sc_fence) ==
    IF ord # "SeqCst" THEN last_sc_fence
    ELSE ScFenceClock(LoadAcquire(k, k.fence_acquire), last_sc_fence)
=============================================================================
