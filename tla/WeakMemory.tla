----------------------------- MODULE WeakMemory -----------------------------
(***************************************************************************)
(* Atomic accesses under weak memory emulation: threads that load, store,  *)
(* update and fence a few atomic locations, each step being one            *)
(* read_scalar_atomic, write_scalar_atomic, atomic_rmw_op_immediate /      *)
(* atomic_exchange_scalar, atomic_compare_exchange_scalar or atomic_fence  *)
(* of src/src/concurrency/data_race.rs with the store buffer behind it.    *)
(*                                                                         *)
(* Next to the clocks of the code runs a reference machine, the view       *)
(* semantics of release/acquire memory with SC fences: a thread knows, for *)
(* each location, the newest store in modification order that happened     *)
(* before it, and may never read an older one.  The code has no such map;  *)
(* it must get the same effect from timestamps and recorded loads.         *)
(***************************************************************************)
EXTENDS StoreBuffer

CONSTANTS
    Loc,         \* atomic locations
    Programs     \* the kinds of program that run, see Program

(* What a program may do: the orderings it uses, and the bound on the      *)
(* operations of each thread.                                              *)
Program(p) ==
    /\ p.max_ops \in [Thread -> Nat]
    /\ p.loads \subseteq {"Relaxed", "Acquire", "SeqCst"}
    /\ p.stores \subseteq {"Relaxed", "Release", "SeqCst"}
    /\ p.rmws \subseteq {"Relaxed", "Acquire", "Release", "AcqRel", "SeqCst"}
    /\ p.fences \subseteq {"Acquire", "Release", "AcqRel", "SeqCst"}

ASSUME WeakMemoryAssumption == \A p \in Programs : Program(p)

VARIABLES
    program,          \* the program that runs
    clocks,           \* ThreadClockSet of each thread
    buffer,           \* StoreBuffer of each location
    last_sc_fence, last_sc_write_per_thread,
    ops,              \* operations done, for the bound
    \* the reference machine:
    view, view_acquire, view_release, view_sc,    \* what threads and fences know
    message                                       \* what each store ever made carries

codeVars == <<clocks, buffer, last_sc_fence, last_sc_write_per_thread>>
viewVars == <<view, view_acquire, view_release, view_sc, message>>
vars == <<program, codeVars, ops, viewVars>>

Views == [Loc -> Nat]
ViewJoin(a, b) == [l \in Loc |-> IF a[l] >= b[l] THEN a[l] ELSE b[l]]
Oldest == [l \in Loc |-> 1]

Init ==
    /\ program \in Programs
    /\ clocks = [t \in Thread |-> NewClockSet(t)]
    /\ buffer = [l \in Loc |-> NewBuffer(1)]
    /\ last_sc_fence = ZeroClock /\ last_sc_write_per_thread = ZeroClock
    /\ ops = [t \in Thread |-> 0]
    /\ view = [t \in Thread |-> Oldest] /\ view_acquire = view /\ view_release = view
    /\ view_sc = Oldest
    /\ message = [l \in Loc |-> <<Oldest>>]

-----------------------------------------------------------------------------

Acquires(ord) == ord \in {"Acquire", "AcqRel", "SeqCst"}
Releases(ord) == ord \in {"Release", "AcqRel", "SeqCst"}

Step(t) == /\ ops[t] < program.max_ops[t]
           /\ ops' = [ops EXCEPT ![t] = @ + 1]
           /\ UNCHANGED program

(* The reference machine reads store n of l: the thread knows n from now   *)
(* on, and what n carries now or after an acquire fence.                   *)
ViewRead(t, l, ord, n) ==
    LET seen == [view[t] EXCEPT ![l] = IF @ >= n THEN @ ELSE n] IN
    IF Acquires(ord)
    THEN /\ view' = [view EXCEPT ![t] = ViewJoin(seen, message[l][n])]
         /\ UNCHANGED view_acquire
    ELSE /\ view' = [view EXCEPT ![t] = seen]
         /\ view_acquire' = [view_acquire EXCEPT ![t] = ViewJoin(@, message[l][n])]

(* The stores are numbered in modification order; val is that number. *)
Number(l, i) == buffer[l][i].val
NextNumber(l) == Len(message[l]) + 1

(* read_scalar_atomic. *)
Load(t, l, ord) ==
    LET sc == ord = "SeqCst"
        k == ScRead(clocks[t], last_sc_fence, sc)
    IN
    /\ Step(t)
    /\ \E i \in Candidates(buffer[l], k, sc) :
        LET k2 == ValidateLoad(k, t, ord, buffer[l][i].sync_clock) IN
        /\ clocks' = [clocks EXCEPT ![t] = k2]
        /\ buffer' = [buffer EXCEPT ![l] = LoadImpl(@, i, t, k2, sc)]
        /\ ViewRead(t, l, ord, Number(l, i))
    /\ UNCHANGED <<last_sc_fence, last_sc_write_per_thread, view_release, view_sc, message>>

(* write_scalar_atomic: validated first, buffered with the advanced clock. *)
Store(t, l, ord) ==
    LET sc == ord = "SeqCst"
        sync == StoreSync(clocks[t], ord)
        k2 == Tick(clocks[t], t)
        n == NextNumber(l)
        seen == [view[t] EXCEPT ![l] = n]
    IN
    /\ Step(t)
    /\ clocks' = [clocks EXCEPT ![t] = k2]
    /\ last_sc_write_per_thread' = ScWrite(last_sc_write_per_thread, k2, t, sc)
    /\ buffer' = [buffer EXCEPT ![l] = StoreImpl(@, t, k2, sc, sync, n)]
    /\ view' = [view EXCEPT ![t] = seen]
    /\ message' = [message EXCEPT ![l] =
          Append(@, IF Releases(ord) THEN seen ELSE [view_release[t] EXCEPT ![l] = n])]
    /\ UNCHANGED <<last_sc_fence, view_acquire, view_release, view_sc>>

(* atomic_rmw_op_immediate, atomic_exchange_scalar and a successful        *)
(* compare-exchange: reads the last store, and its own store carries what  *)
(* that one carried.                                                       *)
Rmw(t, l, ord) ==
    LET sc == ord = "SeqCst"
        last == Len(buffer[l])
        sync == buffer[l][last].sync_clock
        k1 == RmwAcquire(clocks[t], ord, sync)
        k2 == ScRead(Tick(k1, t), last_sc_fence, sc)
        n == NextNumber(l)
        before == message[l][n - 1]
        seen == [(IF Acquires(ord) THEN ViewJoin(view[t], before) ELSE view[t]) EXCEPT ![l] = n]
    IN
    /\ Step(t)
    /\ clocks' = [clocks EXCEPT ![t] = k2]
    /\ last_sc_write_per_thread' = ScWrite(last_sc_write_per_thread, k2, t, sc)
    /\ buffer' = [buffer EXCEPT ![l] =
          StoreImpl(LoadImpl(@, last, t, k2, sc), t, k2, sc, RmwSync(k1, ord, sync), n)]
    /\ view' = [view EXCEPT ![t] = seen]
    /\ view_acquire' = IF Acquires(ord) THEN view_acquire
                       ELSE [view_acquire EXCEPT ![t] = ViewJoin(@, before)]
    /\ message' = [message EXCEPT ![l] = Append(@,
          ViewJoin(before, IF Releases(ord) THEN seen ELSE [view_release[t] EXCEPT ![l] = n]))]
    /\ UNCHANGED <<last_sc_fence, view_release, view_sc>>

(* A failed compare-exchange: a load of the last store. *)
CompareExchangeFails(t, l, ord) ==
    LET sc == ord = "SeqCst"
        last == Len(buffer[l])
        k2 == ScRead(ValidateLoad(clocks[t], t, ord, buffer[l][last].sync_clock), last_sc_fence, sc)
    IN
    /\ Step(t)
    /\ program.rmws # {}
    /\ clocks' = [clocks EXCEPT ![t] = k2]
    /\ buffer' = [buffer EXCEPT ![l] = LoadImpl(@, last, t, k2, sc)]
    /\ ViewRead(t, l, ord, Number(l, last))
    /\ UNCHANGED <<last_sc_fence, last_sc_write_per_thread, view_release, view_sc, message>>

(* atomic_fence. *)
Fence(t, ord) ==
    LET acq == IF Acquires(ord) THEN ViewJoin(view[t], view_acquire[t]) ELSE view[t]
        all == IF ord = "SeqCst" THEN ViewJoin(acq, view_sc) ELSE acq
    IN
    /\ Step(t)
    /\ clocks' = [clocks EXCEPT ![t] =
          FenceClocks(@, t, ord, last_sc_fence, last_sc_write_per_thread)]
    /\ last_sc_fence' = FenceGlobal(clocks[t], ord, last_sc_fence)
    /\ view' = [view EXCEPT ![t] = all]
    /\ view_sc' = IF ord = "SeqCst" THEN all ELSE view_sc
    /\ view_release' = IF Releases(ord) THEN [view_release EXCEPT ![t] = all] ELSE view_release
    /\ UNCHANGED <<buffer, last_sc_write_per_thread, view_acquire, message>>

Next ==
    \E t \in Thread :
        \/ \E l \in Loc :
            \/ \E ord \in program.loads : Load(t, l, ord) \/ CompareExchangeFails(t, l, ord)
            \/ \E ord \in program.stores : Store(t, l, ord)
            \/ \E ord \in program.rmws : Rmw(t, l, ord)
        \/ \E ord \in program.fences : Fence(t, ord)

Spec == Init /\ [][Next]_vars

-----------------------------------------------------------------------------

(* The shape of the state: clock sets, bounded non-empty buffers, views. *)
TypeOK ==
    /\ program \in Programs
    /\ clocks \in [Thread -> ClockSets]
    /\ \A l \in Loc : Len(buffer[l]) \in 1 .. StoreBufferLimit
    /\ \A l \in Loc : \A i \in 1 .. Len(buffer[l]) :
          buffer[l][i] \in [store_thread : Thread, store_timestamp : Nat, sync_clock : Clocks,
                            is_seqcst : BOOLEAN, val : Nat, loads : Clocks, sc_loaded : BOOLEAN]
    /\ last_sc_fence \in Clocks /\ last_sc_write_per_thread \in Clocks
    /\ view \in [Thread -> Views] /\ view_acquire \in [Thread -> Views]
    /\ view_release \in [Thread -> Views] /\ view_sc \in Views

(* What a load by t with these parameters could return now. *)
Readable(t, l, sc) == Candidates(buffer[l], ScRead(clocks[t], last_sc_fence, sc), sc)

(* fetch_store never offers a behaviour the memory model forbids: whatever *)
(* it may pick is at least as new as everything that happened before the   *)
(* load, through any chain of release/acquire pairs, release sequences,    *)
(* fences and SC fences over any locations (CoRR, CoWR, causality, and     *)
(* store buffering under SC fences).                                       *)
ReadsCoherent ==
    \A t \in Thread, l \in Loc, sc \in BOOLEAN :
        \A i \in Readable(t, l, sc) : Number(l, i) >= view[t][l]

(* If the program uses only SC accesses, it sees sequential consistency:   *)
(* an SC load has no choice but the last store.                            *)
OnlySeqCst == program.loads \cup program.stores \cup program.rmws \subseteq {"SeqCst"}
SeqCstIsSequential ==
    OnlySeqCst => \A t \in Thread, l \in Loc : Readable(t, l, TRUE) = {Len(buffer[l])}
=============================================================================
