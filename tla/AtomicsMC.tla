----------------------------- MODULE AtomicsMC -----------------------------
(***************************************************************************)
(* Instances of WeakMemory and DataRace for TLC: a behaviour is one of the *)
(* store buffers of some atomic locations, or one of the detector's clocks *)
(* of one location, under a kind of program.                               *)
(***************************************************************************)
EXTENDS WeakMemory, DataRace, TLC

VARIABLE emulated   \* "stores" or "races"

(* The locations are interchangeable. *)
LocSymmetry == Permutations(Loc)

(* Three threads with release stores, release sequences and acquire loads. *)
Causal == [loads |-> {"Acquire", "Relaxed"}, stores |-> {"Release"},
           rmws |-> {"Relaxed"}, fences |-> {}, max_ops |-> (0 :> 1 @@ 1 :> 2 @@ 2 :> 2)]

(* Two threads with relaxed accesses and every kind of fence. *)
Fences == [loads |-> {"Relaxed"}, stores |-> {"Relaxed"},
           rmws |-> {}, fences |-> {"Acquire", "Release", "AcqRel", "SeqCst"},
           max_ops |-> (0 :> 3 @@ 1 :> 3 @@ 2 :> 0)]

(* Three threads with sequentially consistent accesses only. *)
SeqCst == [loads |-> {"SeqCst"}, stores |-> {"SeqCst"},
           rmws |-> {"SeqCst"}, fences |-> {}, max_ops |-> [t \in Thread |-> 2]]

AllPrograms == {Causal, Fences, SeqCst}

(* Three threads that publish with release stores, release sequences and   *)
(* acquire loads.                                                          *)
Publish == [threads |-> 3, sizes |-> {4}, loads |-> {"Acquire"}, stores |-> {"Release"},
            rmws |-> {"Relaxed"}, fences |-> {}, object |-> FALSE, cpu_local |-> FALSE, max_ops |-> 6]

(* Two threads that hand over with read-modify-writes that acquire. *)
Exchange == [Publish EXCEPT !.threads = 2, !.stores = {}, !.loads = {}, !.rmws = {"Acquire", "Release", "AcqRel"}]

(* Two threads that share a cell of CPU-local memory. *)
PerCpu == [Exchange EXCEPT !.stores = {"Release"}, !.rmws = {"AcqRel"}, !.cpu_local = TRUE, !.max_ops = 5]

(* Three threads that pass a mutex, a condition variable ... around. *)
Lock == [threads |-> 3, sizes |-> {}, loads |-> {}, stores |-> {},
         rmws |-> {}, fences |-> {}, object |-> TRUE, cpu_local |-> FALSE, max_ops |-> 7]

(* Two threads that publish with relaxed accesses and fences. *)
Fenced == [threads |-> 2, sizes |-> {4}, loads |-> {"Relaxed"}, stores |-> {"Relaxed"},
           rmws |-> {}, fences |-> {"Acquire", "Release", "SeqCst"}, object |-> FALSE, cpu_local |-> FALSE, max_ops |-> 6]

(* Two threads that use accesses of two sizes. *)
Mixed == [threads |-> 2, sizes |-> {4, 8}, loads |-> {"Relaxed"}, stores |-> {"Relaxed"},
          rmws |-> {"Acquire"}, fences |-> {}, object |-> FALSE, cpu_local |-> FALSE, max_ops |-> 4]

AllRacePrograms == {Publish, Exchange, PerCpu, Lock, Fenced, Mixed}

(* The part that is not explored stands still in one state. *)
AtomicsInit ==
    /\ emulated \in {"stores", "races"} /\ Init /\ RaceInit
    /\ emulated = "stores" => race_program = Lock
    /\ emulated = "races" => program = Causal

AtomicsNext ==
    /\ UNCHANGED emulated
    /\ \/ emulated = "stores" /\ Next /\ UNCHANGED raceVars
       \/ emulated = "races" /\ RaceNext /\ UNCHANGED vars

AtomicsSpec == AtomicsInit /\ [][AtomicsNext]_<<emulated, vars, raceVars>>
=============================================================================
