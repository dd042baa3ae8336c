------------------------------ MODULE LocksMC ------------------------------
(***************************************************************************)
(* Instances of the blocking objects for TLC.  A behaviour is one of a     *)
(* mutex with its condition variables, of a reader-writer lock, of an      *)
(* INIT_ONCE, of a futex, or of lock objects in the memory of a program.   *)
(***************************************************************************)
EXTENDS MutexCondvar, RwLock, InitOnce, Futex, SyncObjects
M == INSTANCE TLC

CONSTANT LockParts   \* which of them this run explores

VARIABLE lock_part

KindDefault == [m \in Mutex |-> "Default"]
KindRecursive == [m \in Mutex |-> "Recursive"]

Objects(types, attrs, isolated, max) == [types |-> types, attrs |-> attrs, isolated |-> isolated, max |-> max]
MCSyncScenarios ==
    {Objects({"mutex"}, TRUE, FALSE, 3),             \* attributes and every kind of mutex
     Objects({"rwlock"}, FALSE, FALSE, 4),
     Objects({"mutex", "cond"}, FALSE, FALSE, 4),    \* waits that give a mutex up
     Objects({"cond"}, TRUE, TRUE, 4),               \* clocks, and a host that is out of bounds
     Objects({"unfair"}, FALSE, FALSE, 5)}           \* os_unfair_lock

(* The bits of a mask are told apart only by equality. *)
FutexSymmetry == M!Permutations(Bit)

(* The parts that stand still do so in one state. *)
LocksInit ==
    /\ lock_part \in LockParts /\ Init /\ RwInit /\ OnceInit /\ FutexInit /\ SyncInit
    /\ lock_part # "futex" => flavour = "linux"
    /\ lock_part # "objects" => /\ sync_scenario = Objects({"rwlock"}, FALSE, FALSE, 4)
                                /\ bytes = [l \in Loc |-> "static"]

LocksNext ==
    /\ UNCHANGED lock_part
    /\ \/ lock_part = "mutex" /\ Next /\ UNCHANGED <<rwVars, onceMachineVars, futexVars, syncVars>>
       \/ lock_part = "rwlock" /\ RwNext /\ UNCHANGED <<vars, onceMachineVars, futexVars, syncVars>>
       \/ lock_part = "once" /\ OnceNext /\ UNCHANGED <<vars, rwVars, futexVars, syncVars>>
       \/ lock_part = "futex" /\ FutexNext /\ UNCHANGED <<vars, rwVars, onceMachineVars, syncVars>>
       \/ lock_part = "objects" /\ SyncNext /\ UNCHANGED <<vars, rwVars, onceMachineVars, futexVars>>

LocksSpec == LocksInit /\ [][LocksNext]_<<lock_part, vars, rwVars, onceMachineVars, futexVars, syncVars>>
FairLocksSpec == LocksSpec /\ Fairness
=============================================================================
