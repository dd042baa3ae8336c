------------------------------ MODULE ReusePool ------------------------------
(***************************************************************************)
(* The pool of freed addresses (alloc_addresses/reuse_pool.rs), one sorted *)
(* list for each alignment.  take_addr is at present called behind `if     *)
(* false`; both operations are modelled as the pool offers them.           *)
(***************************************************************************)
EXTENDS Integers, Sequences, SequencesExt

CONSTANTS
    Donor,          \* threads, numbers
    FreeSize,       \* sizes of allocations
    MaxPoolSize,    \* MAX_POOL_SIZE, 64 in the code
    MaxFreed        \* bound on the addresses ever freed: address n is the n-th

VARIABLES
    pool,           \* the list of one alignment: [addr, size, thread, clock]
    freed,          \* ghost: who freed which address, and its size and clock
    taken           \* ghost: what was handed out: [entry, size, thread, clock, cross]

poolVars == <<pool, freed, taken>>

Before(a, b) == a.size < b.size \/ (a.size = b.size /\ a.thread < b.thread)
(* partition_point: how many elements come before. *)
CountBefore(s, e) == Len(SelectSeq(s, LAMBDA o : Before(o, e)))

(* A full list replaces the element at the place of the new one. *)
Added(s, e) ==
    LET pos == CountBefore(s, e)
    IN  IF Len(s) >= MaxPoolSize THEN [s EXCEPT ![IF pos + 1 < Len(s) THEN pos + 1 ELSE Len(s)] = e]
        ELSE InsertAt(s, pos + 1, e)

(* add_addr; the clock of the donor is a counter of its steps here. *)
AddAddr(size, t, remembered) ==
    LET e == [addr |-> Len(freed) + 1, size |-> size, thread |-> t, clock |-> Len(freed) + 1] IN
    /\ Len(freed) < MaxFreed
    /\ freed' = Append(freed, e)
    /\ pool' = IF remembered THEN Added(pool, e) ELSE pool
    /\ UNCHANGED taken

(* take_addr: the range of candidates, found by position. *)
Candidates(size, t, cross) ==
    LET begin == Len(SelectSeq(pool, LAMBDA o : o.size < size \/ (o.size = size /\ ~cross /\ o.thread < t)))
        Fits(i) == pool[i].size = size /\ (cross \/ pool[i].thread = t)
    IN  {i \in begin + 1 .. Len(pool) : \A k \in begin + 1 .. i : Fits(k)}

TakeAddr(size, t, cross) ==
    \E i \in Candidates(size, t, cross) :
        /\ pool' = RemoveAt(pool, i)
        /\ taken' = taken \cup {[addr |-> pool[i].addr, size |-> size, thread |-> t, cross |-> cross,
                              clock |-> IF pool[i].thread = t THEN 0 ELSE pool[i].clock]}
        /\ UNCHANGED freed

PoolInit == pool = <<>> /\ freed = <<>> /\ taken = {}
PoolNext ==
    \E size \in FreeSize, t \in Donor :
        \/ \E remembered \in BOOLEAN : AddAddr(size, t, remembered)
        \/ \E cross \in BOOLEAN : TakeAddr(size, t, cross)
PoolSpec == PoolInit /\ [][PoolNext]_poolVars

(* The lists stay sorted, so that what fits is one stretch of them, and a  *)
(* fitting address is found whenever the list has one.                     *)
PoolFindsWhatFits ==
    /\ Len(pool) <= MaxPoolSize
    /\ \A size \in FreeSize, t \in Donor, cross \in BOOLEAN :
          Candidates(size, t, cross) = {i \in DOMAIN pool : pool[i].size = size /\ (cross \/ pool[i].thread = t)}

(* An address is handed out once for each time it was freed, for an        *)
(* allocation of the same size, with the clock of whoever freed it if that *)
(* was another thread, and only if those may be used.                      *)
ReuseSynchronizes ==
    \A u \in taken :
        LET e == freed[u.addr] IN
        /\ u.size = e.size
        /\ IF e.thread = u.thread THEN u.clock = 0 ELSE u.cross /\ u.clock = e.clock
        /\ \A o \in taken \ {u} : o.addr # u.addr
        /\ \A i \in DOMAIN pool : pool[i].addr # u.addr
=============================================================================
