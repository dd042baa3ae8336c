------------------------------ MODULE MemoryMC ------------------------------
EXTENDS AllocAddresses, RangeMap, ReusePool, IsolatedAlloc

CONSTANTS
    MaxMemOps,      \* bound on the operations of a program on pages
    BackLookups,    \* whether accesses that end at an address are looked up
    Scenarios

VARIABLES
    scenario,       \* which part of the memory is exercised
    memOps

memVars == <<scenario, memOps, physVars, addrVars, rangeVars, poolVars, isoVars>>

(* The kernel has put its own entries in the tables it found. *)
BootedTables ==
    [tables EXCEPT ![0] = [i \in 0 .. 3 |-> IF i = 1 THEN Entry(0, TRUE, TRUE) ELSE IF i = 3 THEN NoEntry ELSE Entry(1, TRUE, FALSE)],
                   ![1] = [i \in 0 .. 3 |-> Entry(4 + i, TRUE, FALSE)]]

MemInit ==
    /\ PhysInit /\ AddrInit /\ RangeInit /\ PoolInit /\ IsoInit
    /\ memOps = 0
    /\ scenario \in Scenarios
    /\ scenario # "ranges" => v = NewMap(Max(Datum))

(* Setting up the kernel's tables is the first step of a kernel. *)
Setup ==
    /\ memOps = 0
    /\ memOps' = 1
    /\ tables' = BootedTables
    /\ UNCHANGED <<page_states, init_masks, mem, page_table, fresh, stop>>
    /\ UNCHANGED addrVars

PageStep ==
    /\ memOps \in 1 .. MaxMemOps
    /\ memOps' = memOps + 1
    /\ \/ /\ UNCHANGED addrVars
          /\ \/ \E p \in {4, 5}, n \in {1, 2} : AllocPages(p * PageSize, n) \/ RetypePages(p * PageSize, n, 2, TRUE) \/ ZeroPages(p * PageSize, n)
             \/ RetypePages(5 * PageSize, 1, 4, TRUE)
             \/ RetypePages(5 * PageSize, 1, 3, TRUE) \/ RetypePages(5 * PageSize, 1, 2, FALSE) \/ AllocPages(7 * PageSize, 2)
             \/ WriteBytes(5 * PageSize - 1, <<1, 1>>) \/ WriteBytes(5 * PageSize + 1, <<1>>)
             \/ \E d, s \in CopyFrom : CopyUntyped(d, s, 3)
             \/ StorePte(1, 0, Entry(5, TRUE, FALSE)) \/ StorePte(1, 1, NoEntry)
             \/ SetRoot(1)
       \/ \E p \in {4, 5}, n \in {1, 2} : DeallocPages(p * PageSize, n)
       \/ \E va \in {2, PageSize + 1, 5 * PageSize + KernelBase + 1, 4 * PageSize + KernelBase, 2 * PageSize}, back \in {FALSE, BackLookups}, keep \in BOOLEAN :
            Lookup(va, back, keep)
       \/ \E id \in Ids : StoreToSlot(id, 0, 1) \/ Forget(id)
       \/ CollectGarbage
       \/ Finish

FrameStep ==
    IF popping # NoTask THEN PopEnd(popping)
    ELSE \E t \in Tasks : \/ \E l \in Layouts : Push(t, l) \/ AllocateLocal(t, l)
                          \/ \E copied \in BOOLEAN : PopBegin(t, copied)

GlobalStep ==
    \/ \E l \in Layouts, slack \in 0 .. MaxSlack, k \in {"static", "cpu", "heap"} : Allocate(k, l, slack)
    \/ \E id \in Ids : Deallocate(id) \/ Expose(id) \/ Forget(id)
    \/ CollectGarbage

MemNext ==
    /\ UNCHANGED scenario
    /\ \/ /\ scenario = "pages" /\ stop = "no"
          /\ UNCHANGED <<rangeVars, poolVars, isoVars>>
          /\ Setup \/ PageStep
       \/ /\ scenario = "frames" /\ stop = "no"
          /\ UNCHANGED <<memOps, rangeVars, poolVars, isoVars>>
          /\ FrameStep
       \/ /\ scenario = "globals" /\ stop = "no"
          /\ UNCHANGED <<memOps, rangeVars, poolVars, isoVars>>
          /\ GlobalStep
       \/ /\ scenario = "ranges"
          /\ UNCHANGED <<memOps, physVars, addrVars, poolVars, isoVars>>
          /\ DedupNext
       \/ /\ scenario = "objects"
          /\ UNCHANGED <<memOps, physVars, addrVars, poolVars, isoVars>>
          /\ ObjectNext
       \/ /\ scenario = "pool"
          /\ UNCHANGED <<memOps, physVars, addrVars, rangeVars, isoVars>>
          /\ PoolNext
       \/ /\ scenario = "bytes"
          /\ UNCHANGED <<memOps, physVars, addrVars, rangeVars, poolVars>>
          /\ IsoNext
MemSpec == MemInit /\ [][MemNext]_memVars

MemTypeOK == AddrTypeOK /\ RangeTypeOK
RangesYield == scenario \in {"ranges", "objects"} => YieldsWhatIsAsked

MutationDef == {[d \in Datum |-> 1], [d \in Datum |-> 3 - d]}
StacksDef == "a" :> <<12, 16>>
LayoutsDef == {<<0, 1>>, <<2, 1>>, <<2, 2>>}
IsoLayoutsDef == {[size |-> 0, align |-> 1], [size |-> 5, align |-> 8], [size |-> 7, align |-> 1], [size |-> 1, align |-> 32]}

(* Every address leads to the one allocation that lives there, under its   *)
(* present contents, through frames, pages, collection and re-use.         *)
AddressesSound ==
    /\ MemTypeOK /\ MemNoPanic
    /\ RegionsDisjoint /\ LookupExact /\ SlotsOnTypedPages /\ NoStaleContents /\ PointersHaveAddresses

(* What is given back and given out again: the pool of addresses finds     *)
(* what fits and orders its users, and the isolated allocator keeps the    *)
(* bytes of its owners apart, zeroed where they were asked to be.          *)
ReuseSound ==
    /\ PoolFindsWhatFits /\ ReuseSynchronizes /\ RangesYield
    /\ OwnersApart /\ PagesMatchOwners /\ ZeroedAreZero /\ OwnersCanDrop
=============================================================================
