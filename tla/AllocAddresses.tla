--------------------------- MODULE AllocAddresses ---------------------------
(***************************************************************************)
(* Addresses of allocations (alloc_addresses/mod.rs): where a local, a     *)
(* static, a CPU-local or a heap allocation is placed, the map from        *)
(* addresses back to allocations that pointers made from integers go       *)
(* through, the slots of typed pages that become allocations when such a   *)
(* pointer first reaches them, the stack pointer of each thread            *)
(* (after_stack_push, before_stack_pop and after_stack_pop in machine.rs), *)
(* and what the provenance garbage collector forgets.                      *)
(***************************************************************************)
EXTENDS PhysicalMem, SequencesExt

CONSTANTS
    StaticStart, CpuLocalStart, StackStart, StackEnd,   \* sections of the physical memory
    Tasks,          \* threads
    StackRange,     \* the stack of each thread, physical: <<bottom, top>>
    Layouts,        \* sizes and alignments of allocations: <<size, align>>
    MaxSlack,       \* bound on the random slack (15 in the code)
    MaxAllocs,      \* bound on the allocations ever made
    MaxDepth        \* bound on the frames of a thread

VARIABLES
    allocs,         \* every allocation so far: see Alloc
    int_to_ptr_map, \* the allocations that an address leads to
    base_paddr,     \* the allocations whose address is known
    exposed,        \* the allocations that were exposed
    cursors,        \* next_base_vaddr, next_cpu_local_paddr and next_dyn_vaddr
    sp,             \* next_stack_vaddr of each thread
    records,        \* stack_addr_records of each thread
    popping,        \* the thread between before_stack_pop and after_stack_pop
    held            \* allocations that some pointer of the program names

addrVars == <<allocs, int_to_ptr_map, base_paddr, exposed, cursors, sp, records, popping, held>>

NoTask == "none"
Ids == DOMAIN allocs
(* `at` is the entry in base_paddr, which never changes. *)
Alloc(kind, vaddr, at, layout, t, depth, init) ==
    [kind |-> kind, vaddr |-> vaddr, at |-> at, size |-> layout[1], align |-> layout[2],
     task |-> t, depth |-> depth, init |-> init, live |-> TRUE]
RangeOf(id) == allocs[id].at .. allocs[id].at + allocs[id].size - 1
AtLeastOne(n) == IF n = 0 THEN 1 ELSE n

---------------------------------------------------------------------------
(* Placing. *)
align_addr(a, align) == IF a % align = 0 THEN a ELSE a + align - (a % align)
align_down(a, align) == a - (a % align)

adjust_stack_addr(size, align, a) == align_down(a - AtLeastOne(size), align)

(* The address that addr_from_alloc_id_uncached picks, -1 if it finds the  *)
(* address space full, and the cursors afterwards.                         *)
Limit(kind) == kernel_code_paddr_to_vaddr(IF kind = "cpu" THEN StackStart ELSE CpuLocalStart)
Upward(kind, layout, slack) ==
    LET base == align_addr(cursors[kind] + slack, layout[2])
    IN  [vaddr |-> IF base >= Limit(kind) THEN -1 ELSE base,
         cursors |-> [cursors EXCEPT ![kind] = base + AtLeastOne(layout[1])]]
Downward(layout, slack) ==
    LET base == align_down(cursors.heap - slack - AtLeastOne(layout[1]), layout[2])
    IN  [vaddr |-> IF base < kernel_code_paddr_to_vaddr(StackEnd) THEN -1 ELSE base,
         cursors |-> [cursors EXCEPT !.heap = base]]
OnStack(t, from, layout) ==
    LET base == adjust_stack_addr(layout[1], layout[2], from)
    IN  [vaddr |-> IF base < kernel_code_paddr_to_vaddr(StackRange[t][1]) THEN -1 ELSE base, cursors |-> cursors]

(* Translation in addr_from_alloc_id. *)
OrElse(pa, or) == IF pa = -1 THEN or ELSE pa
PlacedAt(va) == OrElse(page_walk_or(va, try_kernel_code_vaddr_to_paddr(va)), try_kernel_code_vaddr_to_paddr(va))

(* addr_from_alloc_id for an allocation that has no address yet: one whose *)
(* address is taken stays out of int_to_ptr_map.                           *)
Enter(kind, placed, layout, t, depth) ==
    LET id == Len(allocs) + 1
        pa == PlacedAt(placed.vaddr)
        taken == \E o \in int_to_ptr_map : allocs[o].at = pa
        init == IF kind \in {"static", "cpu"} THEN 0 .. layout[1] - 1 ELSE {}
    IN  /\ allocs' = Append(allocs, Alloc(kind, placed.vaddr, pa, layout, t, depth, init))
        /\ base_paddr' = base_paddr \cup {id}
        /\ int_to_ptr_map' = IF taken THEN int_to_ptr_map ELSE int_to_ptr_map \cup {id}
        /\ exposed' = IF ~taken /\ pa \in CpuLocalStart .. StackStart - 1 THEN exposed \cup {id} ELSE exposed
        /\ held' = held \cup {id}
        /\ cursors' = placed.cursors

Exhausted == Halt("exhausted") /\ UNCHANGED addrVars

(* A static or CPU-local the program refers to for the first time, or a    *)
(* heap allocation.                                                        *)
Allocate(kind, layout, slack) ==
    LET placed == IF kind = "heap" THEN Downward(layout, slack) ELSE Upward(kind, layout, slack) IN
    /\ Len(allocs) < MaxAllocs
    /\ IF placed.vaddr = -1 THEN Exhausted
       ELSE /\ Enter(kind, placed, layout, NoTask, 0)
            /\ UNCHANGED <<sp, records, popping>> /\ UNCHANGED physVars

(* A local variable gets its memory. *)
AllocateLocal(t, layout) ==
    LET placed == OnStack(t, sp[t], layout) IN
    /\ Len(allocs) < MaxAllocs /\ records[t] # <<>>
    /\ IF placed.vaddr = -1 THEN Exhausted
       ELSE /\ Enter("stack", placed, layout, t, Len(records[t]))
            /\ sp' = [sp EXCEPT ![t] = placed.vaddr]
            /\ UNCHANGED <<records, popping>> /\ UNCHANGED physVars

---------------------------------------------------------------------------
(* Frames. *)

(* after_stack_push: room for the return value comes first. *)
Push(t, layout) ==
    /\ Len(records[t]) < MaxDepth
    /\ records' = [records EXCEPT ![t] = Append(@, [addr |-> sp[t], layout |-> layout])]
    /\ sp' = [sp EXCEPT ![t] = adjust_stack_addr(layout[1], layout[2], @)]
    /\ UNCHANGED <<allocs, int_to_ptr_map, base_paddr, exposed, cursors, popping, held>> /\ UNCHANGED physVars

(* before_stack_pop rewinds the stack pointer; the interpreter then copies *)
(* the return value, which may allocate the caller's local it goes to,     *)
(* while the locals of the frame are still alive.                          *)
PopBegin(t, copied) ==
    LET rec == Last(records[t])
        placed == OnStack(t, rec.addr, rec.layout)
    IN  /\ records[t] # <<>>
        /\ copied => Len(records[t]) > 1 /\ Len(allocs) < MaxAllocs
        /\ IF copied /\ placed.vaddr = -1 THEN Exhausted
           ELSE /\ popping' = t
                /\ sp' = [sp EXCEPT ![t] = IF copied THEN placed.vaddr ELSE rec.addr]
                /\ IF copied THEN Enter("stack", placed, rec.layout, t, Len(records[t]) - 1)
                   ELSE UNCHANGED <<allocs, int_to_ptr_map, base_paddr, exposed, cursors, held>>
                /\ UNCHANGED records /\ UNCHANGED physVars

(* free_alloc_id needs the address to lead to the allocation. *)
Freeable(ids) == ids \subseteq int_to_ptr_map

Freed(ids) ==
    /\ allocs' = [id \in Ids |-> IF id \in ids THEN [allocs[id] EXCEPT !.live = FALSE] ELSE allocs[id]]
    /\ int_to_ptr_map' = int_to_ptr_map \ ids
    /\ exposed' = exposed \ ids

(* The locals go, and after_stack_pop checks where the stack pointer is. *)
PopEnd(t) ==
    LET rec == Last(records[t])
        locals == {id \in Ids : allocs[id].live /\ allocs[id].task = t /\ allocs[id].depth = Len(records[t])}
        after == adjust_stack_addr(rec.layout[1], rec.layout[2], rec.addr)
        caller == records[t][Len(records[t]) - 1].layout
        inPlace == \/ sp[t] \in {rec.addr, after}
                   \/ Len(records[t]) > 1 /\ sp[t] >= adjust_stack_addr(caller[1], caller[2], after)
    IN  /\ popping = t
        /\ popping' = NoTask
        /\ IF Freeable(locals) /\ inPlace
           THEN /\ Freed(locals)
                /\ records' = [records EXCEPT ![t] = Front(@)]
                /\ UNCHANGED <<base_paddr, cursors, sp, held>> /\ UNCHANGED physVars
           ELSE /\ Halt("panic")
                /\ UNCHANGED <<allocs, int_to_ptr_map, base_paddr, exposed, cursors, sp, records, held>>

(* before_memory_deallocation and free_alloc_id, for a heap allocation. *)
Deallocate(id) ==
    /\ allocs[id].live /\ allocs[id].kind = "heap"
    /\ IF Freeable({id})
       THEN Freed({id}) /\ UNCHANGED <<base_paddr, cursors, sp, records, popping, held>> /\ UNCHANGED physVars
       ELSE Halt("panic") /\ UNCHANGED addrVars

---------------------------------------------------------------------------
(* From addresses to allocations. *)
(* The search in int_to_ptr_map: an allocation around the address, or 0. *)
Around(a) ==
    LET exact == {id \in int_to_ptr_map : allocs[id].at = a}
        below == {id \in int_to_ptr_map : allocs[id].at < a}
        glb == CHOOSE id \in below : \A o \in below : allocs[o].at <= allocs[id].at
    IN  IF exact # {} THEN CHOOSE id \in exact : TRUE
        ELSE IF below # {} /\ a - allocs[glb].at < allocs[glb].size THEN glb ELSE 0

(* Translation in alloc_id_from_addr. *)
Reached(va) ==
    LET fallback == OrElse(try_kernel_code_vaddr_to_paddr(va), try_boot_pt_vaddr_to_paddr(va))
    IN  OrElse(page_walk_or(va, fallback), fallback)

(* kernel_allocation_at: the slot around the address becomes an            *)
(* allocation, with the shadow of its page as it is now, and is exposed.   *)
SlotBase(pa) == align_down(pa, page_states[PageOf(pa)].slot)

SlotInit(base, size) ==
    LET p == PageOf(base)
    IN  IF HasMask(p) THEN {o \in 0 .. size - 1 : (base + o) % PageSize \in init_masks[p]} ELSE 0 .. size - 1

kernel_allocation_at(pa, keep) ==
    LET id == Len(allocs) + 1
        size == page_states[PageOf(pa)].slot
        base == SlotBase(pa)
    IN  IF \E o \in int_to_ptr_map : allocs[o].at = base
        THEN Halt("panic") /\ UNCHANGED addrVars
        ELSE /\ allocs' = Append(allocs, Alloc("slot", kernel_code_paddr_to_vaddr(base), base, <<size, size>>, NoTask, 0, SlotInit(base, size)))
             /\ int_to_ptr_map' = int_to_ptr_map \cup {id}
             /\ base_paddr' = base_paddr \cup {id}
             /\ exposed' = exposed \cup {id}
             /\ held' = IF keep THEN held \cup {id} ELSE held
             /\ UNCHANGED <<cursors, sp, records, popping>> /\ UNCHANGED physVars

(* A pointer made from an integer is used (ptr_get_alloc and               *)
(* alloc_id_from_addr); `back` is an access that ends at the address, and  *)
(* `keep` a pointer to what was found that the program keeps.              *)
Lookup(va, back, keep) ==
    LET pa == Reached(va)
        a == IF back /\ pa > 0 THEN pa - 1 ELSE pa
        id == Around(a)
        lazy == id = 0 /\ pa \in Paddr /\ page_states[PageOf(pa)].st = "typed"
    IN  IF pa = -1 THEN Halt("unwrap") /\ UNCHANGED addrVars
        ELSE IF lazy THEN Len(allocs) < MaxAllocs /\ kernel_allocation_at(pa, keep)
        ELSE /\ held' = IF keep /\ id \in exposed THEN held \cup {id} ELSE held
             /\ UNCHANGED <<allocs, int_to_ptr_map, base_paddr, exposed, cursors, sp, records, popping>> /\ UNCHANGED physVars

(* A store to a slot through the interpreter. *)
StoreToSlot(id, o, b) ==
    /\ allocs[id].live /\ allocs[id].kind = "slot" /\ o < allocs[id].size
    /\ allocs' = [allocs EXCEPT ![id].init = @ \cup {o}]
    /\ mem' = [mem EXCEPT ![allocs[id].at + o] = b]
    /\ fresh' = fresh \ {allocs[id].at + o}
    /\ UNCHANGED <<page_states, init_masks, tables, page_table, stop>>
    /\ UNCHANGED <<int_to_ptr_map, base_paddr, exposed, cursors, sp, records, popping, held>>

(* kern_miri_dealloc_pages: what is found at the slots of a typed page     *)
(* goes, its entry in base_paddr included.                                 *)
(* Mutant: the slots stay. *)
SlotsInNone(pages) == {}

SlotsIn(pages) ==
    {id \in int_to_ptr_map : \E p \in pages \cap Page : page_states[p].st = "typed"
        /\ allocs[id].at \in BytesOf(p) /\ (allocs[id].at - p * PageSize) % page_states[p].slot = 0}
DeallocPages(pa, count) ==
    LET pages == PagesAt(pa, count)
        slots == SlotsIn(pages)
    IN  IF CanRelease(pages) /\ pages \subseteq Page
        THEN /\ ReleasePages(pages)
             /\ Freed(slots)
             /\ base_paddr' = base_paddr \ slots
             /\ UNCHANGED <<cursors, sp, records, popping, held>>
        ELSE Halt(IF CanRelease(pages) THEN "bounds" ELSE "ub") /\ UNCHANGED addrVars

(* expose_provenance *)
Expose(id) ==
    /\ id \in held
    /\ exposed' = IF allocs[id].live THEN exposed \cup {id} ELSE exposed
    /\ UNCHANGED <<allocs, int_to_ptr_map, base_paddr, cursors, sp, records, popping, held>> /\ UNCHANGED physVars

(* The program loses its last pointer to an allocation; run_provenance_gc. *)
Forget(id) ==
    /\ id \in held
    /\ held' = held \ {id}
    /\ UNCHANGED <<allocs, int_to_ptr_map, base_paddr, exposed, cursors, sp, records, popping>> /\ UNCHANGED physVars

Retained == {id \in base_paddr : allocs[id].live \/ id \in held}

CollectGarbage ==
    /\ base_paddr' = Retained
    /\ UNCHANGED <<allocs, int_to_ptr_map, exposed, cursors, sp, records, popping, held>> /\ UNCHANGED physVars

(* free_kernel_allocations when the program is done. *)
Finish ==
    LET slots == {id \in Ids : allocs[id].live /\ allocs[id].kind = "slot"} IN
    IF Freeable(slots)
    THEN Freed(slots) /\ stop' = "done"
         /\ UNCHANGED <<page_states, init_masks, mem, tables, page_table, fresh>>
         /\ UNCHANGED <<base_paddr, cursors, sp, records, popping, held>>
    ELSE Halt("panic") /\ UNCHANGED addrVars

---------------------------------------------------------------------------
AddrInit ==
    /\ allocs = <<>> /\ int_to_ptr_map = {} /\ base_paddr = {} /\ exposed = {} /\ held = {}
    /\ cursors = [static |-> kernel_code_paddr_to_vaddr(StaticStart), cpu |-> kernel_code_paddr_to_vaddr(CpuLocalStart),
                  heap |-> kernel_code_paddr_to_vaddr(TotalMem)]
    /\ sp = [t \in Tasks |-> kernel_code_paddr_to_vaddr(StackRange[t][2])]
    /\ records = [t \in Tasks |-> <<>>]
    /\ popping = NoTask

---------------------------------------------------------------------------
AddrTypeOK ==
    /\ PhysTypeOK
    /\ int_to_ptr_map \subseteq Ids /\ base_paddr \subseteq Ids /\ exposed \subseteq Ids /\ held \subseteq Ids
    /\ popping \in Tasks \cup {NoTask}
    /\ stop \in {"no", "done", "ub", "unsupported", "unwrap", "bounds", "assert", "exhausted", "panic"}

(* No assertion about addresses fails: what is freed is found at its       *)
(* address, a slot is made once, and a frame leaves the stack pointer      *)
(* where it was or below the return value.  (Arguments of the program that *)
(* the code takes for granted end in "unwrap", "bounds" or "assert": pages *)
(* that do not exist, slots that do not fill a page, bytes of a page       *)
(* without a mask, an address that nothing maps.)                          *)
MemNoPanic == stop # "panic"

Footprint(id) == allocs[id].at .. allocs[id].at + AtLeastOne(allocs[id].size) - 1
Overlap(i, j) == Footprint(i) \cap Footprint(j) # {}
SameRegion(i, j) == allocs[i].kind = allocs[j].kind
LiveIds == {id \in Ids : allocs[id].live}

(* Live allocations of a region share no byte, and none without a size has *)
(* the address of another: locals of a frame that is being popped and the  *)
(* caller's local its value is copied to included.                         *)
RegionsDisjoint == \A i, j \in LiveIds : i # j /\ SameRegion(i, j) => ~Overlap(i, j)

(* An address leads to the live allocation around it, never to a dead one, *)
(* and never to one it is not in.                                          *)
LookupExact ==
    LET found == [a \in Paddr |-> Around(a)] IN
    /\ \A a \in Paddr : found[a] # 0 => /\ allocs[found[a]].live
                                       /\ a \in RangeOf(found[a]) \cup {allocs[found[a]].at}
    /\ \A i \in LiveIds : (\A j \in LiveIds : i # j => ~Overlap(i, j)) => \A a \in RangeOf(i) : found[a] = i

(* A slot that lives is a slot of its page, which is typed; no allocation  *)
(* made under an earlier life of the page is left.                         *)
SlotsOnTypedPages ==
    \A i \in LiveIds : allocs[i].kind = "slot" =>
        LET p == PageOf(allocs[i].at)
        IN  page_states[p] = Typed(allocs[i].size) /\ RangeOf(i) \subseteq BytesOf(p)

(* What counts as initialised was written since its page was allocated:    *)
(* no contents of an earlier life of the page can be read, neither as      *)
(* bytes nor as a slot.                                                    *)
NoStaleContents ==
    /\ \A p \in Page : \A o \in init_masks[p] \ NoMask : p * PageSize + o \notin fresh
    /\ \A i \in LiveIds : allocs[i].kind = "slot" => \A o \in allocs[i].init : allocs[i].at + o \notin fresh

(* The address of an allocation is known for as long as a pointer names    *)
(* it, dead or not (ptr_get_alloc: "This cannot fail"), through frees and  *)
(* collections.  The slots of a page that was given back are left out:     *)
(* dealloc_pages forgets their addresses at once (physical_mem.rs:162), so *)
(* the use of a pointer kept to one does fail (alloc_addresses/mod.rs:843).*)
PointersHaveAddresses ==
    \A id \in held \ base_paddr : allocs[id].kind = "slot" /\ ~allocs[id].live
=============================================================================
