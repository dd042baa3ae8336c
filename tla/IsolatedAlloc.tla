--------------------------- MODULE IsolatedAlloc ---------------------------
(***************************************************************************)
(* The allocator that keeps the bytes of the interpreted program on pages  *)
(* of their own (src/src/alloc/isolated_alloc.rs), and the owner of such   *)
(* bytes (MiriAllocBytes of alloc_bytes.rs), which asks for one byte where *)
(* it needs none and has to give back the same layout later.               *)
(***************************************************************************)
EXTENDS Integers, Sequences, FiniteSets, FiniteSetsExt, SequencesExt

CONSTANTS
    CompressionFactor,   \* bytes for each bit
    HostPageSize,        \* page_size
    HostPages,           \* bound: pages of the host
    IsoLayouts,          \* layouts the interpreter asks for
    MaxIsoLive           \* bound: bytes owned at a time

ASSUME IsolatedAllocAssumption ==
    /\ {CompressionFactor, HostPageSize, HostPages} \subseteq Nat \ {0} /\ MaxIsoLive \in Nat
    /\ HostPageSize % CompressionFactor = 0
    /\ IsoLayouts \subseteq [size : Nat, align : Nat \ {0}]

VARIABLES
    iso_pages,   \* page_ptrs and page_infos: base of each page and the bits set
    huge_ptrs,   \* base and size of each mapping
    iso_owned,   \* the MiriAllocBytes: pointer, layout, and whether still as zeroed
    host_dirty,  \* addresses on the host's pages that may hold something but zero
    iso_panic    \* an assertion has failed

isoVars == <<iso_pages, huge_ptrs, iso_owned, host_dirty, iso_panic>>

IsoInit == iso_pages = <<>> /\ huge_ptrs = {} /\ iso_owned = {} /\ host_dirty = {} /\ iso_panic = FALSE

IsoRange(base, size) == base .. base + size - 1
NextMultipleOf(n, m) == ((n + m - 1) \div m) * m

IsoClaimed == UNION ({IsoRange(iso_pages[i].base, HostPageSize) : i \in DOMAIN iso_pages}
                  \cup {IsoRange(h.base, h.size) : h \in huge_ptrs})

(* mmap: any free range, at a page boundary. *)
MmapChoices(size) ==
    {base \in {HostPageSize * i : i \in 1 .. HostPages} :
        /\ base + size <= HostPageSize * (HostPages + 1)
        /\ IsoRange(base, size) \cap IsoClaimed = {}}

NormalizedLayout(l) ==
    [size |-> NextMultipleOf(l.size, CompressionFactor),
     align |-> IF l.align < CompressionFactor THEN CompressionFactor ELSE l.align]

HugeNormalizedLayout(l) ==
    LET align == IF l.align > HostPageSize THEN l.align ELSE HostPageSize IN
    NextMultipleOf(l.size, HostPageSize) + (align \div HostPageSize - 1) * HostPageSize

IsHugeAlloc(l) == l.align > HostPageSize \div 2 \/ l.size >= HostPageSize \div 2

IsoChunks(offset, l) == IsoRange(offset \div CompressionFactor, l.size \div CompressionFactor)

(* alloc_small: the offsets of a page at which l fits. *)
SmallOffsets(used, l) ==
    {o \in 0 .. HostPageSize - 1 : o % l.align = 0 /\ o + l.size <= HostPageSize /\ IsoChunks(o, l) \cap used = {}}

(* The owner's record; zeroed bytes are as the allocator left them. *)
Owned(ptr, l, zeroed) == [ptr |-> ptr, layout |-> l, zeroed |-> zeroed]

WriteZeroes(dirty, ptr, size) == dirty \ IsoRange(ptr, size)

(* What is dirty after an allocation at ptr: zeroed, or filled by its owner. *)
DirtyAfter(dirty, ptr, l, asked, zeroed) ==
    IF zeroed THEN WriteZeroes(dirty, ptr, l.size) ELSE dirty \cup IsoRange(ptr, asked.size)

(* A page that is there already: the first one with room, the first offset. *)
AllocSmall(l, asked, zeroed) ==
    LET i == Min({j \in DOMAIN iso_pages : SmallOffsets(iso_pages[j].used, l) # {}})
        o == Min(SmallOffsets(iso_pages[i].used, l))
        ptr == iso_pages[i].base + o
    IN
    /\ iso_pages' = [iso_pages EXCEPT ![i].used = @ \cup IsoChunks(o, l)]
    /\ iso_owned' = iso_owned \cup {Owned(ptr, asked, zeroed)}
    /\ host_dirty' = DirtyAfter(host_dirty, ptr, l, asked, zeroed)
    /\ UNCHANGED <<huge_ptrs, iso_panic>>

(* add_page, and the allocation at its start. *)
AddPage(base, l, asked, zeroed) ==
    /\ iso_pages' = Append(iso_pages, [base |-> base, used |-> IsoChunks(0, l)])
    /\ iso_owned' = iso_owned \cup {Owned(base, asked, zeroed)}
    /\ host_dirty' = DirtyAfter(host_dirty \ IsoRange(base, HostPageSize), base, l, asked, zeroed)
    /\ UNCHANGED <<huge_ptrs, iso_panic>>

AllocHuge(base, l, asked, zeroed) ==
    LET size == HugeNormalizedLayout(l)
        ptr == NextMultipleOf(base, l.align)
    IN
    /\ huge_ptrs' = huge_ptrs \cup {[base |-> base, size |-> size]}
    /\ iso_owned' = iso_owned \cup {Owned(ptr, asked, zeroed)}
    /\ host_dirty' = LET clean == host_dirty \ IsoRange(base, size) IN
                     IF zeroed THEN clean ELSE clean \cup IsoRange(ptr, asked.size)
    /\ UNCHANGED <<iso_pages, iso_panic>>

(* allocate *)
IsoAllocate(l, asked, zeroed) ==
    IF IsHugeAlloc(l) THEN \E base \in MmapChoices(HugeNormalizedLayout(l)) : AllocHuge(base, l, asked, zeroed)
    ELSE IF \E j \in DOMAIN iso_pages : SmallOffsets(iso_pages[j].used, l) # {} THEN AllocSmall(l, asked, zeroed)
    ELSE \E base \in MmapChoices(HostPageSize) : AddPage(base, l, asked, zeroed)

(* alloc_with and drop: no bytes take the place of one. *)
AllocLayout(l) == IF l.size = 0 THEN [l EXCEPT !.size = 1] ELSE l

(* from_bytes fills what it got; zeroed leaves it. *)
FromBytes(l) == IsoAllocate(NormalizedLayout(AllocLayout(l)), l, FALSE)
ZeroedBytes(l) == IsoAllocate(NormalizedLayout(AllocLayout(l)), l, TRUE)
CloneBytes(a) == FromBytes(a.layout)

(* The program writes through deref_mut. *)
WriteOwned(a) ==
    /\ a.zeroed /\ iso_owned' = (iso_owned \ {a}) \cup {[a EXCEPT !.zeroed = FALSE]}
    /\ host_dirty' = host_dirty \cup IsoRange(a.ptr, a.layout.size)
    /\ UNCHANGED <<iso_pages, huge_ptrs, iso_panic>>

IsoPanics == iso_panic' = TRUE /\ UNCHANGED <<iso_pages, huge_ptrs, iso_owned, host_dirty>>

(* Mutant: the bits of the layout as it was asked for, rounded down. *)
FreedChunksAsked(offset, l, asked) ==
    IsoRange(offset \div CompressionFactor, asked.size \div CompressionFactor)

FreedChunks(offset, l, asked) == IsoChunks(offset, l)

(* dealloc_small, and the page given back with its last allocation. *)
DeallocSmall(a, l, asked) ==
    LET offset == a.ptr % HostPageSize
        P == {i \in DOMAIN iso_pages : iso_pages[i].base = a.ptr - offset}
        i == CHOOSE i \in P : TRUE
        left == iso_pages[i].used \ FreedChunks(offset, l, asked)
    IN
    IF P = {} THEN IsoPanics
    ELSE /\ iso_pages' = IF left = {} THEN RemoveAt(iso_pages, i) ELSE [iso_pages EXCEPT ![i].used = left]
         /\ iso_owned' = iso_owned \ {a}
         /\ host_dirty' = IF left = {} THEN host_dirty \ IsoRange(a.ptr - offset, HostPageSize) ELSE host_dirty
         /\ UNCHANGED <<huge_ptrs, iso_panic>>

DeallocHuge(a, l) ==
    LET H == {h \in huge_ptrs : a.ptr \in IsoRange(h.base, h.size)}
        h == CHOOSE h \in H : TRUE
    IN
    IF H = {} \/ h.size # HugeNormalizedLayout(l) THEN IsoPanics
    ELSE /\ huge_ptrs' = huge_ptrs \ {h} /\ iso_owned' = iso_owned \ {a}
         /\ host_dirty' = host_dirty \ IsoRange(h.base, h.size)
         /\ UNCHANGED <<iso_pages, iso_panic>>

WasHuge(l, asked) == IsHugeAlloc(l)

(* drop, dealloc *)
DropBytes(a) ==
    LET asked == AllocLayout(a.layout)
        l == NormalizedLayout(asked)
    IN IF WasHuge(l, asked) THEN DeallocHuge(a, l) ELSE DeallocSmall(a, l, asked)

IsoNext ==
    /\ ~iso_panic
    /\ \/ Cardinality(iso_owned) < MaxIsoLive /\ \/ \E l \in IsoLayouts : FromBytes(l) \/ ZeroedBytes(l)
                                                 \/ \E a \in iso_owned : CloneBytes(a)
       \/ \E a \in iso_owned : WriteOwned(a) \/ DropBytes(a)

-----------------------------------------------------------------------------

IsoBytes(a) == IsoRange(a.ptr, AllocLayout(a.layout).size)

(* Owners never share a byte, not even those of empty bytes; all bytes are *)
(* aligned and on the pages reported by pages(), which native code may use.*)
OwnersApart ==
    \A a \in iso_owned :
        /\ a.ptr % a.layout.align = 0 /\ IsoBytes(a) \subseteq IsoClaimed
        /\ \A b \in iso_owned \ {a} : IsoBytes(a) \cap IsoBytes(b) = {}

(* The bits of a page are the chunks of those who own bytes there, and no  *)
(* page and no mapping is kept for nobody, through any order of drops.     *)
PagesMatchOwners ==
    /\ \A i \in DOMAIN iso_pages :
         LET base == iso_pages[i].base
             here == {a \in iso_owned : a.ptr \in IsoRange(base, HostPageSize)}
         IN /\ here # {}
            /\ iso_pages[i].used = UNION {IsoChunks(a.ptr - base, NormalizedLayout(AllocLayout(a.layout))) : a \in here}
    /\ \A h \in huge_ptrs : Cardinality({a \in iso_owned : a.ptr \in IsoRange(h.base, h.size)}) = 1

(* Bytes asked for as zeroed are zero until their owner writes, on pages   *)
(* that other owners have filled before too.                               *)
ZeroedAreZero ==
    \A a \in iso_owned : a.zeroed => IsoRange(a.ptr, a.layout.size) \cap host_dirty = {}

(* Whoever gives back what it got is never told "Freeing in an unallocated *)
(* page", "Freeing unallocated pages" or "got wrong layout in dealloc".    *)
OwnersCanDrop == ~iso_panic
=============================================================================
