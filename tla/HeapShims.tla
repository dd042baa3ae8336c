----------------------------- MODULE HeapShims -----------------------------
(***************************************************************************)
(* The allocation functions a program can call: src/src/shims/alloc.rs     *)
(* (the Rust allocator and the C heap), unix/mem.rs and unix/linux/mem.rs  *)
(* (mmap and its relatives) and the Windows heap.  All of them share one   *)
(* memory, in which every allocation remembers the kind it was made as.    *)
(* Addresses are left out: a pointer is the number of its allocation.      *)
(***************************************************************************)
EXTENDS Integers, Sequences, FiniteSets

CONSTANTS
    UsizeBits,        \* width of usize
    PtrSize, PageSize, MaxFundamentalAlign,   \* of the target
    HeapSizes, HeapAligns,  \* what programs ask for
    MaxHeapAllocs     \* bound: allocations ever made

PowersOfTwo == {2 ^ i : i \in 0 .. UsizeBits}

ASSUME HeapShimsAssumption ==
    /\ UsizeBits \in Nat \ {0} /\ MaxHeapAllocs \in Nat
    /\ {PtrSize, PageSize, MaxFundamentalAlign} \subseteq PowersOfTwo
    /\ HeapSizes \subseteq 0 .. 2 ^ UsizeBits - 1 /\ HeapAligns \subseteq 0 .. 2 ^ UsizeBits - 1

VARIABLES
    heap,        \* the allocations: kind, size, align, bytes, live; and what was asked for
    heap_halt,   \* no, or the error that ended the program
    rules_kept   \* history: the program has kept to the rules of the functions it called

heapVars == <<heap, heap_halt, rules_kept>>

HeapInit == heap = <<>> /\ heap_halt = "no" /\ rules_kept = TRUE

MaxSizeOfVal == 2 ^ (UsizeBits - 1) - 1
HeapLive == {p \in DOMAIN heap : heap[p].live}
Larger(a, b) == IF a >= b THEN a ELSE b
Bytes(size, b) == [i \in 1 .. size |-> b]

(* What the caller was promised: the bytes it asked for, its alignment,    *)
(* and whether they are initialized.                                       *)
Asked(size, align, zeroed) == [size |-> size, align |-> align, zeroed |-> zeroed]

NewAlloc(kind, size, align, init, asked) ==
    [kind |-> kind, size |-> size, align |-> align, bytes |-> Bytes(size, init),
     live |-> TRUE, asked |-> asked]

HeapError(how, kept) == heap_halt' = how /\ rules_kept' = kept /\ UNCHANGED heap
HeapFails == UNCHANGED heapVars      \* NULL or an error code

(* allocate_ptr; there is no memory for more than half the address space. *)
AllocatePtr(kind, size, align, init, asked) ==
    IF size > MaxSizeOfVal THEN HeapError("exhausted", rules_kept)
    ELSE /\ heap' = Append(heap, NewAlloc(kind, size, align, init, asked))
         /\ UNCHANGED <<heap_halt, rules_kept>>

(* What deallocate_ptr insists on; size and align only if they are given. *)
Deallocatable(p, kind, size, align) ==
    /\ p \in HeapLive /\ heap[p].kind = kind
    /\ size # -1 => heap[p].size = size /\ heap[p].align = align

Dead(h, p) == [h EXCEPT ![p].live = FALSE]

(* deallocate_ptr; `kept`: this call is as the rules want it. *)
DeallocatePtr(p, kind, size, align, kept) ==
    IF ~Deallocatable(p, kind, size, align) THEN HeapError("ub", rules_kept /\ kept)
    ELSE heap' = Dead(heap, p) /\ rules_kept' = (rules_kept /\ kept) /\ UNCHANGED heap_halt

(* reallocate_ptr: a new allocation, the common bytes, the old one freed.  *)
ReallocatePtr(p, kind, size, align, newSize, newAlign, init, asked, kept) ==
    IF ~Deallocatable(p, kind, size, align) THEN HeapError("ub", rules_kept /\ kept)
    ELSE IF newSize > MaxSizeOfVal THEN HeapError("exhausted", rules_kept)
    ELSE /\ heap' = Append(Dead(heap, p),
               [NewAlloc(kind, newSize, newAlign, init, asked) EXCEPT
                   !.bytes = [i \in 1 .. newSize |-> IF i <= heap[p].size THEN heap[p].bytes[i] ELSE init]])
         /\ rules_kept' = (rules_kept /\ kept) /\ UNCHANGED heap_halt

(* The program fills an allocation. *)
Fill(p) ==
    /\ heap[p].live /\ heap' = [heap EXCEPT ![p].bytes = Bytes(heap[p].size, "data")]
    /\ UNCHANGED <<heap_halt, rules_kept>>

-----------------------------------------------------------------------------
(* The C heap. *)

(* malloc_align: rounds the size down to a power of two. *)
MallocAlign(size) ==
    IF size >= MaxFundamentalAlign THEN MaxFundamentalAlign
    ELSE IF size = 0 THEN 1
    ELSE CHOOSE a \in PowersOfTwo : a <= size /\ size < 2 * a

(* "suitably aligned for any object with a fundamental alignment           *)
(* requirement and size less than or equal to the size requested".         *)
FundamentalAlign(size) ==
    LET A == {a \in PowersOfTwo : a <= MaxFundamentalAlign /\ a <= size} IN
    IF A = {} THEN 1 ELSE CHOOSE a \in A : \A b \in A : b <= a

MallocInit(size, init) ==
    AllocatePtr("C", size, MallocAlign(size), init, Asked(size, FundamentalAlign(size), init = "zero"))

Malloc(size) == IF size <= MaxSizeOfVal THEN MallocInit(size, "uninit") ELSE HeapFails

(* compute_size_in_bytes: -1 on overflow. *)
SizeInBytes(items, elem) == IF items * elem <= MaxSizeOfVal THEN items * elem ELSE -1

Calloc(items, elem) ==
    LET size == SizeInBytes(items, elem) IN
    IF size \notin 0 .. MaxSizeOfVal THEN HeapFails
    ELSE AllocatePtr("C", size, MallocAlign(size), "zero",
                     Asked(items * elem, FundamentalAlign(size), TRUE))

Free(p) == DeallocatePtr(p, "C", -1, 0, p \in HeapLive /\ heap[p].kind = "C")

(* realloc; of NULL it is malloc. *)
ReallocOf(p, size) ==
    IF size = 0 THEN HeapError("ub", FALSE)
    ELSE ReallocatePtr(p, "C", -1, 0, size, MallocAlign(size), "uninit",
                       Asked(size, FundamentalAlign(size), FALSE), p \in HeapLive /\ heap[p].kind = "C")

Realloc(p, size) == IF size <= MaxSizeOfVal THEN ReallocOf(p, size) ELSE HeapFails

(* reallocarray. *)
Reallocarray(p, items, elem) ==
    LET size == SizeInBytes(items, elem) IN IF size = -1 THEN HeapFails ELSE ReallocOf(p, size)

(* posix_memalign. *)
PosixMemalign(align, size) ==
    IF align \notin PowersOfTwo \/ align < PtrSize THEN HeapFails
    ELSE AllocatePtr("C", size, align, "uninit", Asked(size, align, FALSE))

(* aligned_alloc. *)
AlignedAlloc(align, size) ==
    IF align = 0 \/ align \notin PowersOfTwo \/ size % align # 0 THEN HeapFails
    ELSE AllocatePtr("C", size, Larger(align, MallocAlign(size)), "uninit",
                     Asked(size, Larger(align, FundamentalAlign(size)), FALSE))

CStep(p) ==
    \/ \E size \in HeapSizes : Malloc(size) \/ \E align \in HeapAligns : PosixMemalign(align, size) \/ AlignedAlloc(align, size)
    \/ \E items, elem \in HeapSizes : Calloc(items, elem)
    \/ p # 0 /\ \/ Free(p) \/ \E size \in HeapSizes : Realloc(p, size)
                \/ \E items, elem \in HeapSizes : Reallocarray(p, items, elem)

-----------------------------------------------------------------------------
(* The Rust allocator: __rust_alloc, __rust_dealloc, __rust_realloc. *)

(* Align::from_bytes takes 0 for 1 and refuses what is no power of two. *)
IsAlign(align) == align \in PowersOfTwo \cup {0}
AlignFromBytes(align) == IF align = 0 THEN 1 ELSE align

CheckRustAllocRequest(size, align) == size # 0 /\ size <= MaxSizeOfVal /\ IsAlign(align)

RustAlloc(size, align, init) ==
    IF ~CheckRustAllocRequest(size, align) THEN HeapError("ub", FALSE)
    ELSE AllocatePtr("Rust", size, AlignFromBytes(align), init,
                     Asked(size, AlignFromBytes(align), init = "zero"))

(* The layout the allocation was made with. *)
SameLayout(p, size, align) ==
    p \in HeapLive /\ heap[p].kind = "Rust" /\ heap[p].asked.size = size /\ heap[p].asked.align = align

(* dealloc does not check the alignment, it unwraps it. *)
RustDealloc(p, size, align) ==
    IF ~IsAlign(align) THEN HeapError("panic", FALSE)
    ELSE DeallocatePtr(p, "Rust", size, AlignFromBytes(align), SameLayout(p, size, AlignFromBytes(align)))

RustRealloc(p, size, align, newSize) ==
    IF ~CheckRustAllocRequest(newSize, align) THEN HeapError("ub", FALSE)
    ELSE LET a == AlignFromBytes(align) IN
         ReallocatePtr(p, "Rust", size, a, newSize, a, "uninit", Asked(newSize, a, FALSE),
                       SameLayout(p, size, a))

RustStep(p) ==
    \E size \in HeapSizes, align \in HeapAligns :
        \/ \E init \in {"uninit", "zero"} : RustAlloc(size, align, init)
        \/ p # 0 /\ \/ RustDealloc(p, size, align) \/ \E new \in HeapSizes : RustRealloc(p, size, align, new)

-----------------------------------------------------------------------------
(* Mappings. *)

(* round_up_to_page_size; beyond isize::MAX the calls fail. *)
RoundUpToPageSize(length) == ((length + PageSize - 1) \div PageSize) * PageSize
Mappable(length) == RoundUpToPageSize(length) <= MaxSizeOfVal

(* mmap, private and anonymous; whatever else it could do is not supported. *)
Mmap(length) ==
    IF length = 0 \/ ~Mappable(length) THEN HeapFails
    ELSE AllocatePtr("Mmap", RoundUpToPageSize(length), PageSize, "zero", Asked(length, PageSize, TRUE))

MmapUnsupported == HeapError("unsupported", FALSE)

Pages(length) == (length + PageSize - 1) \div PageSize
WholeMapping(p, length) ==
    p \in HeapLive /\ heap[p].kind = "Mmap" /\ Pages(heap[p].asked.size) = Pages(length)

(* Every allocation is at a multiple of its alignment; page_size divides   *)
(* the address of one that is aligned to less only by chance.              *)
PageAligned(p) == heap[p].align >= PageSize

Munmap(p, length) ==
    IF ~PageAligned(p) \/ ~Mappable(length) THEN HeapFails
    ELSE DeallocatePtr(p, "Mmap", RoundUpToPageSize(length), PageSize, WholeMapping(p, length))

(* mprotect and madvise change nothing, but look at the memory. *)
MprotectOrMadvise(p, length) ==
    IF ~PageAligned(p) \/ ~Mappable(length) THEN HeapFails
    ELSE IF length > 0 /\ (p \notin HeapLive \/ heap[p].size < RoundUpToPageSize(length))
         THEN HeapError("ub", rules_kept /\ WholeMapping(p, length)) ELSE HeapFails

MremapInit == "zero"

(* mremap with MREMAP_MAYMOVE; the sizes are not rounded, so the rules     *)
(* here ask for whole pages.                                               *)
Mremap(p, size, newSize) ==
    IF ~PageAligned(p) \/ newSize = 0 THEN HeapFails
    ELSE ReallocatePtr(p, "Mmap", size, PageSize, newSize, PageSize, MremapInit,
                       Asked(newSize, PageSize, TRUE),
                       WholeMapping(p, size) /\ size % PageSize = 0 /\ newSize % PageSize = 0)

MmapStep(p) ==
    \/ \E length \in HeapSizes :
         \/ Mmap(length)
         \/ p # 0 /\ \/ Munmap(p, length) \/ MprotectOrMadvise(p, length)
                     \/ \E new \in HeapSizes : Mremap(p, length, new)
    \/ MmapUnsupported

-----------------------------------------------------------------------------
(* Windows. *)

HeapAlloc(size, init) ==
    AllocatePtr("WinHeap", size, 2 * PtrSize, init, Asked(size, 2 * PtrSize, init = "zero"))

HeapFree(p) == DeallocatePtr(p, "WinHeap", -1, 0, p \in HeapLive /\ heap[p].kind = "WinHeap")

(* The flags are read and not used: HEAP_ZERO_MEMORY has no effect here.   *)
HeapReAlloc(p, size) ==
    ReallocatePtr(p, "WinHeap", -1, 0, size, 2 * PtrSize, "uninit", Asked(size, 2 * PtrSize, FALSE),
                  p \in HeapLive /\ heap[p].kind = "WinHeap")

(* LocalFree is for memory of other calls, which are not modelled. *)
LocalFree(p) == DeallocatePtr(p, "WinLocal", -1, 0, FALSE)

WinHeapStep(p) ==
    \/ \E size \in HeapSizes :
         \/ \E init \in {"uninit", "zero"} : HeapAlloc(size, init)
         \/ p # 0 /\ HeapReAlloc(p, size)
    \/ p # 0 /\ (HeapFree(p) \/ LocalFree(p))

HeapNext ==
    /\ heap_halt = "no" /\ Len(heap) < MaxHeapAllocs
    /\ \E p \in {0} \cup DOMAIN heap :
         CStep(p) \/ RustStep(p) \/ MmapStep(p) \/ WinHeapStep(p) \/ (p # 0 /\ Fill(p))

HeapSpec == HeapInit /\ [][HeapNext]_heapVars

-----------------------------------------------------------------------------

(* A live allocation has every byte its caller was promised and exactly    *)
(* the alignment (more would hide that a program relies on it), through    *)
(* calloc's multiplication, page rounding and any chain of reallocations.  *)
AllocationsAsPromised ==
    \A p \in HeapLive : heap[p].size >= heap[p].asked.size /\ heap[p].align = heap[p].asked.align

(* Memory that was promised to be zero is so until the program writes it,  *)
(* the part a mapping grows by included.                                   *)
ZeroedIsInitialized ==
    \A p \in HeapLive : heap[p].asked.zeroed =>
        \A i \in 1 .. heap[p].asked.size : heap[p].bytes[i] # "uninit"

(* A program that keeps to the rules (frees with the function that belongs *)
(* to the allocation, with the layout or the pages it asked for) is never  *)
(* told that it did something wrong, and does not make the interpreter     *)
(* panic.  mmap and munmap round lengths up to pages alike, so any length  *)
(* within the last page will do; mremap does not round, and the rules ask  *)
(* for whole pages there, although mmap may have been called with less.    *)
RulesSuffice == rules_kept => heap_halt \notin {"ub", "panic"}
=============================================================================
