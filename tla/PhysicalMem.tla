---------------------------- MODULE PhysicalMem ----------------------------
(***************************************************************************)
(* The simulated physical memory of a kernel (mirch/physical_mem.rs) and   *)
(* its page tables (mirch/page_table.rs), with the shims a kernel calls    *)
(* them through (kern_miri_* in shims/foreign_items.rs).  A page is        *)
(* unused, untyped (bytes only) or typed (slots of one size, each of which *)
(* becomes an allocation of the interpreter when it is first touched); a   *)
(* shadow records for each allocated page which of its bytes were written. *)
(***************************************************************************)
EXTENDS Integers, Sequences, FiniteSets, FiniteSetsExt

CONSTANTS
    PageSize,       \* bytes of a page
    PageCount,      \* pages of the physical memory
    NR_LEVELS,      \* levels of a page table
    Fanout,         \* entries of a page table node
    Byte,           \* contents of a byte: 0 is among them
    BootPages,      \* the pages init_boot_pt types as page tables
    KernelBase,     \* kernel_code_base_vaddr
    LinearBase,     \* boot_pt_linear_mapping_base_vaddr
    CopyFrom        \* virtual addresses that copies start at

VARIABLES
    page_states,    \* PageState of every page
    init_masks,     \* for allocated pages: the offsets that are initialised
    mem,            \* the bytes
    tables,         \* the same memory read as page table entries
    page_table,     \* the root of the page table in use, or NoTable
    fresh,          \* ghost: bytes not written since their page was allocated
    stop            \* why the program ended, "no" while it runs

physVars == <<page_states, init_masks, mem, tables, page_table, fresh, stop>>

TotalMem == PageSize * PageCount
Page == 0 .. PageCount - 1
Paddr == 0 .. TotalMem - 1
PageOf(a) == a \div PageSize
BytesOf(p) == p * PageSize .. (p + 1) * PageSize - 1
NoTable == -1

Unused == [st |-> "unused", slot |-> 0]
Untyped == [st |-> "untyped", slot |-> 0]
Typed(slot) == [st |-> "typed", slot |-> slot]

(* A page table entry.  init_boot_pt writes entries without the present    *)
(* bit: a bare address, or the huge bit alone.                             *)
NoEntry == [to |-> 0, present |-> FALSE, huge |-> FALSE]
Entry(to, present, huge) == [to |-> to, present |-> present, huge |-> huge]

Halt(why) == stop' = why /\ UNCHANGED <<page_states, init_masks, mem, tables, page_table, fresh>>

---------------------------------------------------------------------------
(* Translation. *)
pte_index(va, level) == (va \div (PageSize * Fanout ^ (level - 1))) % Fanout

(* page_walk: the physical address, or -1.  The huge bit is looked at      *)
(* before the present bit.                                                 *)
page_walk(va) ==
    LET follow(e, level) == [at |-> e.to, level |-> level,
                             found |-> IF e.huge THEN "yes" ELSE IF ~e.present THEN "no"
                                       ELSE IF level = 0 THEN "yes" ELSE "go"]
        down(c, level) == IF c.found # "go" THEN c ELSE follow(tables[c.at][pte_index(va, level + 1)], level)
        walk[level \in 0 .. NR_LEVELS] ==
            IF level = NR_LEVELS THEN [at |-> page_table, level |-> level, found |-> "go"]
            ELSE down(walk[level + 1], level)
        address(end) == IF end.found = "no" THEN -1 ELSE end.at * PageSize + (va % (PageSize * Fanout ^ end.level))
    IN  address(walk[0])

(* page_walk_or; `or` is the address to use without a page table. *)
page_walk_or(va, or) == IF page_table = NoTable THEN or ELSE page_walk(va)
try_kernel_code_vaddr_to_paddr(va) == IF va >= KernelBase THEN va - KernelBase ELSE -1
try_boot_pt_vaddr_to_paddr(va) == IF va >= LinearBase THEN va - LinearBase ELSE -1
kernel_code_paddr_to_vaddr(pa) == pa + KernelBase

---------------------------------------------------------------------------
(* An init mask exists from the allocation of a page to its release. *)
NoMask == {-1}
HasMask(p) == p \in Page /\ init_masks[p] # NoMask

(* kern_miri_alloc_pages *)
PagesAt(pa, count) == PageOf(pa) .. PageOf(pa) + count - 1
AllocPages(pa, count) ==
    LET pages == PagesAt(pa, count) IN
    IF \E p \in pages \cap Page : page_states[p] # Unused THEN Halt("ub")
    ELSE IF ~(pages \subseteq Page) THEN Halt("bounds")
    ELSE /\ page_states' = [p \in Page |-> IF p \in pages THEN Untyped ELSE page_states[p]]
         /\ init_masks' = [p \in Page |-> IF p \in pages THEN {} ELSE init_masks[p]]
         /\ fresh' = fresh \cup UNION {BytesOf(p) : p \in pages}
         /\ UNCHANGED <<mem, tables, page_table, stop>>

(* What dealloc_pages does to the pages; it frees the slots as well. *)
CanRelease(pages) == \A p \in pages \cap Page : page_states[p] # Unused
ReleasePages(pages) ==
    /\ page_states' = [p \in Page |-> IF p \in pages THEN Unused ELSE page_states[p]]
    /\ init_masks' = [p \in Page |-> IF p \in pages THEN NoMask ELSE init_masks[p]]
    /\ UNCHANGED <<mem, tables, page_table, fresh, stop>>

(* kern_miri_retype_pages; `known` tells whether the type is a TypedKind. *)
RetypePages(pa, count, slot, known) ==
    LET pages == PagesAt(pa, count) IN
    IF PageSize % slot # 0 THEN Halt("assert")
    ELSE IF \E p \in pages \cap Page : page_states[p] # Untyped THEN Halt("ub")
    ELSE IF ~(pages \subseteq Page) THEN Halt("bounds")
    ELSE IF ~known THEN Halt("unwrap")
    ELSE /\ page_states' = [p \in Page |-> IF p \in pages THEN Typed(slot) ELSE page_states[p]]
         /\ UNCHANGED <<init_masks, mem, tables, page_table, fresh, stop>>

(* Bytes written behind the interpreter's back, and marked in the shadows. *)
Written(at, val) ==
    /\ mem' = [a \in Paddr |-> IF a \in at THEN val[a] ELSE mem[a]]
    /\ init_masks' = [p \in Page |-> IF HasMask(p) THEN init_masks[p] \cup {a % PageSize : a \in at \cap BytesOf(p)} ELSE NoMask]
    /\ fresh' = fresh \ at
    /\ UNCHANGED <<page_states, tables, page_table, stop>>

(* kern_miri_zero: every page is checked before anything is written. *)
ZeroPages(pa, count) ==
    LET pages == PagesAt(pa, count) IN
    IF \A p \in pages : HasMask(p)
    THEN Written(UNION {BytesOf(p) : p \in pages}, [a \in Paddr |-> 0])
    ELSE Halt("ub")

(* kern_miri_write_bytes unwraps the masks: a page without one panics. *)
WriteBytes(pa, bytes) ==
    LET at == pa .. pa + Len(bytes) - 1 IN
    IF \A a \in at : HasMask(PageOf(a))
    THEN Written(at, [a \in at |-> bytes[a - pa + 1]])
    ELSE Halt("unwrap")

(* kern_miri_set_root_page_table *)
SetRoot(p) ==
    /\ page_table' = p
    /\ UNCHANGED <<page_states, init_masks, mem, tables, fresh, stop>>

(* The kernel stores an entry in a page it typed as a page table. *)
StorePte(p, i, e) ==
    /\ page_states[p].st = "typed"
    /\ tables' = [tables EXCEPT ![p][i] = e]
    /\ UNCHANGED <<page_states, init_masks, mem, page_table, fresh, stop>>

---------------------------------------------------------------------------
(* physical_copy: chunks that cross no page on either side, every source   *)
(* read before the first write.                                            *)
Smaller(a, b) == IF a < b THEN a ELSE b

ChunkLen(dst, src, len) == Smaller(len, Smaller(PageSize - (dst % PageSize), PageSize - (src % PageSize)))

Copyable(a) == a \in Paddr /\ page_states[PageOf(a)] = Untyped

(* The chunks as <<destination, source, length>>, physical; -1 where a     *)
(* page is missing or not untyped.                                         *)
Chunks(dst, src, len) ==
    LET chunk(d, s, k) == <<page_walk_or(d, d), page_walk_or(s, s), k>>
        more(c, k) == [off |-> c.off + k, chunks |-> Append(c.chunks, chunk(dst + c.off, src + c.off, k))]
        next(c) == IF c.off >= len THEN c ELSE more(c, ChunkLen(dst + c.off, src + c.off, len - c.off))
        cut[n \in 0 .. len] == IF n = 0 THEN [off |-> 0, chunks |-> <<>>] ELSE next(cut[n - 1])
    IN  cut[len].chunks

CopyAllowed(chunks, len) ==
    len <= TotalMem /\ \A i \in DOMAIN chunks : Copyable(chunks[i][1]) /\ Copyable(chunks[i][2])

(* Mutant: the chunks are copied one after the other. *)
CopyInPlace(chunks, len) ==
    LET after[n \in 0 .. Len(chunks)] ==
            IF n = 0 THEN [a \in Paddr |-> a]
            ELSE LET c == chunks[n]
                     old == after[n - 1]
                 IN  [a \in Paddr |-> IF a \in c[1] .. c[1] + c[3] - 1 THEN old[c[2] + (a - c[1])] ELSE old[a]]
    IN  [ok |-> CopyAllowed(chunks, len), source |-> after[Len(chunks)]]

(* Where the bytes come from, and whether the copy goes through. *)
CopyChunks(chunks, len) ==
    LET hits(a) == {i \in DOMAIN chunks : a \in chunks[i][1] .. chunks[i][1] + chunks[i][3] - 1}
        from(a, i) == chunks[i][2] + (a - chunks[i][1])
    IN  [ok |-> CopyAllowed(chunks, len),
         source |-> [a \in Paddr |-> IF hits(a) = {} THEN a ELSE from(a, Max(hits(a)))]]

physical_copy(dst, src, len) == CopyChunks(Chunks(dst, src, len), len)

CopyUntyped(dst, src, len) ==
    LET copied(source) ==
            LET marked(s) == s % PageSize \in init_masks[PageOf(s)] IN
            /\ mem' = [a \in Paddr |-> mem[source[a]]]
            /\ init_masks' = [p \in Page |-> IF ~HasMask(p) THEN NoMask
                                 ELSE {o \in 0 .. PageSize - 1 : marked(source[p * PageSize + o])}]
            /\ fresh' = {a \in Paddr : source[a] \in fresh}
            /\ UNCHANGED <<page_states, tables, page_table, stop>>
        done(c) == IF c.ok THEN copied(c.source) ELSE Halt("unsupported")
    IN  done(physical_copy(dst, src, len))

---------------------------------------------------------------------------
(* PhysicalMemory::new and init_boot_pt. *)
PhysInit ==
    /\ page_states = [p \in Page |-> IF p \in BootPages THEN Typed(1) ELSE Unused]
    /\ init_masks = [p \in Page |-> NoMask]
    /\ mem = [a \in Paddr |-> 0]
    /\ tables = [p \in Page |-> [i \in 0 .. Fanout - 1 |->
                    IF p = Min(BootPages) /\ i = pte_index(KernelBase, NR_LEVELS) THEN Entry(Max(BootPages), FALSE, FALSE)
                    ELSE IF p = Max(BootPages) /\ i = pte_index(KernelBase, NR_LEVELS - 1) THEN Entry(0, FALSE, TRUE)
                    ELSE NoEntry]]
    /\ page_table = Min(BootPages)
    /\ fresh = {}
    /\ stop = "no"

PhysTypeOK ==
    /\ page_states \in [Page -> {Unused, Untyped} \cup {Typed(s) : s \in 1 .. PageSize}]
    /\ init_masks \in [Page -> {NoMask} \cup SUBSET (0 .. PageSize - 1)]
    /\ mem \in [Paddr -> Byte]
    /\ page_table \in Page \cup {NoTable}
    /\ fresh \subseteq Paddr

(* Whatever the two ranges are mapped to, and however they overlap, an     *)
(* untyped copy leaves in each byte of the destination the source byte as  *)
(* it was before the copy, and touches nothing else; where two addresses   *)
(* of the destination are the same byte the later one counts.  It goes     *)
(* through exactly if every byte of both ranges is on an untyped page.     *)
CopyIsMemmove ==
    \A dst, src \in {va \in CopyFrom : page_walk_or(va, va) # -1}, len \in 1 .. PageSize + 1 :
        LET To(k) == page_walk_or(dst + k, dst + k)
            From(k) == page_walk_or(src + k, src + k)
            moved(a, ks) == IF ks = {} THEN a ELSE From(Max(ks))
            same(c) == /\ c.ok <=> \A k \in 0 .. len - 1 : Copyable(To(k)) /\ Copyable(From(k))
                       /\ c.ok => \A a \in Paddr : c.source[a] = moved(a, {k \in 0 .. len - 1 : To(k) = a})
        IN  same(physical_copy(dst, src, len))
=============================================================================
