--------------------------- MODULE StackedBorrows ---------------------------
(***************************************************************************)
(* Stacked Borrows at one location of an allocation:                       *)
(* src/src/borrow_tracker/stacked_borrows.  A stack of items with its      *)
(* lookup cache and its range of possible Uniques, the unknown bottom left *)
(* by accesses of unknown provenance, and the removal of dead tags.        *)
(* Beside it runs the stack itself (linear): no cache, nothing removed.    *)
(* Positions count from 0, as in the code.                                 *)
(***************************************************************************)
EXTENDS BorrowTracker

CONSTANT CacheLen    \* CACHE_LEN

ASSUME SbAssumption == CacheLen \in Nat \ {0, 1}

VARIABLES
    stack,       \* Stack: borrows, unknown_bottom (NoTag: none), cache, unique_range; exposed_tags; err
    linear       \* the stack without cache and collector: borrows, err; whether the other was collected

sbVars == <<stack, linear>>

Item(tag, perm, protected) == [tag |-> tag, perm |-> perm, prot |-> protected]
At(b, i) == b[i + 1]
Found(i) == i >= 0
InUnknown == -1     \* Ok(None)
NotFound == -2      \* Err(())

Grants(perm, access) == perm # "Disabled" /\ (access = "Read" \/ perm # "SharedReadOnly")

-----------------------------------------------------------------------------
(* The cache: pairs of an item and its position, the latest first.         *)

Slot(item, idx) == [item |-> item, idx |-> idx]

(* StackCache::add *)
CacheAdd(cache, slot) == <<slot>> \o Front(cache)

(* Stack::new *)
NewStack(perm) ==
    LET item == Item(1, perm, FALSE) IN
    [borrows |-> <<item>>, unknown |-> NoTag, cache |-> [i \in 1 .. CacheLen |-> Slot(item, 0)],
     lo |-> 0, hi |-> IF perm = "Unique" THEN 1 ELSE 0, exposed |-> {}, err |-> FALSE]

(* The search from the top. *)
LinearSearch(b, access, tag) ==
    Max({NotFound} \cup {i \in 0 .. Len(b) - 1 : At(b, i).tag = tag /\ Grants(At(b, i).perm, access)})

(* find_granting_tagged with find_granting_cache: position and new cache.  *)
FindGrantingTagged(S, access, tag) ==
    LET hits == {c \in 1 .. CacheLen : S.cache[c].item.tag = tag}
        c == Min(hits)
        usable == /\ Len(S.borrows) > CacheLen /\ hits # {}
                  /\ Grants(S.cache[c].item.perm, access)
        i == LinearSearch(S.borrows, access, tag)
    IN IF usable
       THEN [at |-> S.cache[c].idx,
             cache |-> CASE c = 1 -> S.cache
                         [] c = 2 -> [S.cache EXCEPT ![1] = S.cache[2], ![2] = S.cache[1]]
                         [] OTHER -> CacheAdd(S.cache, S.cache[c])]
       ELSE [at |-> i, cache |-> IF Found(i) THEN CacheAdd(S.cache, Slot(At(S.borrows, i), i)) ELSE S.cache]

(* find_granting; the tag NoTag is a wildcard. *)
FindGranting(S, access, tag) ==
    LET wildcard == Max({NotFound} \cup {i \in 0 .. Len(S.borrows) - 1 :
                        At(S.borrows, i).tag \in S.exposed /\ Grants(At(S.borrows, i).perm, access)})
        r == IF tag = NoTag THEN [at |-> wildcard, cache |-> S.cache] ELSE FindGrantingTagged(S, access, tag)
    IN [at |-> IF Found(r.at) THEN r.at
               ELSE IF S.unknown # NoTag /\ tag < S.unknown THEN InUnknown ELSE NotFound,
        stack |-> [S EXCEPT !.cache = r.cache]]

(* find_first_write_incompatible *)
FirstWriteIncompatible(b, granting) ==
    IF At(b, granting).perm = "Unique" THEN granting + 1
    ELSE Min({i \in granting + 1 .. Len(b) : i = Len(b) \/ At(b, i).perm # "SharedReadWrite"})

(* insert and insert_cache *)
Insert(S, at, item) ==
    LET borrows == InsertAt(S.borrows, at + 1, item)
        lo == IF S.lo >= at THEN S.lo + 1 ELSE S.lo
        hi == IF S.hi >= at THEN S.hi + 1 ELSE S.hi
        unique == item.perm = "Unique"
        shift(s) == IF at # Len(borrows) - 1 /\ s.idx >= at THEN [s EXCEPT !.idx = @ + 1] ELSE s
    IN [S EXCEPT !.borrows = borrows,
                 !.lo = CASE unique /\ lo >= hi -> at [] unique /\ lo < hi -> Min({lo, at}) [] OTHER -> lo,
                 !.hi = CASE unique /\ lo >= hi -> at + 1 [] unique /\ lo < hi -> Max({hi, at + 1}) [] OTHER -> hi,
                 !.cache = CacheAdd([c \in 1 .. CacheLen |-> shift(S.cache[c])], Slot(item, at))]

(* set_unknown_bottom: the cache is left as it is. *)
SetUnknownBottom(S, tag) == [S EXCEPT !.borrows = <<>>, !.unknown = tag, !.lo = 0, !.hi = 0]

(* Mutant: the slot at the new top is taken for valid. *)
RepairOffByOne(cache, base, start) ==
    LET valid == SelectSeq(Front(cache), LAMBDA s : s.idx <= start) IN
    [c \in 1 .. CacheLen |-> IF c <= Len(valid) THEN valid[c] ELSE Slot(base, 0)]

(* The repair of the cache after pops: slots that point below start move   *)
(* to the front, all but the last slot considered; the rest is the base.   *)
RepairCache(cache, base, start) ==
    LET valid == SelectSeq(Front(cache), LAMBDA s : s.idx < start) IN
    [c \in 1 .. CacheLen |-> IF c <= Len(valid) THEN valid[c] ELSE Slot(base, 0)]

(* item_invalidated *)
ItemInvalidated(item, cause) ==
    /\ item.prot /\ prot[item.tag] # "no"
    /\ ~(cause = "Dealloc" /\ prot[item.tag] = "weak")

(* pop_items_after *)
PopItemsAfter(S, start) ==
    LET borrows == SubSeq(S.borrows, 1, Min({start, Len(S.borrows)})) IN
    IF \E i \in start .. Len(S.borrows) - 1 : ItemInvalidated(At(S.borrows, i), "Conflict")
    THEN [S EXCEPT !.err = TRUE]
    ELSE IF borrows = <<>> THEN [S EXCEPT !.borrows = borrows, !.lo = 0, !.hi = 0]
    ELSE [S EXCEPT !.borrows = borrows,
                   !.cache = RepairCache(@, borrows[1], start),
                   !.lo = IF start <= S.lo THEN 0 ELSE @,
                   !.hi = IF start <= S.lo THEN 0 ELSE Min({@, start})]

(* Mutant: the granting item is disabled too. *)
DisableGranting(S, start) ==
    LET hit == {i \in 0 .. Len(S.borrows) - 1 : i + 1 >= start /\ At(S.borrows, i).perm = "Unique"}
        tags == {At(S.borrows, i).tag : i \in hit}
    IN [S EXCEPT !.borrows = [i \in DOMAIN @ |-> IF i - 1 \in hit THEN [@[i] EXCEPT !.perm = "Disabled"] ELSE @[i]],
                 !.cache = [c \in DOMAIN @ |-> IF @[c].item.tag \in tags
                                               THEN [@[c] EXCEPT !.item.perm = "Disabled"] ELSE @[c]]]

(* disable_uniques_starting_at *)
DisableUniquesStartingAt(S, start) ==
    LET hit == {i \in Max({S.lo, start}) .. S.hi - 1 : start <= S.hi /\ At(S.borrows, i).perm = "Unique"}
        tags == {At(S.borrows, i).tag : i \in hit}
    IN IF \E i \in hit : ItemInvalidated(At(S.borrows, i), "Conflict") THEN [S EXCEPT !.err = TRUE]
       ELSE [S EXCEPT !.borrows = [i \in DOMAIN @ |-> IF i - 1 \in hit THEN [@[i] EXCEPT !.perm = "Disabled"] ELSE @[i]],
                      !.cache = [c \in DOMAIN @ |-> IF @[c].item.tag \in tags
                                                    THEN [@[c] EXCEPT !.item.perm = "Disabled"] ELSE @[c]],
                      !.lo = IF start <= @ THEN 0 ELSE @,
                      !.hi = IF start <= S.lo THEN 0 ELSE Min({@, start})]

-----------------------------------------------------------------------------

(* access: find the granting item, remove what is incompatible with it,    *)
(* and forget the stack when either was approximate.                       *)
Access(S, access, tag) ==
    LET found == FindGranting(S, access, tag)
        F == found.stack
        S1 == IF access = "Write"
              THEN PopItemsAfter(F, IF Found(found.at) THEN FirstWriteIncompatible(F.borrows, found.at) ELSE 0)
              ELSE DisableUniquesStartingAt(F, IF Found(found.at) THEN found.at + 1 ELSE 0)
        remain == {S1.borrows[i].tag + 1 : i \in {j \in DOMAIN S1.borrows : S1.borrows[j].perm # "Disabled"}}
    IN IF found.at = NotFound THEN [S EXCEPT !.err = TRUE]
       ELSE IF S1.err \/ (Found(found.at) /\ tag # NoTag) THEN S1
       ELSE SetUnknownBottom(S1, Max({1, S1.unknown} \cup remain))

(* dealloc *)
Dealloc(S, tag) ==
    LET S1 == Access(S, "Write", tag) IN
    [S1 EXCEPT !.err = @ \/ \E i \in DOMAIN S1.borrows : ItemInvalidated(S1.borrows[i], "Dealloc")]

(* grant: behind an access the item goes on top; without one it joins the  *)
(* SharedReadWrite group of its parent.  next is next_ptr_tag by then.     *)
Grant(S, from, item, access, next) ==
    LET S1 == Access(S, access, from)
        found == FindGranting(S, "Write", from)
    IN IF access # "none" THEN IF S1.err THEN S1 ELSE Insert(S1, Len(S1.borrows), item)
       ELSE IF found.at = NotFound THEN [S EXCEPT !.err = TRUE]
       ELSE IF Found(found.at) /\ from # NoTag
       THEN Insert(found.stack, FirstWriteIncompatible(S.borrows, found.at), item)
       ELSE SetUnknownBottom(found.stack, next)

(* retain *)
Retain(S, live) ==
    LET keeps(i) ==
            LET this == S.borrows[i]
                afterSRW == S.borrows[i - 1].perm = "SharedReadWrite"
            IN CASE this.perm = "SharedReadWrite" -> this.tag \in live
                 [] this.perm = "Disabled" -> afterSRW
                 [] OTHER -> afterSRW \/ this.tag \in live
        keep == {i \in DOMAIN S.borrows : i = 1 \/ keeps(i)}
        order == SetToSortSeq(keep, <)
        first == Min(DOMAIN S.borrows \ keep) - 1
    IN IF keep = DOMAIN S.borrows THEN S
       ELSE [S EXCEPT !.borrows = [j \in 1 .. Len(order) |-> S.borrows[order[j]]],
                      !.lo = IF S.lo < S.hi THEN 0 ELSE @,
                      !.hi = IF S.lo < S.hi THEN Len(order) ELSE @,
                      !.cache = [c \in DOMAIN @ |-> IF @[c].idx >= first THEN Slot(S.borrows[1], 0) ELSE @[c]]]

-----------------------------------------------------------------------------
(* The reference: the stack of items, searched from the top.               *)

LinearAccess(L, access, tag) ==
    LET i == LinearSearch(L.borrows, access, tag)
        cut == IF access = "Write" THEN FirstWriteIncompatible(L.borrows, i) ELSE i + 1
        gone == {j \in cut .. Len(L.borrows) - 1 : access = "Write" \/ At(L.borrows, j).perm = "Unique"}
    IN IF ~Found(i) \/ \E j \in gone : ItemInvalidated(At(L.borrows, j), "Conflict") THEN [L EXCEPT !.err = TRUE]
       ELSE IF access = "Write" THEN [L EXCEPT !.borrows = SubSeq(@, 1, cut)]
       ELSE [L EXCEPT !.borrows = [j \in DOMAIN @ |-> IF j - 1 \in gone THEN [@[j] EXCEPT !.perm = "Disabled"] ELSE @[j]]]

LinearGrant(L, from, item, access) ==
    LET i == LinearSearch(L.borrows, "Write", from)
        L1 == LinearAccess(L, access, from)
    IN IF access # "none" THEN IF L1.err THEN L1 ELSE [L1 EXCEPT !.borrows = Append(@, item)]
       ELSE IF ~Found(i) THEN [L EXCEPT !.err = TRUE]
       ELSE [L EXCEPT !.borrows = InsertAt(@, FirstWriteIncompatible(@, i) + 1, item)]

LinearDealloc(L, tag) ==
    LET L1 == LinearAccess(L, "Write", tag) IN
    [L1 EXCEPT !.err = @ \/ \E i \in DOMAIN L1.borrows : ItemInvalidated(L1.borrows[i], "Dealloc")]

-----------------------------------------------------------------------------
(* The operations of the program                                           *)

(* Undefined behaviour ends the execution; the reference is followed up to *)
(* the first use of unknown provenance.                                    *)
SbSettled(S) == IF S.err THEN [NewStack("Unique") EXCEPT !.err = TRUE] ELSE S
SbFollow(L, w) == IF w \/ L.err THEN [L EXCEPT !.borrows = <<>>, !.err = ~w] ELSE L
SbRunning == ~stack.err /\ ~linear.err /\ allocated

(* new_allocation: Unique for a local, SharedReadWrite for other memory. *)
SbInit ==
    \E perm \in {"Unique", "SharedReadWrite"} :
        stack = NewStack(perm) /\ linear = [borrows |-> <<Item(1, perm, FALSE)>>, err |-> FALSE, collected |-> FALSE]

(* NewPermission::from_ref_ty, from_box_ty.  A two-phase borrow or one to  *)
(* a type that is not Unpin is like a raw pointer.                         *)
NewItemPermission(borrow) ==
    CASE borrow.mut \in {"mut", "box", "place"} -> [perm |-> "Unique", access |-> "Write", prot |-> borrow.protect]
      [] borrow.mut \in {"shared", "raw"} /\ borrow.freeze ->
            [perm |-> "SharedReadOnly", access |-> "Read", prot |-> borrow.protect]
      [] OTHER -> [perm |-> "SharedReadWrite", access |-> "none", prot |-> FALSE]

(* sb_retag_place, sb_reborrow, sb_protect_place; the location is in the   *)
(* reborrowed range or not.                                                *)
SbRetag(parent, borrow, inside) ==
    LET tag == next_tag
        new == NewItemPermission(borrow)
        item == Item(tag, new.perm, new.prot)
        w == wild \/ parent = NoTag
    IN
    /\ SbRunning
    /\ borrow.mut = "raw" => ~borrow.protect
    /\ parent \in held \/ (parent = NoTag /\ stack.exposed # {})
    /\ NewPtr(tag, borrow)
    /\ wild' = w
    /\ stack' = IF inside THEN SbSettled(Grant(stack, parent, item, new.access, tag + 1)) ELSE stack
    /\ linear' = SbFollow(IF inside /\ ~w THEN LinearGrant(linear, parent, item, new.access) ELSE linear, w)
    /\ UNCHANGED <<allocated, ops, scenario>>

(* before_memory_read, before_memory_write: through a tag, or NoTag. *)
SbAccess(tag, kind) ==
    LET w == wild \/ tag = NoTag IN
    /\ SbRunning /\ (tag \in held \/ (tag = NoTag /\ stack.exposed # {})) /\ Operation
    /\ stack' = SbSettled(Access(stack, kind, tag))
    /\ linear' = SbFollow(IF w THEN linear ELSE LinearAccess(linear, kind, tag), w)
    /\ wild' = w
    /\ UNCHANGED <<next_tag, prot, frames, held, allocated, scenario>>

(* before_memory_deallocation *)
SbDeallocate(tag) ==
    LET w == wild \/ tag = NoTag IN
    /\ SbRunning /\ (tag \in held \/ (tag = NoTag /\ stack.exposed # {}))
    /\ stack' = [NewStack("Unique") EXCEPT !.err = Dealloc(stack, tag).err]
    /\ linear' = [linear EXCEPT !.borrows = <<>>, !.err = ~w /\ LinearDealloc(linear, tag).err]
    /\ allocated' = FALSE /\ wild' = w
    /\ UNCHANGED <<next_tag, prot, frames, held, ops, scenario>>

(* sb_expose_tag *)
SbExpose(tag) ==
    /\ SbRunning /\ scenario.expose /\ tag \in held \ stack.exposed /\ Operation
    /\ stack' = [stack EXCEPT !.exposed = @ \cup {tag}]
    /\ UNCHANGED <<next_tag, prot, frames, held, allocated, linear, wild, scenario>>

SbCall ==
    /\ SbRunning /\ PushFrame
    /\ UNCHANGED <<stack, linear, next_tag, prot, held, allocated, wild, ops, scenario>>

(* on_stack_pop does nothing here; end_call. *)
SbReturn ==
    /\ frames # <<>> /\ ~stack.err /\ ~linear.err
    /\ EndCall
    /\ UNCHANGED <<stack, linear, next_tag, held, allocated, wild, ops, scenario>>

(* The provenance collector: remove_unreachable_tags. *)
SbCollect(kept) ==
    /\ SbRunning /\ Operation
    /\ stack' = Retain(stack, kept \cup stack.exposed \cup LiveByFrames)
    /\ linear' = [linear EXCEPT !.collected = TRUE]
    /\ held' = kept
    /\ UNCHANGED <<next_tag, prot, frames, allocated, wild, scenario>>

SbNext ==
    \/ \E parent \in held \cup {NoTag}, borrow \in scenario.borrows, inside \in BOOLEAN :
           SbRetag(parent, borrow, inside)
    \/ \E tag \in held \cup {NoTag} : SbDeallocate(tag) \/ \E kind \in Kinds : SbAccess(tag, kind)
    \/ \E tag \in held : SbExpose(tag)
    \/ SbCall \/ SbReturn
    \/ \E kept \in SUBSET held : SbCollect(kept)

-----------------------------------------------------------------------------

SbTypeOK ==
    /\ Len(stack.cache) = CacheLen /\ stack.unknown \in 0 .. MaxTag + 1
    /\ stack.borrows = <<>> => stack.unknown # NoTag
    /\ \A i \in DOMAIN stack.borrows : stack.borrows[i].tag \in Tag

(* verify_cache_consistency, and what the cache is for: whatever was       *)
(* pushed, inserted in the middle, popped, disabled, collected or          *)
(* forgotten before, a lookup finds the item the search from the top would *)
(* find, every Unique lies in unique_range, and that is a range of the     *)
(* stack.                                                                  *)
SbCacheAgrees ==
    /\ Len(stack.borrows) >= CacheLen =>
           \A c \in 1 .. CacheLen : stack.cache[c].idx < Len(stack.borrows)
                                    /\ At(stack.borrows, stack.cache[c].idx) = stack.cache[c].item
    /\ stack.lo <= stack.hi /\ stack.hi <= Len(stack.borrows)
    /\ \A i \in 0 .. Len(stack.borrows) - 1 :
           At(stack.borrows, i).perm = "Unique" => stack.lo <= i /\ i < stack.hi
    /\ \A tag \in Tag, access \in Kinds :
           FindGrantingTagged(stack, access, tag).at = LinearSearch(stack.borrows, access, tag)

(* Stack: "Above a SharedReadOnly there can only be more SharedReadOnly",  *)
(* "no tag occurs in the stack more than once", and over an unknown bottom *)
(* there is never a SharedReadWrite: "we never have the unknown-to-known   *)
(* boundary in an SRW group"; all of it also after items were removed.     *)
SbStackShape ==
    LET b == stack.borrows IN
    /\ \A i, j \in DOMAIN b : i < j /\ b[i].perm = "SharedReadOnly" => b[j].perm = "SharedReadOnly"
    /\ \A i, j \in DOMAIN b : b[i].tag = b[j].tag => i = j
    /\ stack.unknown # NoTag /\ b # <<>> => b[1].perm # "SharedReadWrite"
    /\ stack.unknown # NoTag => \A i \in DOMAIN b : b[i].tag < next_tag

(* As long as provenance is known, the caches change no verdict: an        *)
(* operation is undefined behaviour exactly when it is on the bare stack;  *)
(* and after the collector removed items, none is that would not be.       *)
SbVerdictsAgree ==
    ~wild => (stack.err => linear.err) /\ (~linear.collected => stack.err = linear.err)
=============================================================================
