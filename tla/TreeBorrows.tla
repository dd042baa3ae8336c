---------------------------- MODULE TreeBorrows ----------------------------
(***************************************************************************)
(* Tree Borrows for one allocation: src/src/borrow_tracker/tree_borrows.   *)
(* A node per tag, a LocationState per node and location, the skipping of  *)
(* foreign accesses known to change nothing, the cache of exposed tags     *)
(* that places an access of unknown provenance, additional trees under     *)
(* such provenance, protectors of call frames, and the removal of dead     *)
(* tags.  Beside it runs the same allocation without any of the            *)
(* optimizations (plain): every access visits every tag ever made.         *)
(***************************************************************************)
EXTENDS BorrowTracker

CONSTANTS
    Loc,              \* the locations (bytes) of the allocation, an interval
    ImplicitWrites    \* TreeBorrowsParams.implicit_writes

ASSUME TbAssumption == IsFiniteSet(Loc) /\ Loc \subseteq Nat /\ ImplicitWrites \in BOOLEAN

VARIABLES
    tree,        \* Tree: nodes, locations, roots, exposed cache; err
    plain        \* the unoptimized tree: parent, loc, err

tbVars == <<tree, plain>>

Perms == {"Cell", "Res", "ResConf", "ResIM", "Unique", "Frozen", "Disabled"}
Rank(k) == CASE k = "Read" -> 1 [] k = "Write" -> 2   \* None is 0, in both orders

-----------------------------------------------------------------------------
(* perms.rs: how one permission reacts to one access.                      *)

ChildRead(p, pr) == IF p = "Disabled" THEN "UB" ELSE p

ForeignRead(p, pr) ==
    CASE p \in {"Cell", "Frozen", "Disabled"} -> p
      [] p \in {"Res", "ResConf"} -> IF pr THEN "ResConf" ELSE p
      [] p = "ResIM" -> IF pr THEN "panic" ELSE p
      [] p = "Unique" -> IF pr THEN "Disabled" ELSE "Frozen"

ChildWrite(p, pr) ==
    CASE p = "Cell" -> p
      [] p = "ResConf" /\ pr -> "UB"
      [] p \in {"Frozen", "Disabled"} -> "UB"
      [] OTHER -> "Unique"

ForeignWrite(p, pr) ==
    CASE p = "Cell" -> p
      [] p = "ResIM" -> IF pr THEN "panic" ELSE p
      [] OTHER -> "Disabled"

Transition(kind, foreign, p, pr) ==
    CASE kind = "Write" /\ foreign -> ForeignWrite(p, pr)
      [] kind = "Read" /\ foreign -> ForeignRead(p, pr)
      [] kind = "Write" /\ ~foreign -> ChildWrite(p, pr)
      [] kind = "Read" /\ ~foreign -> ChildRead(p, pr)

(* strongest_idempotent_foreign_access *)
Sifa(p, pr) ==
    CASE p \in {"Cell", "ResIM", "Disabled"} -> 2
      [] p = "Res" /\ pr -> 0
      [] p \in {"Res", "ResConf", "Frozen"} -> 1
      [] p = "Unique" -> 0

(* strongest_allowed_local_access *)
AllowedLevel(p, pr) ==
    CASE p = "Disabled" -> 0
      [] p = "Frozen" -> 1
      [] p = "ResConf" /\ pr -> 1
      [] OTHER -> 2

(* associated_access; 0 is none. *)
AssociatedAccess(p) ==
    CASE p = "Cell" -> "none" [] p = "Unique" -> "Write" [] OTHER -> "Read"

(* can_be_replaced_by_child *)
CanBeReplacedByChild(p, c) ==
    CASE p = "Cell" -> TRUE
      [] c = "Cell" -> FALSE
      [] p = "ResIM" -> TRUE
      [] c = "ResIM" -> FALSE
      [] p \in {"Res", "ResConf"} -> TRUE
      [] c \in {"Res", "ResConf"} -> FALSE
      [] p = "Unique" -> TRUE
      [] c = "Unique" -> FALSE
      [] p = "Frozen" -> TRUE
      [] OTHER -> c = "Disabled"

-----------------------------------------------------------------------------
(* LocationState                                                           *)

(* IdempotentForeignAccess::record_new with from_acc_and_rel. *)
RecordNew(sifa, kind, foreign) == IF foreign THEN Max({sifa, Rank(kind)}) ELSE 0

(* perform_access: the state after it, and no, ub or panic. *)
PerformAccess(s, kind, foreign, pr) ==
    LET accessed == s.accessed \/ ~foreign
        outcome(to) ==
            IF to = "panic" THEN [err |-> "panic", state |-> s]
            ELSE IF to = "UB" \/ (pr /\ accessed /\ to = "Disabled") THEN [err |-> "ub", state |-> s]
            ELSE [err |-> "no", state |-> [perm |-> to, accessed |-> accessed,
                                           sifa |-> RecordNew(s.sifa, kind, foreign)]]
    IN outcome(Transition(kind, foreign, s.perm, pr))

(* skip_if_known_noop: the node and its subtree are left alone. *)
SkipIfKnownNoop(s, kind, foreign) ==
    foreign /\ (\/ Rank(kind) <= s.sifa
                \/ s.perm = "Disabled"
                \/ s.perm = "Frozen" /\ kind = "Read")

Fresh(perm, pr) == [perm |-> perm, accessed |-> FALSE, sifa |-> Sifa(perm, pr)]
FreshInside(perm, pr) == [Fresh(perm, pr) EXCEPT !.accessed = AssociatedAccess(perm) # "none"]

-----------------------------------------------------------------------------
(* The tree.  A location without an entry in LocationTree::perms reads as  *)
(* the default of its node; here the entry is made with the node.          *)

AncSelf(T, n) ==
    LET up[m \in 0 .. n] == IF m = NoTag THEN {} ELSE {m} \cup up[T.parent[m]] IN up[n]
RootOf(T, n) == Min(AncSelf(T, n))
Below(T, n) == {m \in T.nodes : n \in AncSelf(T, m)}

(* What is stored for a tag that is not a node of the tree. *)
NoNode == [l \in Loc |-> Fresh("Disabled", FALSE)]
NoCount == [reads |-> 0, writes |-> 0]

(* Tree::new *)
NewTree ==
    [nodes |-> {1}, roots |-> <<1>>, err |-> "no",
     parent |-> [n \in Tag |-> NoTag], children |-> [n \in Tag |-> <<>>],
     loc |-> [n \in Tag |-> IF n = 1 THEN [l \in Loc |-> [perm |-> "Unique", accessed |-> TRUE, sifa |-> 0]]
                            ELSE NoNode],
     sifa |-> [n \in Tag |-> 0],
     exposed |-> {}, cache |-> [n \in Tag |-> [l \in Loc |-> NoCount]]]

(* ExposedCache::update_exposure: the counts of a node and its ancestors. *)
UpdateExposure(T, n, l, from, to) ==
    LET up == AncSelf(T, n)
        count(level, x) == IF level >= x THEN 1 ELSE 0
    IN [T EXCEPT !.cache = [m \in Tag |-> IF m \notin up THEN @[m] ELSE
            [@[m] EXCEPT ![l] = [reads |-> @.reads + count(to, 1) - count(from, 1),
                                 writes |-> @.writes + count(to, 2) - count(from, 2)]]]]

(* LocationState::perform_transition on one node of the tree. *)
PerformTransition(T, n, l, kind, foreign, pr) ==
    LET s == T.loc[n][l]
        recounted(t) == IF t.err # "no" \/ n \notin T.exposed \/ t.loc[n][l].perm = s.perm THEN t
                        ELSE UpdateExposure(t, n, l, AllowedLevel(s.perm, pr[n]),
                                                     AllowedLevel(t.loc[n][l].perm, pr[n]))
        changed(r) == [T EXCEPT !.loc[n][l] = r.state, !.err = r.err]
    IN recounted(changed(PerformAccess(s, kind, foreign, pr[n])))

(* perform_normal_access: the node and its ancestors see a local access;   *)
(* the rest of its tree a foreign one, except what is skipped, and except  *)
(* what lies below the node when a protector ends.                         *)
PerformNormalAccess(T, src, l, kind, pr, visitChildren) ==
    LET path == AncSelf(T, src)
        same == Below(T, RootOf(T, src))
        foreign == {n \in same \ path :
            /\ visitChildren \/ src \notin AncSelf(T, n)
            /\ \A a \in AncSelf(T, n) \ path : ~SkipIfKnownNoop(T.loc[a][l], kind, TRUE)}
        one(n, t) == IF t.err # "no" THEN t ELSE PerformTransition(t, n, l, kind, n \notin path, pr)
    IN FoldSet(one, T, path \cup foreign)

(* ExposedCache::access_relatedness *)
AccessRelatedness(T, root, n, l, kind, isWildcardTree, onlyForeign) ==
    LET num(c) == IF kind = "Read" THEN c.reads ELSE c.writes
        total == num(T.cache[root][l]) + (IF isWildcardTree THEN 1 ELSE 0)
        local == num(T.cache[n][l])
        rel == IF total = 0 THEN "None"
               ELSE IF total = local THEN "Local"
               ELSE IF local = 0 THEN "Foreign" ELSE "Either"
    IN IF ~onlyForeign THEN rel
       ELSE IF rel \in {"Foreign", "Either"} THEN "Foreign" ELSE "None"

(* perform_wildcard_access on the tree below root, children before their   *)
(* parents; a is the access: root, l, kind, pr, max (NoTag: none), extra.  *)
(* w is the tree and whether an exposed tag could have made the access.    *)
Related(T, n, a) == AccessRelatedness(T, a.root, n, a.l, a.kind, a.extra, a.max # NoTag /\ a.max < n)

WildcardHere(w, n, a, rel) ==
    LET possible == /\ n \in w.tree.exposed
                    /\ AllowedLevel(w.tree.loc[n][a.l].perm, a.pr[n]) >= Rank(a.kind)
                    /\ a.max = NoTag \/ a.max >= n
    IN IF w.tree.err # "no" THEN w
       ELSE IF rel = "None" THEN [w EXCEPT !.tree.err = "ub"]
       ELSE [tree |-> IF rel = "Either" THEN w.tree
                      ELSE PerformTransition(w.tree, n, a.l, a.kind, rel = "Foreign", a.pr),
             valid |-> w.valid \/ possible]

RECURSIVE WildcardVisit(_, _, _)
WildcardVisit(w, n, a) ==
    LET before == Related(w.tree, n, a)
        here(v) == WildcardHere(v, n, a, Related(v.tree, n, a))
    IN IF \/ w.tree.err # "no"
          \/ before \in {"Local", "Foreign"} /\ SkipIfKnownNoop(w.tree.loc[n][a.l], a.kind, before = "Foreign")
       THEN w
       ELSE here(FoldLeft(LAMBDA v, c : WildcardVisit(v, c, a), w, Reverse(w.tree.children[n])))

PerformWildcardAccess(T, root, max, l, kind, pr) ==
    LET extra == root # Head(T.roots)
        w == WildcardVisit([tree |-> T, valid |-> FALSE], root,
                 [root |-> root, l |-> l, kind |-> kind, pr |-> pr, max |-> max, extra |-> extra])
    IN IF w.tree.err = "no" /\ ~w.valid /\ ~extra THEN [w.tree EXCEPT !.err = "ub"] ELSE w.tree

(* get_min_exposed_child; NoTag when there is none or only one tree. *)
MinExposedChild(T, n) ==
    LET exposed == Below(T, n) \cap T.exposed IN
    IF Len(T.roots) = 1 \/ exposed = {} THEN NoTag ELSE Min(exposed)

(* LocationTree::perform_access at one location: the tree of the accessed  *)
(* tag (NoTag: unknown), then the other trees, until a protector's end     *)
(* comes to trees that may hang below the tag.                             *)
AccessAt(T, src, l, kind, pr, visitChildren) ==
    LET T1 == IF src = NoTag THEN T ELSE PerformNormalAccess(T, src, l, kind, pr, visitChildren)
        root == IF src = NoTag THEN NoTag ELSE RootOf(T, src)
        least == IF visitChildren THEN NoTag ELSE MinExposedChild(T, src)
        others == SelectSeq(T.roots, LAMBDA r : r # root /\ (least = NoTag \/ r <= least))
        one(t, r) == IF t.err # "no" THEN t ELSE PerformWildcardAccess(t, r, root, l, kind, pr)
    IN FoldLeft(one, T1, others)

(* Tree::perform_access *)
AccessRange(T, src, range, kind, pr) ==
    FoldSet(LAMBDA l, t : IF t.err # "no" THEN t ELSE AccessAt(t, src, l, kind, pr, TRUE), T, range)

(* perform_protector_end_access, then update_exposure_for_protector_release *)
ReleaseProtector(T, tag, pr) ==
    LET ended == FoldSet(LAMBDA l, t :
                    LET s == t.loc[tag][l]
                        kind == AssociatedAccess(s.perm)
                    IN IF t.err = "no" /\ s.accessed /\ kind # "none"
                       THEN AccessAt(t, tag, l, kind, pr, FALSE) ELSE t, T, Loc)
    IN IF ended.err # "no" \/ tag \notin ended.exposed THEN ended
       ELSE FoldSet(LAMBDA l, t :
                UpdateExposure(t, tag, l, AllowedLevel(t.loc[tag][l].perm, TRUE),
                                          AllowedLevel(t.loc[tag][l].perm, FALSE)), ended, Loc)

(* Mutant: the parents keep the strength they had. *)
KeepParentSifa(T, current, allowed) == T

(* update_idempotent_foreign_access_after_retag: walk up while it changes. *)
RECURSIVE WeakenParentSifa(_, _, _)
WeakenParentSifa(T, current, allowed) ==
    LET changed == T.sifa[current] > allowed \/ \E l \in Loc : T.loc[current][l].sifa > allowed
        T1 == [T EXCEPT !.sifa[current] = Min({@, allowed}),
                        !.loc[current] = [l \in Loc |-> [@[l] EXCEPT !.sifa = Min({@, allowed})]]]
    IN IF current = NoTag \/ ~changed THEN T
       ELSE WeakenParentSifa(T1, T.parent[current], allowed)

(* Tree::new_child below parent, or as the root of a new tree. *)
NewChild(T, parent, tag, inside, outside, pr) ==
    LET sifa == Min({Sifa(outside, pr)} \cup {inside[l].sifa : l \in DOMAIN inside})
        T1 == [T EXCEPT !.nodes = @ \cup {tag},
                        !.parent[tag] = parent,
                        !.sifa[tag] = Sifa(outside, pr),
                        !.loc[tag] = [l \in Loc |-> IF l \in DOMAIN inside THEN inside[l] ELSE Fresh(outside, pr)]]
    IN IF parent = NoTag THEN [T1 EXCEPT !.roots = Append(@, tag)]
       ELSE WeakenParentSifa([T1 EXCEPT !.children[parent] = Append(@, tag)], parent, sifa)

(* Tree::dealloc: a write to everything, then no strong protector may have *)
(* been accessed.                                                          *)
DeallocTree(T, src, pr) ==
    LET T1 == AccessRange(T, src, Loc, "Write", pr.any) IN
    IF T1.err = "no" /\ \E n \in T1.nodes, l \in Loc :
            pr.strong[n] /\ T1.loc[n][l].perm # "Cell" /\ T1.loc[n][l].accessed
    THEN [T1 EXCEPT !.err = "ub"] ELSE T1

(* expose_tag *)
ExposeTag(T, tag, pr) ==
    IF tag \in T.exposed THEN T
    ELSE FoldSet(LAMBDA l, t : UpdateExposure(t, tag, l, 0, AllowedLevel(t.loc[tag][l].perm, pr[tag])),
                 [T EXCEPT !.exposed = @ \cup {tag}], Loc)

-----------------------------------------------------------------------------
(* remove_unreachable_tags                                                 *)

(* can_be_replaced_by_single_child *)
ReplaceableBySingleChild(T, n, live) ==
    /\ Len(T.children[n]) = 1
    /\ n \notin live /\ T.parent[n] # NoTag
    /\ \A l \in Loc : CanBeReplacedByChild(T.loc[n][l].perm, T.loc[Head(T.children[n])][l].perm)

RemoveNode(T, n) ==
    [T EXCEPT !.nodes = @ \ {n}, !.parent[n] = NoTag, !.children[n] = <<>>, !.sifa[n] = 0,
              !.loc[n] = NoNode, !.cache[n] = [l \in Loc |-> NoCount]]

(* remove_useless_children: children first; then useless children go and   *)
(* a child with a single child of its own may be replaced by it.           *)
RECURSIVE RemoveUselessChildren(_, _, _)
RemoveUselessChildren(T, n, live) ==
    LET T1 == FoldLeft(LAMBDA t, c : RemoveUselessChildren(t, c, live), T, T.children[n])
        one(t, c) ==
            IF t.children[c] = <<>> /\ c \notin live THEN RemoveNode(t, c)
            ELSE IF ReplaceableBySingleChild(t, c, live)
            THEN LET g == Head(t.children[c]) IN
                 [RemoveNode(t, c) EXCEPT !.parent[g] = n, !.children[n] = Append(@, g)]
            ELSE [t EXCEPT !.children[n] = Append(@, c)]
    IN FoldLeft(one, [T1 EXCEPT !.children[n] = <<>>], T1.children[n])

RemoveUnreachableTags(T, live) ==
    FoldLeft(LAMBDA t, r : RemoveUselessChildren(t, r, live), T, T.roots)

-----------------------------------------------------------------------------
(* The reference: every access visits every tag, nothing is ever removed.  *)

NewPlain ==
    [parent |-> [n \in Tag |-> NoTag], err |-> "no",
     loc |-> [n \in Tag |-> IF n = 1 THEN [l \in Loc |-> [perm |-> "Unique", accessed |-> TRUE, sifa |-> 0]]
                            ELSE NoNode]]

PlainAccess(P, src, range, kind, pr, visitChildren) ==
    LET path == AncSelf(P, src)
        visited(n) == n \in path \/ visitChildren \/ src \notin AncSelf(P, n)
        after(n, l) == PerformAccess(P.loc[n][l], kind, n \notin path, pr[n])
        made == {n \in Tag : n = 1 \/ P.parent[n] # NoTag}
        touched == {<<n, l>> \in made \X range : visited(n)}
    IN IF P.err # "no" THEN P
       ELSE IF \E x \in touched : after(x[1], x[2]).err # "no" THEN [P EXCEPT !.err = "ub"]
       ELSE [P EXCEPT !.loc = [n \in Tag |-> [l \in Loc |->
                IF <<n, l>> \in touched THEN [after(n, l).state EXCEPT !.sifa = 0] ELSE @[n][l]]]]

PlainNewChild(P, parent, tag, inside, outside) ==
    [P EXCEPT !.parent[tag] = parent,
              !.loc[tag] = [l \in Loc |-> IF l \in DOMAIN inside THEN [inside[l] EXCEPT !.sifa = 0]
                                          ELSE [Fresh(outside, FALSE) EXCEPT !.sifa = 0]]]

PlainRelease(P, tag, pr) ==
    FoldSet(LAMBDA l, p :
        LET s == p.loc[tag][l]
            kind == AssociatedAccess(s.perm)
        IN IF s.accessed /\ kind # "none" THEN PlainAccess(p, tag, {l}, kind, pr, FALSE) ELSE p, P, Loc)

PlainDealloc(P, src, pr) ==
    LET P1 == PlainAccess(P, src, Loc, "Write", pr.any, TRUE) IN
    IF P1.err = "no" /\ \E n \in Tag, l \in Loc :
            pr.strong[n] /\ P1.loc[n][l].perm # "Cell" /\ P1.loc[n][l].accessed
    THEN [P1 EXCEPT !.err = "ub"] ELSE P1

-----------------------------------------------------------------------------
(* The operations of the program                                           *)

TbRunning == tree.err = "no" /\ plain.err # "ub" /\ allocated
Protectors == [any |-> Protected, strong |-> [n \in Tag |-> prot[n] = "strong"]]

(* Undefined behaviour ends the execution. *)
Settled(T) == IF T.err = "no" THEN T ELSE [NewTree EXCEPT !.err = T.err]

(* The plain tree is followed up to the first access of unknown origin. *)
Follow(P, w) == IF w THEN NewPlain ELSE IF P.err = "no" THEN P ELSE [NewPlain EXCEPT !.err = P.err]

TbInit == tree = NewTree /\ plain = NewPlain

(* NewPermission::new for a reference or box, and what tb_protect_place    *)
(* asks for a place: in the part of the range that is frozen, in an        *)
(* UnsafeCell, and outside of the range.                                   *)
NewPermission(mut, frozen, protect, inside) ==
    IF mut = "shared" THEN IF frozen THEN "Frozen" ELSE "Cell"
    ELSE IF protect /\ ImplicitWrites /\ inside /\ mut # "place" THEN "Unique"
    ELSE IF protect \/ frozen THEN "Res" ELSE "ResIM"

Ranges == {{l \in Loc : lo <= l /\ l < hi} : lo \in Loc, hi \in Loc \cup {Max(Loc) + 1}}

(* tb_retag_ptr_value, tb_protect_place, tb_reborrow: of a pointer with    *)
(* tag parent, or of one without (NoTag).  The range is accessed through   *)
(* the parent as the new permission asks, then the child is added.         *)
TbRetag(parent, borrow, cells, range) ==
    LET tag == next_tag
        perm(frozen, inside) == NewPermission(borrow.mut, frozen, borrow.protect, inside)
        inside == [l \in range |-> FreshInside(perm(l \notin cells, TRUE), borrow.protect)]
        outside == perm(borrow.freeze, FALSE)
        kinds(k) == {l \in range : AssociatedAccess(inside[l].perm) = k}
        grown(T) == IF T.err = "no" THEN NewChild(T, parent, tag, inside, outside, borrow.protect) ELSE Settled(T)
        plainGrown(P) == IF P.err = "no" THEN PlainNewChild(P, parent, tag, inside, outside) ELSE P
        w == wild \/ parent = NoTag
    IN
    /\ TbRunning /\ borrow.mut # "raw"
    /\ parent \in held \/ (parent = NoTag /\ tree.exposed # {})
    /\ cells \subseteq range /\ (borrow.freeze => cells = {})
    /\ NewPtr(tag, borrow)
    /\ wild' = w
    /\ tree' = grown(AccessRange(AccessRange(tree, parent, kinds("Read"), "Read", Protected),
                                 parent, kinds("Write"), "Write", Protected))
    /\ plain' = Follow(plainGrown(PlainAccess(PlainAccess(plain, parent, kinds("Read"), "Read", Protected, TRUE),
                                              parent, kinds("Write"), "Write", Protected, TRUE)), w)
    /\ UNCHANGED <<allocated, ops, scenario>>

(* before_memory_access through a tag. *)
TbAccess(tag, kind, range) ==
    /\ TbRunning /\ tag \in held /\ Operation
    /\ tree' = Settled(AccessRange(tree, tag, range, kind, Protected))
    /\ plain' = Follow(PlainAccess(plain, tag, range, kind, Protected, TRUE), wild)
    /\ UNCHANGED <<next_tag, prot, frames, held, allocated, wild, scenario>>

(* before_memory_access without a tag: some exposed tag made it; the plain *)
(* tree notes whether one of them may have.                                *)
TbAccessWildcard(kind, range) ==
    /\ TbRunning /\ tree.exposed # {} /\ Operation
    /\ tree' = Settled(AccessRange(tree, NoTag, range, kind, Protected))
    /\ plain' = IF ~wild /\ \E e \in tree.exposed : PlainAccess(plain, e, range, kind, Protected, TRUE).err = "no"
                THEN [NewPlain EXCEPT !.err = "may"] ELSE NewPlain
    /\ wild' = TRUE
    /\ UNCHANGED <<next_tag, prot, frames, held, allocated, scenario>>

(* tb_expose_tag *)
TbExpose(tag) ==
    /\ TbRunning /\ scenario.expose /\ tag \in held \ tree.exposed /\ Operation
    /\ tree' = ExposeTag(tree, tag, Protected)
    /\ UNCHANGED <<next_tag, prot, frames, held, allocated, plain, wild, scenario>>

TbCall ==
    /\ TbRunning /\ PushFrame
    /\ UNCHANGED <<tree, next_tag, prot, held, allocated, plain, wild, ops, scenario>>

(* on_stack_pop, then end_call: the protectors end one after the other,    *)
(* while all of the frame's tags still count as protected.                 *)
TbReturn ==
    LET tags == Last(frames)
        T == FoldLeft(LAMBDA t, n : IF t.err # "no" THEN t ELSE ReleaseProtector(t, n, Protected), tree, tags)
        P == FoldLeft(LAMBDA p, n : IF p.err # "no" THEN p ELSE PlainRelease(p, n, Protected), plain, tags)
    IN
    /\ frames # <<>> /\ tree.err = "no" /\ plain.err # "ub"
    /\ tree' = IF allocated THEN Settled(T) ELSE tree
    /\ plain' = IF allocated THEN Follow(P, wild) ELSE plain
    /\ EndCall
    /\ UNCHANGED <<next_tag, held, allocated, wild, ops, scenario>>

(* before_memory_deallocation *)
TbDeallocate(tag) ==
    LET w == wild \/ tag = NoTag IN
    /\ TbRunning /\ (tag \in held \/ (tag = NoTag /\ tree.exposed # {}))
    /\ tree' = [NewTree EXCEPT !.err = DeallocTree(tree, tag, Protectors).err]
    /\ plain' = IF w THEN NewPlain ELSE [NewPlain EXCEPT !.err = PlainDealloc(plain, tag, Protectors).err]
    /\ allocated' = FALSE /\ wild' = w
    /\ UNCHANGED <<next_tag, prot, frames, held, ops, scenario>>

(* The provenance collector: the program has dropped the pointers with     *)
(* other tags; roots, exposed and protected tags are visited besides.      *)
TbCollect(kept) ==
    /\ TbRunning /\ Operation
    /\ tree' = RemoveUnreachableTags(tree, kept \cup Range(tree.roots) \cup tree.exposed \cup LiveByFrames)
    /\ held' = kept
    /\ UNCHANGED <<next_tag, prot, frames, allocated, plain, wild, scenario>>

TbNext ==
    \/ \E parent \in held \cup {NoTag}, borrow \in scenario.borrows, range \in Ranges :
           \E cells \in SUBSET range : TbRetag(parent, borrow, cells, range)
    \/ \E tag \in held, kind \in Kinds, range \in Ranges \ {{}} : TbAccess(tag, kind, range)
    \/ \E kind \in Kinds, range \in Ranges \ {{}} : TbAccessWildcard(kind, range)
    \/ \E tag \in held : TbExpose(tag)
    \/ \E tag \in held \cup {NoTag} : TbDeallocate(tag)
    \/ TbCall \/ TbReturn
    \/ \E kept \in SUBSET held : TbCollect(kept)

-----------------------------------------------------------------------------

(* The shape of the tree; no assertion of perms.rs about protected tags    *)
(* with interior mutability fails.                                         *)
TbTypeOK ==
    /\ tree.err \in {"no", "ub"}
    /\ tree.nodes \subseteq Tag /\ Range(tree.roots) \subseteq tree.nodes
    /\ \A n \in tree.nodes :
        /\ tree.parent[n] \in tree.nodes \cup {NoTag} /\ tree.parent[n] < n
        /\ Range(tree.children[n]) = {m \in tree.nodes : tree.parent[m] = n}
        /\ \A l \in Loc : tree.loc[n][l].perm \in Perms /\ tree.loc[n][l].sifa \in 0 .. 2
    /\ scenario.method = "TreeBorrows" /\ allocated /\ tree.err = "no" => held \subseteq tree.nodes

(* "the iteration order is not relevant for UB", and skipping, compacting  *)
(* and removing nodes "only affects diagnostics": as long as provenance is *)
(* known, an operation is undefined behaviour in the optimized tree        *)
(* exactly when it is in the one that visits every tag; and the first      *)
(* access of unknown provenance is rejected (perform_wildcard_access) only *)
(* if no exposed tag could have made it.                                   *)
TbVerdictsAgree ==
    /\ ~wild => tree.err = plain.err
    /\ plain.err = "may" => tree.err = "no"

(* verify_wildcard_consistency: the counts of the exposed cache are those  *)
(* of the exposed tags in the subtree, with their present permissions,     *)
(* through transitions, the end of protectors and the removal of nodes.    *)
TbExposedCacheExact ==
    \A n \in tree.nodes, l \in Loc :
        LET level(m) == AllowedLevel(tree.loc[m][l].perm, Protected[m])
            exposed(x) == {m \in Below(tree, n) \cap tree.exposed : level(m) >= x}
        IN tree.cache[n][l] = [reads |-> Cardinality(exposed(1)), writes |-> Cardinality(exposed(2))]

(* skip_if_known_noop: "It's a theorem that Disabled node have no          *)
(* protected accessed children" (it may have Cell ones, which survive any  *)
(* access), and "that Frozen nodes have no Unique children".               *)
TbSkippingTheorems ==
    ~wild /\ tree.err = "no" => \A n \in tree.nodes, l \in Loc : \A m \in Below(tree, n) \ {n} :
        /\ tree.loc[n][l].perm = "Disabled" => ~(Protected[m] /\ tree.loc[m][l].accessed /\ tree.loc[m][l].perm # "Cell")
        /\ tree.loc[n][l].perm = "Frozen" => tree.loc[m][l].perm # "Unique"
=============================================================================
