----------------------------- MODULE BorrowsMC -----------------------------
(* Both aliasing models: each behaviour runs one of them in one scenario.  *)
EXTENDS TreeBorrows, StackedBorrows

B(m, f, p) == [mut |-> m, freeze |-> f, protect |-> p]
S(method, t, o, c, e, b) == [method |-> method, tags |-> t, ops |-> o, calls |-> c, expose |-> e, borrows |-> b]
References == {B("mut", TRUE, FALSE), B("mut", TRUE, TRUE), B("shared", TRUE, FALSE)}

(* Deep stacks without calls; every kind of borrow with exposed tags; a    *)
(* tree of four tags, and one with exposed tags.                           *)
MCScenarios == {
    S("StackedBorrows", 5, 2, 0, FALSE, {B("mut", TRUE, FALSE), B("raw", FALSE, FALSE)}),
    S("StackedBorrows", 3, 2, 1, TRUE, Borrow),
    S("TreeBorrows", 3, 3, 1, TRUE, References),
    S("TreeBorrows", 3, 1, 1, FALSE, Borrow),
    S("TreeBorrows", 4, 1, 1, FALSE, References \ {B("shared", TRUE, FALSE)})}

MCInit ==
    /\ BorrowInit /\ TbInit /\ SbInit
    /\ scenario.method = "TreeBorrows" => stack = NewStack("Unique")

MCNext ==
    \/ scenario.method = "TreeBorrows" /\ TbNext /\ UNCHANGED sbVars
    \/ scenario.method = "StackedBorrows" /\ SbNext /\ UNCHANGED tbVars

MCSpec == MCInit /\ [][MCNext]_<<borrowVars, tbVars, sbVars>>

(* What the optimizations keep beside the tree and the stack is exact: the *)
(* counts of exposed tags, the permissions that skipping relies on, and    *)
(* the lookup cache with its range of Uniques.                             *)
CachesExact ==
    TbTypeOK /\ TbExposedCacheExact /\ TbSkippingTheorems /\ SbTypeOK /\ SbCacheAgrees /\ SbStackShape
=============================================================================
