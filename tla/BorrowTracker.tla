--------------------------- MODULE BorrowTracker ---------------------------
(***************************************************************************)
(* What Stacked Borrows and Tree Borrows share: src/src/borrow_tracker/    *)
(* mod.rs.  Tags are numbered as they are made; a tag that came in as an   *)
(* argument is protected until its frame is popped, and recorded both in   *)
(* the frame and in a global table.  The model has one allocation, one the *)
(* program may write to.                                                   *)
(***************************************************************************)
EXTENDS Integers, Sequences, FiniteSets, SequencesExt, FiniteSetsExt

CONSTANTS
    MaxTag,      \* bound on the tags made; tag 1 is that of the allocation
    Scenarios    \* what a behaviour explores, see BorrowScenario

(* A reference, box or raw pointer to a type without (freeze) or with      *)
(* UnsafeCells, made in the body of a function or protected at its entry,  *)
(* or a place passed in place, which is always protected.                  *)
Borrow == [mut : {"shared", "mut", "box", "raw", "place"}, freeze : BOOLEAN, protect : BOOLEAN]

(* Bounds of a behaviour: the method, the tags made, the operations on     *)
(* them, the depth of calls, whether tags are exposed, the borrows taken.  *)
BorrowScenario ==
    [method : {"StackedBorrows", "TreeBorrows"}, tags : 1 .. MaxTag, ops : Nat, calls : Nat,
     expose : BOOLEAN, borrows : SUBSET Borrow]

ASSUME BorrowAssumption == MaxTag \in Nat \ {0} /\ \A s \in Scenarios : s \in BorrowScenario

VARIABLES
    next_tag,    \* GlobalStateInner.next_ptr_tag
    prot,        \* GlobalStateInner.protected_tags: no, weak, strong
    frames,      \* FrameState.protected_tags of every frame, innermost last
    held,        \* the tags the program still has a pointer with
    allocated,   \* AllocKind::LiveData
    wild,        \* a pointer of unknown provenance was used
    ops,         \* operations other than borrows and calls so far
    scenario     \* the bounds of this behaviour

borrowVars == <<next_tag, prot, frames, held, allocated, wild, ops, scenario>>

Tag == 1 .. MaxTag
NoTag == 0
Kinds == {"Read", "Write"}

BorrowInit ==
    /\ next_tag = 2 /\ prot = [n \in Tag |-> "no"] /\ frames = <<>>
    /\ held = {1} /\ allocated = TRUE /\ wild = FALSE /\ ops = 0
    /\ scenario \in Scenarios

Protected == [n \in Tag |-> prot[n] # "no"]

(* An operation of the program other than a borrow, a call or a return. *)
Operation == ops < scenario.ops /\ ops' = ops + 1

(* new_ptr, and the registration of a protector in two places. *)
NewPtr(tag, borrow) ==
    /\ next_tag <= scenario.tags /\ tag = next_tag
    /\ borrow.protect => frames # <<>>
    /\ borrow.mut = "place" => borrow.protect
    /\ next_tag' = tag + 1
    /\ held' = held \cup {tag}
    /\ prot' = IF ~borrow.protect THEN prot
               ELSE [prot EXCEPT ![tag] = IF borrow.mut = "box" THEN "weak" ELSE "strong"]
    /\ frames' = IF ~borrow.protect THEN frames ELSE [frames EXCEPT ![Len(frames)] = Append(@, tag)]

(* new_frame *)
PushFrame == Len(frames) < scenario.calls /\ frames' = Append(frames, <<>>)

(* end_call *)
EndCall ==
    /\ prot' = [n \in Tag |-> IF n \in Range(Last(frames)) THEN "no" ELSE prot[n]]
    /\ frames' = Front(frames)

(* FrameState::visit_provenance: what the collector keeps of this state. *)
LiveByFrames == UNION {Range(frames[i]) : i \in 1 .. Len(frames)}
=============================================================================
