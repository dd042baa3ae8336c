------------------------------- MODULE VClock -------------------------------
(***************************************************************************)
(* Vector clocks (src/src/concurrency/vector_clock.rs).                    *)
(*                                                                         *)
(* The code keeps a SmallVec of timestamps whose missing tail reads as 0;  *)
(* here a clock is a function from the vector indices to Nat, so the tail  *)
(* is explicit and two clocks that differ only in trailing zeros are equal *)
(* (VClock's trimming keeps them equal in the code).  The clocks of the    *)
(* threads are the ThreadClockSet.clock fields of data_race.rs.            *)
(***************************************************************************)
EXTENDS Naturals

CONSTANTS
    Thread,            \* thread ids; one vector index per thread
    DataRaceDetector   \* FALSE: GlobalDataRaceHandler::None

ASSUME ThreadAssumption == Thread \subseteq Nat /\ DataRaceDetector \in BOOLEAN

Clocks == [Thread -> Nat]

ZeroClock == [u \in Thread |-> 0]

(* VClock::join: pointwise maximum. *)
ClockJoin(a, b) == [u \in Thread |-> IF a[u] >= b[u] THEN a[u] ELSE b[u]]

(* VClock::partial_cmp, the direction the detector uses: a <= b. *)
ClockLeq(a, b) == \A u \in Thread : a[u] <= b[u]

(* VClock::increment_index. *)
ClockIncrement(a, t) == [a EXCEPT ![t] = @ + 1]

(* Mutant: acquire_clock does not join. *)
AcquireNothing(threadClock, stored) == threadClock

(* GlobalState::acquire_clock: join the stored clock into the thread's; a  *)
(* no-op when no detector is installed.                                    *)
AcquireClock(threadClock, stored) ==
    IF DataRaceDetector THEN ClockJoin(threadClock, stored) ELSE threadClock

(* GlobalState::release_clock, first half: the callback stores the thread's *)
(* clock as it was before the increment.                                   *)
ReleasedClock(threadClock, stored) ==
    IF DataRaceDetector THEN threadClock ELSE stored

(* GlobalState::release_clock, second half: only then the thread's own      *)
(* component is advanced.                                                  *)
AfterRelease(threadClock, t) ==
    IF DataRaceDetector THEN ClockIncrement(threadClock, t) ELSE threadClock
=============================================================================
