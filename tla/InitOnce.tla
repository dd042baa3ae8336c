------------------------------ MODULE InitOnce ------------------------------
(***************************************************************************)
(* One-time initialization: src/src/concurrency/init_once.rs under         *)
(* InitOnceBeginInitialize and InitOnceComplete of shims/windows/sync.rs.  *)
(* A thread that is told to initialize writes the guarded data and then    *)
(* completes or fails; those that came meanwhile are blocked.  Waking a    *)
(* thread runs its callback, init_once_try_begin, within the same step.    *)
(***************************************************************************)
EXTENDS VClock, Sequences

CONSTANTS
    Nobody,      \* the data was never written
    MaxOnceClock \* bound on a thread's own timestamp

ASSUME InitOnceAssumption == Nobody \notin Thread /\ MaxOnceClock \in Nat

VARIABLES
    status, once_waiters, once_clock, \* InitOnce.status, .waiters, .clock
    once_state,                    \* Thread.state: Enabled or InitOnce
    once_clocks,                   \* the threads' clocks
    told,                          \* what the last Begin answered: pending, done
    written,                       \* the last write of the data: who and when
    once_halt                      \* no, ub (reported to the user) or panic

onceVars == <<status, once_waiters, once_clock>>
onceMachineVars == <<onceVars, once_state, once_clocks, told, written, once_halt>>

OnceInit ==
    /\ status = "Uninitialized" /\ once_waiters = <<>> /\ once_clock = ZeroClock
    /\ once_state = [t \in Thread |-> "Enabled"]
    /\ once_clocks = [t \in Thread |-> ClockIncrement(ZeroClock, t)]
    /\ told = [t \in Thread |-> "nothing"]
    /\ written = [by |-> Nobody, at |-> 0]
    /\ once_halt = "no"

OnceRunning(t) == once_halt = "no" /\ once_state[t] = "Enabled"
OnceMayRelease(t) == DataRaceDetector => once_clocks[t][t] < MaxOnceClock

-----------------------------------------------------------------------------

(* Mutant: a late caller does not synchronize with the completion. *)
ObserveNothing(k, c) == k

(* init_once_observe_completed. *)
ObserveCompleted(k, c) == AcquireClock(k, c)

(* InitOnceBeginInitialize, status Uninitialized: begin. *)
Begin(t) ==
    /\ OnceRunning(t) /\ told[t] # "pending"
    /\ status = "Uninitialized"
    /\ status' = "Begun"
    /\ told' = [told EXCEPT ![t] = "pending"]
    /\ UNCHANGED <<once_waiters, once_clock, once_state, once_clocks, written, once_halt>>

(* InitOnceBeginInitialize, status Complete. *)
AlreadyComplete(t) ==
    /\ OnceRunning(t) /\ told[t] # "pending"
    /\ status = "Complete"
    /\ once_clocks' = [once_clocks EXCEPT ![t] = ObserveCompleted(@, once_clock)]
    /\ told' = [told EXCEPT ![t] = "done"]
    /\ UNCHANGED <<onceVars, once_state, written, once_halt>>

(* InitOnceBeginInitialize, status Begun: init_once_enqueue_and_block. *)
EnqueueAndBlock(t) ==
    /\ OnceRunning(t) /\ told[t] # "pending"
    /\ status = "Begun"
    /\ once_waiters' = Append(once_waiters, t)
    /\ once_state' = [once_state EXCEPT ![t] = "InitOnce"]
    /\ UNCHANGED <<status, once_clock, once_clocks, told, written, once_halt>>

(* The initializer writes the data it guards (client). *)
OnceWrite(t) ==
    /\ OnceRunning(t) /\ told[t] = "pending"
    /\ written' = [by |-> t, at |-> once_clocks[t][t]]
    /\ UNCHANGED <<onceVars, once_state, once_clocks, told, once_halt>>

(* InitOnceComplete, init_once_complete: every waiter is unblocked and its *)
(* callback observes the completion.  The client wrote the data before.    *)
Complete(t) ==
    LET woken == {once_waiters[i] : i \in 1 .. Len(once_waiters)}
        released == ReleasedClock(once_clocks[t], once_clock)
    IN
    /\ OnceRunning(t) /\ told[t] = "pending" /\ written.by = t /\ OnceMayRelease(t)
    /\ status' = "Complete"
    /\ once_clock' = released
    /\ once_waiters' = <<>>
    /\ once_state' = [u \in Thread |-> IF u \in woken THEN "Enabled" ELSE once_state[u]]
    /\ once_clocks' = [u \in Thread |-> IF u = t THEN AfterRelease(once_clocks[t], t)
                                        ELSE IF u \in woken THEN ObserveCompleted(once_clocks[u], released)
                                        ELSE once_clocks[u]]
    /\ told' = [u \in Thread |-> IF u = t \/ u \in woken THEN "done" ELSE told[u]]
    /\ once_halt' = IF /\ status = "Begun"
                       /\ \A u \in woken : once_state[u] = "InitOnce" /\ u # t
                    THEN once_halt ELSE "panic"
    /\ UNCHANGED written

(* Mutant: a failure wakes nobody. *)
FailWakesNobody(ws) == <<>>

(* The waiters a failed initialization wakes. *)
FailWakes(ws) == IF ws = <<>> THEN <<>> ELSE <<Head(ws)>>

(* InitOnceComplete(INIT_ONCE_INIT_FAILED), init_once_fail: the first      *)
(* waiter's callback begins anew; a second one would find it begun.        *)
Fail(t) ==
    LET woken == FailWakes(once_waiters) IN
    /\ OnceRunning(t) /\ told[t] = "pending" /\ OnceMayRelease(t)
    /\ once_clock' = ReleasedClock(once_clocks[t], once_clock)
    /\ once_clocks' = [once_clocks EXCEPT ![t] = AfterRelease(@, t)]
    /\ IF woken = <<>>
       THEN /\ status' = "Uninitialized"
            /\ told' = [told EXCEPT ![t] = "nothing"]
            /\ UNCHANGED <<once_state, once_waiters>>
       ELSE /\ status' = "Begun"
            /\ told' = [told EXCEPT ![t] = "nothing", ![Head(woken)] = "pending"]
            /\ once_state' = [once_state EXCEPT ![Head(woken)] = "Enabled"]
            /\ once_waiters' = Tail(once_waiters)
    /\ once_halt' = IF /\ status = "Begun"
                       /\ woken = <<>> \/ (once_state[Head(woken)] = "InitOnce" /\ Tail(woken) = <<>>)
                    THEN once_halt ELSE "panic"
    /\ UNCHANGED written

(* InitOnceComplete while nothing has begun: reported as UB. *)
CompleteNotBegun(t) ==
    /\ OnceRunning(t) /\ status # "Begun"
    /\ once_halt' = "ub"
    /\ UNCHANGED <<onceVars, once_state, once_clocks, told, written>>

OnceNext ==
    \E t \in Thread :
        \/ Begin(t) \/ AlreadyComplete(t) \/ EnqueueAndBlock(t)
        \/ OnceWrite(t) \/ Complete(t) \/ Fail(t) \/ CompleteNotBegun(t)

OnceSpec == OnceInit /\ [][OnceNext]_onceMachineVars

-----------------------------------------------------------------------------

(* The shape of the state; nobody knows more of a thread than has happened. *)
OnceTypeOK ==
    /\ status \in {"Uninitialized", "Begun", "Complete"}
    /\ once_waiters \in Seq(Thread)
    /\ once_clock \in Clocks /\ once_clocks \in [Thread -> Clocks]
    /\ \A t, u \in Thread : once_clocks[u][t] <= once_clocks[t][t] /\ once_clock[t] <= once_clocks[t][t]
    /\ once_state \in [Thread -> {"Enabled", "InitOnce"}]
    /\ told \in [Thread -> {"nothing", "pending", "done"}]
    /\ written \in [by : Thread \cup {Nobody}, at : Nat]
    /\ once_halt \in {"no", "ub", "panic"}

(* No assertion of init_once.rs, of the wake-up callback ("we were woken   *)
(* up but init_once_try_begin still failed") or of unblock_thread fails.   *)
OnceNoPanic == once_halt # "panic"

(* Threads are queued only while exactly one running thread is under way   *)
(* to complete or fail, through any chain of failures: nobody is left      *)
(* blocked with no one to wake them.                                       *)
WaitersHaveInitializer ==
    /\ status = "Begun" <=> \E t \in Thread : told[t] = "pending"
    /\ \A t, u \in Thread : told[t] = "pending" /\ told[u] = "pending" => t = u
    /\ \A t \in Thread : told[t] = "pending" => once_state[t] = "Enabled"
    /\ once_waiters # <<>> => status = "Begun"
    /\ \A t \in Thread : once_state[t] = "InitOnce" <=> \E i \in 1 .. Len(once_waiters) : once_waiters[i] = t
    /\ \A i, j \in 1 .. Len(once_waiters) : once_waiters[i] = once_waiters[j] => i = j

(* init_once_complete: "each complete happens-before the end of the wait", *)
(* and later callers observe it too: whoever is told that initialization   *)
(* is done may read the data without a race.                               *)
DoneKnowsData ==
    DataRaceDetector => \A t \in Thread :
        told[t] = "done" /\ written.by # Nobody => written.at <= once_clocks[t][written.by]
=============================================================================
