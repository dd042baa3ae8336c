---------------------------- MODULE MutexCondvar ----------------------------
(***************************************************************************)
(* Mutexes and condition variables of src/src/concurrency/sync.rs together *)
(* with the pthread / os_unfair_lock shims that call them and the          *)
(* block/unblock/timeout machinery of thread.rs they rest on.              *)
(*                                                                         *)
(* A step is one shim call: nothing preempts a shim.  Two loops of the     *)
(* code run several callbacks inside one call (pthread_cond_broadcast and  *)
(* unblock_expired_deadlines); they are one step per iteration, and while  *)
(* `broadcasting` or `expired` says that such a loop is running no thread  *)
(* takes a step.                                                           *)
(***************************************************************************)
EXTENDS VClock, Sequences, FiniteSets

CONSTANTS
    Mutex, Condvar,
    Kind,          \* [Mutex -> MutexKinds]
    None,          \* Option::None
    MaxLock,       \* bound on lock_count
    MaxClock       \* bound on a thread's own timestamp

MutexKinds == {"Default", "Normal", "ErrorCheck", "Recursive", "Unfair"}

ASSUME MutexCondvarAssumption ==
    /\ Kind \in [Mutex -> MutexKinds]
    /\ None \notin Thread \cup (Condvar \X Mutex) \cup (Thread \X Condvar)
    /\ MaxLock \in Nat \ {0}
    /\ MaxClock \in Nat

VARIABLES
    state,         \* Thread.state: Enabled or the BlockReason
    timed,         \* whether Blocked.deadline is Some
    waiting,       \* <<condvar_ref, mutex_ref>> captured by the callback
    owner, lock_count, queue, mutex_clock,      \* Mutex
    waiters, condvar_clock,                     \* Condvar
    clock,         \* the threads' clocks
    data_write,    \* write clock of a location guarded by the mutex
    broadcasting,  \* <<thread, condvar>> while pthread_cond_broadcast loops
    expired,       \* threads whose timeout callback has not run yet
    halt           \* how the interpreter stopped, or "no"

mutexVars == <<owner, lock_count, queue, mutex_clock>>
condVars  == <<waiters, condvar_clock, waiting, timed>>
loopVars  == <<broadcasting, expired>>
vars == <<state, mutexVars, condVars, clock, data_write, loopVars, halt>>

States == {"Enabled", "Mutex", "Condvar"}
Halts  == {"no", "UB", "LocalDeadlock", "Abort", "Unsupported",
           "GlobalDeadlock", "panic"}

Init ==
    /\ state = [t \in Thread |-> "Enabled"]
    /\ timed = [t \in Thread |-> FALSE]
    /\ waiting = [t \in Thread |-> None]
    /\ owner = [m \in Mutex |-> None]
    /\ lock_count = [m \in Mutex |-> 0]
    /\ queue = [m \in Mutex |-> <<>>]
    /\ mutex_clock = [m \in Mutex |-> ZeroClock]
    /\ waiters = [c \in Condvar |-> <<>>]
    /\ condvar_clock = [c \in Condvar |-> ZeroClock]
    /\ clock = [t \in Thread |-> ClockIncrement(ZeroClock, t)]
    /\ data_write = [m \in Mutex |-> ZeroClock]
    /\ broadcasting = None
    /\ expired = {}
    /\ halt = "no"

-----------------------------------------------------------------------------

(* No callback loop is in progress and the machine has not stopped. *)
Quiet == halt = "no" /\ broadcasting = None /\ expired = {}

(* t can be scheduled and call a shim. *)
Running(t) == Quiet /\ state[t] = "Enabled"

(* The bound on timestamps: t may still release. *)
MayRelease(t) == DataRaceDetector => clock[t][t] < MaxClock

Stop(how) == halt' = how /\ UNCHANGED <<state, mutexVars, condVars, clock, data_write, loopVars>>

(* An assert! of the code: the step happens, or the interpreter panics. *)
Assert(cond) == halt' = IF cond THEN halt ELSE "panic"

(* mutex_lock, for a mutex that is free or already owned by t. *)
MutexLock(t, m) ==
    /\ Assert(owner[m] = None \/ (owner[m] = t /\ lock_count[m] > 0))
    /\ owner' = [owner EXCEPT ![m] = t]
    /\ lock_count' = [lock_count EXCEPT ![m] = @ + 1]
    /\ clock' = [clock EXCEPT ![t] = AcquireClock(@, mutex_clock[m])]

(* Mutant: a thread that blocks jumps the queue. *)
MutexEnqueueFirst(t, m) ==
    /\ queue' = [queue EXCEPT ![m] = <<t>> \o @]
    /\ state' = [state EXCEPT ![t] = "Mutex"]
    /\ Assert(owner[m] # None /\ state[t] = "Enabled")

(* mutex_enqueue_and_block. *)
MutexEnqueueAndBlock(t, m) ==
    /\ queue' = [queue EXCEPT ![m] = Append(@, t)]
    /\ state' = [state EXCEPT ![t] = "Mutex"]
    /\ Assert(owner[m] # None /\ state[t] = "Enabled")

(* Mutant: mutex_unlock forgets the queue. *)
SuccessorForgotten(m) == None

(* The thread mutex_unlock pops from the queue, if any. *)
Successor(m) == IF queue[m] = <<>> THEN None ELSE Head(queue[m])

(* Mutant: the successor's mutex_lock does not count. *)
CountLost(m) == 0

(* lock_count after the last unlock and the successor's mutex_lock, if any. *)
CountAfterRelease(m) == IF Successor(m) = None THEN 0 ELSE 1

(* mutex_unlock when the count drops to 0: store the released clock, pop   *)
(* the queue and let unblock_thread run the successor's callback, which    *)
(* locks the mutex in the successor's name.                                *)
ReleaseAndHandOff(t, m) ==
    LET next == Successor(m) IN
    /\ owner' = [owner EXCEPT ![m] = next]
    /\ lock_count' = [lock_count EXCEPT ![m] = CountAfterRelease(m)]
    /\ queue' = [queue EXCEPT ![m] = IF next = None THEN @ ELSE Tail(@)]
    /\ mutex_clock' = [mutex_clock EXCEPT ![m] = ReleasedClock(clock[t], @)]
    /\ clock' = [u \in Thread |->
                    IF u = t THEN AfterRelease(clock[t], t)
                    ELSE IF u = next THEN AcquireClock(clock[u], mutex_clock'[m])
                    ELSE clock[u]]
    /\ Assert(next # None => state[next] = "Mutex")

-----------------------------------------------------------------------------
(* The shims. *)

(* What stops the machine when an owner locks again, or a thread unlocks   *)
(* a mutex that is not its own, by kind.                                   *)
RelockStop == [Default |-> "UB", Normal |-> "LocalDeadlock", Unfair |-> "Abort"]
ForeignUnlockStop == [Default |-> "UB", Normal |-> "UB", Unfair |-> "Abort"]

(* pthread_mutex_lock, os_unfair_lock_lock. *)
Lock(t, m) ==
    /\ Running(t)
    /\ \/ /\ owner[m] = None
          /\ MutexLock(t, m)
          /\ UNCHANGED <<state, queue, mutex_clock, condVars, data_write, loopVars>>
       \/ /\ owner[m] \notin {None, t}
          /\ MutexEnqueueAndBlock(t, m)
          /\ UNCHANGED <<owner, lock_count, mutex_clock, condVars, clock, data_write, loopVars>>
       \/ /\ owner[m] = t /\ Kind[m] = "Recursive"
          /\ lock_count[m] < MaxLock
          /\ MutexLock(t, m)
          /\ UNCHANGED <<state, queue, mutex_clock, condVars, data_write, loopVars>>
       \/ /\ owner[m] = t /\ Kind[m] \in DOMAIN RelockStop
          /\ Stop(RelockStop[Kind[m]])
       \* ErrorCheck returns EDEADLK and changes nothing.

(* pthread_mutex_trylock, os_unfair_lock_trylock: EBUSY changes nothing. *)
TryLock(t, m) ==
    /\ Running(t)
    /\ owner[m] = None \/ (owner[m] = t /\ Kind[m] = "Recursive")
    /\ lock_count[m] < MaxLock
    /\ MutexLock(t, m)
    /\ UNCHANGED <<state, queue, mutex_clock, condVars, data_write, loopVars>>

(* pthread_mutex_unlock, os_unfair_lock_unlock. *)
Unlock(t, m) ==
    /\ Running(t)
    /\ \/ /\ owner[m] = t /\ lock_count[m] > 1
          /\ lock_count' = [lock_count EXCEPT ![m] = @ - 1]
          /\ UNCHANGED <<state, owner, queue, mutex_clock, condVars, clock, data_write, loopVars, halt>>
       \/ /\ owner[m] = t /\ lock_count[m] = 1
          /\ MayRelease(t)
          /\ ReleaseAndHandOff(t, m)
          /\ state' = [u \in Thread |-> IF u = Successor(m) THEN "Enabled" ELSE state[u]]
          /\ UNCHANGED <<condVars, data_write, loopVars>>
       \/ /\ owner[m] # t /\ Kind[m] \in DOMAIN ForeignUnlockStop
          /\ Stop(ForeignUnlockStop[Kind[m]])
       \* ErrorCheck and Recursive return EPERM and change nothing.

(* pthread_cond_wait (timeout = FALSE) and pthread_cond_timedwait: release *)
(* the mutex, handing it on, and block on the condvar.                     *)
Wait(t, c, m, timeout) ==
    /\ Running(t)
    /\ \/ owner[m] # t /\ Stop("UB")
       \/ owner[m] = t /\ lock_count[m] > 1 /\ Stop("Unsupported")
       \/ /\ owner[m] = t /\ lock_count[m] = 1
          /\ MayRelease(t)
          /\ ReleaseAndHandOff(t, m)
          /\ waiters' = [waiters EXCEPT ![c] = Append(@, t)]
          /\ waiting' = [waiting EXCEPT ![t] = <<c, m>>]
          /\ timed' = [timed EXCEPT ![t] = timeout]
          /\ state' = [u \in Thread |-> IF u = t THEN "Condvar"
                                        ELSE IF u = Successor(m) THEN "Enabled"
                                        ELSE state[u]]
          /\ UNCHANGED <<condvar_clock, data_write, loopVars>>

(* condvar_reacquire_mutex, run in the name of w by the unblock callback,  *)
(* whose clock is k by then; st is w's state as the caller checked it.  The *)
(* callback is consumed.                                                   *)
Reacquire(w, k, st) ==
    LET m == waiting[w][2] IN
    /\ waiting' = [waiting EXCEPT ![w] = None]
    /\ timed' = [timed EXCEPT ![w] = FALSE]
    /\ IF owner[m] = None
       THEN /\ owner' = [owner EXCEPT ![m] = w]
            /\ lock_count' = [lock_count EXCEPT ![m] = @ + 1]
            /\ state' = [state EXCEPT ![w] = "Enabled"]
            /\ clock' = [k EXCEPT ![w] = AcquireClock(@, mutex_clock[m])]
            /\ Assert(state[w] = st)
            /\ UNCHANGED queue
       ELSE /\ queue' = [queue EXCEPT ![m] = Append(@, w)]
            /\ state' = [state EXCEPT ![w] = "Mutex"]
            /\ clock' = k
            /\ Assert(state[w] = st /\ owner[m] # w)
            /\ UNCHANGED <<owner, lock_count>>

(* condvar_signal by t: the release happens whether or not anyone waits. *)
CondvarSignal(t, c) ==
    LET released == ReleasedClock(clock[t], condvar_clock[c])
        ticked == [clock EXCEPT ![t] = AfterRelease(@, t)]
    IN
    /\ MayRelease(t)
    /\ condvar_clock' = [condvar_clock EXCEPT ![c] = released]
    /\ IF waiters[c] = <<>>
       THEN /\ clock' = ticked
            /\ UNCHANGED <<state, owner, lock_count, queue, waiters, waiting, timed, halt>>
       ELSE LET w == Head(waiters[c]) IN
            /\ waiters' = [waiters EXCEPT ![c] = Tail(@)]
            /\ Reacquire(w, [ticked EXCEPT ![w] = AcquireClock(@, released)], "Condvar")
    /\ UNCHANGED <<mutex_clock, data_write, expired>>

(* pthread_cond_signal. *)
Signal(t, c) == Running(t) /\ CondvarSignal(t, c) /\ UNCHANGED broadcasting

(* pthread_cond_broadcast: the loop is left when condvar_signal is false. *)
Broadcast(t, c) ==
    /\ \/ Running(t)
       \/ halt = "no" /\ broadcasting = <<t, c>>
    /\ CondvarSignal(t, c)
    /\ broadcasting' = IF waiters[c] = <<>> THEN None ELSE <<t, c>>

(* unblock_expired_deadlines, first loop: every expired thread is enabled  *)
(* before any of their callbacks runs.                                     *)
ExpireDeadlines(S) ==
    /\ Quiet
    /\ S # {}
    /\ \A t \in S : state[t] = "Condvar" /\ timed[t]
    /\ state' = [t \in Thread |-> IF t \in S THEN "Enabled" ELSE state[t]]
    /\ expired' = S
    /\ UNCHANGED <<mutexVars, condVars, clock, data_write, broadcasting, halt>>

(* Mutant: the timed out waiter stays in the queue. *)
WithoutForgotten(s, t) == s

(* waiters.retain(|w| *w != t): a queue never holds a thread twice (see    *)
(* WaitersInPlace below), so there is one position to close up.            *)
Without(s, t) ==
    IF \A i \in 1 .. Len(s) : s[i] # t THEN s
    ELSE LET p == CHOOSE i \in 1 .. Len(s) : s[i] = t IN
         [i \in 1 .. Len(s) - 1 |-> IF i < p THEN s[i] ELSE s[i + 1]]

(* Second loop, in the order of the thread ids: the TimedOut branch of the *)
(* condvar callback leaves the waiter queue and takes the mutex back.      *)
TimedOut(t) ==
    /\ halt = "no"
    /\ t \in expired /\ \A u \in expired : t <= u
    /\ expired' = expired \ {t}
    /\ waiters' = [waiters EXCEPT ![waiting[t][1]] = Without(@, t)]
    /\ Reacquire(t, clock, "Enabled")
    /\ UNCHANGED <<mutex_clock, condvar_clock, data_write, broadcasting>>

(* The owner of m writes the location m protects. *)
Write(t, m) ==
    /\ Running(t) /\ owner[m] = t /\ DataRaceDetector
    /\ data_write' = [data_write EXCEPT ![m][t] = clock[t][t]]
    /\ UNCHANGED <<state, mutexVars, condVars, clock, loopVars, halt>>

(* schedule: nobody is enabled and no deadline is pending. *)
GlobalDeadlock ==
    /\ Quiet
    /\ \A t \in Thread : state[t] # "Enabled" /\ ~(state[t] = "Condvar" /\ timed[t])
    /\ Stop("GlobalDeadlock")

Next ==
    \/ \E t \in Thread :
        \/ TimedOut(t)
        \/ \E m \in Mutex : Lock(t, m) \/ TryLock(t, m) \/ Unlock(t, m) \/ Write(t, m)
        \/ \E c \in Condvar :
            \/ Signal(t, c) \/ Broadcast(t, c)
            \/ \E m \in Mutex, timeout \in BOOLEAN : Wait(t, c, m, timeout)
    \/ \E S \in SUBSET Thread : ExpireDeadlines(S)
    \/ GlobalDeadlock

Spec == Init /\ [][Next]_vars

-----------------------------------------------------------------------------

(* The shape of the state: threads, Mutex and Condvar fields of sync.rs. *)
TypeOK ==
    /\ state \in [Thread -> States]
    /\ timed \in [Thread -> BOOLEAN]
    /\ waiting \in [Thread -> (Condvar \X Mutex) \cup {None}]
    /\ owner \in [Mutex -> Thread \cup {None}]
    /\ lock_count \in [Mutex -> 0 .. MaxLock]
    /\ queue \in [Mutex -> Seq(Thread)]
    /\ mutex_clock \in [Mutex -> Clocks]
    /\ waiters \in [Condvar -> Seq(Thread)]
    /\ condvar_clock \in [Condvar -> Clocks]
    /\ clock \in [Thread -> Clocks]
    /\ data_write \in [Mutex -> Clocks]
    /\ broadcasting \in (Thread \X Condvar) \cup {None}
    /\ expired \in SUBSET Thread
    /\ halt \in Halts

(* None of the assertions of sync.rs and of unblock_thread can fail: a     *)
(* popped thread is blocked for the reason it is woken for, a lock handed  *)
(* over is free, a condvar callback never finds its own thread owning the  *)
(* mutex it wants back.                                                    *)
NoPanic == halt # "panic"

(* Positions of a wait queue. *)
Places(q) == 1 .. Len(q)

(* No thread is stranded on a mutex: who is blocked on a mutex stands in   *)
(* exactly one mutex queue, at one position; who stands there is blocked;  *)
(* and a mutex with a queue has an owner, outside the queue, who will hand *)
(* it on (mutex_unlock, mutex_enqueue_and_block).                          *)
QueuedInPlace ==
    /\ \A m \in Mutex : queue[m] # <<>> => owner[m] # None
    /\ \A m \in Mutex : \A i \in Places(queue[m]) :
          state[queue[m][i]] = "Mutex" /\ queue[m][i] # owner[m]
    /\ \A m, n \in Mutex : \A i \in Places(queue[m]), j \in Places(queue[n]) :
          queue[m][i] = queue[n][j] => m = n /\ i = j
    /\ \A t \in Thread : state[t] = "Mutex" =>
          \E m \in Mutex : \E i \in Places(queue[m]) : queue[m][i] = t

(* No thread is stranded on a condvar: who is blocked on one, or timed out *)
(* and not yet processed, stands once in the waiter queue its callback     *)
(* will remove it from, and nobody else does; and it does not own the      *)
(* mutex it will ask for (condvar_wait, condvar_signal and the two         *)
(* branches of the condvar callback).                                      *)
WaitersInPlace ==
    /\ \A c \in Condvar : \A i \in Places(waiters[c]) :
          LET w == waiters[c][i] IN
          /\ state[w] = "Condvar" \/ w \in expired
          /\ waiting[w] # None /\ waiting[w][1] = c
    /\ \A c \in Condvar : \A i, j \in Places(waiters[c]) :
          waiters[c][i] = waiters[c][j] => i = j
    /\ \A t \in Thread : state[t] = "Condvar" \/ t \in expired =>
          /\ waiting[t] # None
          /\ \E i \in Places(waiters[waiting[t][1]]) : waiters[waiting[t][1]][i] = t
    /\ \A t \in Thread : waiting[t] # None =>
          /\ state[t] = "Condvar" \/ t \in expired
          /\ owner[waiting[t][2]] # t

(* The happens-before edges of mutex_lock / mutex_unlock suffice: whoever   *)
(* owns a mutex is ordered after every write made under it before, however *)
(* the lock travelled (unlock, hand-off, condvar wake-up, timeout), so the *)
(* detector reports no race on properly locked data.                       *)
LockedDataRaceFree ==
    \A m \in Mutex : owner[m] # None => ClockLeq(data_write[m], clock[owner[m]])

-----------------------------------------------------------------------------

(* The scheduler runs every enabled thread again and again, a client that  *)
(* holds a lock, nested or not, gives it up in the end, and callback loops *)
(* are run to the end before anything else.                                *)
Fairness ==
    /\ \A t \in Thread, m \in Mutex :
          SF_vars(Unlock(t, m)) /\ SF_vars(lock_count[m] = 1 /\ Unlock(t, m))
    /\ \A t \in Thread : WF_vars(TimedOut(t))
    /\ \A t \in Thread, c \in Condvar : WF_vars(broadcasting = <<t, c>> /\ Broadcast(t, c))

FairSpec == Spec /\ Fairness

(* FIFO hand-off: no thread that queued for a mutex starves, whatever the  *)
(* others do, unless the interpreter stops or the owner itself is blocked  *)
(* for good (on another mutex, or waiting for a signal that never comes).  *)
MutexWaitEnds ==
    \A t \in Thread, m \in Mutex :
        (\E i \in Places(queue[m]) : queue[m][i] = t)
          ~> \/ \A i \in Places(queue[m]) : queue[m][i] # t
             \/ halt # "no"
             \/ [](owner[m] # None /\ state[owner[m]] # "Enabled")
=============================================================================
