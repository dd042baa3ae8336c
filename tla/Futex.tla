------------------------------- MODULE Futex -------------------------------
(***************************************************************************)
(* One futex word and its queue: futex_wait and futex_wake of              *)
(* src/src/concurrency/sync.rs under the three families of shims that use  *)
(* them (SYS_futex on Linux, WaitOnAddress / WakeByAddress* on Windows,    *)
(* os_sync_wait_on_address / os_sync_wake_by_address_* on macOS).  The     *)
(* word lives in weak memory: the shim's own load may return an old value, *)
(* and whether it may is decided by the SeqCst fences of the two sides.    *)
(*                                                                         *)
(* The clients are threads that store to the word (relaxed) and call wake  *)
(* before they wait, and threads that wait for the word to leave a value.  *)
(* A shim call is one step.                                                *)
(***************************************************************************)
EXTENDS StoreBuffer, FiniteSets

CONSTANTS
    Flavours,      \* targets: among "linux", "windows" and "macos"
    Value,         \* values of the word; 0 is the initial one
    Bit,           \* bits of a bitset; u32::MAX is the whole set
    Param,         \* macOS: the (size, shared) pairs callers use
    Count,         \* numbers of threads callers ask to wake
    NoCall,        \* of a thread in no call
    MaxFutexOps    \* bound: client calls, the wakes that stores owe not counted

ASSUME FutexAssumption ==
    /\ Flavours \subseteq {"linux", "windows", "macos"}
    /\ 0 \in Value /\ Param # {} /\ Count \subseteq Nat /\ MaxFutexOps \in Nat
    /\ IsFiniteSet(Thread) /\ Bit # {}

VARIABLES
    flavour,                   \* the target, never changed
    word,                      \* store buffer of the word
    clocks, last_sc_fence,     \* race detector
    futex_waiters,             \* Futex.waiters: <<[thread, bitset]>>
    futex_clock,               \* Futex.clock
    params,                    \* MacOsFutex.size and .shared
    futex_state, futex_timed,  \* Enabled or Futex; deadline is Some
    waits,                     \* client: [val, param] of the call t is blocked in
    owes,                      \* client: t stored and has not called wake yet
    futex_ops,
    futex_halt

memVars == <<flavour, word, clocks, last_sc_fence>>
queueVars == <<futex_waiters, futex_clock, params, futex_state, futex_timed, waits>>
futexVars == <<memVars, queueVars, owes, futex_ops, futex_halt>>

(* Only macOS records parameters. *)
Params == IF flavour = "macos" THEN Param ELSE {CHOOSE p \in Param : TRUE}

FutexInit ==
    /\ flavour \in Flavours
    /\ word = NewBuffer(0)
    /\ clocks = [t \in Thread |-> NewClockSet(t)]
    /\ last_sc_fence = ZeroClock
    /\ futex_waiters = <<>> /\ futex_clock = ZeroClock
    /\ params \in Params
    /\ futex_state = [t \in Thread |-> "Enabled"] /\ futex_timed = [t \in Thread |-> FALSE]
    /\ waits = [t \in Thread |-> NoCall]
    /\ owes = [t \in Thread |-> FALSE]
    /\ futex_ops = 0
    /\ futex_halt = "no"

-----------------------------------------------------------------------------

FutexRunning(t) == futex_halt = "no" /\ futex_state[t] = "Enabled"
Called == futex_ops < MaxFutexOps /\ futex_ops' = futex_ops + 1

(* Nothing but the own clock and the global fence clock moves. *)
ScFenced(t) == FenceClocks(clocks[t], t, "SeqCst", last_sc_fence, ZeroClock)

(* Mutant: no fence at all. *)
WaitUnfenced(t) == clocks[t]

(* The waiting side fences before it loads, on every platform. *)
WaitFenced(t) == ScFenced(t)

(* The waking side's fence, as later fences see it. *)
WakeFenced(t) == FenceGlobal(clocks[t], "SeqCst", last_sc_fence)

(* A client stores v, and will call wake. *)
StoreWord(t, v) ==
    LET k == Tick(clocks[t], t) IN
    /\ FutexRunning(t) /\ ~owes[t] /\ Called
    /\ word' = StoreImpl(word, t, k, FALSE, StoreSync(clocks[t], "Relaxed"), v)
    /\ clocks' = [clocks EXCEPT ![t] = k]
    /\ owes' = [owes EXCEPT ![t] = TRUE]
    /\ UNCHANGED <<flavour, last_sc_fence, queueVars, futex_halt>>

(* Mutant: waiters with other parameters are let in. *)
MismatchIgnored(p) == FALSE

(* macOS: whether this call's size and sharing fit the ones in use. *)
Mismatch(p) == flavour = "macos" /\ futex_waiters # <<>> /\ params # p

(* FUTEX_WAIT(_BITSET), WaitOnAddress, os_sync_wait_on_address*: fence,    *)
(* load, compare and block, with no preemption in between.  When the value *)
(* differs (EAGAIN) or the parameters do (EINVAL), only the clocks moved.  *)
FutexWait(t, v, bitset, p, timeout) ==
    LET k == WaitFenced(t) IN
    /\ FutexRunning(t) /\ ~owes[t] /\ Called
    /\ last_sc_fence' = FenceGlobal(clocks[t], "SeqCst", last_sc_fence)
    /\ \E i \in Candidates(word, k, FALSE) :
        LET k2 == ValidateLoad(k, t, "Acquire", word[i].sync_clock) IN
        /\ clocks' = [clocks EXCEPT ![t] = k2]
        /\ word' = LoadImpl(word, i, t, k2, FALSE)
        /\ params' = IF flavour = "macos" /\ futex_waiters = <<>> THEN p ELSE params
        /\ IF word[i].val # v \/ Mismatch(p)
           THEN UNCHANGED <<futex_waiters, futex_state, futex_timed, waits, futex_halt>>
           ELSE /\ futex_waiters' = Append(futex_waiters, [thread |-> t, bitset |-> bitset])
                /\ futex_state' = [futex_state EXCEPT ![t] = "Futex"]
                /\ futex_timed' = [futex_timed EXCEPT ![t] = timeout]
                /\ waits' = [waits EXCEPT ![t] = [val |-> v, param |-> p]]
                /\ futex_halt' = IF \E j \in 1 .. Len(futex_waiters) : futex_waiters[j].thread = t
                                 THEN "panic" ELSE futex_halt
    /\ UNCHANGED <<flavour, futex_clock, owes>>

(* Waiters that a wake for `bitset` may pick, up to `count`, oldest first. *)
Matches(i, bitset) == futex_waiters[i].bitset \cap bitset # {}
Extracted(bitset, count) ==
    {futex_waiters[i].thread : i \in
        {i \in 1 .. Len(futex_waiters) :
            /\ Matches(i, bitset)
            /\ Cardinality({j \in 1 .. i - 1 : Matches(j, bitset)}) < count}}

(* Mutant: a woken or timed out thread stays queued. *)
LeftAll(ws, S) == ws

(* extract_if and retain: the waiters without the threads in S, in order:  *)
(* the n-th of them has n kept places up to its own.                       *)
Left(ws, S) ==
    LET kept == {i \in 1 .. Len(ws) : ws[i].thread \notin S}
        Place(n) == CHOOSE i \in kept : Cardinality({j \in kept : j <= i}) = n
    IN  [n \in 1 .. Cardinality(kept) |-> ws[Place(n)]]

(* Mutant: the end of the wait acquires nothing. *)
WokenUnordered(k, clk) == k

(* The Ready branch of the futex callback. *)
FutexWoken(k, clk) == [k EXCEPT !.clock = ClockJoin(@, clk)]

(* futex_wake: release, extract, unblock. *)
FutexWake(t, k, bitset, count) ==
    LET S == Extracted(bitset, count) IN
    /\ futex_clock' = k.clock
    /\ futex_waiters' = Left(futex_waiters, S)
    /\ futex_state' = [u \in Thread |-> IF u \in S THEN "Enabled" ELSE futex_state[u]]
    /\ futex_timed' = [u \in Thread |-> IF u \in S THEN FALSE ELSE futex_timed[u]]
    /\ waits' = [u \in Thread |-> IF u \in S THEN NoCall ELSE waits[u]]
    /\ clocks' = [u \in Thread |-> IF u = t THEN Tick(k, t)
                                   ELSE IF u \in S THEN FutexWoken(clocks[u], k.clock)
                                   ELSE clocks[u]]
    /\ futex_halt' = IF \A u \in S : futex_state[u] = "Futex" THEN futex_halt ELSE "panic"

(* FUTEX_WAKE(_BITSET), WakeByAddressSingle/All, os_sync_wake_by_address_*. *)
(* macOS looks at the queue first: ENOENT and EINVAL return before the     *)
(* fence.                                                                  *)
Wake(t, bitset, count, p) ==
    /\ IF flavour = "macos" /\ (futex_waiters = <<>> \/ params # p)
       THEN UNCHANGED <<memVars, queueVars, futex_halt>>
       ELSE /\ FutexWake(t, ScFenced(t), bitset, count)
            /\ last_sc_fence' = WakeFenced(t)
            /\ UNCHANGED <<flavour, word, params>>

(* The client's wake after a store: everybody. *)
WakeAll(t) ==
    /\ FutexRunning(t) /\ owes[t]
    /\ \E p \in Params : (futex_waiters = <<>> \/ p = params) /\ Wake(t, Bit, Cardinality(Thread), p)
    /\ owes' = [owes EXCEPT ![t] = FALSE]
    /\ UNCHANGED futex_ops

(* Any other wake. *)
WakeSome(t, bitset, count, p) ==
    /\ FutexRunning(t) /\ Called
    /\ Wake(t, bitset, count, p)
    /\ UNCHANGED owes

(* unblock_expired_deadlines: the TimedOut callbacks only leave the queue. *)
FutexTimedOut(S) ==
    /\ futex_halt = "no" /\ S # {}
    /\ \A t \in S : futex_state[t] = "Futex" /\ futex_timed[t]
    /\ futex_waiters' = Left(futex_waiters, S)
    /\ futex_state' = [t \in Thread |-> IF t \in S THEN "Enabled" ELSE futex_state[t]]
    /\ futex_timed' = [t \in Thread |-> futex_timed[t] /\ t \notin S]
    /\ waits' = [t \in Thread |-> IF t \in S THEN NoCall ELSE waits[t]]
    /\ UNCHANGED <<memVars, futex_clock, params, owes, futex_ops, futex_halt>>

(* On Windows and macOS there are no bitsets. *)
Bitsets == IF flavour = "linux" THEN (SUBSET Bit) \ {{}} ELSE {Bit}

FutexNext ==
    \/ \E t \in Thread :
        \/ \E v \in Value : StoreWord(t, v)
        \/ WakeAll(t)
        \/ \E b \in Bitsets, n \in Count, p \in Params : WakeSome(t, b, n, p)
        \/ \E v \in Value, b \in Bitsets, p \in Params, d \in BOOLEAN : FutexWait(t, v, b, p, d)
    \/ \E S \in SUBSET Thread : FutexTimedOut(S)

FutexSpec == FutexInit /\ [][FutexNext]_futexVars

-----------------------------------------------------------------------------

Waiter == [thread : Thread, bitset : (SUBSET Bit) \ {{}}]

(* The shape of the state; the buffer never grows past its limit. *)
FutexTypeOK ==
    /\ flavour \in Flavours
    /\ word \in Seq([store_thread : Thread, store_timestamp : Nat, sync_clock : Clocks, is_seqcst : BOOLEAN,
                     val : Value, loads : Clocks, sc_loaded : BOOLEAN])
    /\ Len(word) \in 1 .. StoreBufferLimit
    /\ clocks \in [Thread -> ClockSets] /\ last_sc_fence \in Clocks /\ futex_clock \in Clocks
    /\ futex_waiters \in Seq(Waiter)
    /\ params \in Param
    /\ futex_state \in [Thread -> {"Enabled", "Futex"}] /\ futex_timed \in [Thread -> BOOLEAN]
    /\ waits \in [Thread -> [val : Value, param : Param] \cup {NoCall}]
    /\ owes \in [Thread -> BOOLEAN]
    /\ futex_halt \in {"no", "panic"}

(* A thread is blocked on the futex iff it stands in the queue, and then   *)
(* once: wake, count-limited wake and time-out all leave the two in step,  *)
(* and futex_wait's "thread is already waiting" assertion cannot fire.     *)
QueueInPlace ==
    /\ futex_halt # "panic"
    /\ \A t \in Thread : futex_state[t] = "Futex" <=> \E i \in 1 .. Len(futex_waiters) : futex_waiters[i].thread = t
    /\ \A i, j \in 1 .. Len(futex_waiters) : futex_waiters[i].thread = futex_waiters[j].thread => i = j

(* Whoever sleeps on a value the word has left waits for a wake that is   *)
(* still to come.                                                          *)
SleepersWillHear ==
    \A t \in Thread : futex_state[t] = "Futex" =>
        \/ waits[t].val = word[Len(word)].val
        \/ \E u \in Thread : owes[u]

(* The long comment of the Linux shim, for Linux and Windows: nobody       *)
(* sleeps on a value that the word has left and whose change has already   *)
(* been announced by a wake.  (On macOS the wake side looks for waiters    *)
(* before its fence.)                                                      *)
FutexNoLostWakeup == flavour # "macos" => SleepersWillHear

(* futex_wake: "each futex-wake happens-before the end of the futex wait": *)
(* whoever is woken knows all that the waker did before the call.          *)
WakeHappensBefore ==
    [][\A w \in Thread :
        futex_state[w] = "Futex" /\ futex_state'[w] = "Enabled" /\ futex_clock' # futex_clock
          => \E t \in Thread \ {w} : ClockLeq(clocks[t].clock, clocks'[w].clock)]_futexVars

(* macOS: "if there are waiters in the queue, they have all used the       *)
(* parameters stored in futex", which the wake side relies on.             *)
WaitersAgree ==
    flavour = "macos" => \A t \in Thread : futex_state[t] = "Futex" => waits[t].param = params
=============================================================================
