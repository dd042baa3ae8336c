--------------------------- MODULE ThreadManager ---------------------------
(***************************************************************************)
(* ThreadManager of src/src/concurrency/thread.rs and the interpreter loop *)
(* of scheduler.rs: threads are created, join, detach, block with or       *)
(* without a deadline, are unblocked, yield and terminate; kernel tasks    *)
(* hand CPUs to each other.  The loop alternates schedule() and one step   *)
(* of the active thread, whatever state that thread is in.  Data, clocks   *)
(* and host I/O are left out.                                              *)
(***************************************************************************)
EXTENDS Naturals, Sequences, FiniteSets

CONSTANTS
    MaxThreads,   \* bound: threads ever created, the main one included
    MaxTime,      \* bound: the virtual monotonic clock
    Cpus,         \* CPU_NUM
    None,
    Configs       \* the configurations and kinds of programs Miri is started with

ASSUME ThreadManagerAssumption ==
    /\ MaxThreads \in Nat \ {0} /\ MaxTime \in Nat /\ Cpus \in Nat \ {0, 1}
    /\ None \notin Nat
    /\ Configs \subseteq [threads : 1 .. MaxThreads, time : 0 .. MaxTime,
                          fixed_scheduling : BOOLEAN, preemption : BOOLEAN,
                          windows : BOOLEAN, kernel : BOOLEAN, main_blocks : BOOLEAN]

Thread == 0 .. MaxThreads - 1      \* ThreadId
Main == 0                          \* ThreadId::MAIN_THREAD
Cpu == 0 .. Cpus - 1

VARIABLES
    config,            \* one of Configs, never changed
    state,             \* ThreadState and BlockReason
    deadline, joins,   \* of a blocked thread: its deadline; the thread it joins
    join_status,
    active_thread, yield_active_thread,
    stack_pool,        \* StackState.using of each pooled stack
    stack,             \* the pooled stack a thread got, or 0
    now,
    active_cpu, next_cpu, cpu_to_threads, next_thread,
    thread_map,        \* kernel tasks
    successor,         \* miri_switch_to_after_return: whom the task hands over to
    phase,             \* schedule, step or sleep: where the loop stands
    halt

threadVars == <<state, deadline, joins, join_status, stack_pool, stack, thread_map, successor>>
cpuVars == <<active_cpu, next_cpu, cpu_to_threads, next_thread>>
vars == <<config, threadVars, cpuVars, active_thread, yield_active_thread, now, phase, halt>>

FixedScheduling == config.fixed_scheduling   \* -Zmiri-fixed-schedule
Preemption == config.preemption              \* preemption_rate > 0 (the default is 0)
Windows == config.windows                    \* join_thread may be called by several threads
Kernel == config.kernel                      \* kernel tasks instead of std threads
MainBlocks == config.main_blocks             \* the main thread calls blocking functions

BlockedStates == {"Join", "Sleep", "Sync"}
Enabled(t) == state[t] = "Enabled"
Blocked(t) == state[t] \in BlockedStates
Created == {t \in Thread : state[t] # "Unborn"}

Init ==
    /\ config \in Configs
    /\ state = [t \in Thread |-> IF t = Main THEN "Enabled" ELSE "Unborn"]
    /\ deadline = [t \in Thread |-> None] /\ joins = [t \in Thread |-> None]
    /\ join_status = [t \in Thread |-> IF t = Main /\ ~Windows THEN "Detached" ELSE "Joinable"]
    /\ active_thread = Main /\ yield_active_thread = FALSE
    /\ stack_pool = <<>> /\ stack = [t \in Thread |-> 0]
    /\ now = 0
    /\ active_cpu = 0 /\ next_cpu = None
    /\ cpu_to_threads = [c \in Cpu |-> IF c = 0 THEN Main ELSE None]
    /\ next_thread = [c \in Cpu |-> None]
    /\ thread_map = {} /\ successor = [t \in Thread |-> None]
    /\ phase = "schedule" /\ halt = "no"

-----------------------------------------------------------------------------
(* The scheduler. *)

(* unblock_expired_deadlines: the threads it wakes. *)
Expired == {t \in Thread : Blocked(t) /\ deadline[t] # None /\ deadline[t] <= now}

(* unblock_thread, for every thread in S. *)
Woken(S) ==
    /\ state' = [t \in Thread |-> IF t \in S THEN "Enabled" ELSE state[t]]
    /\ deadline' = [t \in Thread |-> IF t \in S THEN None ELSE deadline[t]]
    /\ joins' = [t \in Thread |-> IF t \in S THEN None ELSE joins[t]]

(* Mutant: the search for a thread always starts with the main thread. *)
RankFromMain(t) == t

(* Position of t in the list of threads rotated to start after the active. *)
Rank(t) == IF t > active_thread THEN t ELSE t + MaxThreads

(* The threads schedule may pick among the enabled ones E. *)
Choices(E) == IF FixedScheduling THEN {t \in E : \A u \in E : Rank(t) <= Rank(u)} ELSE E

(* Leaving for next_cpu runs whatever thread that CPU is recorded with. *)
GoToNextCpu(threadOn) ==
    /\ active_cpu' = next_cpu
    /\ active_thread' = threadOn[next_cpu]
    /\ next_cpu' = None

(* schedule_switch_thread_and_cpu, a queued thread: it runs, or the other  *)
(* CPU does; if it is not enabled, a deadlock is reported.                 *)
SwitchThread ==
    LET id == next_thread[active_cpu]
        threadOn == [cpu_to_threads EXCEPT ![active_cpu] = id]
    IN
    /\ phase = "schedule" /\ halt = "no" /\ id # None
    /\ cpu_to_threads' = threadOn
    /\ next_thread' = [next_thread EXCEPT ![active_cpu] = None]
    /\ halt' = IF id = active_thread THEN "panic" ELSE IF ~Enabled(id) THEN "deadlock" ELSE halt
    /\ IF Enabled(id) /\ next_cpu # None THEN GoToNextCpu(threadOn)
       ELSE active_thread' = id /\ UNCHANGED <<active_cpu, next_cpu>>
    /\ phase' = "step"
    /\ UNCHANGED <<threadVars, yield_active_thread, now>>

(* Mutant: a terminated thread falls back to main before its successor. *)
MayFallBackFirst == TRUE

MayFallBack == next_thread[active_cpu] = None

(* schedule_switch_thread_and_cpu, the active thread has terminated. *)
FallBackToMain ==
    /\ phase = "schedule" /\ halt = "no"
    /\ MayFallBack
    /\ state[active_thread] = "Terminated"
    /\ active_thread' = Main
    /\ phase' = "step"
    /\ UNCHANGED <<threadVars, cpuVars, yield_active_thread, now, halt>>

(* schedule_switch_thread_and_cpu, a CPU switch is due. *)
SwitchCpu ==
    /\ phase = "schedule" /\ halt = "no"
    /\ next_thread[active_cpu] = None
    /\ state[active_thread] # "Terminated"
    /\ next_cpu # None
    /\ GoToNextCpu(cpu_to_threads)
    /\ phase' = "step"
    /\ UNCHANGED <<threadVars, cpu_to_threads, next_thread, yield_active_thread, now, halt>>

NothingDue ==
    /\ phase = "schedule" /\ halt = "no"
    /\ next_thread[active_cpu] = None /\ next_cpu = None
    /\ state[active_thread] # "Terminated"

(* schedule: keep running the active thread. *)
KeepRunning ==
    /\ NothingDue
    /\ Enabled(active_thread) /\ ~yield_active_thread
    /\ phase' = "step"
    /\ UNCHANGED <<threadVars, cpuVars, active_thread, yield_active_thread, now, halt>>

(* Mutant: pending deadlines are overlooked. *)
PendingNone(S) == {}

(* potential_sleep_time: threads whose deadline is still to come. *)
Pending(S) == {t \in Thread : Blocked(t) /\ t \notin S /\ deadline[t] # None}

(* schedule: the active thread blocked or yielded. *)
PickThread ==
    LET S == Expired
        E == {t \in Thread : Enabled(t) \/ t \in S}
    IN
    /\ NothingDue
    /\ ~(Enabled(active_thread) /\ ~yield_active_thread)
    /\ Woken(S)
    /\ yield_active_thread' = FALSE
    /\ IF E # {} THEN active_thread' \in Choices(E) ELSE UNCHANGED active_thread
    /\ phase' = IF E # {} THEN "step" ELSE "sleep"
    /\ halt' = IF E = {} /\ Pending(S) = {} THEN "deadlock" ELSE halt
    /\ UNCHANGED <<cpuVars, now, join_status, stack_pool, stack, thread_map, successor>>

(* SleepAndWaitForIo: sleep until the first deadline. *)
Sleep ==
    /\ phase = "sleep" /\ halt = "no"
    /\ \E t \in Thread :
        /\ Blocked(t) /\ deadline[t] # None
        /\ \A u \in Thread : deadline[u] # None => deadline[t] <= deadline[u]
        /\ now' = deadline[t]
    /\ phase' = "schedule"
    /\ UNCHANGED <<threadVars, cpuVars, active_thread, yield_active_thread, halt>>

-----------------------------------------------------------------------------
(* One step of the active thread.  A terminated thread has an empty stack. *)

Stepping == phase = "step" /\ halt = "no" /\ state[active_thread] # "Terminated"

(* The end of every basic block: some time passes, the thread may be       *)
(* preempted (`asks`: it asked for it), the CPU may be switched.           *)
EndOfBlock(asks) ==
    /\ phase' = "schedule"
    /\ now' \in {now, IF now < config.time THEN now + 1 ELSE now}
    /\ IF asks THEN yield_active_thread' = TRUE
       ELSE yield_active_thread' \in
              {yield_active_thread} \cup (IF FixedScheduling \/ ~Preemption THEN {} ELSE {TRUE})
    /\ LET other == (active_cpu + 1) % Cpus IN
       next_cpu' \in {next_cpu} \cup
          (IF cpu_to_threads'[other] # None THEN {other} ELSE {})

(* A step that touches no other thread, or sched_yield. *)
Compute(asks) ==
    /\ Stepping
    /\ UNCHANGED <<threadVars, active_thread, active_cpu, cpu_to_threads, next_thread, halt>>
    /\ EndOfBlock(asks)

(* Mutant: a stack that is in use counts as free. *)
FreeStacksAll == 1 .. Len(stack_pool)

FreeStacks == {i \in 1 .. Len(stack_pool) : ~stack_pool[i]}

(* get_stack_range; all pooled stacks have the configured size, and of     *)
(* equally good ones the last is taken.                                    *)
GetStackRange(t) ==
    IF FreeStacks # {}
    THEN LET i == CHOOSE i \in FreeStacks : \A j \in FreeStacks : j <= i IN
         /\ stack' = [stack EXCEPT ![t] = i]
         /\ stack_pool' = [stack_pool EXCEPT ![i] = TRUE]
    ELSE /\ stack' = [stack EXCEPT ![t] = Len(stack_pool) + 1]
         /\ stack_pool' = Append(stack_pool, TRUE)

(* start_regular_thread; kernel tasks bring their own stack, and an        *)
(* application processor's first task becomes that CPU's thread.           *)
CreateThread ==
    /\ Stepping /\ Cardinality(Created) < config.threads
    /\ LET t == Cardinality(Created) IN
       /\ state' = [state EXCEPT ![t] = "Enabled"]
       /\ IF Kernel
          THEN /\ thread_map' = thread_map \cup {t}
               /\ \/ UNCHANGED cpu_to_threads
                  \/ \E c \in Cpu : cpu_to_threads[c] = None /\ active_cpu = 0
                                    /\ cpu_to_threads' = [cpu_to_threads EXCEPT ![c] = t]
               /\ UNCHANGED <<stack, stack_pool>>
          ELSE GetStackRange(t) /\ UNCHANGED <<thread_map, cpu_to_threads>>
    /\ UNCHANGED <<deadline, joins, join_status, successor, active_thread, active_cpu,
                   next_thread, halt>>
    /\ EndOfBlock(FALSE)

(* The calls that may block. *)
MayBlock == Stepping /\ ~Kernel /\ (active_thread # Main \/ MainBlocks)

(* block_thread: asserts that the thread is enabled. *)
BlockThread(reason, until, joined) ==
    /\ state' = [state EXCEPT ![active_thread] = reason]
    /\ deadline' = [deadline EXCEPT ![active_thread] = until]
    /\ joins' = [joins EXCEPT ![active_thread] = joined]
    /\ halt' = IF Enabled(active_thread) THEN halt ELSE "panic"

(* A sleep, or a wait on a synchronization object with or without timeout. *)
Block(reason, until) ==
    /\ MayBlock
    /\ reason = "Sleep" => until # None
    /\ BlockThread(reason, until, None)
    /\ UNCHANGED <<join_status, stack_pool, stack, thread_map, successor,
                   active_thread, active_cpu, cpu_to_threads, next_thread>>
    /\ EndOfBlock(FALSE)

(* The step wakes u from a synchronization object. *)
Unblock(u) ==
    /\ Stepping /\ state[u] = "Sync" /\ u # active_thread
    /\ Woken({u})
    /\ UNCHANGED <<join_status, stack_pool, stack, thread_map, successor,
                   active_thread, active_cpu, cpu_to_threads, next_thread, halt>>
    /\ EndOfBlock(FALSE)

Stop(how) == halt' = how /\ UNCHANGED <<threadVars, cpuVars, active_thread,
                                         yield_active_thread, now, phase>>

(* join_thread_exclusive (pthread_join) and join_thread (Windows). *)
JoinIsUB(u) ==
    \/ join_status[u] = "Detached"
    \/ ~Windows /\ (join_status[u] = "Joined" \/ u = active_thread)

Join(u) ==
    /\ MayBlock /\ u \in Created
    /\ IF JoinIsUB(u) THEN Stop("ub")
       ELSE IF ~Windows /\ \E t \in Thread : state[t] = "Join" /\ joins[t] = u THEN Stop("panic")
       ELSE /\ join_status' = [join_status EXCEPT ![u] = "Joined"]
            /\ IF state[u] = "Terminated" THEN UNCHANGED <<state, deadline, joins, halt>>
               ELSE BlockThread("Join", None, u)
            /\ UNCHANGED <<stack_pool, stack, thread_map, successor,
                           active_thread, active_cpu, cpu_to_threads, next_thread>>
            /\ EndOfBlock(FALSE)

(* Mutant: a thread somebody is joining may be detached. *)
DetachIsUBLater(u) == join_status[u] = "Detached"

(* detach_thread (pthread_detach, CloseHandle). *)
DetachIsUB(u) == IF Windows /\ state[u] = "Terminated" THEN join_status[u] = "Detached"
                 ELSE join_status[u] # "Joinable"

Detach(u) ==
    /\ Stepping /\ ~Kernel /\ u \in Created
    /\ IF DetachIsUB(u) THEN Stop("ub")
       ELSE /\ join_status' = [join_status EXCEPT ![u] = "Detached"]
            /\ UNCHANGED <<state, deadline, joins, stack_pool, stack, thread_map, successor,
                           active_thread, active_cpu, cpu_to_threads, next_thread, halt>>
            /\ EndOfBlock(FALSE)

(* miri_switch_to; a task that switches to itself would be a program error. *)
SwitchTo(u) ==
    /\ Stepping /\ u \in thread_map \ {active_thread}
    /\ next_thread' = [next_thread EXCEPT ![active_cpu] = u]
    /\ UNCHANGED <<threadVars, active_thread, active_cpu, cpu_to_threads, halt>>
    /\ EndOfBlock(FALSE)

(* miri_switch_to_after_return. *)
SwitchToAfterReturn(u) ==
    /\ Stepping /\ active_thread # Main /\ u \in thread_map \ {active_thread}
    /\ successor' = [successor EXCEPT ![active_thread] = u]
    /\ UNCHANGED <<state, deadline, joins, join_status, stack_pool, stack, thread_map,
                   active_thread, active_cpu, cpu_to_threads, next_thread, halt>>
    /\ EndOfBlock(FALSE)

Joiners(t) == {u \in Thread : state[u] = "Join" /\ joins[u] = t}

(* The stack ran empty and on_stack_empty is done: terminate_active_thread. *)
(* The end of the main thread ends the program.                            *)
TerminateActiveThread ==
    LET t == active_thread
        S == Joiners(t)
        i == stack[t]
    IN
    /\ phase = "step" /\ halt = "no"
    /\ IF t = Main THEN Stop("exit")
       ELSE /\ state' = [u \in Thread |-> IF u = t THEN "Terminated"
                                          ELSE IF u \in S THEN "Enabled" ELSE state[u]]
            /\ deadline' = [deadline EXCEPT ![t] = None]
            /\ joins' = [u \in Thread |-> IF u \in S \cup {t} THEN None ELSE joins[u]]
            /\ stack_pool' = IF i = 0 THEN stack_pool ELSE [stack_pool EXCEPT ![i] = FALSE]
            /\ halt' = IF i # 0 /\ ~stack_pool[i] THEN "panic" ELSE halt
            /\ next_thread' = IF successor[t] = None THEN next_thread
                              ELSE [next_thread EXCEPT ![active_cpu] = successor[t]]
            /\ phase' = "schedule"
            /\ UNCHANGED <<join_status, stack, thread_map, successor, active_thread,
                           active_cpu, next_cpu, cpu_to_threads, yield_active_thread, now>>

Step ==
    /\ UNCHANGED config
    /\ \/ \E asks \in BOOLEAN : Compute(asks)
       \/ CreateThread \/ TerminateActiveThread
       \/ \E u \in Thread : Join(u) \/ Detach(u) \/ Unblock(u) \/ SwitchTo(u) \/ SwitchToAfterReturn(u)
       \/ \E reason \in {"Sleep", "Sync"}, until \in {None} \cup now .. config.time :
             Block(reason, until)

Schedule ==
    /\ UNCHANGED config
    /\ SwitchThread \/ FallBackToMain \/ SwitchCpu \/ KeepRunning \/ PickThread \/ Sleep

Next == Schedule \/ Step

Spec == Init /\ [][Next]_vars

-----------------------------------------------------------------------------

(* The shape of the state; deadlines and join targets are parts of a wait. *)
TypeOK ==
    /\ config \in Configs
    /\ \A t \in Thread : deadline[t] # None => Blocked(t)
    /\ \A t \in Thread : joins[t] # None <=> state[t] = "Join"
    /\ state \in [Thread -> BlockedStates \cup {"Unborn", "Enabled", "Terminated"}]
    /\ deadline \in [Thread -> 0 .. MaxTime \cup {None}] /\ joins \in [Thread -> Thread \cup {None}]
    /\ join_status \in [Thread -> {"Joinable", "Detached", "Joined"}]
    /\ active_thread \in Thread /\ yield_active_thread \in BOOLEAN
    /\ stack_pool \in Seq(BOOLEAN) /\ stack \in [Thread -> 0 .. Len(stack_pool)]
    /\ now \in 0 .. MaxTime
    /\ active_cpu \in Cpu /\ next_cpu \in Cpu \cup {None}
    /\ cpu_to_threads \in [Cpu -> Thread \cup {None}] /\ next_thread \in [Cpu -> Thread \cup {None}]
    /\ thread_map \subseteq Thread /\ successor \in [Thread -> Thread \cup {None}]
    /\ phase \in {"schedule", "step", "sleep"}
    /\ halt \in {"no", "ub", "panic", "deadlock", "exit"}

(* No assertion of block_thread, join_thread_exclusive ("this thread       *)
(* already has threads waiting for its termination"), the stack pool or    *)
(* the thread switch fails, unless the main thread blocks: then it may be  *)
(* run although it is blocked (BlockedNeverRuns).                          *)
NoPanic == ~MainBlocks => halt # "panic"

(* Whoever is blocked in a join waits for a thread that is still alive and *)
(* is marked as joined: the end of a thread strands nobody, and it cannot  *)
(* be detached under a joiner.                                             *)
JoinersWaitForLive ==
    \A t \in Thread : state[t] = "Join" =>
        joins[t] # None /\ state[joins[t]] # "Terminated" /\ join_status[joins[t]] = "Joined"

(* Two live threads never share a stack, and a stack is marked as used     *)
(* exactly while a live thread has it, however threads come and go.        *)
StacksExclusive ==
    LET live == {t \in Created : state[t] # "Terminated" /\ stack[t] # 0} IN
    /\ \A t, u \in live : stack[t] = stack[u] => t = u
    /\ \A i \in 1 .. Len(stack_pool) : stack_pool[i] <=> \E t \in live : stack[t] = i

(* GlobalDeadlock is reported only when no thread can ever run again.      *)
DeadlockIsReal ==
    ~Kernel /\ halt = "deadlock" => \A t \in Thread : ~Enabled(t) /\ deadline[t] = None

(* schedule: "timeouts in the past fire before any other thread can take   *)
(* an action": a call whose deadline has passed when it blocks returns     *)
(* with a timeout before anything else runs.                               *)
PastDeadlineFiresFirst ==
    [][/\ phase = "schedule" /\ phase' = "step"
       /\ Blocked(active_thread) /\ deadline[active_thread] \in 0 .. now
       => state'[active_thread] = "Enabled"]_vars

(* A blocked thread other than the main one takes no step, whatever the    *)
(* scheduler, preemption, deadlines and CPU switches do.                   *)
SpawnedBlockedNeverRuns ==
    phase = "step" /\ halt = "no" /\ active_thread # Main => ~Blocked(active_thread)

(* "Enabled: the thread is enabled and can be executed", "Blocked: the     *)
(* thread is blocked on something": a blocked thread takes no step.        *)
BlockedNeverRuns == phase = "step" /\ halt = "no" => ~Blocked(active_thread)

(* schedule_switch_thread_and_cpu: "a terminating kernel task may have     *)
(* queued a successor; honor it before falling back to the main thread":   *)
(* on the CPU it leaves, its successor is next.                            *)
SuccessorHonoured ==
    [][phase = "schedule" /\ phase' = "step" /\ state[active_thread] = "Terminated"
       /\ successor[active_thread] # None
        => cpu_to_threads'[active_cpu] = successor[active_thread]]_vars

(* The scheduler reports only real deadlocks, runs no spawned thread that  *)
(* is blocked, and trips over no assertion.                                *)
SchedulingIsSound == TypeOK /\ NoPanic /\ DeadlockIsReal /\ SpawnedBlockedNeverRuns

(* A deadline that has passed fires before anything else runs, and a       *)
(* kernel task that ends hands its CPU to the successor it queued.         *)
SwitchesHonoured == PastDeadlineFiresFirst /\ SuccessorHonoured

(* Steps in which the active thread yields, blocks or ends instead of      *)
(* spinning on.                                                            *)
Pauses ==
    /\ UNCHANGED config
    /\ \/ Compute(TRUE) \/ TerminateActiveThread
       \/ \E r \in {"Sleep", "Sync"}, d \in {None} \cup now .. config.time : Block(r, d)

(* Round-robin scheduling: "all threads get a chance to take a step", in   *)
(* every program in which whoever is active yields, blocks or ends after a *)
(* while.  That is a condition on the program: with fixed scheduling the   *)
(* interpreter preempts nobody.                                            *)
AllGetAChance ==
    []<><<Pauses>>_vars =>
        \A t \in Thread : (FixedScheduling /\ Enabled(t) /\ halt = "no") ~> (active_thread = t \/ ~Enabled(t) \/ halt # "no")
=============================================================================
