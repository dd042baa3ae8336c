------------------------- MODULE ThreadManagerProofs -------------------------
(***************************************************************************)
(* Proofs about ThreadManager, for any number of threads, CPUs (two at     *)
(* least) and instants, and for any set of configurations.                 *)
(***************************************************************************)
EXTENDS ThreadManager, FiniteSetTheorems, WellFoundedInduction, TLAPS

(* Threads are numbered in the order of their creation; who runs exists,   *)
(* the main thread has not terminated, and a join has no deadline.         *)
Births ==
    /\ \E n \in 1 .. MaxThreads : Created = 0 .. n - 1
    /\ active_thread \in Created
    /\ state[Main] # "Terminated"
    /\ \A t \in Thread : state[t] = "Join" => deadline[t] = None

(* Kernel tasks do not block and bring their own stacks; std threads use   *)
(* none of the CPU maps.                                                   *)
Worlds ==
    IF Kernel THEN \A t \in Thread : ~Blocked(t) /\ stack[t] = 0
    ELSE /\ thread_map = {} /\ active_cpu = 0 /\ next_cpu = None
         /\ \A c \in Cpu \ {0} : cpu_to_threads[c] = None

(* The CPU maps name existing threads; a queued thread is a task other     *)
(* than the one that queued it, and the next schedule() takes it up.       *)
Tasks ==
    /\ thread_map \subseteq Created
    /\ \A t \in Thread : successor[t] \in (thread_map \ {t}) \cup {None}
    /\ \A c \in Cpu : cpu_to_threads[c] \in Created \cup {None}
    /\ next_cpu # None => cpu_to_threads[next_cpu] # None
    /\ \A c \in Cpu : next_thread[c] # None =>
         phase = "schedule" /\ c = active_cpu /\ next_thread[c] \in thread_map \ {active_thread}

(* Where a terminated thread may be the active one. *)
Ended ==
    /\ phase = "sleep" => state[active_thread] # "Terminated"
    /\ ~Kernel /\ phase = "step" /\ halt = "no" => state[active_thread] # "Terminated"
    /\ phase = "schedule" /\ state[active_thread] = "Terminated" /\ successor[active_thread] # None
         => next_thread[active_cpu] = successor[active_thread]

IInv == SchedulingIsSound /\ JoinersWaitForLive /\ StacksExclusive /\ Births /\ Worlds /\ Tasks /\ Ended
-----------------------------------------------------------------------------

Fates == BlockedStates \cup {"Unborn", "Enabled", "Terminated"}

(* Nobody is born and nobody ends. *)
SameLives ==
    \A t \in Thread : /\ state'[t] = "Unborn" <=> state[t] = "Unborn"
                      /\ state'[t] = "Terminated" <=> state[t] = "Terminated"

LEMMA Constants ==
    /\ MaxThreads \in Nat \ {0} /\ MaxTime \in Nat /\ Cpus \in Nat \ {0, 1} /\ None \notin Nat
    /\ Main \in Thread /\ Thread \subseteq Nat /\ None \notin Thread
    /\ 0 \in Cpu /\ Cpu \subseteq Nat /\ None \notin Cpu /\ 1 \in Cpu
    /\ \A c \in Configs : /\ c.time \in 0 .. MaxTime /\ c.threads \in 1 .. MaxThreads
                          /\ c.kernel \in BOOLEAN /\ c.windows \in BOOLEAN /\ c.main_blocks \in BOOLEAN
<1>1. MaxThreads \in Nat \ {0} /\ MaxTime \in Nat /\ Cpus \in Nat \ {0, 1} /\ None \notin Nat
  BY ThreadManagerAssumption
<1>2. Main \in Thread /\ Thread \subseteq Nat /\ None \notin Thread
  BY <1>1 DEF Thread, Main
<1>3. 0 \in Cpu /\ Cpu \subseteq Nat /\ None \notin Cpu /\ 1 \in Cpu
  BY <1>1 DEF Cpu
<1>4. \A c \in Configs : /\ c.time \in 0 .. MaxTime /\ c.threads \in 1 .. MaxThreads
                         /\ c.kernel \in BOOLEAN /\ c.windows \in BOOLEAN /\ c.main_blocks \in BOOLEAN
  BY ThreadManagerAssumption
<1> QED BY <1>1, <1>2, <1>3, <1>4

(* The next CPU is another one. *)
LEMMA OtherCpu ==
    ASSUME NEW c \in Cpu
    PROVE  (c + 1) % Cpus \in Cpu /\ (c = 0 => (c + 1) % Cpus # 0)
<1>1. Cpus \in Nat \ {0, 1} /\ c \in 0 .. Cpus - 1
  BY Constants DEF Cpu
<1>2. CASE c = Cpus - 1
  <2>1. (c + 1) % Cpus = 0
    BY <1>1, <1>2
  <2> QED BY <2>1, <1>1, <1>2 DEF Cpu
<1>3. CASE c # Cpus - 1
  <2>1. (c + 1) % Cpus = c + 1
    BY <1>1, <1>3
  <2> QED BY <2>1, <1>1, <1>3 DEF Cpu
<1> QED BY <1>2, <1>3

(* A set of numbers up to n has a greatest one. *)
LEMMA Greatest ==
    ASSUME NEW n \in Nat, NEW T \in SUBSET (1 .. n), T # {}
    PROVE  \E i \in T : \A j \in T : j <= i
<1> DEFINE D == {d \in Nat : n - d \in T}
           R == {ss \in Nat \X Nat : ss[1] < ss[2]}
<1>1. D \subseteq Nat /\ D # {}
  <2>1. PICK i \in T : TRUE
    OBVIOUS
  <2>2. n - i \in Nat /\ n - (n - i) = i
    OBVIOUS
  <2> QED BY <2>1, <2>2
<1>2. \A x, y \in Nat : x < y => <<x, y>> \in R
  OBVIOUS
<1>3. IsWellFoundedOn(R, Nat)
  BY NatLessThanWellFounded, Zenon DEF OpToRel
<1> HIDE DEF R
<1>4. PICK x \in D : \A y \in D : ~(<<y, x>> \in R)
  <2> HIDE DEF D
  <2> QED BY <1>1, <1>3, WFMin
<1>5. n - x \in T /\ x \in Nat
  OBVIOUS
<1>6. \A j \in T : j <= n - x
  <2> SUFFICES ASSUME NEW j \in T, ~(j <= n - x) PROVE FALSE
    OBVIOUS
  <2>1. n - j \in Nat /\ n - (n - j) = j /\ n - j < x
    BY <1>5
  <2>2. n - j \in D
    BY <2>1
  <2> QED BY <2>1, <2>2, <1>2, <1>4, <1>5
<1> QED BY <1>5, <1>6

(* How many threads there are is the number of the next one. *)
LEMMA NextThread ==
    ASSUME NEW n \in 1 .. MaxThreads, Created = 0 .. n - 1
    PROVE  Cardinality(Created) = n
<1>1. n \in Nat /\ n > 0 /\ n - 1 \in Int /\ ~(0 > n - 1) /\ (n - 1) - 0 + 1 = n
  BY Constants
<1> QED BY <1>1, FS_Interval

LEMMA LivesKept ==
    ASSUME SameLives, StacksExclusive, Births, TypeOK, state' \in [Thread -> Fates],
           stack' = stack, stack_pool' = stack_pool
    PROVE  StacksExclusive' /\ Created' = Created
<1>1. Created' = Created
  BY DEF Created, SameLives
<1>2. \A t \in Thread : state'[t] # "Terminated" <=> state[t] # "Terminated"
  BY DEF SameLives
<1>3. StacksExclusive'
  BY <1>1, <1>2 DEF StacksExclusive, Created
<1> QED BY <1>1, <1>3

LEMMA InitHolds == Init => IInv
<1> SUFFICES ASSUME Init PROVE IInv
  OBVIOUS
<1> USE Constants
<1>1. TypeOK
  <2>0. config \in Configs /\ now = 0 /\ active_thread = Main /\ yield_active_thread = FALSE /\ phase = "schedule" /\ halt = "no"
    BY Zenon DEF Init
  <2>y. yield_active_thread \in BOOLEAN
    BY <2>0, Zenon
  <2>1. /\ config \in Configs /\ now \in 0 .. MaxTime /\ active_thread \in Thread
        /\ phase \in {"schedule", "step", "sleep"} /\ halt \in {"no", "ub", "panic", "deadlock", "exit"}
    BY <2>0
  <2>2. state \in [Thread -> Fates] /\ \A t \in Thread : state[t] # "Join"
    BY DEF Init, Fates
  <2>3. /\ \A t \in Thread : deadline[t] = None /\ joins[t] = None
        /\ deadline \in [Thread -> 0 .. MaxTime \cup {None}] /\ joins \in [Thread -> Thread \cup {None}]
        /\ thread_map \subseteq Thread /\ successor \in [Thread -> Thread \cup {None}]
    BY DEF Init
  <2>4. join_status \in [Thread -> {"Joinable", "Detached", "Joined"}]
    BY DEF Init
  <2>5. stack_pool \in Seq(BOOLEAN) /\ stack \in [Thread -> 0 .. Len(stack_pool)]
    BY DEF Init
  <2>6. /\ active_cpu \in Cpu /\ next_cpu \in Cpu \cup {None}
        /\ cpu_to_threads \in [Cpu -> Thread \cup {None}] /\ next_thread \in [Cpu -> Thread \cup {None}]
    BY DEF Init
  <2> QED BY <2>y, <2>1, <2>2, <2>3, <2>4, <2>5, <2>6 DEF TypeOK, Fates
<1>2. NoPanic /\ DeadlockIsReal /\ SpawnedBlockedNeverRuns /\ JoinersWaitForLive
  BY DEF Init, NoPanic, DeadlockIsReal, SpawnedBlockedNeverRuns, JoinersWaitForLive
<1>3. StacksExclusive
  BY DEF Init, StacksExclusive, Created
<1>4. Created = 0 .. 1 - 1
  BY DEF Init, Created, Main
<1>5. Births
  <2>1. 1 \in 1 .. MaxThreads
    OBVIOUS
  <2>2. \A t \in Thread : state[t] # "Join"
    BY DEF Init
  <2>3. active_thread \in Created /\ state[Main] # "Terminated"
    BY DEF Init, Created
  <2> QED BY <1>4, <2>1, <2>2, <2>3 DEF Births
<1>6. Worlds
  BY DEF Init, Worlds, Blocked, BlockedStates
<1>7. Tasks
  BY DEF Init, Tasks, Created
<1>8. Ended
  BY DEF Init, Ended
<1> QED BY <1>1, <1>2, <1>3, <1>5, <1>6, <1>7, <1>8 DEF IInv, SchedulingIsSound

-----------------------------------------------------------------------------
(* The scheduler. *)

LEMMA Parts ==
    IInv <=> /\ TypeOK /\ NoPanic /\ DeadlockIsReal /\ SpawnedBlockedNeverRuns
             /\ JoinersWaitForLive /\ StacksExclusive /\ Births /\ Worlds /\ Tasks /\ Ended
  BY DEF IInv, SchedulingIsSound

LEMMA PartsNext ==
    IInv' <=> /\ TypeOK' /\ NoPanic' /\ DeadlockIsReal' /\ SpawnedBlockedNeverRuns'
              /\ JoinersWaitForLive' /\ StacksExclusive' /\ Births' /\ Worlds' /\ Tasks' /\ Ended'
  BY DEF IInv, SchedulingIsSound

LEMMA CreatedAreThreads == Created \subseteq Thread /\ (TypeOK => active_thread \in Thread /\ active_cpu \in Cpu)
  BY DEF Created, TypeOK

(* A step of the scheduler that leaves the threads alone. *)
LEMMA ScheduleFrame ==
    ASSUME IInv, config' = config, UNCHANGED threadVars, active_thread' \in Created,
           yield_active_thread' \in BOOLEAN, now' \in 0 .. MaxTime,
           active_cpu' \in Cpu, next_cpu' \in Cpu \cup {None},
           cpu_to_threads' \in [Cpu -> Thread \cup {None}], next_thread' \in [Cpu -> Thread \cup {None}],
           phase' \in {"schedule", "step", "sleep"}, halt' \in {"no", "ub", "panic", "deadlock", "exit"}
    PROVE  /\ TypeOK' /\ JoinersWaitForLive' /\ StacksExclusive' /\ Births' /\ Created' = Created
           /\ Kernel' = Kernel /\ MainBlocks' = MainBlocks
           /\ state' = state /\ deadline' = deadline /\ stack' = stack /\ thread_map' = thread_map /\ successor' = successor
<1>1. /\ state' = state /\ deadline' = deadline /\ joins' = joins /\ join_status' = join_status
      /\ stack_pool' = stack_pool /\ stack' = stack /\ thread_map' = thread_map /\ successor' = successor
  BY DEF threadVars
<1>2. Created' = Created
  BY <1>1 DEF Created
<1>3. active_thread' \in Thread
  BY CreatedAreThreads
<1>4. TypeOK'
  BY <1>1, <1>3, Parts DEF TypeOK, Blocked
<1>5. JoinersWaitForLive' /\ StacksExclusive'
  BY <1>1, <1>2, Parts DEF JoinersWaitForLive, StacksExclusive
<1>6. Births'
  BY <1>1, <1>2, Parts DEF Births
<1>7. Kernel' = Kernel /\ MainBlocks' = MainBlocks
  BY DEF Kernel, MainBlocks
<1> QED BY <1>1, <1>2, <1>4, <1>5, <1>6, <1>7

LEMMA SwitchThreadKeeps ==
    ASSUME IInv, config' = config, SwitchThread
    PROVE  IInv'
<1> DEFINE id == next_thread[active_cpu]
           threadOn == [cpu_to_threads EXCEPT ![active_cpu] = id]
<1>1. TypeOK /\ NoPanic /\ Worlds /\ Tasks
  BY Parts
<1>2. /\ active_cpu \in Cpu /\ next_cpu \in Cpu \cup {None} /\ now \in 0 .. MaxTime
      /\ cpu_to_threads \in [Cpu -> Thread \cup {None}] /\ next_thread \in [Cpu -> Thread \cup {None}]
      /\ halt \in {"no", "ub", "panic", "deadlock", "exit"} /\ Created \subseteq Thread
  BY <1>1, CreatedAreThreads DEF TypeOK
<1>3. /\ phase = "schedule" /\ halt = "no" /\ id # None /\ cpu_to_threads' = threadOn /\ phase' = "step"
      /\ next_thread' = [next_thread EXCEPT ![active_cpu] = None]
      /\ halt' = IF id = active_thread THEN "panic" ELSE IF ~Enabled(id) THEN "deadlock" ELSE halt
      /\ IF Enabled(id) /\ next_cpu # None THEN GoToNextCpu(threadOn)
         ELSE active_thread' = id /\ UNCHANGED <<active_cpu, next_cpu>>
      /\ UNCHANGED <<threadVars, yield_active_thread, now>>
  BY DEF SwitchThread
<1>4. id \in thread_map \ {active_thread} /\ id \in Created /\ id \in Thread
  BY <1>1, <1>2, <1>3 DEF Tasks
<1>5. Kernel /\ \A t \in Thread : ~Blocked(t) /\ stack[t] = 0
  BY <1>1, <1>4 DEF Worlds
<1>6. /\ threadOn \in [Cpu -> Thread \cup {None}] /\ threadOn[active_cpu] = id
      /\ \A c \in Cpu : threadOn[c] \in Created \cup {None} /\ (cpu_to_threads[c] # None => threadOn[c] # None)
  BY <1>1, <1>2, <1>3, <1>4 DEF Tasks
<1>7. /\ next_thread' \in [Cpu -> Thread \cup {None}] /\ \A c \in Cpu : next_thread'[c] = None
      /\ cpu_to_threads' \in [Cpu -> Thread \cup {None}]
  BY <1>1, <1>2, <1>3, <1>6 DEF Tasks
<1>8. halt' \in {"no", "deadlock"}
  BY <1>3, <1>4
<1> HIDE DEF threadOn
<1>9. active_thread' \in Created /\ active_cpu' \in Cpu /\ next_cpu' \in Cpu \cup {None} /\ (next_cpu' # None => cpu_to_threads'[next_cpu'] # None)
  <2>1. CASE Enabled(id) /\ next_cpu # None
    <3>1. active_cpu' = next_cpu /\ active_thread' = threadOn[next_cpu] /\ next_cpu' = None
      BY <2>1, <1>3 DEF GoToNextCpu
    <3>2. next_cpu \in Cpu /\ cpu_to_threads[next_cpu] # None
      BY <2>1, <1>1, <1>2 DEF Tasks
    <3> QED BY <3>1, <3>2, <1>6
  <2>2. CASE ~(Enabled(id) /\ next_cpu # None)
    <3>1. active_thread' = id /\ active_cpu' = active_cpu /\ next_cpu' = next_cpu
      BY <2>2, <1>3
    <3>2. next_cpu # None => cpu_to_threads[next_cpu] # None
      BY <1>1 DEF Tasks
    <3> QED BY <3>1, <3>2, <1>2, <1>3, <1>4, <1>6
  <2> QED BY <2>1, <2>2
<1>10. yield_active_thread' \in BOOLEAN /\ now' \in 0 .. MaxTime
  BY <1>1, <1>3 DEF TypeOK
<1>11. /\ TypeOK' /\ JoinersWaitForLive' /\ StacksExclusive' /\ Births' /\ Created' = Created
       /\ Kernel' = Kernel /\ MainBlocks' = MainBlocks
       /\ state' = state /\ deadline' = deadline /\ stack' = stack /\ thread_map' = thread_map /\ successor' = successor
  BY <1>3, <1>7, <1>8, <1>9, <1>10, ScheduleFrame
<1>12. NoPanic' /\ DeadlockIsReal' /\ SpawnedBlockedNeverRuns'
  BY <1>5, <1>8, <1>11 DEF NoPanic, DeadlockIsReal, SpawnedBlockedNeverRuns, TypeOK, Blocked
<1>13. Worlds'
  BY <1>5, <1>11 DEF Worlds, Blocked
<1>14. Tasks'
  BY <1>1, <1>3, <1>6, <1>7, <1>9, <1>11 DEF Tasks
<1>15. Ended'
  BY <1>3, <1>5, <1>11 DEF Ended
<1> QED BY <1>11, <1>12, <1>13, <1>14, <1>15, PartsNext

(* The steps of the scheduler that only change who is active, or nothing.  *)
LEMMA QuietSwitchKeeps ==
    ASSUME IInv, config' = config, FallBackToMain \/ SwitchCpu \/ KeepRunning
    PROVE  IInv'
<1>1. TypeOK /\ NoPanic /\ DeadlockIsReal /\ SpawnedBlockedNeverRuns /\ Births /\ Worlds /\ Tasks
  BY Parts
<1>2. /\ active_cpu \in Cpu /\ next_cpu \in Cpu \cup {None} /\ now \in 0 .. MaxTime /\ None \notin Cpu
      /\ cpu_to_threads \in [Cpu -> Thread \cup {None}] /\ next_thread \in [Cpu -> Thread \cup {None}]
      /\ Created \subseteq Thread /\ Main \in Created /\ yield_active_thread \in BOOLEAN
  <2>1. Main \in Created
    BY <1>1, Constants DEF Births, Main
  <2> QED BY <2>1, <1>1, CreatedAreThreads, Constants DEF TypeOK
<1>3. /\ halt = "no" /\ halt' = halt /\ phase = "schedule" /\ phase' = "step" /\ UNCHANGED threadVars
      /\ cpu_to_threads' = cpu_to_threads /\ next_thread' = next_thread
      /\ yield_active_thread' = yield_active_thread /\ now' = now
      /\ next_thread[active_cpu] = None
  BY DEF FallBackToMain, SwitchCpu, KeepRunning, NothingDue, MayFallBack, cpuVars
<1>4. /\ active_thread' \in Created /\ active_cpu' \in Cpu /\ next_cpu' \in {next_cpu, None}
      /\ ~Kernel => active_cpu' = 0 /\ active_thread' \in {Main, active_thread} /\ next_cpu' = None
      /\ ~Kernel /\ active_thread' # Main => Enabled(active_thread')
  <2>1. CASE FallBackToMain
    BY <2>1, <1>1, <1>2 DEF FallBackToMain, cpuVars, Worlds
  <2>2. CASE SwitchCpu
    <3>1. active_cpu' = next_cpu /\ active_thread' = cpu_to_threads[next_cpu] /\ next_cpu' = None /\ next_cpu \in Cpu
      BY <2>2, <1>2 DEF SwitchCpu, GoToNextCpu
    <3>2. active_thread' \in Created
      BY <3>1, <1>1, <1>2 DEF Tasks
    <3>3. Kernel
      BY <3>1, <1>1, <1>2 DEF Worlds
    <3> QED BY <3>1, <3>2, <3>3
  <2>3. CASE KeepRunning
    BY <2>3, <1>1, <1>2 DEF KeepRunning, cpuVars, Worlds, Births
  <2> QED BY <2>1, <2>2, <2>3
<1>5. \A c \in Cpu : next_thread'[c] = None
  BY <1>1, <1>3 DEF Tasks
<1>6. next_cpu' \in Cpu \cup {None} /\ (next_cpu' # None => cpu_to_threads'[next_cpu'] # None)
  BY <1>1, <1>2, <1>3, <1>4 DEF Tasks
<1>7. /\ TypeOK' /\ JoinersWaitForLive' /\ StacksExclusive' /\ Births' /\ Created' = Created
      /\ Kernel' = Kernel /\ MainBlocks' = MainBlocks
      /\ state' = state /\ deadline' = deadline /\ stack' = stack /\ thread_map' = thread_map /\ successor' = successor
  <2>1. /\ phase' \in {"schedule", "step", "sleep"} /\ halt' \in {"no", "ub", "panic", "deadlock", "exit"}
        /\ now' \in 0 .. MaxTime /\ yield_active_thread' \in BOOLEAN
        /\ cpu_to_threads' \in [Cpu -> Thread \cup {None}] /\ next_thread' \in [Cpu -> Thread \cup {None}]
    BY <1>2, <1>3
  <2> QED BY <2>1, <1>3, <1>4, <1>6, ScheduleFrame
<1>8. NoPanic' /\ DeadlockIsReal'
  BY <1>3 DEF NoPanic, DeadlockIsReal
<1>9. Kernel => \A t \in Thread : ~Blocked(t) /\ stack[t] = 0
  BY <1>1 DEF Worlds
<1>10. SpawnedBlockedNeverRuns' /\ Ended'
  <2>1. Kernel \/ active_thread' = Main \/ state[active_thread'] = "Enabled"
    BY <1>4 DEF Enabled
  <2>2. state[Main] # "Terminated" /\ active_thread' \in Thread
    BY <1>1, <1>2, <1>4 DEF Births
  <2>3. SpawnedBlockedNeverRuns'
    BY <2>1, <2>2, <1>7, <1>9 DEF SpawnedBlockedNeverRuns, Blocked, BlockedStates
  <2>4. Ended'
    BY <2>1, <2>2, <1>3, <1>7 DEF Ended
  <2> QED BY <2>3, <2>4
<1>11. Worlds'
  BY <1>1, <1>3, <1>4, <1>7 DEF Worlds, Blocked
<1>12. Tasks'
  BY <1>1, <1>3, <1>5, <1>6, <1>7 DEF Tasks
<1> QED BY <1>7, <1>8, <1>10, <1>11, <1>12, PartsNext

LEMMA PickThreadKeeps ==
    ASSUME IInv, config' = config, PickThread
    PROVE  IInv'
<1> DEFINE S == Expired
           E == {t \in Thread : Enabled(t) \/ t \in S}
<1>1. /\ TypeOK /\ NoPanic /\ JoinersWaitForLive /\ StacksExclusive /\ Births /\ Worlds /\ Tasks
  BY Parts
<1>2. /\ phase = "schedule" /\ halt = "no" /\ next_thread[active_cpu] = None /\ state[active_thread] # "Terminated"
  BY DEF PickThread, NothingDue
<1>3. /\ state' = [t \in Thread |-> IF t \in S THEN "Enabled" ELSE state[t]]
      /\ deadline' = [t \in Thread |-> IF t \in S THEN None ELSE deadline[t]]
      /\ joins' = [t \in Thread |-> IF t \in S THEN None ELSE joins[t]]
      /\ yield_active_thread' = FALSE
      /\ IF E # {} THEN active_thread' \in Choices(E) ELSE active_thread' = active_thread
      /\ phase' = IF E # {} THEN "step" ELSE "sleep"
      /\ halt' = IF E = {} /\ Pending(S) = {} THEN "deadlock" ELSE halt
  BY DEF PickThread, Woken
<1>4. /\ active_cpu' = active_cpu /\ next_cpu' = next_cpu /\ cpu_to_threads' = cpu_to_threads /\ next_thread' = next_thread
      /\ now' = now /\ join_status' = join_status /\ stack_pool' = stack_pool /\ stack' = stack
      /\ thread_map' = thread_map /\ successor' = successor
  BY DEF PickThread, cpuVars
<1>5. \A t \in S : t \in Thread /\ Blocked(t)
  BY DEF Expired
<1>6. Choices(E) \subseteq E
  BY DEF Choices
<1>7. \A t \in Thread : state'[t] = (IF t \in S THEN "Enabled" ELSE state[t]) /\ (t \in E <=> state'[t] = "Enabled")
  BY <1>3 DEF Enabled
<1>8. Pending(S) = {} => \A t \in Thread : t \in S \/ deadline[t] = None
  BY <1>1 DEF Pending, TypeOK
<1> HIDE DEF S, E
<1>9. state' \in [Thread -> Fates] /\ SameLives
  BY <1>1, <1>3, <1>5 DEF SameLives, TypeOK, Fates, Blocked, BlockedStates
<1>10. StacksExclusive' /\ Created' = Created
  BY <1>1, <1>4, <1>9, LivesKept
<1>11. active_thread' \in Created /\ active_thread' \in Thread /\ (E # {} => state'[active_thread'] = "Enabled")
  <2>1. CASE E # {}
    <3>1. active_thread' \in E
      BY <2>1, <1>3, <1>6
    <3>2. active_thread' \in Thread
      BY <3>1 DEF E
    <3>3. state'[active_thread'] = "Enabled"
      BY <3>1, <3>2, <1>7
    <3>4. active_thread' \in Created'
      BY <3>2, <3>3 DEF Created
    <3> QED BY <3>2, <3>3, <3>4, <1>10
  <2>2. CASE E = {}
    BY <2>2, <1>1, <1>3, CreatedAreThreads DEF Births
  <2> QED BY <2>1, <2>2
<1>12. yield_active_thread' \in BOOLEAN
  BY <1>3, Zenon
<1>13. /\ \A t \in Thread : state'[t] = "Join" => state[t] = "Join" /\ joins'[t] = joins[t] /\ deadline'[t] = deadline[t]
       /\ deadline' \in [Thread -> 0 .. MaxTime \cup {None}] /\ joins' \in [Thread -> Thread \cup {None}]
       /\ \A t \in Thread : deadline'[t] # None => t \notin S /\ deadline[t] # None
       /\ \A t \in Thread : joins'[t] # None <=> t \notin S /\ joins[t] # None
  BY <1>1, <1>3 DEF TypeOK
<1>14. TypeOK'
  <2>1. phase' \in {"schedule", "step", "sleep"} /\ halt' \in {"no", "ub", "panic", "deadlock", "exit"}
    BY <1>2, <1>3
  <2>2. \A t \in Thread : deadline'[t] # None => state'[t] \in BlockedStates
    BY <1>1, <1>7, <1>13 DEF TypeOK, Blocked
  <2>3. \A t \in Thread : joins'[t] # None <=> state'[t] = "Join"
    BY <1>1, <1>7, <1>13 DEF TypeOK
  <2> QED BY <2>1, <2>2, <2>3, <1>1, <1>4, <1>9, <1>11, <1>12, <1>13 DEF TypeOK, Fates, Blocked
<1>15. JoinersWaitForLive'
  BY <1>1, <1>4, <1>9, <1>13 DEF JoinersWaitForLive, SameLives, TypeOK
<1>16. Births'
  BY <1>1, <1>9, <1>10, <1>11, <1>13, Constants DEF Births, SameLives
<1>17. NoPanic' /\ SpawnedBlockedNeverRuns'
  BY <1>2, <1>3, <1>11 DEF NoPanic, SpawnedBlockedNeverRuns, Blocked, BlockedStates
<1>18. DeadlockIsReal'
  <2> SUFFICES ASSUME halt' = "deadlock", NEW t \in Thread PROVE state'[t] # "Enabled" /\ deadline'[t] = None
    BY DEF DeadlockIsReal, Enabled
  <2>1. E = {} /\ Pending(S) = {}
    BY <1>2, <1>3
  <2>2. state'[t] # "Enabled"
    BY <2>1, <1>7
  <2>3. deadline'[t] = None
    BY <2>1, <1>3, <1>8
  <2> QED BY <2>2, <2>3
<1>19. Worlds'
  <2>1. Kernel' = Kernel
    BY DEF Kernel
  <2>2. \A t \in Thread : state'[t] \in BlockedStates => state[t] \in BlockedStates
    BY <1>7 DEF BlockedStates
  <2> QED BY <2>1, <2>2, <1>1, <1>4 DEF Worlds, Blocked
<1>20. Tasks'
  <2>1. \A c \in Cpu : next_thread'[c] = None
    BY <1>1, <1>2, <1>4 DEF Tasks
  <2> QED BY <2>1, <1>1, <1>4, <1>10 DEF Tasks
<1>21. Ended'
  <2>1. E = {} => state'[active_thread'] # "Terminated"
    BY <1>2, <1>3, <1>9, <1>11 DEF SameLives
  <2> QED BY <2>1, <1>3, <1>11 DEF Ended
<1> QED BY <1>10, <1>14, <1>15, <1>16, <1>17, <1>18, <1>19, <1>20, <1>21, PartsNext

LEMMA SleepKeeps ==
    ASSUME IInv, config' = config, Sleep
    PROVE  IInv'
<1>1. TypeOK /\ NoPanic /\ Births /\ Worlds /\ Tasks /\ Ended
  BY Parts
<1>2. PICK t \in Thread : deadline[t] # None /\ now' = deadline[t]
  BY DEF Sleep
<1>3. /\ phase = "sleep" /\ halt = "no" /\ phase' = "schedule" /\ halt' = "no" /\ UNCHANGED threadVars
      /\ active_cpu' = active_cpu /\ next_cpu' = next_cpu /\ cpu_to_threads' = cpu_to_threads /\ next_thread' = next_thread
      /\ active_thread' = active_thread /\ yield_active_thread' = yield_active_thread
  BY DEF Sleep, cpuVars
<1>4. now' \in 0 .. MaxTime
  BY <1>1, <1>2 DEF TypeOK
<1>5. /\ active_cpu' \in Cpu /\ next_cpu' \in Cpu \cup {None} /\ yield_active_thread' \in BOOLEAN
      /\ cpu_to_threads' \in [Cpu -> Thread \cup {None}] /\ next_thread' \in [Cpu -> Thread \cup {None}]
      /\ active_thread' \in Created
  BY <1>1, <1>3 DEF TypeOK, Births
<1>6. /\ TypeOK' /\ JoinersWaitForLive' /\ StacksExclusive' /\ Births' /\ Created' = Created
      /\ Kernel' = Kernel /\ MainBlocks' = MainBlocks
      /\ state' = state /\ deadline' = deadline /\ stack' = stack /\ thread_map' = thread_map /\ successor' = successor
  <2>1. phase' \in {"schedule", "step", "sleep"} /\ halt' \in {"no", "ub", "panic", "deadlock", "exit"}
    BY <1>3
  <2> QED BY <2>1, <1>3, <1>4, <1>5, ScheduleFrame
<1>7. NoPanic' /\ DeadlockIsReal' /\ SpawnedBlockedNeverRuns'
  BY <1>3 DEF NoPanic, DeadlockIsReal, SpawnedBlockedNeverRuns
<1>8. Worlds' /\ Tasks' /\ Ended'
  BY <1>1, <1>3, <1>6 DEF Worlds, Tasks, Ended, Blocked
<1> QED BY <1>6, <1>7, <1>8, PartsNext

-----------------------------------------------------------------------------
(* Steps of the active thread. *)

(* What the end of a basic block does, whatever the step did before. *)
LEMMA StepFrame ==
    ASSUME IInv, phase = "step", state[active_thread] # "Terminated", config' = config,
           NEW asks \in BOOLEAN, EndOfBlock(asks),
           active_thread' = active_thread, active_cpu' = active_cpu,
           cpu_to_threads' \in [Cpu -> Thread \cup {None}],
           \A c \in Cpu : cpu_to_threads[c] # None => cpu_to_threads'[c] # None,
           ~Kernel => cpu_to_threads' = cpu_to_threads,
           state'[active_thread] # "Terminated"
    PROVE  /\ phase' = "schedule" /\ now' \in 0 .. MaxTime /\ yield_active_thread' \in BOOLEAN
           /\ active_cpu' \in Cpu /\ next_cpu' \in Cpu \cup {None} /\ (next_cpu' # None => cpu_to_threads'[next_cpu'] # None)
           /\ Kernel' = Kernel /\ MainBlocks' = MainBlocks
           /\ ~Kernel => next_cpu' = None
           /\ \A c \in Cpu : next_thread[c] = None
           /\ SpawnedBlockedNeverRuns' /\ Ended'
<1> DEFINE other == (active_cpu + 1) % Cpus
<1>1. TypeOK /\ Births /\ Worlds /\ Tasks
  BY Parts
<1>2. /\ active_cpu \in Cpu /\ next_cpu \in Cpu \cup {None} /\ now \in 0 .. MaxTime /\ None \notin Cpu
      /\ config.time \in 0 .. MaxTime /\ MaxTime \in Nat
  BY <1>1, Constants DEF TypeOK
<1>3. phase' = "schedule" /\ now' \in {now, IF now < config.time THEN now + 1 ELSE now}
  BY DEF EndOfBlock
<1>4. next_cpu' \in {next_cpu} \cup (IF cpu_to_threads'[other] # None THEN {other} ELSE {})
  BY DEF EndOfBlock
<1>5. other \in Cpu /\ (active_cpu = 0 => other # 0)
  BY <1>2, OtherCpu
<1> HIDE DEF other
<1>6. now' \in 0 .. MaxTime
  BY <1>2, <1>3
<1>7. yield_active_thread' \in BOOLEAN
  <2>1. yield_active_thread \in BOOLEAN
    BY <1>1 DEF TypeOK
  <2>2. CASE asks
    BY <2>2, Zenon DEF EndOfBlock
  <2>3. CASE ~asks
    <3>1. yield_active_thread' \in {yield_active_thread} \cup (IF FixedScheduling \/ ~Preemption THEN {} ELSE {TRUE})
      BY <2>3, Zenon DEF EndOfBlock
    <3>2. yield_active_thread' = yield_active_thread \/ yield_active_thread' = TRUE
      BY <3>1
    <3> QED BY <3>2, <2>1, Zenon
  <2> QED BY <2>2, <2>3, Zenon
<1>8. next_cpu' \in Cpu \cup {None} /\ (next_cpu' # None => cpu_to_threads'[next_cpu'] # None)
  <2>1. next_cpu # None => next_cpu \in Cpu /\ cpu_to_threads[next_cpu] # None
    BY <1>1, <1>2 DEF Tasks
  <2> QED BY <2>1, <1>2, <1>4, <1>5
<1>9. ~Kernel => next_cpu' = None
  BY <1>1, <1>4, <1>5 DEF Worlds
<1>10. \A c \in Cpu : next_thread[c] = None
  BY <1>1 DEF Tasks
<1>11. SpawnedBlockedNeverRuns' /\ Ended'
  BY <1>3 DEF SpawnedBlockedNeverRuns, Ended
<1>12. Kernel' = Kernel /\ MainBlocks' = MainBlocks
  BY DEF Kernel, MainBlocks
<1> QED BY <1>2, <1>3, <1>6, <1>7, <1>8, <1>9, <1>10, <1>11, <1>12

(* The program ends or is stopped. *)
LEMMA StopKeeps ==
    ASSUME IInv, config' = config, NEW how \in {"ub", "exit"}, Stop(how)
    PROVE  IInv'
<1>1. TypeOK /\ Births /\ Worlds /\ Tasks /\ Ended
  BY Parts
<1>2. /\ UNCHANGED threadVars /\ active_thread' = active_thread /\ yield_active_thread' = yield_active_thread
      /\ active_cpu' = active_cpu /\ next_cpu' = next_cpu /\ cpu_to_threads' = cpu_to_threads /\ next_thread' = next_thread
      /\ now' = now /\ phase' = phase /\ halt' = how
  BY DEF Stop, cpuVars
<1>3. /\ TypeOK' /\ JoinersWaitForLive' /\ StacksExclusive' /\ Births' /\ Created' = Created
      /\ Kernel' = Kernel /\ MainBlocks' = MainBlocks
      /\ state' = state /\ deadline' = deadline /\ stack' = stack /\ thread_map' = thread_map /\ successor' = successor
  <2>1. /\ active_cpu' \in Cpu /\ next_cpu' \in Cpu \cup {None} /\ yield_active_thread' \in BOOLEAN /\ now' \in 0 .. MaxTime
        /\ cpu_to_threads' \in [Cpu -> Thread \cup {None}] /\ next_thread' \in [Cpu -> Thread \cup {None}]
        /\ active_thread' \in Created /\ phase' \in {"schedule", "step", "sleep"}
    BY <1>1, <1>2 DEF TypeOK, Births
  <2>2. halt' \in {"no", "ub", "panic", "deadlock", "exit"}
    BY <1>2
  <2> QED BY <2>1, <2>2, <1>2, ScheduleFrame
<1>4. NoPanic' /\ DeadlockIsReal' /\ SpawnedBlockedNeverRuns'
  BY <1>2 DEF NoPanic, DeadlockIsReal, SpawnedBlockedNeverRuns
<1>5. Worlds' /\ Tasks' /\ Ended'
  BY <1>1, <1>2, <1>3 DEF Worlds, Tasks, Ended, Blocked
<1> QED BY <1>3, <1>4, <1>5, PartsNext

(* Steps that leave the threads alone, and miri_switch_to. *)
LEMMA QuietStepKeeps ==
    ASSUME IInv, config' = config,
           (\E asks \in BOOLEAN : Compute(asks)) \/ (\E u \in Thread : SwitchTo(u))
    PROVE  IInv'
<1>1. TypeOK /\ Births /\ Worlds /\ Tasks /\ NoPanic
  BY Parts
<1>2. PICK asks \in BOOLEAN : EndOfBlock(asks)
  BY Zenon DEF Compute, SwitchTo
<1>3. /\ phase = "step" /\ halt = "no" /\ state[active_thread] # "Terminated" /\ UNCHANGED threadVars
      /\ active_thread' = active_thread /\ active_cpu' = active_cpu /\ cpu_to_threads' = cpu_to_threads /\ halt' = halt
      /\ next_thread' = next_thread \/ \E u \in thread_map \ {active_thread} : next_thread' = [next_thread EXCEPT ![active_cpu] = u]
  BY DEF Compute, SwitchTo, Stepping
<1>4. state' = state /\ cpu_to_threads' \in [Cpu -> Thread \cup {None}]
  BY <1>1, <1>3 DEF threadVars, TypeOK
<1>5. /\ phase' = "schedule" /\ now' \in 0 .. MaxTime /\ yield_active_thread' \in BOOLEAN
      /\ active_cpu' \in Cpu /\ next_cpu' \in Cpu \cup {None} /\ (next_cpu' # None => cpu_to_threads'[next_cpu'] # None)
      /\ ~Kernel => next_cpu' = None
      /\ \A c \in Cpu : next_thread[c] = None
      /\ SpawnedBlockedNeverRuns' /\ Ended'
  BY <1>2, <1>3, <1>4, StepFrame
<1>6. /\ next_thread' \in [Cpu -> Thread \cup {None}]
      /\ \A c \in Cpu : next_thread'[c] # None => c = active_cpu /\ next_thread'[c] \in thread_map \ {active_thread}
  <2>1. thread_map \subseteq Thread /\ active_cpu \in Cpu /\ next_thread \in [Cpu -> Thread \cup {None}]
    BY <1>1 DEF TypeOK
  <2> QED BY <2>1, <1>3, <1>5
<1>7. /\ TypeOK' /\ JoinersWaitForLive' /\ StacksExclusive' /\ Births' /\ Created' = Created
      /\ Kernel' = Kernel /\ MainBlocks' = MainBlocks
      /\ state' = state /\ deadline' = deadline /\ stack' = stack /\ thread_map' = thread_map /\ successor' = successor
  <2>1. /\ active_thread' \in Created /\ phase' \in {"schedule", "step", "sleep"}
        /\ halt' \in {"no", "ub", "panic", "deadlock", "exit"}
    BY <1>1, <1>3, <1>5 DEF Births
  <2> QED BY <2>1, <1>3, <1>4, <1>5, <1>6, ScheduleFrame
<1>8. NoPanic' /\ DeadlockIsReal'
  BY <1>3 DEF NoPanic, DeadlockIsReal
<1>9. Worlds'
  BY <1>1, <1>3, <1>5, <1>7 DEF Worlds, Blocked
<1>10. Tasks'
  BY <1>1, <1>3, <1>5, <1>6, <1>7 DEF Tasks
<1> QED BY <1>5, <1>7, <1>8, <1>9, <1>10, PartsNext

LEMMA SwitchToAfterReturnKeeps ==
    ASSUME IInv, config' = config, NEW u \in Thread, SwitchToAfterReturn(u)
    PROVE  IInv'
<1>1. TypeOK /\ Births /\ Worlds /\ Tasks /\ NoPanic /\ JoinersWaitForLive /\ StacksExclusive
  BY Parts
<1>2. /\ phase = "step" /\ halt = "no" /\ state[active_thread] # "Terminated" /\ u \in thread_map \ {active_thread}
      /\ successor' = [successor EXCEPT ![active_thread] = u]
      /\ state' = state /\ deadline' = deadline /\ joins' = joins /\ join_status' = join_status
      /\ stack_pool' = stack_pool /\ stack' = stack /\ thread_map' = thread_map
      /\ active_thread' = active_thread /\ active_cpu' = active_cpu /\ cpu_to_threads' = cpu_to_threads
      /\ next_thread' = next_thread /\ halt' = halt /\ EndOfBlock(FALSE)
  BY DEF SwitchToAfterReturn, Stepping
<1>3. cpu_to_threads' \in [Cpu -> Thread \cup {None}]
  BY <1>1, <1>2 DEF TypeOK
<1>4. /\ phase' = "schedule" /\ now' \in 0 .. MaxTime /\ yield_active_thread' \in BOOLEAN
      /\ active_cpu' \in Cpu /\ next_cpu' \in Cpu \cup {None} /\ (next_cpu' # None => cpu_to_threads'[next_cpu'] # None)
      /\ Kernel' = Kernel /\ MainBlocks' = MainBlocks
      /\ ~Kernel => next_cpu' = None
      /\ \A c \in Cpu : next_thread[c] = None
      /\ SpawnedBlockedNeverRuns' /\ Ended'
  BY <1>2, <1>3, StepFrame
<1>5. Created' = Created
  BY <1>2 DEF Created
<1>6. active_thread \in Thread /\ successor \in [Thread -> Thread \cup {None}]
  BY <1>1 DEF TypeOK
<1>7. /\ successor' \in [Thread -> Thread \cup {None}]
      /\ \A t \in Thread : successor'[t] \in (thread_map \ {t}) \cup {None}
  BY <1>1, <1>2, <1>6 DEF Tasks
<1>8. TypeOK'
  BY <1>1, <1>2, <1>3, <1>4, <1>7 DEF TypeOK, Blocked
<1>9. JoinersWaitForLive' /\ StacksExclusive'
  BY <1>1, <1>2, <1>5 DEF JoinersWaitForLive, StacksExclusive
<1>10. Births' /\ NoPanic' /\ DeadlockIsReal'
  BY <1>1, <1>2, <1>5 DEF Births, NoPanic, DeadlockIsReal
<1>11. Worlds' /\ Tasks'
  BY <1>1, <1>2, <1>4, <1>5, <1>7 DEF Worlds, Tasks, Blocked
<1> QED BY <1>4, <1>8, <1>9, <1>10, <1>11, PartsNext

(* Steps that change at most the states, deadlines and join targets of     *)
(* living threads, and who is joined or detached.                          *)
LEMMA WaitingFrame ==
    ASSUME IInv, config' = config, phase = "step", halt = "no", state[active_thread] # "Terminated", EndOfBlock(FALSE),
           active_thread' = active_thread, active_cpu' = active_cpu, cpu_to_threads' = cpu_to_threads,
           next_thread' = next_thread, stack_pool' = stack_pool, stack' = stack, thread_map' = thread_map,
           successor' = successor,
           state' \in [Thread -> Fates], SameLives,
           deadline' \in [Thread -> 0 .. MaxTime \cup {None}], joins' \in [Thread -> Thread \cup {None}],
           join_status' \in [Thread -> {"Joinable", "Detached", "Joined"}],
           \A t \in Thread : deadline'[t] # None => state'[t] \in BlockedStates \ {"Join"},
           \A t \in Thread : joins'[t] # None <=> state'[t] = "Join",
           Kernel => \A t \in Thread : state'[t] \notin BlockedStates,
           halt' \in {"no", "panic"}, ~MainBlocks => halt' # "panic",
           JoinersWaitForLive'
    PROVE  IInv'
<1>1. TypeOK /\ Births /\ Worlds /\ Tasks /\ StacksExclusive
  BY Parts
<1>2. cpu_to_threads' \in [Cpu -> Thread \cup {None}] /\ state'[active_thread] # "Terminated"
  BY <1>1 DEF TypeOK, SameLives
<1>3. /\ phase' = "schedule" /\ now' \in 0 .. MaxTime /\ yield_active_thread' \in BOOLEAN
      /\ active_cpu' \in Cpu /\ next_cpu' \in Cpu \cup {None} /\ (next_cpu' # None => cpu_to_threads'[next_cpu'] # None)
      /\ Kernel' = Kernel /\ MainBlocks' = MainBlocks
      /\ ~Kernel => next_cpu' = None
      /\ \A c \in Cpu : next_thread[c] = None
      /\ SpawnedBlockedNeverRuns' /\ Ended'
  BY <1>2, StepFrame
<1>4. StacksExclusive' /\ Created' = Created
  BY <1>1, LivesKept
<1>5. TypeOK'
  BY <1>1, <1>2, <1>3 DEF TypeOK, Fates, Blocked
<1>6. Births'
  BY <1>1, <1>4, Constants DEF Births, SameLives
<1>7. NoPanic' /\ DeadlockIsReal'
  BY <1>3 DEF NoPanic, DeadlockIsReal
<1>8. Worlds'
  BY <1>1, <1>3 DEF Worlds, Blocked
<1>9. Tasks'
  BY <1>1, <1>3, <1>4 DEF Tasks
<1> QED BY <1>3, <1>4, <1>5, <1>6, <1>7, <1>8, <1>9, PartsNext

(* Who may block is alive, and is enabled unless main threads block. *)
LEMMA WhoBlocks ==
    ASSUME IInv, MayBlock
    PROVE  /\ phase = "step" /\ halt = "no" /\ state[active_thread] \notin {"Terminated", "Unborn"} /\ ~Kernel
           /\ active_thread \in Thread /\ (~MainBlocks => Enabled(active_thread))
<1>1. TypeOK /\ Births /\ SpawnedBlockedNeverRuns
  BY Parts
<1>2. phase = "step" /\ halt = "no" /\ state[active_thread] # "Terminated" /\ ~Kernel /\ (active_thread # Main \/ MainBlocks)
  BY DEF MayBlock, Stepping
<1>3. active_thread \in Thread /\ state[active_thread] # "Unborn" /\ state[active_thread] \in Fates
  BY <1>1 DEF Births, Created, TypeOK, Fates
<1>4. ~MainBlocks => Enabled(active_thread)
  BY <1>1, <1>2, <1>3 DEF SpawnedBlockedNeverRuns, Blocked, Fates, Enabled
<1> QED BY <1>2, <1>3, <1>4

LEMMA BlockKeeps ==
    ASSUME IInv, config' = config, NEW reason \in {"Sleep", "Sync"}, NEW until \in {None} \cup now .. config.time,
           Block(reason, until)
    PROVE  IInv'
<1>1. TypeOK /\ Births /\ Worlds /\ JoinersWaitForLive
  BY Parts, Constants
<1>2. /\ phase = "step" /\ halt = "no" /\ state[active_thread] \notin {"Terminated", "Unborn"} /\ ~Kernel
      /\ active_thread \in Thread /\ (~MainBlocks => Enabled(active_thread))
  BY WhoBlocks DEF Block
<1>3. /\ state' = [state EXCEPT ![active_thread] = reason]
      /\ deadline' = [deadline EXCEPT ![active_thread] = until]
      /\ joins' = [joins EXCEPT ![active_thread] = None]
      /\ halt' = IF Enabled(active_thread) THEN halt ELSE "panic"
      /\ join_status' = join_status
  BY DEF Block, BlockThread
<1>4. /\ active_thread' = active_thread /\ active_cpu' = active_cpu /\ cpu_to_threads' = cpu_to_threads
      /\ next_thread' = next_thread /\ stack_pool' = stack_pool /\ stack' = stack /\ thread_map' = thread_map
      /\ successor' = successor /\ EndOfBlock(FALSE)
  BY DEF Block
<1>5. until \in 0 .. MaxTime \cup {None}
  <2>1. now \in 0 .. MaxTime /\ config.time \in 0 .. MaxTime
    BY <1>1, Constants DEF TypeOK
  <2> QED BY <2>1, Constants
<1>6. /\ state \in [Thread -> Fates] /\ deadline \in [Thread -> 0 .. MaxTime \cup {None}]
      /\ joins \in [Thread -> Thread \cup {None}] /\ join_status \in [Thread -> {"Joinable", "Detached", "Joined"}]
  BY <1>1 DEF TypeOK, Fates
<1>7. /\ state' \in [Thread -> Fates] /\ deadline' \in [Thread -> 0 .. MaxTime \cup {None}]
      /\ joins' \in [Thread -> Thread \cup {None}] /\ join_status' \in [Thread -> {"Joinable", "Detached", "Joined"}]
      /\ \A t \in Thread \ {active_thread} : state'[t] = state[t] /\ deadline'[t] = deadline[t] /\ joins'[t] = joins[t]
      /\ state'[active_thread] = reason /\ joins'[active_thread] = None
  BY <1>2, <1>3, <1>5, <1>6 DEF Fates, BlockedStates
<1>8. SameLives
  BY <1>2, <1>7 DEF SameLives
<1>9. \A t \in Thread : deadline'[t] # None => state'[t] \in BlockedStates \ {"Join"}
  BY <1>1, <1>7 DEF TypeOK, Births, Blocked, BlockedStates
<1>10. \A t \in Thread : joins'[t] # None <=> state'[t] = "Join"
  <2> SUFFICES ASSUME NEW t \in Thread PROVE joins'[t] # None <=> state'[t] = "Join"
    OBVIOUS
  <2>1. CASE t = active_thread
    BY <2>1, <1>7
  <2>2. CASE t # active_thread
    <3>1. joins'[t] = joins[t] /\ state'[t] = state[t]
      BY <2>2, <1>7
    <3>2. joins[t] # None <=> state[t] = "Join"
      BY <1>1 DEF TypeOK
    <3> QED BY <3>1, <3>2
  <2> QED BY <2>1, <2>2
<1>11. JoinersWaitForLive'
  <2> SUFFICES ASSUME NEW t \in Thread, state'[t] = "Join"
               PROVE  joins'[t] # None /\ state'[joins'[t]] # "Terminated" /\ join_status'[joins'[t]] = "Joined"
    BY DEF JoinersWaitForLive
  <2>1. state[t] = "Join" /\ joins'[t] = joins[t]
    BY <1>7
  <2>2. joins[t] # None /\ state[joins[t]] # "Terminated" /\ join_status[joins[t]] = "Joined" /\ joins[t] \in Thread
    BY <2>1, <1>1, <1>6 DEF JoinersWaitForLive
  <2> QED BY <2>1, <2>2, <1>3, <1>8 DEF SameLives
<1>12. halt' \in {"no", "panic"} /\ (~MainBlocks => halt' # "panic")
  BY <1>2, <1>3
<1> QED BY <1>2, <1>4, <1>7, <1>8, <1>9, <1>10, <1>11, <1>12, WaitingFrame

LEMMA UnblockKeeps ==
    ASSUME IInv, config' = config, NEW u \in Thread, Unblock(u)
    PROVE  IInv'
<1>1. TypeOK /\ Births /\ Worlds /\ JoinersWaitForLive
  BY Parts
<1>2. phase = "step" /\ halt = "no" /\ state[active_thread] # "Terminated" /\ state[u] = "Sync" /\ halt' = halt
  BY DEF Unblock, Stepping
<1>3. /\ state' = [t \in Thread |-> IF t \in {u} THEN "Enabled" ELSE state[t]]
      /\ deadline' = [t \in Thread |-> IF t \in {u} THEN None ELSE deadline[t]]
      /\ joins' = [t \in Thread |-> IF t \in {u} THEN None ELSE joins[t]]
      /\ join_status' = join_status
  BY DEF Unblock, Woken
<1>4. /\ active_thread' = active_thread /\ active_cpu' = active_cpu /\ cpu_to_threads' = cpu_to_threads
      /\ next_thread' = next_thread /\ stack_pool' = stack_pool /\ stack' = stack /\ thread_map' = thread_map
      /\ successor' = successor /\ EndOfBlock(FALSE)
  BY DEF Unblock
<1>6. /\ state \in [Thread -> Fates] /\ deadline \in [Thread -> 0 .. MaxTime \cup {None}]
      /\ joins \in [Thread -> Thread \cup {None}] /\ join_status \in [Thread -> {"Joinable", "Detached", "Joined"}]
  BY <1>1 DEF TypeOK, Fates
<1>7. /\ state' \in [Thread -> Fates] /\ deadline' \in [Thread -> 0 .. MaxTime \cup {None}]
      /\ joins' \in [Thread -> Thread \cup {None}] /\ join_status' \in [Thread -> {"Joinable", "Detached", "Joined"}]
      /\ \A t \in Thread \ {u} : state'[t] = state[t] /\ deadline'[t] = deadline[t] /\ joins'[t] = joins[t]
      /\ state'[u] = "Enabled" /\ joins'[u] = None /\ deadline'[u] = None
  BY <1>2, <1>3, <1>6 DEF Fates, BlockedStates
<1>8. SameLives
  BY <1>2, <1>7 DEF SameLives
<1>9. \A t \in Thread : deadline'[t] # None => state'[t] \in BlockedStates \ {"Join"}
  BY <1>1, <1>7 DEF TypeOK, Births, Blocked, BlockedStates
<1>10. \A t \in Thread : joins'[t] # None <=> state'[t] = "Join"
  <2> SUFFICES ASSUME NEW t \in Thread PROVE joins'[t] # None <=> state'[t] = "Join"
    OBVIOUS
  <2>1. CASE t = u
    BY <2>1, <1>7
  <2>2. CASE t # u
    <3>1. joins'[t] = joins[t] /\ state'[t] = state[t]
      BY <2>2, <1>7
    <3>2. joins[t] # None <=> state[t] = "Join"
      BY <1>1 DEF TypeOK
    <3> QED BY <3>1, <3>2
  <2> QED BY <2>1, <2>2
<1>11. JoinersWaitForLive'
  <2> SUFFICES ASSUME NEW t \in Thread, state'[t] = "Join"
               PROVE  joins'[t] # None /\ state'[joins'[t]] # "Terminated" /\ join_status'[joins'[t]] = "Joined"
    BY DEF JoinersWaitForLive
  <2>1. state[t] = "Join" /\ joins'[t] = joins[t]
    BY <1>7
  <2>2. joins[t] # None /\ state[joins[t]] # "Terminated" /\ join_status[joins[t]] = "Joined" /\ joins[t] \in Thread
    BY <2>1, <1>1, <1>6 DEF JoinersWaitForLive
  <2> QED BY <2>1, <2>2, <1>3, <1>8 DEF SameLives
<1>12. halt' \in {"no", "panic"} /\ (~MainBlocks => halt' # "panic")
  BY <1>2
<1>13. Kernel => \A t \in Thread : state'[t] \notin BlockedStates
  BY <1>1, <1>7 DEF Worlds, Blocked, BlockedStates
<1> QED BY <1>2, <1>4, <1>7, <1>8, <1>9, <1>10, <1>11, <1>12, <1>13, WaitingFrame

LEMMA DetachKeeps ==
    ASSUME IInv, config' = config, NEW u \in Thread, Detach(u)
    PROVE  IInv'
<1>1. CASE DetachIsUB(u)
  <2>1. Stop("ub")
    BY <1>1 DEF Detach
  <2> QED BY <2>1, StopKeeps
<1>2. CASE ~DetachIsUB(u)
  <2>1. TypeOK /\ Births /\ Worlds /\ JoinersWaitForLive
    BY Parts
  <2>2. phase = "step" /\ halt = "no" /\ state[active_thread] # "Terminated" /\ ~Kernel
    BY DEF Detach, Stepping
  <2>3. /\ join_status' = [join_status EXCEPT ![u] = "Detached"]
        /\ state' = state /\ deadline' = deadline /\ joins' = joins /\ halt' = halt
        /\ active_thread' = active_thread /\ active_cpu' = active_cpu /\ cpu_to_threads' = cpu_to_threads
        /\ next_thread' = next_thread /\ stack_pool' = stack_pool /\ stack' = stack /\ thread_map' = thread_map
        /\ successor' = successor /\ EndOfBlock(FALSE)
    BY <1>2 DEF Detach
  <2>4. /\ state \in [Thread -> Fates] /\ deadline \in [Thread -> 0 .. MaxTime \cup {None}]
        /\ joins \in [Thread -> Thread \cup {None}] /\ join_status \in [Thread -> {"Joinable", "Detached", "Joined"}]
    BY <2>1 DEF TypeOK, Fates
  <2>5. /\ join_status' \in [Thread -> {"Joinable", "Detached", "Joined"}]
        /\ \A t \in Thread \ {u} : join_status'[t] = join_status[t]
    BY <2>3, <2>4
  <2>6. state[u] = "Terminated" \/ join_status[u] # "Joined"
    BY <1>2 DEF DetachIsUB
  <2>7. JoinersWaitForLive'
    <3> SUFFICES ASSUME NEW t \in Thread, state[t] = "Join"
                 PROVE  joins[t] # None /\ state[joins[t]] # "Terminated" /\ join_status'[joins[t]] = "Joined"
      BY <2>3 DEF JoinersWaitForLive
    <3>1. joins[t] # None /\ state[joins[t]] # "Terminated" /\ join_status[joins[t]] = "Joined" /\ joins[t] \in Thread
      BY <2>1, <2>4 DEF JoinersWaitForLive
    <3> QED BY <3>1, <2>5, <2>6
  <2>8. /\ \A t \in Thread : deadline'[t] # None => state'[t] \in BlockedStates \ {"Join"}
        /\ \A t \in Thread : joins'[t] # None <=> state'[t] = "Join"
    BY <2>1, <2>3 DEF TypeOK, Births, Blocked
  <2>9. SameLives
    BY <2>3 DEF SameLives
  <2> QED BY <2>2, <2>3, <2>4, <2>5, <2>7, <2>8, <2>9, WaitingFrame
<1> QED BY <1>1, <1>2

LEMMA JoinKeeps ==
    ASSUME IInv, config' = config, NEW u \in Thread, Join(u)
    PROVE  IInv'
<1>1. TypeOK /\ Births /\ Worlds /\ JoinersWaitForLive
  BY Parts
<1>2. CASE JoinIsUB(u)
  <2>1. Stop("ub")
    BY <1>2 DEF Join
  <2> QED BY <2>1, StopKeeps
<1>3. ASSUME ~JoinIsUB(u)
      PROVE  ~(~Windows /\ \E t \in Thread : state[t] = "Join" /\ joins[t] = u)
  BY <1>1, <1>3 DEF JoinersWaitForLive, JoinIsUB
<1>4. CASE ~JoinIsUB(u)
  <2>1. /\ phase = "step" /\ halt = "no" /\ state[active_thread] \notin {"Terminated", "Unborn"} /\ ~Kernel
        /\ active_thread \in Thread /\ (~MainBlocks => Enabled(active_thread))
    BY WhoBlocks DEF Join
  <2>2. /\ join_status' = [join_status EXCEPT ![u] = "Joined"]
        /\ IF state[u] = "Terminated" THEN UNCHANGED <<state, deadline, joins, halt>>
           ELSE BlockThread("Join", None, u)
        /\ active_thread' = active_thread /\ active_cpu' = active_cpu /\ cpu_to_threads' = cpu_to_threads
        /\ next_thread' = next_thread /\ stack_pool' = stack_pool /\ stack' = stack /\ thread_map' = thread_map
        /\ successor' = successor /\ EndOfBlock(FALSE)
    BY <1>3, <1>4 DEF Join
  <2>3. /\ state \in [Thread -> Fates] /\ deadline \in [Thread -> 0 .. MaxTime \cup {None}]
        /\ joins \in [Thread -> Thread \cup {None}] /\ join_status \in [Thread -> {"Joinable", "Detached", "Joined"}]
    BY <1>1 DEF TypeOK, Fates
  <2>4. /\ join_status' \in [Thread -> {"Joinable", "Detached", "Joined"}] /\ join_status'[u] = "Joined"
        /\ \A t \in Thread : join_status[t] = "Joined" => join_status'[t] = "Joined"
    BY <2>2, <2>3
  <2>5. CASE state[u] = "Terminated"
    <3>1. state' = state /\ deadline' = deadline /\ joins' = joins /\ halt' = halt
      BY <2>2, <2>5
    <3>2. JoinersWaitForLive'
      <4> SUFFICES ASSUME NEW t \in Thread, state[t] = "Join"
                   PROVE  joins[t] # None /\ state[joins[t]] # "Terminated" /\ join_status'[joins[t]] = "Joined"
        BY <3>1 DEF JoinersWaitForLive
      <4>1. joins[t] # None /\ state[joins[t]] # "Terminated" /\ join_status[joins[t]] = "Joined" /\ joins[t] \in Thread
        BY <1>1, <2>3 DEF JoinersWaitForLive
      <4> QED BY <4>1, <2>4
    <3>3. /\ \A t \in Thread : deadline'[t] # None => state'[t] \in BlockedStates \ {"Join"}
          /\ \A t \in Thread : joins'[t] # None <=> state'[t] = "Join"
      BY <1>1, <3>1 DEF TypeOK, Births, Blocked
    <3>4. SameLives
      BY <3>1 DEF SameLives
    <3> QED BY <2>1, <2>2, <2>3, <2>4, <3>1, <3>2, <3>3, <3>4, WaitingFrame
  <2>6. CASE state[u] # "Terminated"
    <3>1. /\ state' = [state EXCEPT ![active_thread] = "Join"]
          /\ deadline' = [deadline EXCEPT ![active_thread] = None]
          /\ joins' = [joins EXCEPT ![active_thread] = u]
          /\ halt' = IF Enabled(active_thread) THEN halt ELSE "panic"
      BY <2>2, <2>6 DEF BlockThread
    <3>2. /\ state' \in [Thread -> Fates] /\ deadline' \in [Thread -> 0 .. MaxTime \cup {None}]
          /\ joins' \in [Thread -> Thread \cup {None}]
          /\ \A t \in Thread \ {active_thread} : state'[t] = state[t] /\ deadline'[t] = deadline[t] /\ joins'[t] = joins[t]
          /\ state'[active_thread] = "Join" /\ joins'[active_thread] = u /\ deadline'[active_thread] = None
      BY <2>1, <2>3, <3>1 DEF Fates, BlockedStates
    <3>3. SameLives
      BY <2>1, <3>2 DEF SameLives
    <3>4. \A t \in Thread : deadline'[t] # None => state'[t] \in BlockedStates \ {"Join"}
      BY <1>1, <3>2 DEF TypeOK, Births, Blocked
    <3>5. \A t \in Thread : joins'[t] # None <=> state'[t] = "Join"
      BY <1>1, <3>2, Constants, SMTT(40) DEF TypeOK
    <3>6. JoinersWaitForLive'
      <4> SUFFICES ASSUME NEW t \in Thread, state'[t] = "Join"
                   PROVE  joins'[t] # None /\ state'[joins'[t]] # "Terminated" /\ join_status'[joins'[t]] = "Joined"
        BY DEF JoinersWaitForLive
      <4>1. CASE t = active_thread
        BY <4>1, <2>4, <2>6, <3>2, <3>3, Constants DEF SameLives
      <4>2. CASE t # active_thread
        <5>1. state[t] = "Join" /\ joins'[t] = joins[t]
          BY <4>2, <3>2
        <5>2. joins[t] # None /\ state[joins[t]] # "Terminated" /\ join_status[joins[t]] = "Joined" /\ joins[t] \in Thread
          BY <5>1, <1>1, <2>3 DEF JoinersWaitForLive
        <5> QED BY <5>1, <5>2, <2>4, <3>3 DEF SameLives
      <4> QED BY <4>1, <4>2
    <3>7. halt' \in {"no", "panic"} /\ (~MainBlocks => halt' # "panic")
      BY <2>1, <3>1
    <3> QED BY <2>1, <2>2, <2>4, <3>2, <3>3, <3>4, <3>5, <3>6, <3>7, WaitingFrame
  <2> QED BY <2>5, <2>6
<1> QED BY <1>2, <1>4

(* A new thread gets a stack that no living thread has. *)
LEMMA StackTaken ==
    ASSUME TypeOK, StacksExclusive, NEW n \in Thread, state[n] = "Unborn",
           state' = [state EXCEPT ![n] = "Enabled"], GetStackRange(n)
    PROVE  StacksExclusive' /\ stack_pool' \in Seq(BOOLEAN) /\ stack' \in [Thread -> 0 .. Len(stack_pool')]
<1> DEFINE live == {t \in Created : state[t] # "Terminated" /\ stack[t] # 0}
<1>1. /\ stack_pool \in Seq(BOOLEAN) /\ stack \in [Thread -> 0 .. Len(stack_pool)] /\ Len(stack_pool) \in Nat
      /\ state \in [Thread -> Fates] /\ live \subseteq Thread /\ n \notin live
  BY DEF TypeOK, Fates, Created
<1>2. /\ \A t, u \in live : stack[t] = stack[u] => t = u
      /\ \A i \in 1 .. Len(stack_pool) : stack_pool[i] <=> \E t \in live : stack[t] = i
  BY DEF StacksExclusive
<1> HIDE DEF live
<1>3. \E i \in 1 .. Len(stack_pool) + 1 :
        /\ stack' = [stack EXCEPT ![n] = i] /\ i \in 1 .. Len(stack_pool')
        /\ stack_pool' \in Seq(BOOLEAN) /\ Len(stack_pool') \in Nat /\ Len(stack_pool') >= Len(stack_pool)
        /\ stack_pool'[i] = TRUE
        /\ \A j \in 1 .. Len(stack_pool') : j # i => j \in 1 .. Len(stack_pool) /\ stack_pool'[j] = stack_pool[j]
        /\ \A t \in live : stack[t] # i
  <2>1. CASE FreeStacks # {}
    <3>1. FreeStacks \in SUBSET (1 .. Len(stack_pool))
      BY DEF FreeStacks
    <3>2. \E i \in FreeStacks : \A j \in FreeStacks : j <= i
      BY <1>1, <2>1, <3>1, Greatest
    <3> DEFINE i == CHOOSE i \in FreeStacks : \A j \in FreeStacks : j <= i
    <3>3. i \in FreeStacks
      BY <3>2
    <3>4. stack' = [stack EXCEPT ![n] = i] /\ stack_pool' = [stack_pool EXCEPT ![i] = TRUE]
      BY <2>1 DEF GetStackRange
    <3> HIDE DEF i
    <3>5. i \in 1 .. Len(stack_pool) /\ ~stack_pool[i]
      BY <3>3 DEF FreeStacks
    <3>6. \A t \in live : stack[t] # i
      BY <1>2, <3>5
    <3>7. /\ stack_pool' \in Seq(BOOLEAN) /\ Len(stack_pool') = Len(stack_pool) /\ stack_pool'[i] = TRUE
          /\ \A j \in 1 .. Len(stack_pool) : j # i => stack_pool'[j] = stack_pool[j]
      BY <1>1, <3>4, <3>5
    <3>8. /\ i \in 1 .. Len(stack_pool) + 1 /\ i \in 1 .. Len(stack_pool') /\ Len(stack_pool') \in Nat /\ Len(stack_pool') >= Len(stack_pool)
          /\ \A j \in 1 .. Len(stack_pool') : j # i => j \in 1 .. Len(stack_pool)
      BY <1>1, <3>5, <3>7
    <3>9. \A j \in 1 .. Len(stack_pool') : j # i => j \in 1 .. Len(stack_pool) /\ stack_pool'[j] = stack_pool[j]
      BY <3>7, <3>8
    <3> QED BY <3>4, <3>6, <3>7, <3>8, <3>9, Zenon
  <2>2. CASE FreeStacks = {}
    <3> DEFINE i == Len(stack_pool) + 1
    <3>1. stack' = [stack EXCEPT ![n] = i] /\ stack_pool' = Append(stack_pool, TRUE)
      BY <2>2 DEF GetStackRange
    <3>2. /\ stack_pool' \in Seq(BOOLEAN) /\ Len(stack_pool') = i /\ stack_pool'[i] = TRUE
          /\ \A j \in 1 .. Len(stack_pool) : stack_pool'[j] = stack_pool[j]
      BY <1>1, <3>1
    <3>3. \A t \in live : stack[t] # i
      BY <1>1
    <3> HIDE DEF i
    <3>4. /\ i \in 1 .. Len(stack_pool) + 1 /\ i \in 1 .. Len(stack_pool') /\ Len(stack_pool') \in Nat /\ Len(stack_pool') >= Len(stack_pool)
          /\ \A j \in 1 .. Len(stack_pool') : j # i => j \in 1 .. Len(stack_pool)
      BY <1>1, <3>2 DEF i
    <3>5. \A j \in 1 .. Len(stack_pool') : j # i => j \in 1 .. Len(stack_pool) /\ stack_pool'[j] = stack_pool[j]
      BY <3>2, <3>4
    <3> QED BY <3>1, <3>2, <3>3, <3>4, <3>5, Zenon
  <2> QED BY <2>1, <2>2
<1>4. PICK i \in 1 .. Len(stack_pool) + 1 :
        /\ stack' = [stack EXCEPT ![n] = i] /\ i \in 1 .. Len(stack_pool')
        /\ stack_pool' \in Seq(BOOLEAN) /\ Len(stack_pool') \in Nat /\ Len(stack_pool') >= Len(stack_pool)
        /\ stack_pool'[i] = TRUE
        /\ \A j \in 1 .. Len(stack_pool') : j # i => j \in 1 .. Len(stack_pool) /\ stack_pool'[j] = stack_pool[j]
        /\ \A t \in live : stack[t] # i
  BY <1>3
<1>5. stack' \in [Thread -> 0 .. Len(stack_pool')]
  BY <1>1, <1>4
<1>6. stack'[n] = i /\ \A t \in Thread \ {n} : stack'[t] = stack[t]
  BY <1>1, <1>4
<1>7. {t \in Created' : state'[t] # "Terminated" /\ stack'[t] # 0} = live \cup {n}
  BY <1>1, <1>4, <1>6 DEF live, Created
<1>8. \A t, u \in live \cup {n} : stack'[t] = stack'[u] => t = u
  BY <1>1, <1>2, <1>4, <1>6
<1>9. \A j \in 1 .. Len(stack_pool') : stack_pool'[j] <=> \E t \in live \cup {n} : stack'[t] = j
  <2> SUFFICES ASSUME NEW j \in 1 .. Len(stack_pool') PROVE stack_pool'[j] <=> \E t \in live \cup {n} : stack'[t] = j
    OBVIOUS
  <2>1. CASE j = i
    BY <2>1, <1>4, <1>6
  <2>2. CASE j # i
    <3>1. j \in 1 .. Len(stack_pool) /\ stack_pool'[j] = stack_pool[j]
      BY <2>2, <1>4
    <3>2. (\E t \in live \cup {n} : stack'[t] = j) <=> (\E t \in live : stack[t] = j)
      BY <2>2, <1>1, <1>6
    <3>3. stack_pool[j] <=> \E t \in live : stack[t] = j
      BY <3>1, <1>2
    <3> QED BY <3>1, <3>2, <3>3
  <2> QED BY <2>1, <2>2
<1>10. StacksExclusive'
  BY <1>7, <1>8, <1>9 DEF StacksExclusive
<1> QED BY <1>4, <1>5, <1>10

LEMMA CreateThreadKeeps ==
    ASSUME IInv, config' = config, CreateThread
    PROVE  IInv'
<1>1. TypeOK /\ Births /\ Worlds /\ Tasks /\ JoinersWaitForLive /\ StacksExclusive
  BY Parts
<1>2. PICK n \in 1 .. MaxThreads : Created = 0 .. n - 1
  BY <1>1 DEF Births
<1>3. /\ phase = "step" /\ halt = "no" /\ state[active_thread] # "Terminated" /\ n < config.threads
      /\ state' = [state EXCEPT ![n] = "Enabled"]
      /\ IF Kernel
         THEN /\ thread_map' = thread_map \cup {n}
              /\ \/ UNCHANGED cpu_to_threads
                 \/ \E c \in Cpu : cpu_to_threads[c] = None /\ active_cpu = 0
                                   /\ cpu_to_threads' = [cpu_to_threads EXCEPT ![c] = n]
              /\ UNCHANGED <<stack, stack_pool>>
         ELSE GetStackRange(n) /\ UNCHANGED <<thread_map, cpu_to_threads>>
      /\ deadline' = deadline /\ joins' = joins /\ join_status' = join_status /\ successor' = successor
      /\ active_thread' = active_thread /\ active_cpu' = active_cpu /\ next_thread' = next_thread /\ halt' = halt
      /\ EndOfBlock(FALSE)
  <2>1. Cardinality(Created) = n
    BY <1>2, NextThread
  <2> QED BY <2>1 DEF CreateThread, Stepping
<1>4. n \in Thread /\ n + 1 \in 1 .. MaxThreads /\ 0 .. (n + 1) - 1 = (0 .. n - 1) \cup {n} /\ n \notin 0 .. n - 1
  <2>1. config.threads \in 1 .. MaxThreads /\ MaxThreads \in Nat
    BY <1>1, Constants DEF TypeOK
  <2> QED BY <2>1, <1>3 DEF Thread
<1>5. state \in [Thread -> Fates] /\ state[n] = "Unborn" /\ active_thread \in Thread /\ n # active_thread
  BY <1>1, <1>2, <1>4 DEF TypeOK, Fates, Created, Births
<1>6. /\ state' \in [Thread -> Fates] /\ state'[n] = "Enabled" /\ \A t \in Thread \ {n} : state'[t] = state[t]
      /\ Created' = Created \cup {n} /\ state'[active_thread] # "Terminated"
  <2>1. state' \in [Thread -> Fates] /\ state'[n] = "Enabled" /\ \A t \in Thread \ {n} : state'[t] = state[t]
    BY <1>3, <1>4, <1>5 DEF Fates
  <2> QED BY <2>1, <1>3, <1>4, <1>5 DEF Created
<1>7. /\ cpu_to_threads' \in [Cpu -> Thread \cup {None}]
      /\ \A c \in Cpu : cpu_to_threads[c] # None => cpu_to_threads'[c] # None
      /\ \A c \in Cpu : cpu_to_threads'[c] \in {cpu_to_threads[c], n}
      /\ ~Kernel => cpu_to_threads' = cpu_to_threads
  <2>1. cpu_to_threads \in [Cpu -> Thread \cup {None}]
    BY <1>1 DEF TypeOK
  <2> QED BY <2>1, <1>3, <1>4, Constants
<1>8. /\ phase' = "schedule" /\ now' \in 0 .. MaxTime /\ yield_active_thread' \in BOOLEAN
      /\ active_cpu' \in Cpu /\ next_cpu' \in Cpu \cup {None} /\ (next_cpu' # None => cpu_to_threads'[next_cpu'] # None)
      /\ Kernel' = Kernel /\ MainBlocks' = MainBlocks
      /\ ~Kernel => next_cpu' = None
      /\ \A c \in Cpu : next_thread[c] = None
      /\ SpawnedBlockedNeverRuns' /\ Ended'
  BY <1>3, <1>6, <1>7, StepFrame
<1>9. StacksExclusive' /\ stack_pool' \in Seq(BOOLEAN) /\ stack' \in [Thread -> 0 .. Len(stack_pool')]
  <2>1. CASE Kernel
    <3>1. stack' = stack /\ stack_pool' = stack_pool
      BY <2>1, <1>3
    <3>2. \A t \in Thread : stack[t] = 0
      BY <2>1, <1>1 DEF Worlds
    <3>3. \A i \in 1 .. Len(stack_pool) : ~stack_pool[i]
      BY <3>2, <1>1 DEF StacksExclusive, Created
    <3>4. StacksExclusive'
      BY <3>1, <3>2, <3>3 DEF StacksExclusive, Created
    <3> QED BY <3>1, <3>4, <1>1 DEF TypeOK
  <2>2. CASE ~Kernel
    BY <2>2, <1>1, <1>3, <1>4, <1>5, StackTaken
  <2> QED BY <2>1, <2>2
<1>10. thread_map' \in {thread_map, thread_map \cup {n}} /\ (~Kernel => thread_map' = thread_map)
  BY <1>3
<1>11. TypeOK'
  <2>1. /\ \A t \in Thread : deadline'[t] # None => state'[t] \in BlockedStates
        /\ \A t \in Thread : joins'[t] # None <=> state'[t] = "Join"
    BY <1>1, <1>3, <1>5, <1>6 DEF TypeOK, Blocked, BlockedStates
  <2>2. thread_map' \subseteq Thread
    BY <1>1, <1>4, <1>10 DEF TypeOK
  <2> QED BY <2>1, <2>2, <1>1, <1>3, <1>6, <1>7, <1>8, <1>9 DEF TypeOK, Fates, Blocked
<1>12. JoinersWaitForLive'
  <2> SUFFICES ASSUME NEW t \in Thread, state'[t] = "Join"
               PROVE  joins[t] # None /\ state'[joins[t]] # "Terminated" /\ join_status[joins[t]] = "Joined"
    BY <1>3 DEF JoinersWaitForLive
  <2>1. state[t] = "Join"
    BY <1>6
  <2>2. joins[t] # None /\ state[joins[t]] # "Terminated" /\ join_status[joins[t]] = "Joined" /\ joins[t] \in Thread
    BY <2>1, <1>1 DEF JoinersWaitForLive, TypeOK
  <2> QED BY <2>2, <1>6
<1>13. Births'
  <2>1. Created' = 0 .. (n + 1) - 1
    BY <1>2, <1>4, <1>6
  <2>2. active_thread' \in Created'
    BY <1>1, <1>3, <1>6 DEF Births
  <2>3. state'[Main] # "Terminated" /\ \A t \in Thread : state'[t] = "Join" => deadline'[t] = None
    BY <1>1, <1>3, <1>6, Constants DEF Births
  <2> QED BY <2>1, <2>2, <2>3, <1>4 DEF Births
<1>14. Worlds'
  <2>1. CASE Kernel
    BY <2>1, <1>1, <1>3, <1>6, <1>8 DEF Worlds, Blocked, BlockedStates
  <2>2. CASE ~Kernel
    BY <2>2, <1>1, <1>3, <1>7, <1>8, <1>10 DEF Worlds
  <2> QED BY <2>1, <2>2
<1>15. Tasks'
  <2>1. thread_map' \subseteq Created' /\ thread_map \subseteq thread_map'
    BY <1>1, <1>6, <1>10 DEF Tasks
  <2>2. \A t \in Thread : successor'[t] \in (thread_map' \ {t}) \cup {None}
    BY <2>1, <1>1, <1>3 DEF Tasks
  <2>3. \A c \in Cpu : cpu_to_threads'[c] \in Created' \cup {None}
    BY <1>1, <1>6, <1>7 DEF Tasks
  <2> QED BY <2>1, <2>2, <2>3, <1>3, <1>8 DEF Tasks
<1>16. NoPanic' /\ DeadlockIsReal'
  BY <1>3 DEF NoPanic, DeadlockIsReal
<1> QED BY <1>8, <1>9, <1>11, <1>12, <1>13, <1>14, <1>15, <1>16, PartsNext

(* A thread that ends gives back its stack, and only its own. *)
LEMMA StackReturned ==
    ASSUME TypeOK, StacksExclusive, NEW t \in Created, state[t] # "Terminated" \/ stack[t] = 0,
           state' \in [Thread -> Fates], state'[t] = "Terminated",
           \A u \in Thread \ {t} : /\ state'[u] = "Unborn" <=> state[u] = "Unborn"
                                   /\ state'[u] = "Terminated" <=> state[u] = "Terminated",
           stack' = stack,
           stack_pool' = IF stack[t] = 0 THEN stack_pool ELSE [stack_pool EXCEPT ![stack[t]] = FALSE]
    PROVE  /\ StacksExclusive' /\ stack_pool' \in Seq(BOOLEAN) /\ stack' \in [Thread -> 0 .. Len(stack_pool')]
           /\ stack[t] # 0 => stack_pool[stack[t]]
<1> DEFINE live == {u \in Created : state[u] # "Terminated" /\ stack[u] # 0}
<1>1. /\ stack_pool \in Seq(BOOLEAN) /\ stack \in [Thread -> 0 .. Len(stack_pool)] /\ Len(stack_pool) \in Nat
      /\ live \subseteq Thread /\ t \in Thread
  BY DEF TypeOK, Created
<1>2. /\ \A v, u \in live : stack[v] = stack[u] => v = u
      /\ \A i \in 1 .. Len(stack_pool) : stack_pool[i] <=> \E u \in live : stack[u] = i
  BY DEF StacksExclusive
<1>3. {u \in Created' : state'[u] # "Terminated" /\ stack'[u] # 0} = live \ {t}
  BY <1>1 DEF Created
<1>4. stack[t] # 0 => t \in live /\ stack[t] \in 1 .. Len(stack_pool)
  BY <1>1
<1>5. stack[t] = 0 => t \notin live
  OBVIOUS
<1> HIDE DEF live
<1>6. stack[t] # 0 => stack_pool[stack[t]]
  BY <1>2, <1>4
<1>7. CASE stack[t] = 0
  <2>1. stack_pool' = stack_pool /\ live \ {t} = live
    BY <1>5, <1>7
  <2>2. StacksExclusive'
    BY <2>1, <1>2, <1>3 DEF StacksExclusive
  <2> QED BY <2>1, <2>2, <1>1, <1>6
<1>8. CASE stack[t] # 0
  <2>1. /\ stack_pool' \in Seq(BOOLEAN) /\ Len(stack_pool') = Len(stack_pool) /\ stack_pool'[stack[t]] = FALSE
        /\ \A j \in 1 .. Len(stack_pool) : j # stack[t] => stack_pool'[j] = stack_pool[j]
    BY <1>1, <1>4, <1>8
  <2>2. \A v, u \in live \ {t} : stack[v] = stack[u] => v = u
    BY <1>2
  <2>3. \A j \in 1 .. Len(stack_pool) : stack_pool'[j] <=> \E u \in live \ {t} : stack[u] = j
    <3> SUFFICES ASSUME NEW j \in 1 .. Len(stack_pool) PROVE stack_pool'[j] <=> \E u \in live \ {t} : stack[u] = j
      OBVIOUS
    <3>1. CASE j = stack[t]
      <4>1. ~stack_pool'[j]
        BY <3>1, <2>1
      <4>2. \A u \in live \ {t} : stack[u] # j
        BY <3>1, <1>2, <1>4, <1>8
      <4> QED BY <4>1, <4>2
    <3>2. CASE j # stack[t]
      <4>1. stack_pool'[j] = stack_pool[j]
        BY <3>2, <2>1
      <4>2. (\E u \in live \ {t} : stack[u] = j) <=> (\E u \in live : stack[u] = j)
        BY <3>2
      <4>3. stack_pool[j] <=> \E u \in live : stack[u] = j
        BY <1>2
      <4> QED BY <4>1, <4>2, <4>3
    <3> QED BY <3>1, <3>2
  <2>4. StacksExclusive'
    BY <2>1, <2>2, <2>3, <1>3 DEF StacksExclusive
  <2> QED BY <2>1, <2>4, <1>1, <1>6
<1> QED BY <1>7, <1>8

LEMMA TerminateKeeps ==
    ASSUME IInv, config' = config, TerminateActiveThread
    PROVE  IInv'
<1> DEFINE t == active_thread
           S == Joiners(t)
<1>1. CASE t = Main
  <2>1. Stop("exit")
    BY <1>1 DEF TerminateActiveThread
  <2> QED BY <2>1, StopKeeps
<1>2. CASE t # Main
  <2>1. TypeOK /\ NoPanic /\ SpawnedBlockedNeverRuns /\ JoinersWaitForLive /\ StacksExclusive /\ Births /\ Worlds /\ Tasks /\ Ended
    BY Parts
  <2>2. /\ phase = "step" /\ halt = "no"
        /\ state' = [u \in Thread |-> IF u = t THEN "Terminated" ELSE IF u \in S THEN "Enabled" ELSE state[u]]
        /\ deadline' = [deadline EXCEPT ![t] = None]
        /\ joins' = [u \in Thread |-> IF u \in S \cup {t} THEN None ELSE joins[u]]
        /\ stack_pool' = IF stack[t] = 0 THEN stack_pool ELSE [stack_pool EXCEPT ![stack[t]] = FALSE]
        /\ halt' = IF stack[t] # 0 /\ ~stack_pool[stack[t]] THEN "panic" ELSE halt
        /\ next_thread' = IF successor[t] = None THEN next_thread
                          ELSE [next_thread EXCEPT ![active_cpu] = successor[t]]
        /\ phase' = "schedule"
        /\ join_status' = join_status /\ stack' = stack /\ thread_map' = thread_map /\ successor' = successor
        /\ active_thread' = active_thread /\ active_cpu' = active_cpu /\ next_cpu' = next_cpu
        /\ cpu_to_threads' = cpu_to_threads /\ yield_active_thread' = yield_active_thread /\ now' = now
    BY <1>2 DEF TerminateActiveThread
  <2>3. /\ state \in [Thread -> Fates] /\ deadline \in [Thread -> 0 .. MaxTime \cup {None}]
        /\ joins \in [Thread -> Thread \cup {None}] /\ join_status \in [Thread -> {"Joinable", "Detached", "Joined"}]
        /\ t \in Thread /\ t \in Created /\ ~Blocked(t) /\ active_cpu \in Cpu
        /\ next_thread \in [Cpu -> Thread \cup {None}] /\ successor \in [Thread -> Thread \cup {None}]
    BY <1>2, <2>1, <2>2 DEF TypeOK, Fates, Births, SpawnedBlockedNeverRuns
  <2>4. t \notin S /\ S \subseteq Thread /\ \A u \in Thread : u \in S <=> state[u] = "Join" /\ joins[u] = t
    BY <2>3 DEF Joiners, Blocked, BlockedStates
  <2> HIDE DEF S
  <2>5. /\ state' \in [Thread -> Fates] /\ state'[t] = "Terminated"
        /\ \A u \in S : state'[u] = "Enabled"
        /\ \A u \in Thread \ (S \cup {t}) : state'[u] = state[u]
        /\ deadline' \in [Thread -> 0 .. MaxTime \cup {None}] /\ deadline'[t] = None
        /\ \A u \in Thread \ {t} : deadline'[u] = deadline[u]
        /\ joins' \in [Thread -> Thread \cup {None}] /\ \A u \in S \cup {t} : joins'[u] = None
        /\ \A u \in Thread \ (S \cup {t}) : joins'[u] = joins[u]
    BY <2>2, <2>3, <2>4 DEF Fates
  <2>6. \A u \in Thread \ {t} : /\ state'[u] = "Unborn" <=> state[u] = "Unborn"
                                /\ state'[u] = "Terminated" <=> state[u] = "Terminated"
    BY <2>4, <2>5
  <2>7. Created' = Created
    BY <2>3, <2>5, <2>6 DEF Created
  <2>8. state[t] # "Terminated" \/ stack[t] = 0
    BY <2>1, <2>2, <2>3 DEF Ended, Worlds
  <2>9. /\ StacksExclusive' /\ stack_pool' \in Seq(BOOLEAN) /\ stack' \in [Thread -> 0 .. Len(stack_pool')]
        /\ stack[t] # 0 => stack_pool[stack[t]]
    BY <2>1, <2>2, <2>3, <2>5, <2>6, <2>8, StackReturned
  <2>10. halt' = "no"
    BY <2>2, <2>9
  <2>11. /\ next_thread' \in [Cpu -> Thread \cup {None}]
         /\ \A c \in Cpu : next_thread'[c] # None => c = active_cpu /\ next_thread'[c] \in thread_map \ {t}
         /\ successor[t] # None => next_thread'[active_cpu] = successor[t]
    BY <2>1, <2>2, <2>3 DEF Tasks
  <2>12. /\ \A u \in Thread : deadline'[u] # None => state'[u] \in BlockedStates /\ state'[u] # "Join"
         /\ \A u \in Thread : joins'[u] # None <=> state'[u] = "Join"
    BY <2>1, <2>4, <2>5, SMTT(40) DEF TypeOK, Births, Blocked
  <2>13. TypeOK'
    BY <2>1, <2>2, <2>5, <2>9, <2>10, <2>11, <2>12 DEF TypeOK, Fates, Blocked
  <2>14. JoinersWaitForLive'
    <3> SUFFICES ASSUME NEW u \in Thread, state'[u] = "Join"
                 PROVE  joins'[u] # None /\ state'[joins'[u]] # "Terminated" /\ join_status'[joins'[u]] = "Joined"
      BY DEF JoinersWaitForLive
    <3>1. u \notin S \cup {t} /\ state[u] = "Join" /\ joins'[u] = joins[u]
      BY <2>5
    <3>2. joins[u] # None /\ state[joins[u]] # "Terminated" /\ join_status[joins[u]] = "Joined" /\ joins[u] \in Thread
      BY <3>1, <2>1, <2>3 DEF JoinersWaitForLive
    <3>3. joins[u] # t
      BY <3>1, <2>4
    <3> QED BY <3>1, <3>2, <3>3, <2>2, <2>6
  <2>15. Births'
    BY <1>2, <2>1, <2>2, <2>6, <2>7, <2>12, Constants DEF Births
  <2>16. Worlds'
    <3>1. Kernel' = Kernel
      BY DEF Kernel
    <3>2. \A u \in Thread : state'[u] \in BlockedStates => state[u] \in BlockedStates
      BY <2>5 DEF BlockedStates
    <3> QED BY <3>1, <3>2, <2>1, <2>2 DEF Worlds, Blocked
  <2>17. Tasks'
    BY <2>1, <2>2, <2>7, <2>11 DEF Tasks
  <2>18. Ended' /\ NoPanic' /\ DeadlockIsReal' /\ SpawnedBlockedNeverRuns'
    BY <2>2, <2>10, <2>11 DEF Ended, NoPanic, DeadlockIsReal, SpawnedBlockedNeverRuns
  <2> QED BY <2>9, <2>13, <2>14, <2>15, <2>16, <2>17, <2>18, PartsNext
<1> QED BY <1>1, <1>2

-----------------------------------------------------------------------------

LEMMA StutterKeeps ==
    ASSUME IInv, UNCHANGED vars
    PROVE  IInv'
<1>1. /\ config' = config /\ UNCHANGED threadVars /\ active_thread' = active_thread /\ phase' = phase /\ halt' = halt
      /\ yield_active_thread' = yield_active_thread /\ now' = now
      /\ active_cpu' = active_cpu /\ next_cpu' = next_cpu /\ cpu_to_threads' = cpu_to_threads /\ next_thread' = next_thread
  BY DEF vars, cpuVars
<1>2. TypeOK /\ NoPanic /\ DeadlockIsReal /\ SpawnedBlockedNeverRuns /\ Births /\ Worlds /\ Tasks /\ Ended
  BY Parts
<1>3. /\ active_cpu' \in Cpu /\ next_cpu' \in Cpu \cup {None} /\ yield_active_thread' \in BOOLEAN /\ now' \in 0 .. MaxTime
      /\ cpu_to_threads' \in [Cpu -> Thread \cup {None}] /\ next_thread' \in [Cpu -> Thread \cup {None}]
      /\ active_thread' \in Created /\ phase' \in {"schedule", "step", "sleep"}
      /\ halt' \in {"no", "ub", "panic", "deadlock", "exit"}
  BY <1>1, <1>2 DEF TypeOK, Births
<1>4. /\ TypeOK' /\ JoinersWaitForLive' /\ StacksExclusive' /\ Births' /\ Created' = Created
      /\ Kernel' = Kernel /\ MainBlocks' = MainBlocks
      /\ state' = state /\ deadline' = deadline /\ stack' = stack /\ thread_map' = thread_map /\ successor' = successor
  BY <1>1, <1>3, ScheduleFrame
<1>5. NoPanic' /\ DeadlockIsReal' /\ SpawnedBlockedNeverRuns'
  BY <1>1, <1>2, <1>4 DEF NoPanic, DeadlockIsReal, SpawnedBlockedNeverRuns, Enabled, Blocked
<1>6. Worlds' /\ Tasks' /\ Ended'
  BY <1>1, <1>2, <1>4 DEF Worlds, Tasks, Ended, Blocked
<1> QED BY <1>4, <1>5, <1>6, PartsNext

LEMMA NextKeeps == IInv /\ [Next]_vars => IInv'
<1> SUFFICES ASSUME IInv, [Next]_vars PROVE IInv'
  OBVIOUS
<1>1. CASE UNCHANGED vars
  BY <1>1, StutterKeeps
<1>2. CASE Schedule
  <2>1. config' = config
    BY <1>2 DEF Schedule
  <2>2. CASE SwitchThread
    BY <2>1, <2>2, SwitchThreadKeeps
  <2>3. CASE FallBackToMain \/ SwitchCpu \/ KeepRunning
    BY <2>1, <2>3, QuietSwitchKeeps
  <2>4. CASE PickThread
    BY <2>1, <2>4, PickThreadKeeps
  <2>5. CASE Sleep
    BY <2>1, <2>5, SleepKeeps
  <2> QED BY <1>2, <2>2, <2>3, <2>4, <2>5 DEF Schedule
<1>3. CASE Step
  <2>1. config' = config
    BY <1>3 DEF Step
  <2>2. CASE (\E asks \in BOOLEAN : Compute(asks)) \/ (\E u \in Thread : SwitchTo(u))
    BY <2>1, <2>2, QuietStepKeeps
  <2>3. CASE CreateThread
    BY <2>1, <2>3, CreateThreadKeeps
  <2>4. CASE TerminateActiveThread
    BY <2>1, <2>4, TerminateKeeps
  <2>5. ASSUME NEW u \in Thread, Join(u) \/ Detach(u) \/ Unblock(u) \/ SwitchToAfterReturn(u) PROVE IInv'
    BY <2>1, <2>5, JoinKeeps, DetachKeeps, UnblockKeeps, SwitchToAfterReturnKeeps
  <2>6. ASSUME NEW reason \in {"Sleep", "Sync"}, NEW until \in {None} \cup now .. config.time, Block(reason, until)
        PROVE  IInv'
    BY <2>1, <2>6, BlockKeeps
  <2> QED BY <1>3, <2>2, <2>3, <2>4, <2>5, <2>6 DEF Step
<1> QED BY <1>1, <1>2, <1>3 DEF Next

(* The inductive invariant: what the scheduler, the joins, the stacks and  *)
(* the CPU maps of thread.rs promise, with what that rests on.             *)
THEOREM Invariance == Spec => []IInv
<1>1. Init => IInv
  BY InitHolds
<1>2. IInv /\ [Next]_vars => IInv'
  BY NextKeeps
<1> QED BY <1>1, <1>2, PTL DEF Spec

(* thread.rs schedule and schedule_switch_thread_and_cpu: only real        *)
(* deadlocks are reported, no spawned thread runs while blocked, and no    *)
(* assertion fails unless the main thread blocks.                          *)
THEOREM SchedulerSound == Spec => []SchedulingIsSound
<1>1. IInv => SchedulingIsSound
  BY DEF IInv
<1> QED BY <1>1, Invariance, PTL

(* join_thread, detach_thread and terminate_active_thread: whoever is      *)
(* blocked in a join waits for a living thread that is marked as joined.   *)
THEOREM JoinersNeverStranded == Spec => []JoinersWaitForLive
<1>1. IInv => JoinersWaitForLive
  BY DEF IInv
<1> QED BY <1>1, Invariance, PTL

(* get_stack_range and terminate_active_thread: no two living threads      *)
(* share a stack, and the pool knows which stacks are in use.              *)
THEOREM StacksNeverShared == Spec => []StacksExclusive
<1>1. IInv => StacksExclusive
  BY DEF IInv
<1> QED BY <1>1, Invariance, PTL

-----------------------------------------------------------------------------
(* What the scheduler may never do. *)

LEMMA WhoSchedules ==
    ASSUME [Next]_vars, phase = "schedule", phase' = "step"
    PROVE  SwitchThread \/ FallBackToMain \/ SwitchCpu \/ KeepRunning \/ PickThread
<1>1. ~Step
  BY DEF Step, Compute, CreateThread, TerminateActiveThread, Join, Detach, Unblock, SwitchTo, SwitchToAfterReturn,
         Block, MayBlock, Stepping
<1>2. ~UNCHANGED vars
  BY DEF vars
<1>3. ~Sleep
  BY DEF Sleep
<1> QED BY <1>1, <1>2, <1>3 DEF Next, Schedule

LEMMA DeadlineFires ==
    ASSUME IInv, [Next]_vars, phase = "schedule", phase' = "step",
           Blocked(active_thread), deadline[active_thread] \in 0 .. now
    PROVE  state'[active_thread] = "Enabled"
<1>1. TypeOK /\ Worlds /\ Tasks
  BY Parts
<1>2. active_thread \in Thread /\ active_cpu \in Cpu /\ now \in Nat /\ next_cpu \in Cpu \cup {None}
  BY <1>1, Constants DEF TypeOK
<1>3. ~Kernel
  BY <1>1, <1>2 DEF Worlds
<1>4. next_cpu = None /\ next_thread[active_cpu] = None
  BY <1>1, <1>2, <1>3 DEF Worlds, Tasks
<1>5. state[active_thread] \notin {"Enabled", "Terminated"}
  BY DEF Blocked, BlockedStates
<1>6. PickThread
  <2>1. ~SwitchThread
    BY <1>4 DEF SwitchThread
  <2>2. ~FallBackToMain
    BY <1>5 DEF FallBackToMain
  <2>3. ~SwitchCpu
    BY <1>4 DEF SwitchCpu
  <2>4. ~KeepRunning
    BY <1>5 DEF KeepRunning, Enabled
  <2> QED BY <2>1, <2>2, <2>3, <2>4, WhoSchedules
<1>7. active_thread \in Expired
  BY <1>2, Constants DEF Expired
<1> QED BY <1>2, <1>6, <1>7 DEF PickThread, Woken

LEMMA SuccessorRuns ==
    ASSUME IInv, [Next]_vars, phase = "schedule", phase' = "step",
           state[active_thread] = "Terminated", successor[active_thread] # None
    PROVE  cpu_to_threads'[active_cpu] = successor[active_thread]
<1>1. TypeOK /\ Ended
  BY Parts
<1>2. next_thread[active_cpu] = successor[active_thread]
  BY <1>1 DEF Ended
<1>3. SwitchThread
  BY <1>2, WhoSchedules DEF FallBackToMain, MayFallBack, SwitchCpu, KeepRunning, PickThread, NothingDue
<1>4. active_cpu \in Cpu /\ cpu_to_threads \in [Cpu -> Thread \cup {None}]
  BY <1>1 DEF TypeOK
<1> QED BY <1>2, <1>3, <1>4 DEF SwitchThread

(* schedule: "timeouts in the past fire before any other thread can take   *)
(* an action", and a terminating kernel task's successor is next.          *)
THEOREM SwitchesAlwaysHonoured == Spec => SwitchesHonoured
<1> DEFINE Past == /\ phase = "schedule" /\ phase' = "step"
                   /\ Blocked(active_thread) /\ deadline[active_thread] \in 0 .. now
                   => state'[active_thread] = "Enabled"
           Succ == phase = "schedule" /\ phase' = "step" /\ state[active_thread] = "Terminated"
                   /\ successor[active_thread] # None
                   => cpu_to_threads'[active_cpu] = successor[active_thread]
<1>1. IInv /\ [Next]_vars => [Past]_vars
  BY DeadlineFires
<1>2. IInv /\ [Next]_vars => [Succ]_vars
  BY SuccessorRuns
<1>3. Spec => [][Past]_vars
  BY <1>1, Invariance, PTL DEF Spec
<1>4. Spec => [][Succ]_vars
  BY <1>2, Invariance, PTL DEF Spec
<1> QED BY <1>3, <1>4 DEF SwitchesHonoured, PastDeadlineFiresFirst, SuccessorHonoured

=============================================================================
