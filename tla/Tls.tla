-------------------------------- MODULE Tls --------------------------------
(***************************************************************************)
(* Thread-local storage (src/src/shims/tls.rs) and how a thread ends: when *)
(* its stack runs empty, the interpreter polls the on_stack_empty callback *)
(* of the thread, which runs one destructor after the other; the main      *)
(* thread also runs the global constructors before and yields after them   *)
(* (shims/global_ctor.rs, MainThreadState of eval.rs).  Threads interleave *)
(* between any two polls and calls.  The values stored under a key are     *)
(* NULL or not; destructors are program functions that may use keys, too.  *)
(***************************************************************************)
EXTENDS Integers, Sequences, FiniteSets

CONSTANTS
    TlsThreads,     \* bound: threads 0 .. TlsThreads - 1, 0 is the main one
    TlsMaxKey,      \* bound: keys ever created
    TlsCalls,       \* bound: calls of the program that use a key or a static
    TlsYields,      \* MAIN_THREAD_YIELDS_AT_SHUTDOWN
    TlsPrograms     \* the targets, and what the destructors of programs do

ASSUME TlsAssumption ==
    /\ TlsThreads \in Nat \ {0} /\ TlsMaxKey \in Nat /\ TlsCalls \in Nat /\ TlsYields \in Nat
    /\ TlsPrograms \subseteq [os : {"linux", "macos", "windows", "none"}, preemption : BOOLEAN,
                              ctors : 0 .. 1, late_atexit : BOOLEAN]

TlsThread == 0 .. TlsThreads - 1
TlsKey == 1 .. TlsMaxKey             \* TlsKey; "we must not use 0 on Windows"

VARIABLES
    program,      \* one of TlsPrograms, never changed
    keys,         \* TlsData.keys: does the key have a dtor, who has a value
    next_key,
    macos_thread_dtors,  \* how many functions _tlv_atexit registered and did not run
    end_state,    \* TlsDtorsState of the thread; MainThreadState of the main one
    frame,        \* the program function on the thread's stack: none, code or dtor
    last_key, remaining_keys, crt_dtors,  \* of the state of running destructors
    ctors, yields,                        \* of the states of the main thread
    statics,      \* the thread-local static of a thread: none, live, freed or root
    calls, tls_halt,
    \* History: the keys whose destructor ran while k was waiting for its own,
    \* and whether one of them ran twice.
    overtaken, overtaken_twice

tlsVars == <<program, keys, next_key, macos_thread_dtors, end_state, frame, last_key,
             remaining_keys, crt_dtors, ctors, yields, statics, calls, tls_halt,
             overtaken, overtaken_twice>>

TlsUnix == program.os \in {"linux", "macos"}

TlsInit ==
    /\ program \in TlsPrograms
    /\ keys = <<>> /\ next_key = 1
    /\ macos_thread_dtors = [t \in TlsThread |-> 0]
    /\ end_state = [t \in TlsThread |-> IF t = 0 THEN "CtorsInit" ELSE "Unborn"]
    /\ frame = [t \in TlsThread |-> "none"]
    /\ last_key = [t \in TlsThread |-> 0] /\ remaining_keys = [t \in TlsThread |-> <<>>]
    /\ crt_dtors = [t \in TlsThread |-> 0]
    /\ ctors = 0 /\ yields = 0
    /\ statics = [t \in TlsThread |-> "none"]
    /\ calls = 0 /\ tls_halt = "no"
    /\ overtaken = [t \in TlsThread |-> [k \in TlsKey |-> {}]]
    /\ overtaken_twice = FALSE

TlsStop(how) ==
    /\ tls_halt' = how
    /\ UNCHANGED <<program, keys, next_key, macos_thread_dtors, end_state, frame, last_key,
                   remaining_keys, crt_dtors, ctors, yields, statics, calls,
                   overtaken, overtaken_twice>>

-----------------------------------------------------------------------------
(* Calls of the program function on the stack of t. *)

TlsInCall(t) == tls_halt = "no" /\ frame[t] # "none" /\ calls < TlsCalls
TlsCall(t) == TlsInCall(t) /\ calls' = calls + 1

tlsEndVars == <<end_state, frame, last_key, remaining_keys, crt_dtors, ctors, yields>>

KeyAfter(k) == k + 1

(* create_tls_key: pthread_key_create, TlsAlloc (no dtor) and FlsAlloc. *)
CreateTlsKey(t, dtor) ==
    /\ next_key <= TlsMaxKey
    /\ TlsCall(t)
    /\ next_key' = KeyAfter(next_key)
    /\ keys' = [k \in DOMAIN keys \cup {next_key} |->
                  IF k = next_key THEN [dtor |-> dtor, data |-> {}] ELSE keys[k]]
    /\ UNCHANGED <<program, macos_thread_dtors, tlsEndVars, statics, tls_halt,
                   overtaken, overtaken_twice>>

(* A deleted key waits no longer. *)
NoLongerWaits(k) == overtaken' = [t \in TlsThread |-> [overtaken[t] EXCEPT ![k] = {}]]

(* pthread_key_delete, TlsFree and FlsFree; the last refuses to drop       *)
(* values that would need their destructor.                                *)
DeleteTlsKey(t, k, fls) ==
    /\ k \in DOMAIN keys /\ TlsInCall(t)
    /\ IF fls /\ keys[k].dtor /\ keys[k].data # {} THEN TlsStop("unsupported")
       ELSE /\ TlsCall(t)
            /\ keys' = [j \in DOMAIN keys \ {k} |-> keys[j]]
            /\ NoLongerWaits(k)
            /\ UNCHANGED <<program, next_key, macos_thread_dtors, tlsEndVars, statics,
                           tls_halt, overtaken_twice>>

(* A deleted key: load_tls, store_tls and delete_tls_key are errors. *)
UseOfDeletedKey(t, k) == TlsInCall(t) /\ k < next_key /\ k \notin DOMAIN keys /\ TlsStop("ub")

(* pthread_setspecific, TlsSetValue and FlsSetValue; NULL is no value. *)
StoreTls(t, k, null) ==
    /\ k \in DOMAIN keys
    /\ TlsCall(t)
    /\ keys' = [keys EXCEPT ![k].data = IF null THEN @ \ {t} ELSE @ \cup {t}]
    /\ overtaken' = IF null THEN [overtaken EXCEPT ![t][k] = {}] ELSE overtaken
    /\ UNCHANGED <<program, next_key, macos_thread_dtors, tlsEndVars, statics, tls_halt,
                   overtaken_twice>>

(* _tlv_atexit; late_atexit: also when only pthread destructors are left. *)
TlvAtexit(t) ==
    /\ program.os = "macos"
    /\ end_state[t] = "PthreadDtors" => program.late_atexit
    /\ TlsCall(t)
    /\ macos_thread_dtors' = [macos_thread_dtors EXCEPT ![t] = @ + 1]
    /\ UNCHANGED <<program, keys, next_key, tlsEndVars, statics, tls_halt,
                   overtaken, overtaken_twice>>

(* get_or_create_thread_local_alloc: the first use of a thread-local static. *)
UseThreadLocalStatic(t) ==
    /\ statics[t] # "live"
    /\ TlsCall(t)
    /\ statics' = [statics EXCEPT ![t] = "live"]
    /\ UNCHANGED <<program, keys, next_key, macos_thread_dtors, tlsEndVars, tls_halt,
                   overtaken, overtaken_twice>>

(* start_regular_thread: the new thread starts with its own end state. *)
TlsSpawn(t, u) ==
    /\ end_state[u] = "Unborn" /\ \A v \in TlsThread : v < u => end_state[v] # "Unborn"
    /\ TlsCall(t)
    /\ end_state' = [end_state EXCEPT ![u] = "Init"]
    /\ frame' = [frame EXCEPT ![u] = "code"]
    /\ UNCHANGED <<program, keys, next_key, macos_thread_dtors, last_key, remaining_keys,
                   crt_dtors, ctors, yields, statics, tls_halt, overtaken, overtaken_twice>>

(* The function returns, its stack is empty. *)
TlsReturn(t) ==
    /\ tls_halt = "no" /\ frame[t] # "none"
    /\ frame' = [frame EXCEPT ![t] = "none"]
    /\ UNCHANGED <<program, keys, next_key, macos_thread_dtors, end_state, last_key,
                   remaining_keys, crt_dtors, ctors, yields, statics, calls, tls_halt,
                   overtaken, overtaken_twice>>

(* The functions of pthread keys. *)
PthreadKeyCalls(t) ==
    /\ TlsUnix
    /\ \/ \E dtor \in BOOLEAN : CreateTlsKey(t, dtor)
       \/ \E k \in TlsKey : \/ UseOfDeletedKey(t, k) \/ DeleteTlsKey(t, k, FALSE)
                           \/ \E null \in BOOLEAN : StoreTls(t, k, null)

(* TlsAlloc .. TlsFree and FlsAlloc .. FlsFree; they share the keys. *)
WindowsKeyCalls(t) ==
    /\ program.os = "windows"
    /\ \/ \E dtor \in BOOLEAN : CreateTlsKey(t, dtor)
       \/ \E k \in TlsKey : \/ UseOfDeletedKey(t, k)
                           \/ \E fls \in BOOLEAN : DeleteTlsKey(t, k, fls)
                           \/ \E null \in BOOLEAN : StoreTls(t, k, null)

TlsProgramStep(t) ==
    \/ PthreadKeyCalls(t) \/ WindowsKeyCalls(t)
    \/ TlvAtexit(t) \/ UseThreadLocalStatic(t)
    \/ \E u \in TlsThread : TlsSpawn(t, u)
    \/ TlsReturn(t)

-----------------------------------------------------------------------------
(* on_stack_empty of TlsDtorsState: one poll.  The main thread is in these *)
(* states between Running and Yield.                                       *)

TlsPoll(t) == tls_halt = "no" /\ frame[t] = "none"

TlsGoTo(t, s) == end_state' = [end_state EXCEPT ![t] = s]
RunsFunction(t, kind) == frame' = [frame EXCEPT ![t] = kind]

TlsHasDtor(k) == k \in DOMAIN keys /\ keys[k].dtor
TlsHasValue(t, k) == k \in DOMAIN keys /\ t \in keys[k].data

(* Keys whose destructor is to run for t. *)
TlsWaiting(t) == {k \in DOMAIN keys : TlsHasDtor(k) /\ TlsHasValue(t, k)}

KeysInOrder(S) == [i \in 1 .. Cardinality(S) |-> CHOOSE k \in S : Cardinality({j \in S : j <= k}) = i]

(* lookup_windows_fls_keys_with_dtors. *)
LookupWindowsFlsKeys(t) == KeysInOrder({k \in DOMAIN keys : TlsHasDtor(k)})

DtorsInit(t) ==
    /\ TlsPoll(t) /\ end_state[t] = "Init"
    /\ TlsGoTo(t, CASE program.os = "macos" -> "MacOsDtors" [] program.os = "linux" -> "PthreadDtors"
                    [] program.os = "windows" -> "WindowsDtors" [] OTHER -> "Done")
    /\ IF program.os = "windows"
       THEN /\ remaining_keys' = [remaining_keys EXCEPT ![t] = LookupWindowsFlsKeys(t)]
            /\ crt_dtors' = [crt_dtors EXCEPT ![t] = 1]
       ELSE UNCHANGED <<remaining_keys, crt_dtors>>
    /\ UNCHANGED <<program, keys, next_key, macos_thread_dtors, frame, last_key, ctors, yields,
                   statics, calls, tls_halt, overtaken, overtaken_twice>>

(* "If a destructor registers another destructor, it will be run next." *)
AfterMacosDtor == "MacOsDtors"

(* schedule_macos_tls_dtor. *)
MacosDtors(t) ==
    /\ TlsPoll(t) /\ end_state[t] = "MacOsDtors"
    /\ IF macos_thread_dtors[t] = 0
       THEN TlsGoTo(t, "PthreadDtors") /\ UNCHANGED <<macos_thread_dtors, frame>>
       ELSE /\ macos_thread_dtors' = [macos_thread_dtors EXCEPT ![t] = @ - 1]
            /\ RunsFunction(t, "dtor") /\ TlsGoTo(t, AfterMacosDtor)
    /\ UNCHANGED <<program, keys, next_key, last_key, remaining_keys, crt_dtors, ctors, yields,
                   statics, calls, tls_halt, overtaken, overtaken_twice>>

(* fetch_tls_dtor: the first waiting key behind `after`, or 0. *)
FetchTlsDtor(t, after) ==
    LET K == {k \in TlsWaiting(t) : k > after} IN
    IF K = {} THEN 0 ELSE CHOOSE k \in K : \A j \in K : k <= j

(* Mutant: the keys before the last one are not looked at again. *)
NextPthreadDtorOnce(t) == FetchTlsDtor(t, last_key[t])

(* "We ran each dtor once, start over from the beginning." *)
NextPthreadDtor(t) ==
    LET k == FetchTlsDtor(t, last_key[t]) IN IF k # 0 THEN k ELSE FetchTlsDtor(t, 0)

(* The destructor of k runs while others wait. *)
Overtakes(t, k) ==
    LET others == TlsWaiting(t) \ {k} IN
    /\ overtaken' = [overtaken EXCEPT ![t] =
         [j \in TlsKey |-> IF j = k THEN {} ELSE IF j \in others THEN @[j] \cup {k} ELSE @[j]]]
    /\ overtaken_twice' = (overtaken_twice \/ \E j \in others : k \in overtaken[t][j])

(* "Set TLS data to NULL, and call dtor with old value." *)
TakeValue(t, k) == [keys EXCEPT ![k].data = @ \ {t}]

(* schedule_next_pthread_tls_dtor. *)
PthreadDtors(t) ==
    /\ TlsPoll(t) /\ end_state[t] = "PthreadDtors"
    /\ LET k == NextPthreadDtor(t) IN
       IF k = 0 THEN TlsGoTo(t, "Done") /\ UNCHANGED <<keys, last_key, frame, overtaken, overtaken_twice>>
       ELSE /\ last_key' = [last_key EXCEPT ![t] = k]
            /\ keys' = TakeValue(t, k)
            /\ RunsFunction(t, "dtor")
            /\ Overtakes(t, k)
            /\ UNCHANGED end_state
    /\ UNCHANGED <<program, next_key, macos_thread_dtors, remaining_keys, crt_dtors, ctors,
                   yields, statics, calls, tls_halt>>

(* "We are done running the previous key's destructor, so set its value to zero." *)
ClearLast(t) == IF last_key[t] \in DOMAIN keys THEN TakeValue(t, last_key[t]) ELSE keys

(* schedule_next_windows_fls_dtor: the first remaining key that still      *)
(* exists with a dtor and a value; then the .CRT$XLB functions.            *)
WindowsDtors(t) ==
    LET cleared == ClearLast(t)
        ks == remaining_keys[t]
        I == {i \in 1 .. Len(ks) : /\ ks[i] \in DOMAIN cleared /\ cleared[ks[i]].dtor
                                   /\ t \in cleared[ks[i]].data}
    IN
    /\ TlsPoll(t) /\ end_state[t] = "WindowsDtors"
    /\ keys' = cleared
    /\ IF I # {}
       THEN LET i == CHOOSE i \in I : \A j \in I : i <= j IN
            /\ last_key' = [last_key EXCEPT ![t] = ks[i]]
            /\ remaining_keys' = [remaining_keys EXCEPT ![t] = SubSeq(ks, i + 1, Len(ks))]
            /\ RunsFunction(t, "dtor") /\ Overtakes(t, ks[i])
            /\ UNCHANGED <<crt_dtors, end_state>>
       ELSE /\ last_key' = [last_key EXCEPT ![t] = 0]
            /\ remaining_keys' = [remaining_keys EXCEPT ![t] = <<>>]
            /\ UNCHANGED <<overtaken, overtaken_twice>>
            /\ IF crt_dtors[t] > 0
               THEN /\ crt_dtors' = [crt_dtors EXCEPT ![t] = @ - 1]
                    /\ RunsFunction(t, "dtor") /\ UNCHANGED end_state
               ELSE TlsGoTo(t, "Done") /\ UNCHANGED <<crt_dtors, frame>>
    /\ UNCHANGED <<program, next_key, macos_thread_dtors, ctors, yields, statics, calls, tls_halt>>

(* delete_all_thread_tls. *)
DeleteAllThreadTls(t) == [k \in DOMAIN keys |-> [keys[k] EXCEPT !.data = @ \ {t}]]

(* terminate_active_thread: TlsAllocAction::Deallocate, and Leak for main. *)
FreeStatics(t) ==
    [statics EXCEPT ![t] = IF @ = "live" THEN IF t = 0 THEN "root" ELSE "freed" ELSE @]

(* Done: delete_all_thread_tls asserts that no function is left to run.    *)
(* A thread terminates; main goes on to yield if threads are preempted.    *)
DtorsDone(t) ==
    /\ TlsPoll(t) /\ end_state[t] = "Done"
    /\ IF macos_thread_dtors[t] # 0 THEN TlsStop("panic")
       ELSE /\ keys' = DeleteAllThreadTls(t)
            /\ overtaken' = [overtaken EXCEPT ![t] = [k \in TlsKey |-> {}]]
            /\ IF t = 0 THEN /\ TlsGoTo(t, IF program.preemption THEN "Yield" ELSE "MainDone")
                             /\ yields' = IF program.preemption THEN TlsYields ELSE 0
                             /\ UNCHANGED statics
               ELSE TlsGoTo(t, "Finished") /\ statics' = FreeStatics(t) /\ UNCHANGED yields
            /\ UNCHANGED <<program, next_key, macos_thread_dtors, frame, last_key, remaining_keys,
                           crt_dtors, ctors, calls, tls_halt, overtaken_twice>>

TlsOnStackEmpty(t) ==
    DtorsInit(t) \/ MacosDtors(t) \/ PthreadDtors(t) \/ WindowsDtors(t) \/ DtorsDone(t)

-----------------------------------------------------------------------------
(* on_main_stack_empty around it. *)

mainUnchanged == <<program, keys, next_key, macos_thread_dtors, last_key, remaining_keys,
                   crt_dtors, calls, overtaken, overtaken_twice>>

(* GlobalCtorState::on_stack_empty: look the constructors up. *)
CtorsInit ==
    /\ TlsPoll(0) /\ end_state[0] = "CtorsInit"
    /\ ctors' = program.ctors /\ TlsGoTo(0, "Ctors")
    /\ UNCHANGED <<mainUnchanged, frame, yields, statics, tls_halt>>

(* Run one of them. *)
RunCtor ==
    /\ TlsPoll(0) /\ end_state[0] = "Ctors"
    /\ ctors > 0 /\ ctors' = ctors - 1
    /\ RunsFunction(0, "code")
    /\ UNCHANGED <<mainUnchanged, end_state, yields, statics, tls_halt>>

(* No more constructors to run. *)
CallMain ==
    /\ TlsPoll(0) /\ end_state[0] = "Ctors" /\ ctors = 0
    /\ TlsGoTo(0, "Running")
    /\ RunsFunction(0, "code")
    /\ UNCHANGED <<mainUnchanged, ctors, yields, statics, tls_halt>>

(* main returned: run its destructors. *)
MainReturned ==
    /\ TlsPoll(0) /\ end_state[0] = "Running"
    /\ TlsGoTo(0, "Init")
    /\ UNCHANGED <<mainUnchanged, frame, ctors, yields, statics, tls_halt>>

(* "Give background threads a chance to finish." *)
MainYields ==
    /\ TlsPoll(0) /\ end_state[0] = "Yield"
    /\ IF yields = 0 THEN TlsGoTo(0, "MainDone") /\ UNCHANGED yields
       ELSE yields' = yields - 1 /\ UNCHANGED end_state
    /\ UNCHANGED <<mainUnchanged, frame, ctors, statics, tls_halt>>

(* have_all_terminated. *)
HaveAllTerminated == \A t \in TlsThread \ {0} : end_state[t] \in {"Unborn", "Finished"}

(* Done: the main thread terminates and the program ends; eval_entry       *)
(* reports threads that have not.                                          *)
MainDone ==
    /\ TlsPoll(0) /\ end_state[0] = "MainDone"
    /\ TlsGoTo(0, "Finished") /\ statics' = FreeStatics(0)
    /\ tls_halt' = IF HaveAllTerminated THEN "exit" ELSE "thread leak"
    /\ UNCHANGED <<mainUnchanged, frame, ctors, yields>>

TlsMainStep == CtorsInit \/ RunCtor \/ CallMain \/ MainReturned \/ MainYields \/ MainDone

TlsNext ==
    \/ \E t \in TlsThread : TlsProgramStep(t) \/ TlsOnStackEmpty(t)
    \/ TlsMainStep

TlsSpec == TlsInit /\ [][TlsNext]_tlsVars

-----------------------------------------------------------------------------

(* The shape of the state. *)
TlsTypeOK ==
    /\ DOMAIN keys \subseteq 1 .. next_key - 1
    /\ \A k \in DOMAIN keys : keys[k].data \subseteq {t \in TlsThread : end_state[t] # "Unborn"}
    /\ \A t \in TlsThread : frame[t] # "none" =>
         end_state[t] \in {"Ctors", "Running", "Init", "MacOsDtors", "PthreadDtors", "WindowsDtors"}

(* fetch_tls_dtor: "we need to iterate over all keys and run each          *)
(* destructor at least once before running any destructor a 2nd time":     *)
(* while a value waits for its destructor, no other destructor of the      *)
(* thread runs twice, whatever the destructors set, create and delete.     *)
NoDtorRunsTwiceFirst == ~overtaken_twice

(* When the destructors of a Unix thread are done, no value of it is left  *)
(* whose key has a destructor: the ones set by destructors ran theirs.     *)
NoValueLeftUndestroyed ==
    TlsUnix => \A t \in TlsThread : end_state[t] = "Done" => TlsWaiting(t) = {}

(* delete_all_thread_tls: "the destructors should have already been run",  *)
(* whichever functions the destructors registered.                         *)
DestructorsAlreadyRun == tls_halt # "panic"

(* A thread that has ended leaves nothing behind: no value under any key,  *)
(* no function to run, no static of its own; and a program that exits      *)
(* without a report leaves no thread that has not come this far.           *)
DeadThreadsOwnNothing ==
    /\ \A t \in TlsThread : end_state[t] = "Finished" =>
         /\ \A k \in DOMAIN keys : t \notin keys[k].data
         /\ macos_thread_dtors[t] = 0 /\ statics[t] # "live"
    /\ tls_halt = "exit" => \A t \in TlsThread : end_state[t] \in {"Unborn", "Finished"}

(* A thread whose function has returned gets through its destructors if    *)
(* those store new values and register new functions only finitely often.  *)
(* That is a condition on the program: fetch_tls_dtor goes on as long as   *)
(* there are values, "even though this might result in an infinite loop".  *)
EndingThreadsFinish ==
    <>[][calls' = calls]_tlsVars =>
        \A t \in TlsThread \ {0} :
            (end_state[t] = "Init" /\ frame[t] = "none") ~> (end_state[t] = "Finished" \/ tls_halt # "no")

(* The destructors of a thread take turns, and when it has ended all of    *)
(* them have run and nothing of it is left.                                *)
DestructorsRun ==
    TlsTypeOK /\ NoDtorRunsTwiceFirst /\ NoValueLeftUndestroyed /\ DestructorsAlreadyRun /\ DeadThreadsOwnNothing
=============================================================================
