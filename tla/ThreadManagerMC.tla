-------------------------- MODULE ThreadManagerMC --------------------------
(* Instances of ThreadManager and of Tls for TLC: what Miri is started with, *)
(* and the kinds of programs.  A behaviour is about one of the two modules.  *)
EXTENDS ThreadManager, Tls

(* Four std threads under random scheduling with preemption. *)
Std == [threads |-> 4, time |-> 1, fixed_scheduling |-> FALSE, preemption |-> TRUE,
        windows |-> FALSE, kernel |-> FALSE, main_blocks |-> FALSE]
OnWindows == [Std EXCEPT !.time = 0, !.windows = TRUE]
BlockingMain == [Std EXCEPT !.threads = 3, !.main_blocks = TRUE]
(* "Round Robin scheduling with no preemption". *)
RoundRobin == [Std EXCEPT !.threads = 3, !.fixed_scheduling = TRUE, !.preemption = FALSE]
(* Kernel tasks on two CPUs. *)
KernelTasks == [Std EXCEPT !.time = 0, !.preemption = FALSE, !.kernel = TRUE]

AllConfigs == {Std, OnWindows, BlockingMain, RoundRobin, KernelTasks}
OnlyBlockingMain == {BlockingMain}

(* Programs with thread-local storage on each target. *)
TlsProgram(os) == [os |-> os, preemption |-> os = "linux",
                   ctors |-> IF os = "linux" THEN 1 ELSE 0, late_atexit |-> FALSE]
AllTlsPrograms == {TlsProgram(os) : os \in {"linux", "macos", "windows", "none"}}
LateAtexit == {[TlsProgram("macos") EXCEPT !.late_atexit = TRUE]}

CONSTANT Parts        \* what behaviours are about: "threads" or "tls"
VARIABLE part
allVars == <<part, vars, tlsVars>>

(* The part a behaviour is not about stays in one initial state. *)
MCInit ==
    /\ part \in Parts /\ Init /\ TlsInit
    /\ part = "tls" => config = BlockingMain
    /\ part = "threads" => program = CHOOSE p \in TlsPrograms : TRUE

OfThreads(A) == part = "threads" /\ A /\ UNCHANGED <<part, tlsVars>>
OfTls(A) == part = "tls" /\ A /\ UNCHANGED <<part, vars>>

MCNext == OfThreads(Next) \/ OfTls(TlsNext)

(* The interpreter loop goes on; a thread that ends is scheduled again and *)
(* again, and the functions it runs return.                                *)
MCSpec ==
    /\ MCInit /\ [][MCNext]_allVars
    /\ WF_allVars(OfThreads(Schedule))
    /\ \A t \in TlsThread \ {0} : WF_allVars(OfTls(TlsReturn(t) \/ TlsOnStackEmpty(t)))

(* Round robin reaches every enabled thread of a program whose threads     *)
(* pause, and a thread that returned from its function gets through its    *)
(* destructors if they do not store new values for ever.                   *)
EveryoneGetsOn == AllGetAChance /\ EndingThreadsFinish
=============================================================================
