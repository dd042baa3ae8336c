------------------------------ MODULE FdTable ------------------------------
(***************************************************************************)
(* File descriptions, the table of descriptor numbers that refer to them,  *)
(* and the calls that change the table (shims/files.rs, shims/unix/fd.rs). *)
(*                                                                         *)
(* A call of a thread runs as one step of the interpreter, in which other  *)
(* threads are woken and run their callbacks, which may wake others in     *)
(* turn.  `work` is that stack of pending calls, head first; a thread      *)
(* starts a call only when it is empty.  The values a description is       *)
(* dropped with are part of the step that gives up its last reference, so  *)
(* a drop comes before everything else that is pending.                    *)
(*                                                                         *)
(* Happens-before is kept as knowledge: a thread or a clock holds the      *)
(* descriptions whose latest write it knows of.                            *)
(***************************************************************************)
EXTENDS Integers, Sequences, FiniteSets, SequencesExt

CONSTANTS
    IoThread,       \* the threads
    MaxNum,         \* bound: descriptor numbers are 0 .. MaxNum
    MaxDesc,        \* bound: descriptions 1 .. MaxDesc are ever made
    IoScenarios     \* what a program sets up, the calls it may make, the target

Num == 0 .. MaxNum
Desc == 1 .. MaxDesc
None == 0
Watcher == Desc \cup IoThread     \* an epoll description, or a poll call of a thread

VARIABLES
    ioScenario,     \* [threads, calls, ..; plan, late: kinds still to be made]
    fds,            \* number -> description, or None
    desc,           \* the descriptions
    watcher,        \* the readiness watchers
    thr,            \* what every thread is blocked in, if anything
    work,           \* the pending calls of the current step
    delayed,        \* descriptions whose readiness is still to be updated
    owner,          \* the thread that was active when `delayed` was filled
    know,           \* per thread: the descriptions whose latest write it knows
    ioPanic         \* an assertion of the interpreter that failed, or "none"

ioVars == <<ioScenario, fds, desc, watcher, thr, work, delayed, owner, know, ioPanic>>

(* The part of a TCP socket: its state, what the interpreter believes the  *)
(* host is ready for, a stored error, timeouts, and the threads blocked on *)
(* it with their interest; `host` is the socket of the host.               *)
NoHost == [st |-> "none", data |-> 0, room |-> 0, rshut |-> FALSE, wshut |-> FALSE, err |-> FALSE, event |-> FALSE]
NoTcp == [st |-> "none", io |-> {}, err |-> FALSE, rto |-> FALSE, wto |-> FALSE, blocked |-> {}, host |-> NoHost]
NoDesc == [kind |-> "none", n |-> 0, peer |-> None, lost |-> FALSE, nb |-> FALSE, clock |-> {},
           rclock |-> {}, rd |-> <<>>, wr |-> <<>>, watchers |-> <<>>, tcp |-> NoTcp]
Closed == [NoDesc EXCEPT !.kind = "closed"]
NoWatcher == [live |-> FALSE, interests |-> <<>>, ready |-> <<>>, queue |-> <<>>]
NewWatcher == [NoWatcher EXCEPT !.live = TRUE]

Live(d) == desc[d].kind \notin {"none", "closed"}
Sockets == {"socketpair", "pipe_read", "pipe_write"}

---------------------------------------------------------------------------
(* The pending calls.  Each holds strong references to d and to w. *)
Job(job, t, d, w) == [job |-> job, t |-> t, d |-> d, w |-> w, keys |-> {}, on |-> {}, force |-> FALSE, release |-> TRUE,
                      n |-> 0, woken |-> FALSE, call |-> "none", nb |-> FALSE]
(* A thread is running, or blocked in `op`, holding d, with a deadline or  *)
(* not, and with the callback that goes on when it is woken.               *)
NoJob == Job("none", None, None, None)
Running == [op |-> "run", d |-> None, timed |-> FALSE, next |-> NoJob]
Blocked(op, d, timed, next) == [op |-> op, d |-> d, timed |-> timed, next |-> next]
Return(t) == Job("return", t, None, None)
Unblock(t, reason) == [Job("unblock", t, None, None) EXCEPT !.on = {reason}]
UnblockAll(ts, reason) == [i \in 1 .. Len(ts) |-> Unblock(ts[i], reason)]

Referenced(d) ==
    \/ \E n \in Num : fds[n] = d
    \/ \E t \in IoThread : thr[t].d = d
    \/ \E i \in 1 .. Len(delayed) : delayed[i] = d
    \/ \E i \in 1 .. Len(work) : work[i].d = d

WatcherReferenced(w) ==
    \/ w \in Desc /\ Live(w)
    \/ w \in IoThread /\ thr[w].op = "poll"
    \/ \E i \in 1 .. Len(work) : work[i].w = w

Garbage == {d \in Desc : Live(d) /\ ~Referenced(d)}
GarbageWatchers == {w \in Watcher : watcher[w].live /\ ~WatcherReferenced(w)}
NoGarbage == Garbage = {} /\ GarbageWatchers = {}

(* Garbage goes first, and nothing goes on after a panic: every action but *)
(* the drops is taken under CanStep (see the next-state relation).         *)
CanStep == ioPanic = "none" /\ NoGarbage
Idle == work = <<>> /\ CanStep
(* t starts a call.  While an update is delayed the thread that caused it  *)
(* keeps running: the scheduler handles it before it switches threads.     *)
Enters(t) ==
    /\ t \in ioScenario.threads /\ work = <<>> /\ thr[t].op = "run"
    /\ delayed = <<>> \/ owner = t
Calls(t, call) ==
    /\ call \in ioScenario.calls /\ ioScenario.plan = <<>>
    /\ Enters(t)
Begin(t, jobs) == work' = jobs \o <<Return(t)>> /\ UNCHANGED <<delayed, owner>>
(* The next pending call is of kind `job`, and is replaced by `jobs`. *)
Pending(job) == work # <<>> /\ Head(work).job = job
Continue(jobs) == work' = jobs \o Tail(work)

ReturnFromCall ==
    /\ Pending("return")
    /\ owner' = IF delayed = <<>> THEN None ELSE Head(work).t
    /\ Continue(<<>>)
    /\ UNCHANGED <<ioScenario, fds, desc, watcher, thr, delayed, know, ioPanic>>

---------------------------------------------------------------------------
(* t writes to d: until another thread synchronizes, t alone knows of it.  *)
KnowWrite(t, d) == [u \in IoThread |-> IF u = t THEN know[u] \cup {d} ELSE know[u] \ {d}]
ForgetWrite(d) == [e \in Desc |-> [desc[e] EXCEPT !.clock = @ \ {d}, !.rclock = @ \ {d}]]

(* FdTable::insert_with_min_num: the lowest free number from `low` on. *)
LowestFree(low) ==
    LET free == {n \in Num : n >= low /\ fds[n] = None}
    IN  IF free = {} THEN None - 1 ELSE CHOOSE n \in free : \A m \in free : n <= m

NextDesc == CHOOSE d \in Desc : desc[d].kind = "none" /\ \A e \in 1 .. d - 1 : desc[e].kind # "none"

---------------------------------------------------------------------------
(* Calls on the table.  A call on a number that is not open returns EBADF  *)
(* and changes nothing.                                                    *)

KeysOf(w, d) == {k \in DOMAIN watcher[w].interests : k[1] = d}
Without(ints, ks) == [k \in DOMAIN ints \ ks |-> ints[k]]
Drop(w, ks) == [watcher[w] EXCEPT !.interests = Without(@, ks), !.ready = SelectSeq(@, LAMBDA k : k \notin ks)]

(* remove_file_num_interests: on illumos closing the number ends interests.*)
CloseNumber(n) ==
    LET d == fds[n]
        mine == {w \in Watcher : <<d, n>> \in DOMAIN watcher[w].interests}
        last == {w \in mine : KeysOf(w, d) = {<<d, n>>}}
    IN  IF ioScenario.illumos /\ desc[d].kind # "epoll"
        THEN /\ watcher' = [w \in Watcher |-> IF w \in mine THEN Drop(w, {<<d, n>>}) ELSE watcher[w]]
             /\ desc' = [desc EXCEPT ![d].watchers = SelectSeq(@, LAMBDA w : w \notin last)]
        ELSE UNCHANGED <<watcher, desc>>

close(t, n) ==
    /\ Calls(t, "close") /\ fds[n] # None
    /\ CloseNumber(n)
    /\ fds' = [fds EXCEPT ![n] = None]
    /\ Begin(t, <<>>)
    /\ UNCHANGED <<ioScenario, thr, know, ioPanic>>

(* dup and fcntl(F_DUPFD), which asks for a number from `low` on. *)
dup(t, n, low) ==
    /\ Calls(t, "dup") /\ fds[n] # None
    /\ LowestFree(low) \in Num
    /\ fds' = [fds EXCEPT ![LowestFree(low)] = fds[n]]
    /\ Begin(t, <<>>)
    /\ UNCHANGED <<ioScenario, desc, watcher, thr, know, ioPanic>>

(* dup2 closes the target number first; the description moved there is     *)
(* kept alive by the call itself.                                          *)
dup2(t, n, m) ==
    /\ Calls(t, "dup2") /\ fds[n] # None /\ n # m
    /\ IF fds[m] # None THEN CloseNumber(m) ELSE UNCHANGED <<watcher, desc>>
    /\ fds' = [fds EXCEPT ![m] = fds[n]]
    /\ Begin(t, <<>>)
    /\ UNCHANGED <<ioScenario, thr, know, ioPanic>>

(* fcntl(F_SETFL) and ioctl(FIONBIO) on socket pairs and pipes. *)
set_flags(t, n, nb) ==
    /\ Calls(t, "fcntl") /\ fds[n] # None /\ desc[fds[n]].kind \in Sockets \cup {"tcp"}
    /\ desc' = [desc EXCEPT ![fds[n]].nb = nb]
    /\ Begin(t, <<>>)
    /\ UNCHANGED <<ioScenario, fds, watcher, thr, know, ioPanic>>

(* read and write: the description, not the number, carries the call on.   *)
(* (A length of zero returns at once.)                                     *)
StartTransfer(t, d, op, len, dontwait) ==
    /\ desc[d].kind # "epoll"
    /\ Begin(t, IF len = 0 THEN <<>> ELSE <<[Job(op, t, d, None) EXCEPT !.n = len, !.nb = dontwait]>>)
    /\ UNCHANGED <<ioScenario, fds, desc, watcher, thr, know, ioPanic>>

readWrite(t, n, op, len) ==
    /\ Calls(t, op) /\ fds[n] # None
    /\ StartTransfer(t, fds[n], op, len, FALSE)

(* readv and writev, through one buffer of the combined length. *)
VectorOp == [readv |-> "read", writev |-> "write"]
vectored(t, n, call, lens) ==
    /\ Calls(t, call) /\ fds[n] # None
    /\ StartTransfer(t, fds[n], VectorOp[call], FoldLeft(LAMBDA a, b : a + b, 0, lens), FALSE)

---------------------------------------------------------------------------
(* The last reference goes: a virtual socket tells its peer, and every     *)
(* watcher loses its interests in the description (ReadinessWatched::drop).*)
DropDescription ==
    \E d \in Garbage :
        LET p == desc[d].peer
            hasPeer == p # None /\ Live(p)
            watching == {w \in ToSet(desc[d].watchers) : watcher[w].live}
        IN  /\ desc' = [e \in Desc |->
                          CASE e = d -> Closed
                            [] hasPeer /\ e = p -> [desc[e] EXCEPT !.lost = @ \/ (desc[d].kind # "pipe_write" /\ desc[d].n > 0)]
                            [] OTHER -> desc[e]]
            /\ delayed' = IF hasPeer THEN Append(delayed, p) ELSE delayed
            /\ watcher' = [w \in Watcher |-> IF w \in watching THEN Drop(w, KeysOf(w, d)) ELSE watcher[w]]
            /\ UNCHANGED <<ioScenario, fds, thr, work, owner, know, ioPanic>>

(* ReadinessWatcher::drop: descriptions forget watchers that are gone. *)
DropWatcher ==
    /\ Garbage = {}
    /\ \E w \in GarbageWatchers :
        /\ watcher' = [watcher EXCEPT ![w] = NoWatcher]
        /\ desc' = [d \in Desc |-> IF KeysOf(w, d) # {} THEN [desc[d] EXCEPT !.watchers = SelectSeq(@, LAMBDA v : v # w)] ELSE desc[d]]
        /\ UNCHANGED <<ioScenario, fds, thr, work, delayed, owner, know, ioPanic>>

---------------------------------------------------------------------------
(* New descriptions: the next in the plan of the scenario, each at the     *)
(* lowest free number.                                                     *)
NewKind(kind, t) ==
    /\ Enters(t)
    /\ IF ioScenario.plan # <<>>
       THEN Head(ioScenario.plan) = kind /\ ioScenario' = [ioScenario EXCEPT !.plan = Tail(@)]
       ELSE ioScenario.late # <<>> /\ Head(ioScenario.late) = kind /\ ioScenario' = [ioScenario EXCEPT !.late = Tail(@)]

insert_new(t, kind, record) ==
    /\ NewKind(kind, t) /\ LowestFree(0) \in Num
    /\ desc' = [desc EXCEPT ![NextDesc] = record]
    /\ fds' = [fds EXCEPT ![LowestFree(0)] = NextDesc]
    /\ watcher' = IF record.kind = "epoll" THEN [watcher EXCEPT ![NextDesc] = NewWatcher] ELSE watcher
    /\ Begin(t, <<>>)
    /\ UNCHANGED <<thr, know, ioPanic>>

(* Two descriptions that are each other's peer, at the two lowest numbers. *)
insert_pair(t, kind, one, two) ==
    /\ NewKind(kind, t) /\ LowestFree(0) \in Num
    /\ LET d == NextDesc
           n == LowestFree(0)
           m == LowestFree(n + 1)
       IN  /\ m \in Num
           /\ desc' = [desc EXCEPT ![d] = [one EXCEPT !.peer = d + 1], ![d + 1] = [two EXCEPT !.peer = d]]
           /\ fds' = [fds EXCEPT ![n] = d, ![m] = d + 1]
    /\ Begin(t, <<>>)
    /\ UNCHANGED <<watcher, thr, know, ioPanic>>

FdInit ==
    /\ ioScenario \in IoScenarios
    /\ fds = [n \in Num |-> None]
    /\ desc = [d \in Desc |-> NoDesc]
    /\ watcher = [w \in Watcher |-> NoWatcher]
    /\ thr = [t \in IoThread |-> Running]
    /\ work = <<>> /\ delayed = <<>> /\ owner = None
    /\ know = [t \in IoThread |-> Desc]
    /\ ioPanic = "none"
=============================================================================
