--------------------------------- MODULE Io ---------------------------------
(***************************************************************************)
(* The calls on descriptors of every kind together, the deadlines of       *)
(* blocked threads, and what holds of the whole.                           *)
(***************************************************************************)
EXTENDS TcpSocket

-----------------------------------------------------------------------------
(* The socket calls of a program (unix/socket.rs): each looks up the       *)
(* number and hands over to the description.  EBADF for a number that is   *)
(* not open and ENOTSOCK for what is not a socket change nothing; socket   *)
(* pairs support send and recv, without peeking, and nothing else.         *)

OnSocket(t, call, n) == Calls(t, call) /\ fds[n] # None /\ desc[fds[n]].kind \in {"tcp", "socketpair"}
OnTcp(t, call, n) == OnSocket(t, call, n) /\ desc[fds[n]].kind = "tcp"

socket_bind(t, n) == OnTcp(t, "bind", n) /\ bind(t, fds[n])
socket_listen(t, n) == OnTcp(t, "listen", n) /\ listen(t, fds[n])
socket_accept4(t, n) == OnTcp(t, "accept", n) /\ accept(t, fds[n])
socket_connect(t, n) == OnTcp(t, "connect", n) /\ connect(t, fds[n])

socket_send(t, n, len, dontwait) ==
    /\ OnSocket(t, "send", n)
    /\ IF desc[fds[n]].kind = "tcp" THEN sendRecv(t, fds[n], "send", len, dontwait)
       ELSE StartTransfer(t, fds[n], "write", len, dontwait)

socket_recv(t, n, peek, len, dontwait) ==
    /\ OnSocket(t, IF peek THEN "peek" ELSE "recv", n)
    /\ IF desc[fds[n]].kind = "tcp" THEN sendRecv(t, fds[n], IF peek THEN "peek" ELSE "recv", len, dontwait)
       ELSE ~peek /\ StartTransfer(t, fds[n], "read", len, dontwait)

HostOptions == {"IP_TTL", "TCP_NODELAY"}
socket_setsockopt(t, n) ==
    \/ OnTcp(t, "timeouts", n) /\ \E r, w \in BOOLEAN : set_timeouts(t, fds[n], r, w)
    \/ OnTcp(t, "option", n) /\ \E opt \in HostOptions : host_option(t, fds[n], opt)
socket_getsockopt(t, n) ==
    \/ OnTcp(t, "so_error", n) /\ so_error(t, fds[n])
    \/ OnTcp(t, "option", n) /\ \E opt \in HostOptions : host_option(t, fds[n], opt)

socket_getsockname(t, n) == OnTcp(t, "getsockname", n) /\ getsockname(t, fds[n])
socket_getpeername(t, n) == OnTcp(t, "getpeername", n) /\ sendRecv(t, fds[n], "getpeername", 0, FALSE)
socket_shutdown(t, n) == OnTcp(t, "shutdown", n) /\ \E r, w \in BOOLEAN : shutdown(t, fds[n], r, w)

-----------------------------------------------------------------------------
(* Deadlines. *)

(* The deadline passes: an epoll waiter leaves the queue, a poll gives up  *)
(* its watcher, a thread waiting for the host leaves the source.           *)
TimedOut(t) ==
    /\ work = <<>> /\ delayed = <<>> /\ thr[t].timed
    /\ watcher' = IF thr[t].op = "epoll" THEN [watcher EXCEPT ![thr[t].d].queue = SelectSeq(@, LAMBDA u : u # t)] ELSE watcher
    /\ desc' = IF thr[t].op = "io" THEN [desc EXCEPT ![thr[t].d].tcp = Unlisted(@, t)] ELSE desc
    /\ thr' = [thr EXCEPT ![t] = Running]
    /\ Begin(t, <<>>)
    /\ UNCHANGED <<ioScenario, fds, know, ioPanic>>

Timeouts == {"zero", "finite", "none"}

IoCall(t) ==
    \/ \E n \in Num : close(t, n)
    \/ \E n, m \in Num : dup(t, n, m) \/ dup2(t, n, m)
    \/ \E n \in Num, nb \in BOOLEAN : set_flags(t, n, nb)
    \/ \E n \in Num, len \in ioScenario.sizes : readWrite(t, n, "read", len) \/ readWrite(t, n, "write", len)
    \/ eventfd(t, 0) \/ eventfdNonblock(t, 0) \/ socketpair(t) \/ pipe2(t) \/ epoll_create1(t)
    \/ \E ep, n \in Num, rel \in ioScenario.flags, edge \in ioScenario.edges :
          epoll_ctl_add(t, ep, n, rel, edge) \/ epoll_ctl_mod(t, ep, n, rel, edge)
    \/ \E ep, n \in Num : epoll_ctl_del(t, ep, n)
    \/ \E ep \in Num, max \in 1 .. 2, timeout \in Timeouts : epoll_wait(t, ep, max, timeout)
    \/ \E ns \in SUBSET Num, rel \in ioScenario.flags, timeout \in Timeouts : ns # {} /\ poll(t, ns, rel, timeout)
    \/ \E n \in Num, call \in DOMAIN VectorOp, a, b \in ioScenario.sizes : vectored(t, n, call, <<a, b>>)
    \/ socket(t) \/ socketNonblock(t)
    \/ \E n \in Num :
          \/ socket_bind(t, n) \/ socket_listen(t, n) \/ socket_accept4(t, n) \/ socket_connect(t, n)
          \/ socket_setsockopt(t, n) \/ socket_getsockopt(t, n) \/ socket_getsockname(t, n) \/ socket_getpeername(t, n) \/ socket_shutdown(t, n)
          \/ \E len \in ioScenario.sizes, dontwait \in BOOLEAN :
                socket_send(t, n, len, dontwait) \/ socket_recv(t, n, TRUE, len, dontwait) \/ socket_recv(t, n, FALSE, len, dontwait)
    \/ TimedOut(t)

(* The rest of the step that is under way. *)
IoInternal ==
    \/ ReturnFromCall
    \/ update_fd_readiness \/ update_readiness \/ WakeWaiter \/ ProcessOne
    \/ BeginReady \/ get_ready_interests \/ unblock_thread
    \/ eventfd_write \/ eventfd_write_full \/ eventfd_read \/ eventfd_read_empty
    \/ virtual_socket_write \/ virtual_socket_write_fails \/ virtual_socket_read \/ virtual_socket_read_empty
    \/ unblock_ready_threads \/ ensure_connected \/ connection_ready \/ block_for
    \/ try_non_block_accept \/ try_non_block_send \/ try_non_block_recv

IoNext ==
    \/ DropDescription \/ DropWatcher
    \/ CanStep /\ work # <<>> /\ IoInternal
    \/ CanStep /\ work = <<>> /\ (ProcessDelayed \/ HostActs \/ HostPoll \/ \E t \in IoThread : IoCall(t))
IoSpec == FdInit /\ [][IoNext]_ioVars
---------------------------------------------------------------------------
Watchers == {w \in Watcher : watcher[w].live}
Interests(w) == DOMAIN watcher[w].interests
IsReady(w, k) == k \in ToSet(watcher[w].ready)

(* The table, the queues and the blocked threads have their types. *)
IoTypeOK ==
    /\ fds \in [Num -> Desc \cup {None}]
    /\ \A n \in Num : fds[n] # None => Live(fds[n])
    /\ \A d \in Desc : desc[d].n \in 0 .. (IF desc[d].kind = "eventfd" THEN MaxCounter ELSE Capacity)
    /\ \A w \in Watcher : IsInjective(watcher[w].ready) /\ IsInjective(watcher[w].queue)
    /\ \A w \in Watcher : \A k \in Interests(w) : watcher[w].interests[k].active \subseteq Flags
    /\ \A t \in IoThread : know[t] \subseteq Desc

WatchesBothEnds(w) == \E k, l \in Interests(w) : desc[k[1]].peer = l[1]

(* No call of the interpreter on its own state fails: a thread is woken    *)
(* only when it is blocked, and for its reason; interests are up to date   *)
(* when events are delivered; and whoever is woken for events gets some    *)
(* ("we got woken up with no events to deliver").  Three failures the code *)
(* does reach are left out, where they can happen: interests are not up to *)
(* date in an epoll that watches both ends of a socket pair or pipe, whose *)
(* updates come one after the other (virtual_socket.rs:534, 544); a waiter *)
(* finds no events if a description was closed, because the delayed update *)
(* it handles first wakes another waiter, which takes them (epoll.rs:304); *)
(* and the options of a failed connection (tcp_socket.rs:627).             *)
IoNoPanic ==
    CASE ioPanic = NotUpToDate -> \E w \in Watchers : WatchesBothEnds(w)
      [] ioPanic = NoEvents -> \E d \in Desc : desc[d].kind = "closed"
      [] OTHER -> ioPanic \in {"none", Unsupported, FailedOption}

(* No event is lost: once a step is over, no thread sleeps in epoll_wait   *)
(* or poll while its watcher has something ready, and every sleeper is in  *)
(* the queue of the watcher it waits for.                                  *)
NoSleeperWithEvents ==
    Idle => /\ \A w \in Watchers : watcher[w].ready = <<>> \/ watcher[w].queue = <<>>
            /\ \A w \in Watchers, t \in IoThread :
                  t \in ToSet(watcher[w].queue) <=> (thr[t].op = "epoll" /\ thr[t].d = w) \/ (thr[t].op = "poll" /\ t = w)

(* What a watcher believes of a description is what is the case, unless a  *)
(* delayed update is still to come; a level-triggered interest is queued   *)
(* exactly while it is active, an edge-triggered one only then.            *)
InterestsCurrent ==
    Idle => \A w \in Watchers : \A k \in Interests(w) :
              LET i == watcher[w].interests[k] IN
              /\ k[1] \in ToSet(delayed) \/ i.active = i.relevant \cap readiness(k[1])
              /\ IF i.edge THEN IsReady(w, k) => i.active # {} ELSE IsReady(w, k) <=> i.active # {}

(* A description knows exactly the watchers with an interest in it, each   *)
(* once; a closed one is in no interest and in no queue (the code expects  *)
(* neither a "dead watched" nor a "dead watcher").                         *)
WatchersMatchInterests ==
    NoGarbage =>
      \A d \in Desc :
        /\ IsInjective(desc[d].watchers)
        /\ \A w \in Watcher : w \in ToSet(desc[d].watchers) <=> (watcher[w].live /\ KeysOf(w, d) # {})
        /\ \A w \in Watcher : ~Live(d) => KeysOf(w, d) = {}
        /\ \A w \in Watcher : ToSet(watcher[w].ready) \subseteq Interests(w)

(* A thread sleeps in read only while there is nothing to read, and in     *)
(* write only while there is no room: the wakeups that a read, a write or  *)
(* a full buffer set off inside one another lose nobody, and the list a    *)
(* thread is on is that of its call.  It could still go on if the other    *)
(* end was closed, which CloseUnblocks is about.                           *)
SleepersCannotGoOn ==
    Idle => \A t \in IoThread :
              LET b == thr[t]
                  x == desc[b.d]
              IN  /\ b.op = "read" => /\ x.n = 0
                                      /\ Cardinality({i \in DOMAIN x.rd : x.rd[i] = t}) = 1
                  /\ b.op = "write" => /\ IF x.kind = "eventfd" THEN x.n + b.next.n > MaxCounter /\ b.next.n # Invalid
                                            ELSE Live(x.peer) => desc[x.peer].n = Capacity
                                       /\ Cardinality({i \in DOMAIN x.wr : x.wr[i] = t}) = 1

(* "Notify peer fd that close has happened, since that can unblock reads   *)
(* and writes": once the delayed update is done, nobody sleeps in a read   *)
(* or write of a pipe or socket pair whose other end is closed.            *)
CloseUnblocks ==
    Idle /\ delayed = <<>> =>
        \A t \in IoThread : thr[t].op \in {"read", "write"} /\ desc[thr[t].d].kind \in Sockets
                               => Live(desc[thr[t].d].peer)

(* Synchronization: a thread to which an event of readable data is         *)
(* delivered knows of the latest write to that description, whichever of   *)
(* the nested callbacks wrote it.                                          *)
EventsSynchronize ==
    [][\A k \in (IF Pending("deliver") THEN ToSet(Taken(watcher[Head(work).w], Head(work).n)) ELSE {}) :
          "readable" \in watcher[Head(work).w].interests[k].active /\ "readable" \in readiness(k[1])
            => k[1] \in know'[Head(work).t]]_ioVars

(* Edge-triggered events of the host are not lost: what a socket of the    *)
(* host is ready for is known to the interpreter or an event is on its way.*)
HostEventsNoticed ==
    Idle => \A d \in Desc :
              (Host(d).st \notin {"none", "refused"} /\ ~Host(d).event) => HostReady(Host(d)) \cap {"readable", "writable"} \subseteq Tcp(d).io

(* A thread sleeps for the host only while its interest is not fulfilled   *)
(* or was fulfilled by the program itself and an event is still to come;   *)
(* the source lists exactly the threads that sleep on it; and while such a *)
(* thread sleeps the program is not taken for deadlocked.                  *)
HostSleepers ==
    Idle => /\ \A d \in Desc : {b[1] : b \in Tcp(d).blocked} = {t \in IoThread : thr[t].op = "io" /\ thr[t].d = d}
            /\ \A d \in Desc : \A b \in Tcp(d).blocked : Fulfilled(b[2], Tcp(d).io) => Host(d).event
            /\ (\E t \in IoThread : thr[t].op = "io") => any_thread_blocked_on_host

(* No event is lost on its way from a description, or from the host, to    *)
(* whoever waits for it.                                                   *)
NoEventLost ==
    IoTypeOK /\ NoSleeperWithEvents /\ InterestsCurrent /\ WatchersMatchInterests /\ HostEventsNoticed

(* Whoever sleeps in a call, of a description or of the host, has nothing  *)
(* to read or no room to write, and is where a wakeup will look for it.    *)
SleepersInPlace == SleepersCannotGoOn /\ HostSleepers
=============================================================================
