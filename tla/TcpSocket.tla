----------------------------- MODULE TcpSocket -----------------------------
(***************************************************************************)
(* TCP sockets (unix/tcp_socket.rs) over non-blocking sockets of the host, *)
(* and the manager that polls the host (concurrency/blocking_io.rs).       *)
(* A call that the host would block blocks the thread of the program until *)
(* the host reports an event, and then tries again.                        *)
(*                                                                         *)
(* The host is external: data arrives and is taken away, peers connect,    *)
(* accept, refuse and close.  Its poll is edge-triggered: a change makes   *)
(* an event, which reports what the socket is ready for when it is polled. *)
(***************************************************************************)
EXTENDS Epoll

CONSTANT HostBuffer     \* bound: bytes, or connections, that the host buffers

Tcp(d) == desc[d].tcp
Host(d) == desc[d].tcp.host
Stops(reason) == ioPanic' = reason      \* unsupported: the program ends here
Unsupported == "unsupported"

---------------------------------------------------------------------------
(* The host, as mio reports it. *)
Hup(h) == h.rshut /\ h.wshut
HostReady(h) ==
    CASE h.st = "listening" -> IF h.data > 0 THEN {"readable"} ELSE {}
      [] h.st = "connecting" -> {}
      [] OTHER ->
           (IF h.data > 0 \/ h.rshut \/ h.err THEN {"readable"} ELSE {})
           \cup (IF h.room > 0 \/ h.wshut \/ h.err THEN {"writable"} ELSE {})
           \cup (IF h.rshut THEN {"read_closed"} ELSE {})
           \cup (IF Hup(h) \/ h.err THEN {"write_closed"} ELSE {})
           \cup (IF h.err THEN {"error"} ELSE {})

(* What may happen to a socket outside of the program. *)
HostSteps(h) ==
    (IF h.st \in {"listening", "open"} /\ ~h.rshut /\ h.data < HostBuffer THEN {[h EXCEPT !.data = @ + 1]} ELSE {})
    \cup (IF h.st = "open" /\ ~h.wshut /\ h.room < HostBuffer THEN {[h EXCEPT !.room = @ + 1]} ELSE {})
    \cup (IF h.st = "open" /\ ~h.rshut THEN {[h EXCEPT !.rshut = TRUE]} ELSE {})
    \cup (IF h.st = "connecting"
          THEN {[h EXCEPT !.st = "open", !.room = HostBuffer], [h EXCEPT !.st = "refused", !.err = TRUE, !.rshut = TRUE, !.wshut = TRUE]}
          ELSE {})

(* A bound: no more connections come in than there are descriptions left.  *)
RoomToAccept == Cardinality({d \in Desc : desc[d].kind = "none"}) > Cardinality({d \in Desc : Host(d).st = "listening" /\ Host(d).data > 0})

HostActs ==
    /\ work = <<>> /\ ioScenario.plan = <<>>
    /\ \E d \in Desc : \E h \in HostSteps(Host(d)) :
          /\ Host(d).st = "listening" => RoomToAccept
          /\ desc' = [desc EXCEPT ![d].tcp.host = [h EXCEPT !.event = TRUE]]
    /\ UNCHANGED <<ioScenario, fds, watcher, thr, work, delayed, owner, know, ioPanic>>

(* The outcomes of calls on it: <<result, the host afterwards>>.           *)
HostWrite(h, len) ==
    IF h.wshut THEN <<"error", h>>
    ELSE IF h.room = 0 THEN <<"would_block", h>>
    ELSE LET k == Least(len, h.room) IN <<IF k < len THEN "short" ELSE "full", [h EXCEPT !.room = @ - k]>>

HostRead(h, len, peek) ==
    IF h.data > 0 THEN LET k == Least(len, h.data) IN <<IF k < len THEN "short" ELSE "full", IF peek THEN h ELSE [h EXCEPT !.data = @ - k]>>
    ELSE IF h.err THEN <<"error", [h EXCEPT !.err = FALSE]>>
    ELSE IF h.rshut THEN <<"eof", h>>
    ELSE <<"would_block", h>>

---------------------------------------------------------------------------
(* BlockingIoManager *)
Fulfilled(interest, io) == "error" \in io \/ (IF interest = "read" THEN "readable" ELSE "writable") \in io
BlockedOn(d, t) == {b \in Tcp(d).blocked : b[1] = t}

(* poll: collect the events of some of the sources, then for each update   *)
(* its watchers and unblock the threads whose interest is fulfilled.       *)
HostPoll ==
    /\ work = <<>>
    /\ \E ds \in SUBSET {d \in Desc : Live(d) /\ Host(d).event} :
        LET order == SetToSortSeq(ds, LAMBDA a, b : a < b)
            each == [i \in 1 .. Len(order) |-> <<HostUpdate(order[i]), Job("wake_io", None, order[i], None)>>]
        IN  /\ ds # {}
            /\ desc' = [d \in Desc |-> IF d \in ds THEN [desc[d] EXCEPT !.tcp.io = @ \cup HostReady(Host(d)), !.tcp.host.event = FALSE] ELSE desc[d]]
            /\ work' = FlattenSeq(each) \o <<Return(owner)>>
    /\ UNCHANGED <<ioScenario, fds, watcher, thr, delayed, owner, know, ioPanic>>

(* Mutant: an event unblocks one thread only. *)
unblockFirstReady ==
    /\ Pending("wake_io")
    /\ LET d == Head(work).d
           ready == {b[1] : b \in {c \in Tcp(d).blocked : Fulfilled(c[2], Tcp(d).io)}}
       IN  \E ts \in SetToSeqs(ready) : Continue(IF ts = <<>> THEN <<>> ELSE <<Unblock(Head(ts), "io")>>)
    /\ UNCHANGED <<ioScenario, fds, desc, watcher, thr, delayed, owner, know, ioPanic>>

unblock_ready_threads ==
    /\ Pending("wake_io")
    /\ LET d == Head(work).d
           ready == {b[1] : b \in {c \in Tcp(d).blocked : Fulfilled(c[2], Tcp(d).io)}}
       IN  \E ts \in SetToSeqs(ready) : Continue(UnblockAll(ts, "io"))
    /\ UNCHANGED <<ioScenario, fds, desc, watcher, thr, delayed, owner, know, ioPanic>>

(* block_thread_for_io: go on at once if the interest is fulfilled.        *)
BlockForIo(t, d, interest, next, timed) ==
    IF BlockedOn(d, t) # {}
    THEN Stops("thread is blocked twice on a source") /\ UNCHANGED <<desc, thr, work>>
    ELSE /\ desc' = [desc EXCEPT ![d].tcp.blocked = @ \cup {<<t, interest>>}]
         /\ IF Fulfilled(interest, Tcp(d).io) THEN Continue(<<next>>) /\ UNCHANGED thr
            ELSE thr' = [thr EXCEPT ![t] = Blocked("io", d, timed, next)] /\ Continue(<<>>)
         /\ UNCHANGED ioPanic

---------------------------------------------------------------------------
socket(t) == insert_new(t, "socket", [NoDesc EXCEPT !.kind = "tcp", !.tcp.st = "initial"])
socketNonblock(t) == insert_new(t, "socket_nonblock", [NoDesc EXCEPT !.kind = "tcp", !.nb = TRUE, !.tcp.st = "initial"])

(* The calls that only change the state of the socket.  Where the code     *)
(* throws, the program ends; `listen` and `connect` register the source.   *)
(* (The module Io has the calls of the program that lead to them.)         *)
HostSocket(st, room) == [NoHost EXCEPT !.st = st, !.room = room]

bind(t, d) ==
    /\ IF Tcp(d).st = "initial"
       THEN desc' = [desc EXCEPT ![d].tcp.st = "bound"] /\ UNCHANGED ioPanic
       ELSE Stops(Unsupported) /\ UNCHANGED desc
    /\ Begin(t, <<>>)
    /\ UNCHANGED <<ioScenario, fds, watcher, thr, know>>

listen(t, d) ==
    /\ IF Tcp(d).st = "bound"
       THEN desc' = [desc EXCEPT ![d].tcp.st = "listening", ![d].tcp.host = HostSocket("listening", 0)] /\ UNCHANGED ioPanic
       ELSE Stops(Unsupported) /\ UNCHANGED desc
    /\ Begin(t, <<>>)
    /\ UNCHANGED <<ioScenario, fds, watcher, thr, know>>

(* setsockopt of a timeout, which accept and connect do not support. *)
set_timeouts(t, d, r, w) ==
    /\ desc' = [desc EXCEPT ![d].tcp.rto = r, ![d].tcp.wto = w]
    /\ Begin(t, <<>>)
    /\ UNCHANGED <<ioScenario, fds, watcher, thr, know, ioPanic>>

(* The options that are those of the host socket: getsockopt, setsockopt   *)
(* of IP_TTL and TCP_NODELAY; only the first is one of a listening socket. *)
FailedOption == "unreachable: option of a failed socket"
host_option(t, d, opt) ==
    /\ CASE Tcp(d).st = "failed" -> Stops(FailedOption)
         [] Tcp(d).st \in {"initial", "bound"} -> Stops(Unsupported)
         [] Tcp(d).st = "listening" /\ opt = "TCP_NODELAY" -> Stops(Unsupported)
         [] OTHER -> UNCHANGED ioPanic
    /\ Begin(t, <<>>)
    /\ UNCHANGED <<ioScenario, fds, desc, watcher, thr, know>>

getsockname(t, d) ==
    /\ IF Tcp(d).st = "failed" THEN Stops(Unsupported) ELSE UNCHANGED ioPanic
    /\ Begin(t, <<>>)
    /\ UNCHANGED <<ioScenario, fds, desc, watcher, thr, know>>

(* update_last_error: fetch the error of the host; a socket that was still *)
(* connecting has failed.                                                  *)
update_last_error(x) ==
    IF x.st \in {"listening", "connecting", "connected"} /\ x.host.err
    THEN [x EXCEPT !.err = TRUE, !.host.err = FALSE, !.st = IF @ = "connecting" THEN "failed" ELSE @]
    ELSE x

(* getsockopt(SO_ERROR) *)
so_error(t, d) ==
    /\ desc' = [desc EXCEPT ![d].tcp = [update_last_error(@) EXCEPT !.err = FALSE, !.io = @ \ {"error"}]]
    /\ Begin(t, <<Update(t, d, FALSE)>>)
    /\ UNCHANGED <<ioScenario, fds, watcher, thr, know, ioPanic>>

shutdown(t, d, r, w) ==
    /\ r \/ w
    /\ IF Tcp(d).st \in {"connecting", "connected"} /\ Host(d).st = "open"
       THEN /\ desc' = [desc EXCEPT ![d].tcp.host = [@ EXCEPT !.rshut = @ \/ r, !.wshut = @ \/ w, !.event = TRUE],
                                    ![d].tcp.io = @ \cup (IF r THEN {"read_closed", "readable"} ELSE {}) \cup (IF r /\ w THEN {"write_closed"} ELSE {})]
            /\ Begin(t, <<Update(t, d, FALSE)>>) /\ UNCHANGED ioPanic
       ELSE /\ (IF Tcp(d).st = "failed" THEN Stops(Unsupported) ELSE UNCHANGED ioPanic)
            /\ Begin(t, <<>>) /\ UNCHANGED desc
    /\ UNCHANGED <<ioScenario, fds, watcher, thr, know>>

---------------------------------------------------------------------------
(* connect, accept, send, recv and getpeername *)
Call(job, t, d, call, len, nb) == [Job(job, t, d, None) EXCEPT !.call = call, !.n = len, !.nb = nb]

connect(t, d) ==
    /\ CASE Tcp(d).st = "connecting" -> Begin(t, <<>>) /\ UNCHANGED <<desc, ioPanic>>       \* EALREADY
         [] Tcp(d).st = "initial" ->
              /\ desc' = [desc EXCEPT ![d].tcp.st = "connecting", ![d].tcp.host = HostSocket("connecting", 0)]
              /\ IF desc[d].nb THEN Begin(t, <<>>) /\ UNCHANGED ioPanic                     \* EINPROGRESS
                 ELSE IF Tcp(d).wto THEN Begin(t, <<>>) /\ Stops(Unsupported)
                 ELSE Begin(t, <<Call("ensure", t, d, "connect", 0, FALSE)>>) /\ UNCHANGED ioPanic
         [] OTHER -> Begin(t, <<>>) /\ Stops(Unsupported) /\ UNCHANGED desc
    /\ UNCHANGED <<ioScenario, fds, watcher, thr, know>>

accept(t, d) ==
    /\ IF Tcp(d).st # "listening" \/ (~desc[d].nb /\ Tcp(d).rto)
       THEN Stops(Unsupported) /\ Begin(t, <<>>)
       ELSE /\ Begin(t, <<Call(IF desc[d].nb THEN "try" ELSE "block", t, d, "accept", 0, desc[d].nb)>>)
            /\ UNCHANGED ioPanic
    /\ UNCHANGED <<ioScenario, fds, desc, watcher, thr, know>>

(* send, recv, recv(MSG_PEEK), perhaps with MSG_DONTWAIT, and getpeername. *)
sendRecv(t, d, call, len, dontwait) ==
    /\ Begin(t, <<Call("ensure", t, d, call, len, dontwait \/ desc[d].nb)>>)
    /\ UNCHANGED <<ioScenario, fds, desc, watcher, thr, know, ioPanic>>

(* action_deadline: a non-blocking call has the deadline "now". *)
Deadline(j) ==
    \/ j.nb \/ j.call = "getpeername"
    \/ j.call = "send" /\ Tcp(j.d).wto
    \/ j.call \in {"recv", "peek"} /\ Tcp(j.d).rto

(* ensure_connected: on a socket that is connecting, wait for the host.    *)
ActionOk(j) ==
    CASE j.call \in {"connect", "getpeername"} -> <<>>
      [] OTHER -> <<[j EXCEPT !.job = IF j.nb THEN "try" ELSE "block"]>>

ensure_connected ==
    /\ Pending("ensure")
    /\ LET j == Head(work)
           st == Tcp(j.d).st
       IN  CASE st = "connecting" -> BlockForIo(j.t, j.d, "write", [j EXCEPT !.job = "ensured"], Deadline(j))
             [] st = "connected" -> Continue(ActionOk(j)) /\ UNCHANGED <<desc, thr, ioPanic>>
             [] st = "failed" -> Stops(Unsupported) /\ UNCHANGED <<desc, thr, work>>
             [] OTHER -> Continue(<<>>) /\ UNCHANGED <<desc, thr, ioPanic>>                 \* ENOTCONN
    /\ UNCHANGED <<ioScenario, fds, watcher, delayed, owner, know>>

(* Its callback: the host reported something, maybe to another thread too. *)
Unlisted(x, t) == [x EXCEPT !.blocked = {b \in @ : b[1] # t}]
connection_ready ==
    /\ Pending("ensured")
    /\ LET j == Head(work)
           x == Unlisted(Tcp(j.d), j.t)
           y == update_last_error(x)
           SetTo(z) == desc' = [desc EXCEPT ![j.d].tcp = z]
       IN  CASE BlockedOn(j.d, j.t) = {} -> Stops("thread is not blocked on the source") /\ UNCHANGED <<desc, work>>
             [] x.st = "connected" -> SetTo(x) /\ Continue(ActionOk(j)) /\ UNCHANGED ioPanic
             [] x.st = "failed" -> SetTo(x) /\ Stops(Unsupported) /\ UNCHANGED work
             [] x.st = "connecting" /\ y.err ->
                  (* connect takes the error it knows to be there *)
                  SetTo(IF j.call = "connect" THEN [y EXCEPT !.err = FALSE] ELSE y) /\ Continue(<<>>) /\ UNCHANGED ioPanic
             [] OTHER -> SetTo([y EXCEPT !.st = "connected"]) /\ Continue(ActionOk(j)) /\ UNCHANGED ioPanic
    /\ UNCHANGED <<ioScenario, fds, watcher, thr, delayed, owner, know>>

(* block_for_accept, block_for_send, block_for_recv *)
block_for ==
    /\ Pending("block")
    /\ LET j == Head(work) IN
       BlockForIo(j.t, j.d, IF j.call = "send" THEN "write" ELSE "read", [j EXCEPT !.job = "try"], Deadline(j))
    /\ UNCHANGED <<ioScenario, fds, watcher, delayed, owner, know>>

(* try_non_block_accept, first taking a blocked thread off the source. *)
Retry(j) == IF j.nb THEN <<>> ELSE <<[j EXCEPT !.job = "block"]>>
try_non_block_accept ==
    /\ Pending("try") /\ Head(work).call = "accept"
    /\ LET j == Head(work)
           x == Unlisted(Tcp(j.d), j.t)
           peer == [NoDesc EXCEPT !.kind = "tcp", !.tcp.st = "connected", !.tcp.host = [HostSocket("open", HostBuffer) EXCEPT !.event = TRUE]]
       IN  IF x.host.data > 0
           THEN /\ desc' = [desc EXCEPT ![j.d].tcp = [x EXCEPT !.host.data = @ - 1], ![NextDesc] = peer]
                /\ LowestFree(0) \in Num
                /\ fds' = [fds EXCEPT ![LowestFree(0)] = NextDesc]
                /\ Continue(<<>>)
           ELSE /\ desc' = [desc EXCEPT ![j.d].tcp = [x EXCEPT !.io = @ \ {"readable"}]]
                /\ Continue(<<Update(j.t, j.d, FALSE)>> \o Retry(j)) /\ UNCHANGED fds
    /\ UNCHANGED <<ioScenario, watcher, thr, delayed, owner, know, ioPanic>>

(* try_non_block_send: a short write means that the buffer is full. *)
try_non_block_send ==
    /\ Pending("try") /\ Head(work).call = "send"
    /\ LET j == Head(work)
           x == Unlisted(Tcp(j.d), j.t)
           r == HostWrite(x.host, j.n)
           y == [x EXCEPT !.host = r[2], !.io = IF r[1] \in {"would_block", "short"} THEN @ \ {"writable"} ELSE @]
       IN  /\ desc' = [desc EXCEPT ![j.d].tcp = y]
           /\ IF r[1] \in {"short", "full"} /\ "write_closed" \in x.io
              THEN Stops("successful write after close") ELSE UNCHANGED ioPanic
           /\ Continue(CASE r[1] = "would_block" -> <<Update(j.t, j.d, FALSE)>> \o Retry(j)
                         [] r[1] = "short" -> <<Update(j.t, j.d, FALSE)>>
                         [] OTHER -> <<>>)
    /\ UNCHANGED <<ioScenario, fds, watcher, thr, delayed, owner, know>>

(* try_non_block_recv: a short read means that the buffer is empty, unless *)
(* it was a peek or the read end is closed.                                *)
try_non_block_recv ==
    /\ Pending("try") /\ Head(work).call \in {"recv", "peek"}
    /\ LET j == Head(work)
           x == Unlisted(Tcp(j.d), j.t)
           r == HostRead(x.host, j.n, j.call = "peek")
           dry == r[1] = "would_block" \/ (r[1] = "short" /\ j.call # "peek" /\ "read_closed" \notin x.io)
       IN  /\ desc' = [desc EXCEPT ![j.d].tcp = [x EXCEPT !.host = r[2], !.io = IF dry THEN @ \ {"readable"} ELSE @]]
           /\ Continue(CASE r[1] = "would_block" -> <<Update(j.t, j.d, FALSE)>> \o Retry(j)
                         [] dry -> <<Update(j.t, j.d, FALSE)>>
                         [] OTHER -> <<>>)
    /\ UNCHANGED <<ioScenario, fds, watcher, thr, delayed, owner, know, ioPanic>>

(* any_thread_blocked_on_host: what distinguishes waiting from a deadlock. *)
any_thread_blocked_on_host ==
    \E d \in Desc : /\ Live(d) /\ Host(d).st # "none"
                    /\ Tcp(d).blocked # {} \/ \E w \in ToSet(desc[d].watchers) : watcher[w].queue # <<>>
=============================================================================
