----------------------------- MODULE VirtualIo -----------------------------
(***************************************************************************)
(* Event descriptors, pipes and socket pairs (linux_like/eventfd.rs,       *)
(* unix/virtual_socket.rs).  A buffer is the number of bytes in it.        *)
(***************************************************************************)
EXTENDS Readiness

eventfd(t, val) == insert_new(t, "eventfd", [NoDesc EXCEPT !.kind = "eventfd", !.n = val])
eventfdNonblock(t, val) == insert_new(t, "eventfd_nonblock", [NoDesc EXCEPT !.kind = "eventfd", !.n = val, !.nb = TRUE])
socketpair(t) == LET x == [NoDesc EXCEPT !.kind = "socketpair"] IN insert_pair(t, "socketpair", x, x)
pipe2(t) == insert_pair(t, "pipe", [NoDesc EXCEPT !.kind = "pipe_read"], [NoDesc EXCEPT !.kind = "pipe_write"])

OpOf(kind, j) == desc[j.d].kind = kind

---------------------------------------------------------------------------

Invalid == MaxCounter + 1      \* u64::MAX, when MaxCounter is u64::MAX - 1

(* eventfd_write: the counter takes the value, and all readers wake. *)
eventfd_write ==
    /\ Pending("write") /\ OpOf("eventfd", Head(work))
    /\ LET j == Head(work) IN
       /\ j.n # Invalid /\ desc[j.d].n + j.n <= MaxCounter
       /\ know' = KnowWrite(j.t, j.d)
       /\ desc' = [ForgetWrite(j.d) EXCEPT ![j.d].n = @ + j.n, ![j.d].clock = @ \cup know'[j.t], ![j.d].rd = <<>>]
       /\ Continue(UnblockAll(desc[j.d].rd, "eventfd") \o <<Update(j.t, j.d, TRUE)>>)
    /\ UNCHANGED <<ioScenario, fds, watcher, thr, delayed, owner, ioPanic>>

(* It does not fit: return EAGAIN, or block; EINVAL for u64::MAX. *)
eventfd_write_full ==
    /\ Pending("write") /\ OpOf("eventfd", Head(work))
    /\ LET j == Head(work) IN
       /\ desc[j.d].n + j.n > MaxCounter
       /\ IF desc[j.d].nb \/ j.n = Invalid THEN UNCHANGED <<desc, thr>>
          ELSE /\ desc' = [desc EXCEPT ![j.d].wr = Append(@, j.t)]
               /\ thr' = [thr EXCEPT ![j.t] = Blocked("write", j.d, FALSE, j)]
       /\ Continue(<<>>)
    /\ UNCHANGED <<ioScenario, fds, watcher, delayed, owner, know, ioPanic>>

eventfd_read ==
    /\ Pending("read") /\ OpOf("eventfd", Head(work))
    /\ LET j == Head(work) IN
       /\ desc[j.d].n # 0
       /\ know' = [know EXCEPT ![j.t] = @ \cup desc[j.d].clock]
       /\ desc' = [desc EXCEPT ![j.d].n = 0, ![j.d].wr = <<>>]
       /\ Continue(UnblockAll(desc[j.d].wr, "eventfd") \o <<Update(j.t, j.d, TRUE)>>)
    /\ UNCHANGED <<ioScenario, fds, watcher, thr, delayed, owner, ioPanic>>

eventfd_read_empty ==
    /\ Pending("read") /\ OpOf("eventfd", Head(work))
    /\ LET j == Head(work) IN
       /\ desc[j.d].n = 0
       /\ IF desc[j.d].nb THEN UNCHANGED <<desc, thr>>
          ELSE /\ desc' = [desc EXCEPT ![j.d].rd = Append(@, j.t)]
               /\ thr' = [thr EXCEPT ![j.t] = Blocked("read", j.d, FALSE, j)]
       /\ Continue(<<>>)
    /\ UNCHANGED <<ioScenario, fds, watcher, delayed, owner, know, ioPanic>>

---------------------------------------------------------------------------
(* virtual_socket_write: into the buffer of the peer, as much as fits. *)
Sock(j) == desc[j.d].kind \in Sockets
Peer(j) == desc[j.d].peer
PeerOpen(j) == Live(Peer(j))
Least(a, b) == IF a < b THEN a ELSE b

virtual_socket_write ==
    /\ Pending("write") /\ Sock(Head(work)) /\ PeerOpen(Head(work))
    /\ LET j == Head(work)
           p == Peer(j)
       IN  /\ desc[p].kind # "pipe_write" /\ desc[p].n < Capacity
           /\ know' = KnowWrite(j.t, p)
           /\ desc' = [ForgetWrite(p) EXCEPT ![p].n = Least(@ + j.n, Capacity), ![p].clock = @ \cup know'[j.t], ![p].rd = <<>>]
           /\ Continue(UnblockAll(desc[p].rd, "virtual_socket") \o <<Update(j.t, j.d, FALSE), Update(j.t, p, TRUE)>>)
    /\ UNCHANGED <<ioScenario, fds, watcher, thr, delayed, owner, ioPanic>>

(* EPIPE without a peer, EBADF on the read end of a pipe; EAGAIN or a      *)
(* blocked thread when the buffer is full.                                 *)
virtual_socket_write_fails ==
    /\ Pending("write") /\ Sock(Head(work))
    /\ LET j == Head(work)
           full == PeerOpen(j) /\ desc[Peer(j)].kind # "pipe_write" /\ desc[Peer(j)].n = Capacity
       IN  /\ ~PeerOpen(j) \/ desc[Peer(j)].kind = "pipe_write" \/ full
           /\ IF full /\ ~desc[j.d].nb /\ ~j.nb
              THEN /\ desc' = [desc EXCEPT ![j.d].wr = Append(@, j.t)]
                   /\ thr' = [thr EXCEPT ![j.t] = Blocked("write", j.d, FALSE, j)]
              ELSE UNCHANGED <<desc, thr>>
           /\ Continue(<<>>)
    /\ UNCHANGED <<ioScenario, fds, watcher, delayed, owner, know, ioPanic>>

(* virtual_socket_read: take bytes, let all writers of the peer try again. *)
virtual_socket_read ==
    /\ Pending("read") /\ Sock(Head(work))
    /\ LET j == Head(work)
           p == Peer(j)
           left == desc[j.d].n - Least(desc[j.d].n, j.n)
       IN  /\ desc[j.d].kind # "pipe_write" /\ desc[j.d].n > 0
           /\ know' = [know EXCEPT ![j.t] = @ \cup desc[j.d].clock]
           /\ IF PeerOpen(j)
              THEN /\ desc' = [desc EXCEPT ![j.d].n = left, ![p].wr = <<>>]
                   /\ Continue(UnblockAll(desc[p].wr, "virtual_socket") \o <<Update(j.t, p, left = 0), Update(j.t, j.d, FALSE)>>)
              ELSE desc' = [desc EXCEPT ![j.d].n = left] /\ Continue(<<Update(j.t, j.d, FALSE)>>)
    /\ UNCHANGED <<ioScenario, fds, watcher, thr, delayed, owner, ioPanic>>

(* Nothing to read: end of file without a peer, else EAGAIN or block.      *)
(* (Reading the write end of a pipe is not supported.)                     *)
virtual_socket_read_empty ==
    /\ Pending("read") /\ Sock(Head(work))
    /\ LET j == Head(work) IN
       /\ desc[j.d].kind = "pipe_write" \/ desc[j.d].n = 0
       /\ IF PeerOpen(j) /\ ~desc[j.d].nb /\ ~j.nb /\ desc[j.d].kind # "pipe_write"
          THEN /\ desc' = [desc EXCEPT ![j.d].rd = Append(@, j.t)]
               /\ thr' = [thr EXCEPT ![j.t] = Blocked("read", j.d, FALSE, j)]
          ELSE UNCHANGED <<desc, thr>>
       /\ Continue(<<>>)
    /\ UNCHANGED <<ioScenario, fds, watcher, delayed, owner, know, ioPanic>>
=============================================================================
