----------------------------- MODULE Readiness -----------------------------
(***************************************************************************)
(* Readiness of descriptions and the watchers behind epoll and poll        *)
(* (shims/readiness.rs): interests, the queue of ready interests, the      *)
(* queue of blocked threads, and the updates that move threads between.    *)
(***************************************************************************)
EXTENDS FdTable

CONSTANTS
    MaxCounter,         \* MAX_COUNTER of event descriptors
    Capacity            \* MAX_SOCKETPAIR_BUFFER_CAPACITY

Flags == {"readable", "writable", "read_closed", "write_closed", "error"}

(* FileDescription::readiness of each kind. *)
EventReadiness(x) ==
    (IF x.n # 0 THEN {"readable"} ELSE {}) \cup (IF x.n # MaxCounter THEN {"writable"} ELSE {})

SocketReadiness(x) ==
    LET open == Live(x.peer)
        readable == ~open \/ x.kind = "pipe_write" \/ x.n # 0
        writable == ~open \/ desc[x.peer].kind = "pipe_write" \/ desc[x.peer].n < Capacity
    IN  (IF readable THEN {"readable"} ELSE {}) \cup (IF writable THEN {"writable"} ELSE {})
        \cup (IF open THEN {} ELSE {"read_closed", "write_closed"})
        \cup (IF ~open /\ x.lost THEN {"error"} ELSE {})

readiness(d) ==
    CASE desc[d].kind = "eventfd" -> EventReadiness(desc[d])
      [] desc[d].kind = "tcp" -> desc[d].tcp.io
      [] OTHER -> SocketReadiness(desc[d])

Interest(rel, edge) == [relevant |-> rel, edge |-> edge, active |-> {}]
Lower(k, l) == k[1] < l[1] \/ (k[1] = l[1] /\ k[2] < l[2])

Update(t, d, force) == [Job("update", t, d, None) EXCEPT !.force = force]
(* An event of the outside world: no thread released its clock. *)
HostUpdate(d) == [Job("update", None, d, None) EXCEPT !.release = FALSE]
Watch(t, d, w, ks, on, force) == [Job("watch", t, d, w) EXCEPT !.keys = ks, !.on = on, !.force = force]
Wake(w) == Job("wake", None, None, w)
Process(t) == Job("process", t, None, None)
(* get_ready_interests for thread t, of watcher w held through d. *)
Ready(t, d, w, max, woken) == [Job("ready", t, d, w) EXCEPT !.n = max, !.woken = woken]

---------------------------------------------------------------------------
(* Mutant: the clock of the active thread is not released. *)
updateWithoutRelease ==
    /\ Pending("update")
    /\ LET j == Head(work)
           on == readiness(j.d)
       IN  /\ UNCHANGED desc
           /\ Continue([i \in 1 .. Len(desc[j.d].watchers) |->
                 Watch(j.t, j.d, desc[j.d].watchers[i], KeysOf(desc[j.d].watchers[i], j.d), on, j.force)])
    /\ UNCHANGED <<ioScenario, fds, watcher, thr, delayed, owner, know, ioPanic>>

(* update_fd_readiness: release the clock of the active thread, then       *)
(* update every watcher with the readiness of this moment.                 *)
update_fd_readiness ==
    /\ Pending("update")
    /\ LET j == Head(work)
           on == readiness(j.d)
       IN  /\ desc' = [desc EXCEPT ![j.d].rclock = @ \cup (IF j.release THEN know[j.t] ELSE {})]
           /\ Continue([i \in 1 .. Len(desc[j.d].watchers) |->
                 Watch(j.t, j.d, desc[j.d].watchers[i], KeysOf(desc[j.d].watchers[i], j.d), on, j.force)])
    /\ UNCHANGED <<ioScenario, fds, watcher, thr, delayed, owner, know, ioPanic>>

(* update_readiness over one interest. *)
UpdateOne(x, k, on, force) ==
    LET i == x.interests[k]
        new == i.relevant \cap on
        listed == k \in ToSet(x.ready)
    IN  [x EXCEPT !.interests[k].active = new,
                  !.ready = IF new = {} THEN SelectSeq(@, LAMBDA l : l # k)
                            ELSE IF (force \/ ~(new \subseteq i.active)) /\ ~listed THEN Append(@, k) ELSE @]

update_readiness ==
    /\ Pending("watch")
    /\ LET j == Head(work)
           (* the callback finds the interests that exist by now *)
           ks == SetToSortSeq(j.keys \cap DOMAIN watcher[j.w].interests, Lower)
       IN  /\ watcher' = [watcher EXCEPT ![j.w] = FoldLeft(LAMBDA x, k : UpdateOne(x, k, j.on, j.force), @, ks)]
           /\ Continue(<<Wake(j.w)>>)
    /\ UNCHANGED <<ioScenario, fds, desc, thr, delayed, owner, know, ioPanic>>

(* Mutant: one thread is woken, however many events are ready. *)
WakeOneWaiter ==
    /\ Pending("wake")
    /\ LET w == Head(work).w
           x == watcher[w]
       IN  IF x.ready # <<>> /\ x.queue # <<>>
           THEN watcher' = [watcher EXCEPT ![w].queue = Tail(@)] /\ Continue(<<Unblock(Head(x.queue), "readiness")>>)
           ELSE UNCHANGED watcher /\ Continue(<<>>)
    /\ UNCHANGED <<ioScenario, fds, desc, thr, delayed, owner, know, ioPanic>>

(* Mutant: waiters are woken whether events are ready or not. *)
WakeAllWaiters ==
    /\ Pending("wake")
    /\ LET w == Head(work).w
           x == watcher[w]
       IN  IF x.queue # <<>>
           THEN watcher' = [watcher EXCEPT ![w].queue = Tail(@)] /\ Continue(<<Unblock(Head(x.queue), "readiness"), Wake(w)>>)
           ELSE UNCHANGED watcher /\ Continue(<<>>)
    /\ UNCHANGED <<ioScenario, fds, desc, thr, delayed, owner, know, ioPanic>>

(* While events are ready, wake a thread to receive them. *)
WakeWaiter ==
    /\ Pending("wake")
    /\ LET w == Head(work).w
           x == watcher[w]
       IN  IF x.ready # <<>> /\ x.queue # <<>>
           THEN watcher' = [watcher EXCEPT ![w].queue = Tail(@)] /\ Continue(<<Unblock(Head(x.queue), "readiness"), Wake(w)>>)
           ELSE UNCHANGED watcher /\ Continue(<<>>)
    /\ UNCHANGED <<ioScenario, fds, desc, thr, delayed, owner, know, ioPanic>>

---------------------------------------------------------------------------
(* DelayedReadinessUpdates::process, last in first out. *)
ProcessOne ==
    /\ Pending("process")
    /\ LET t == Head(work).t IN
       IF delayed = <<>> THEN Continue(<<>>) /\ UNCHANGED delayed
       ELSE delayed' = Front(delayed) /\ Continue(<<Update(t, Last(delayed), FALSE), Process(t)>>)
    /\ UNCHANGED <<ioScenario, fds, desc, watcher, thr, owner, know, ioPanic>>

(* The scheduler, before it lets another thread run. *)
ProcessDelayed ==
    /\ work = <<>> /\ delayed # <<>>
    /\ work' = <<Process(owner), Return(owner)>>
    /\ UNCHANGED <<ioScenario, fds, desc, watcher, thr, delayed, owner, know, ioPanic>>

---------------------------------------------------------------------------
(* get_ready_interests: delayed updates first, a check that nothing is     *)
(* stale, then up to n interests; a level-triggered one goes back to the   *)
(* end of the queue.  Whoever was woken for events expects at least one.   *)
NotUpToDate == "an interest is not up to date"
NoEvents == "woken up with no events to deliver"

BeginReady ==
    /\ Pending("ready")
    /\ LET j == Head(work)
           (* poll asks for as many as are ready by now *)
           max == IF j.w \in IoThread THEN Len(watcher[j.w].ready) ELSE j.n
       IN  Continue(<<Process(j.t), [j EXCEPT !.job = "deliver", !.n = max]>>)
    /\ UNCHANGED <<ioScenario, fds, desc, watcher, thr, delayed, owner, know, ioPanic>>

StaleInterests(w) ==
    {k \in DOMAIN watcher[w].interests : watcher[w].interests[k].active # watcher[w].interests[k].relevant \cap readiness(k[1])}

Taken(x, max) == SubSeq(x.ready, 1, IF max < Len(x.ready) THEN max ELSE Len(x.ready))
Again(x, ks) == SelectSeq(ks, LAMBDA k : ~x.interests[k].edge)

get_ready_interests ==
    /\ Pending("deliver")
    /\ LET j == Head(work)
           x == watcher[j.w]
           got == Taken(x, j.n)
           panic == CASE StaleInterests(j.w) # {} -> NotUpToDate
                      [] j.woken /\ got = <<>> -> NoEvents
                      [] OTHER -> "none"
       IN  /\ ioPanic' = panic
           /\ watcher' = [watcher EXCEPT ![j.w].ready = SubSeq(@, Len(got) + 1, Len(@)) \o Again(x, got)]
           /\ know' = [know EXCEPT ![j.t] = @ \cup UNION {desc[k[1]].rclock : k \in ToSet(got)}]
           /\ Continue(<<>>)
    /\ UNCHANGED <<ioScenario, fds, desc, thr, delayed, owner>>

(* unblock_thread: the callback of the thread runs at once. *)
BlockReason(t) ==
    CASE thr[t].op \in {"epoll", "poll"} -> "readiness"
      [] thr[t].op \in {"run", "io"} -> thr[t].op
      [] desc[thr[t].d].kind = "eventfd" -> "eventfd"
      [] OTHER -> "virtual_socket"

unblock_thread ==
    /\ Pending("unblock")
    /\ LET t == Head(work).t IN
       IF BlockReason(t) \notin Head(work).on
       THEN ioPanic' = "thread was not blocked, or for another reason" /\ UNCHANGED <<thr, work>>
       ELSE /\ thr' = [thr EXCEPT ![t] = Running]
            /\ Continue(<<thr[t].next>>)
            /\ UNCHANGED ioPanic
    /\ UNCHANGED <<ioScenario, fds, desc, watcher, delayed, owner, know>>
=============================================================================
