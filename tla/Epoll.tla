------------------------------- MODULE Epoll -------------------------------
(***************************************************************************)
(* epoll (linux_like/epoll.rs) and poll (unix/poll.rs).                    *)
(***************************************************************************)
EXTENDS VirtualIo

Always == {"write_closed", "error"}     \* watched for whatever the caller asks
Watchable(d) == Live(d) /\ desc[d].kind # "epoll"

epoll_create1(t) == insert_new(t, "epoll", [NoDesc EXCEPT !.kind = "epoll"])

IsEpoll(n) == fds[n] # None /\ desc[fds[n]].kind = "epoll"
Watches(w, d) == [desc EXCEPT ![d].watchers = IF KeysOf(w, d) = {} THEN Append(@, w) ELSE @]

(* add_interest; an interest that exists already gives EEXIST. *)
epoll_ctl_add(t, ep, n, rel, edge) ==
    /\ Calls(t, "epoll_ctl") /\ IsEpoll(ep) /\ fds[n] # None /\ Watchable(fds[n])
    /\ LET w == fds[ep]
           key == <<fds[n], n>>
       IN  /\ key \notin DOMAIN watcher[w].interests
           /\ desc' = Watches(w, fds[n])
           /\ watcher' = [watcher EXCEPT ![w].interests = @ @@ (key :> Interest(rel \cup Always, edge))]
           /\ Begin(t, <<Watch(t, None, w, {key}, readiness(fds[n]), TRUE)>>)
    /\ UNCHANGED <<ioScenario, fds, thr, know, ioPanic>>

(* update_interest; ENOENT without an interest. *)
epoll_ctl_mod(t, ep, n, rel, edge) ==
    /\ Calls(t, "epoll_ctl") /\ IsEpoll(ep) /\ fds[n] # None
    /\ LET w == fds[ep]
           key == <<fds[n], n>>
       IN  /\ key \in DOMAIN watcher[w].interests
           /\ watcher' = [watcher EXCEPT ![w].interests[key].relevant = rel \cup Always, ![w].interests[key].edge = edge]
           /\ Begin(t, <<Watch(t, None, w, {key}, readiness(fds[n]), TRUE)>>)
    /\ UNCHANGED <<ioScenario, fds, desc, thr, know, ioPanic>>

(* remove_interest; ENOENT without an interest. *)
epoll_ctl_del(t, ep, n) ==
    /\ Calls(t, "epoll_ctl_del") /\ IsEpoll(ep) /\ fds[n] # None
    /\ LET w == fds[ep]
           key == <<fds[n], n>>
       IN  /\ key \in DOMAIN watcher[w].interests
           /\ watcher' = [watcher EXCEPT ![w] = Drop(w, {key})]
           /\ desc' = [desc EXCEPT ![fds[n]].watchers = IF KeysOf(w, fds[n]) = {key} THEN SelectSeq(@, LAMBDA v : v # w) ELSE @]
           /\ Begin(t, <<>>)
    /\ UNCHANGED <<ioScenario, fds, thr, know, ioPanic>>

(* epoll_wait with room for max events; timeout 0, finite or none. *)
epoll_wait(t, ep, max, timeout) ==
    /\ Calls(t, "epoll_wait") /\ IsEpoll(ep)
    /\ LET w == fds[ep] IN
       IF timeout = "zero" \/ watcher[w].ready # <<>>
       THEN Begin(t, <<Ready(t, w, w, max, FALSE)>>) /\ UNCHANGED <<watcher, thr>>
       ELSE /\ watcher' = [watcher EXCEPT ![w].queue = Append(@, t)]
            /\ thr' = [thr EXCEPT ![t] = Blocked("epoll", w, timeout = "finite", Ready(t, w, w, max, TRUE))]
            /\ Begin(t, <<>>)
    /\ UNCHANGED <<ioScenario, fds, desc, know, ioPanic>>

(* poll over a set of numbers: a watcher of its own, level-triggered; a    *)
(* number that is not open counts as ready.                                *)
poll(t, ns, rel, timeout) ==
    /\ Calls(t, "poll") /\ \A n \in ns : fds[n] # None => Watchable(fds[n])
    /\ LET open == {n \in ns : fds[n] # None}
           keys == {<<fds[n], n>> : n \in open}
           blank == [NewWatcher EXCEPT !.interests = [k \in keys |-> Interest(rel \cup Always, FALSE)]]
           asked == SetToSortSeq(keys, LAMBDA k, l : k[2] < l[2])
           x == FoldLeft(LAMBDA y, k : UpdateOne(y, k, readiness(k[1]), TRUE), blank, asked)
           now == timeout = "zero" \/ open # ns \/ x.ready # <<>>
       IN  /\ watcher' = [watcher EXCEPT ![t] = IF now THEN x ELSE [x EXCEPT !.queue = <<t>>]]
           /\ desc' = [d \in Desc |-> IF \E k \in keys : k[1] = d THEN [desc[d] EXCEPT !.watchers = Append(@, t)] ELSE desc[d]]
           /\ IF now THEN Begin(t, <<Ready(t, None, t, 0, FALSE)>>) /\ UNCHANGED thr
              ELSE Begin(t, <<>>) /\ thr' = [thr EXCEPT ![t] = Blocked("poll", None, timeout = "finite", Ready(t, None, t, 0, FALSE))]
    /\ UNCHANGED <<ioScenario, fds, know, ioPanic>>
=============================================================================
