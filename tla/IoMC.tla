-------------------------------- MODULE IoMC --------------------------------
(* Small programs over event descriptors, pipes, sockets, epoll and poll:  *)
(* the descriptors they make, then any of the calls they may make.         *)
EXTENDS Io

CONSTANTS t1, t2, t3

P(threads, plan, calls) ==
    [threads |-> threads, plan |-> plan, late |-> <<>>, calls |-> calls, sizes |-> {1}, flags |-> {{"readable"}}, edges |-> BOOLEAN,
     illumos |-> FALSE]
Rw == {"read", "write"}
Wait == {"epoll_ctl", "epoll_wait"}

One == {t1}
Two == {t1, t2}
Three == {t1, t2, t3}
MCScenarios == {
    [P(Three, <<"eventfd">>, Rw) EXCEPT !.sizes = {1, 2, 3}],
    [P(Three, <<"eventfd", "epoll">>, Rw \cup Wait) EXCEPT !.edges = {TRUE}],
    P(Three, <<"socketpair">>, Rw),
    [P(Two, <<"socketpair">>, {"send", "recv", "fcntl"}) EXCEPT !.sizes = {1, 2}],
    P(Two, <<"pipe", "epoll">>, {"close", "read"} \cup Wait),
    P(Two, <<"pipe">>, {"close", "poll", "readv", "writev"} \cup Rw),
    [P(One, <<"eventfd">>, {"close", "poll", "write"}) EXCEPT !.late = <<"pipe">>],
    [P(One, <<"eventfd_nonblock", "epoll">>, {"close", "dup", "dup2", "epoll_ctl", "epoll_ctl_del"} \cup Rw) EXCEPT !.illumos = TRUE],
    [P(Two, <<"eventfd", "epoll">>, {"close", "epoll_ctl", "epoll_ctl_del", "epoll_wait", "dup2"}) EXCEPT !.edges = {TRUE}],
    P(Two, <<"socket">>, {"connect", "send", "recv", "so_error"}),
    P(Two, <<"socket", "eventfd", "eventfd">>, {"bind", "listen", "accept", "recv", "option", "getsockname"}),
    [P(Two, <<"socket_nonblock">>, {"connect", "send", "so_error", "getpeername"}) EXCEPT !.sizes = {1, 2}],
    [P(One, <<"socket">>, {"connect", "send", "recv", "peek", "shutdown", "timeouts"}) EXCEPT !.sizes = {1, 2}],
    P(One, <<"socket_nonblock">>, {"connect", "so_error", "option"}),
    P(Two, <<"socket_nonblock", "epoll">>, {"connect", "recv", "epoll_ctl", "epoll_wait"}),
    (* both ends of a pair in one epoll; three threads, one of which closes a pipe *)
    [P(Two, <<"socketpair", "epoll">>, Rw \cup Wait) EXCEPT !.edges = {TRUE}],
    [P(Three, <<"pipe", "epoll">>, {"close"} \cup Wait) EXCEPT !.edges = {TRUE}]}

ClosedScenarios == {P(Two, <<"pipe">>, {"close"} \cup Rw), P(Two, <<"socketpair">>, {"close"} \cup Rw)}

Symmetric == Permutations({t1, t2})
=============================================================================
