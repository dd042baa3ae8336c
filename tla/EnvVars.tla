------------------------------ MODULE EnvVars ------------------------------
(***************************************************************************)
(* The environment of the interpreted program: src/src/shims/env.rs and    *)
(* env.rs of the Unix and of the Windows shims.  On Unix every variable is *)
(* an allocation the program can hold pointers to, and `environ` a static  *)
(* it can overwrite; on Windows the variables stay with the interpreter    *)
(* and are copied into buffers whose size the caller has to find out.      *)
(* A value is modelled by its length.                                      *)
(***************************************************************************)
EXTENDS Integers, Sequences, FiniteSets

CONSTANTS
    EnvName, EnvBadName,   \* names; the empty one and those with '='
    EnvLen,                \* lengths of values
    EnvMaxAlloc,           \* bound: allocations ever made (a scenario may set a lower one)
    EnvMaxChanges,         \* bound: changes of variables on Windows
    HostnameLen,           \* HOSTNAME.len()
    EnvScenarios

ASSUME EnvVarsAssumption ==
    /\ EnvBadName \subseteq EnvName /\ EnvLen \subseteq Nat
    /\ EnvMaxAlloc \in Nat /\ EnvMaxChanges \in Nat /\ HostnameLen \in Nat \ {0}
    /\ \A s \in EnvScenarios :
         /\ s.os \in {"gnu", "musl", "android", "macos", "freebsd", "windows"}
         /\ s.calls \subseteq {"vars", "machine", "hostname", "host"} /\ s.allocs <= EnvMaxAlloc
         /\ s.isolated \in BOOLEAN /\ s.forwarded \subseteq EnvName
         /\ DOMAIN s.host \subseteq EnvName /\ DOMAIN s.set \subseteq EnvName

EnvThread == {1, 2}          \* two callers that read variables on Windows
NullPtr == 0
ForeignPtr == -1             \* memory of the program that is no environ block

VARIABLES
    env,           \* the scenario: target, isolation, host variables, flags
    env_map,       \* EnvVars: name to pointer (Unix), name to value (Windows)
    env_alloc,     \* every allocation so far: its contents, and is it live
    environ, saved_environ, environ_written,  \* the static; what the program did to it
    held,          \* pointers getenv has returned
    query,         \* GetEnvironmentVariableW in the caller's loop over buffer sizes
    env_changes,
    own,           \* names the program has set itself
    host_cwd, seen,   \* the host's current directory; what the program learned of the host
    hostname,      \* what the last gethostname did
    env_halt

envVars == <<env, env_map, env_alloc, environ, saved_environ, environ_written, held, query,
             env_changes, own, host_cwd, seen, hostname, env_halt>>

OnWindowsEnv == env.os = "windows"

EnvLive == {p \in DOMAIN env_alloc : env_alloc[p].live}
VarAlloc(n, v) == [kind |-> "var", name |-> n, value |-> v, list |-> {}, live |-> TRUE]
BlockAlloc(ps) == [kind |-> "block", name |-> "", value |-> 0, list |-> ps, live |-> TRUE]
MachineAlloc == [kind |-> "machine", name |-> "", value |-> 0, list |-> {}, live |-> TRUE]
RuntimeAlloc(ps) == [kind |-> "runtime", name |-> "", value |-> 0, list |-> ps, live |-> TRUE]
Values(f) == {f[x] : x \in DOMAIN f}
With(f, x, y) == [z \in DOMAIN f \cup {x} |-> IF z = x THEN y ELSE f[z]]
Without(f, x) == [z \in DOMAIN f \ {x} |-> f[z]]

(* EnvVars::init: the variables of the host that are passed on. *)
Forwarded(s) == {n \in DOMAIN s.host : ~s.isolated \/ n \in s.forwarded}

InitialVars(s) ==
    [n \in Forwarded(s) \cup DOMAIN s.set |-> IF n \in DOMAIN s.set THEN s.set[n] ELSE s.host[n]]

(* UnixEnvVars::new: one allocation per variable, then the environ block.  *)
(* Scenarios with "machine" have one more allocation of that kind, such as *)
(* the list of arguments.                                                  *)
NewUnix(vars) ==
    LET order == CHOOSE f \in [DOMAIN vars -> 1 .. Cardinality(DOMAIN vars)] :
                    \A m, n \in DOMAIN vars : f[m] = f[n] => m = n
        block == Cardinality(DOMAIN vars) + 1
    IN
    /\ env_map = order
    /\ env_alloc = [p \in 1 .. block |->
          IF p = block THEN BlockAlloc(Values(order))
          ELSE LET n == CHOOSE n \in DOMAIN vars : order[n] = p IN VarAlloc(n, vars[n])]
          \o IF "machine" \in env.calls THEN <<MachineAlloc>> ELSE <<>>
    /\ environ = block

NewWindows(vars) == env_map = vars /\ env_alloc = <<>> /\ environ = NullPtr

NoQuery == [state |-> "idle", name |-> "", size |-> 0, retries |-> 0, changes |-> 0]

EnvInit ==
    /\ env \in EnvScenarios
    /\ IF OnWindowsEnv THEN NewWindows(InitialVars(env)) ELSE NewUnix(InitialVars(env))
    /\ saved_environ = NullPtr /\ environ_written = "no" /\ held = {}
    /\ query = [t \in EnvThread |-> NoQuery] /\ env_changes = 0 /\ own = {}
    /\ host_cwd = "start" /\ seen = {}
    /\ hostname = [result |-> 0, len |-> 1, written |-> 1, terminated |-> TRUE]
    /\ env_halt = "no"

EnvStop(how) ==
    /\ env_halt' = how
    /\ UNCHANGED <<env, env_map, env_alloc, environ, saved_environ, environ_written, held, query,
                   env_changes, own, host_cwd, seen, hostname>>

-----------------------------------------------------------------------------
(* Unix. *)

unixUnchanged == <<env, query, env_changes, host_cwd, seen, hostname>>

(* getenv. *)
Getenv(n) ==
    /\ n \in DOMAIN env_map /\ env_map[n] \notin held
    /\ held' = held \cup {env_map[n]}
    /\ UNCHANGED <<unixUnchanged, env_map, env_alloc, environ, saved_environ, environ_written, own, env_halt>>

(* The program follows a pointer it got from getenv. *)
UseHeld(p) == p \in held \ EnvLive /\ EnvStop("dangling getenv")

(* Mutant: the block is made from the old map. *)
EnvironBlockStale(m) == BlockAlloc(Values(env_map))

EnvironBlock(m) == BlockAlloc(Values(m))

NewEnviron(p) == p

(* update_environ: free the list `environ` points to, write a new one.     *)
(* `a`: the allocations, `m`: the map as the caller has left them.         *)
UpdateEnviron(a, m) ==
    LET new == Len(a) + 1 IN
    /\ env_alloc' = Append([a EXCEPT ![environ].live = FALSE], EnvironBlock(m))
    /\ environ' = NewEnviron(new)

(* deallocate_ptr in update_environ takes any live allocation of Machine   *)
(* kind: a list, but also the string of a variable or the arguments.       *)
EnvironIsMachine(a) == environ \in DOMAIN a /\ a[environ].live

FreeVar(a, n) == IF n \in DOMAIN env_map THEN [a EXCEPT ![env_map[n]].live = FALSE] ELSE a
FreesDead(n) == n \in DOMAIN env_map /\ env_map[n] \notin EnvLive

(* setenv; EINVAL for a bad name. *)
Setenv(n, v) ==
    LET p == Len(env_alloc) + 1
        m == With(env_map, n, p)
    IN
    /\ n \notin EnvBadName /\ p < env.allocs
    /\ IF FreesDead(n) THEN EnvStop("double free")
       ELSE IF ~EnvironIsMachine(FreeVar(env_alloc, n)) THEN EnvStop("bad environ")
       ELSE /\ env_map' = m /\ own' = own \cup {n}
            /\ UpdateEnviron(Append(FreeVar(env_alloc, n), VarAlloc(n, v)), m)
            /\ UNCHANGED <<unixUnchanged, saved_environ, environ_written, held, env_halt>>

(* unsetenv; it renews the list even if there is no such variable. *)
Unsetenv(n) ==
    LET m == Without(env_map, n) IN
    /\ n \notin EnvBadName /\ Len(env_alloc) < env.allocs
    /\ IF FreesDead(n) THEN EnvStop("double free")
       ELSE IF ~EnvironIsMachine(FreeVar(env_alloc, n)) THEN EnvStop("bad environ")
       ELSE /\ env_map' = m
            /\ UpdateEnviron(FreeVar(env_alloc, n), m)
            /\ UNCHANGED <<unixUnchanged, saved_environ, environ_written, held, own, env_halt>>

(* The program reads the static, and writes it: NULL, memory of its own,   *)
(* what it has read before, or other memory of Machine kind, such as an    *)
(* entry of the list itself.                                               *)
SaveEnviron ==
    /\ saved_environ # environ /\ saved_environ' = environ
    /\ UNCHANGED <<unixUnchanged, env_map, env_alloc, environ, environ_written, held, own, env_halt>>

OtherMachine == {p \in EnvLive : env_alloc[p].kind # "block"}

WriteEnviron(p) ==
    /\ p # environ /\ environ' = p
    /\ environ_written' =
          IF p \in OtherMachine \/ environ_written = "machine" THEN "machine" ELSE "list"
    /\ UNCHANGED <<unixUnchanged, env_map, env_alloc, saved_environ, held, own, env_halt>>

(* gethostname into a buffer that is too short. *)
GethostnameTruncated(len) ==
    CASE env.os = "android" -> [result |-> -1, len |-> len, written |-> 0, terminated |-> FALSE]
      [] env.os \in {"gnu", "freebsd"} -> [result |-> -1, len |-> len, written |-> len, terminated |-> FALSE]
      [] OTHER -> [result |-> 0, len |-> len, written |-> len, terminated |-> TRUE]

Gethostname(len) ==
    IF len = 0 THEN EnvStop("ub")
    ELSE /\ hostname' = IF len > HostnameLen
                        THEN [result |-> 0, len |-> len, written |-> HostnameLen + 1, terminated |-> TRUE]
                        ELSE GethostnameTruncated(len)
         /\ UNCHANGED <<env, env_map, env_alloc, environ, saved_environ, environ_written, held,
                        query, env_changes, own, host_cwd, seen, env_halt>>

UnixVarStep ==
    \/ \E n \in EnvName : Getenv(n) \/ Unsetenv(n) \/ \E v \in EnvLen : Setenv(n, v)
    \/ \E p \in held : UseHeld(p)
    \/ SaveEnviron \/ \E p \in {NullPtr, ForeignPtr, saved_environ} : WriteEnviron(p)
    \/ "machine" \in env.calls /\ \E p \in OtherMachine : WriteEnviron(p)

-----------------------------------------------------------------------------
(* Windows. *)

winUnchanged == <<env, environ, saved_environ, environ_written, held, host_cwd, seen, hostname>>

(* windows_check_buffer_size; len includes the terminator. *)
WindowsCheckBufferSize(fits, len) == IF fits THEN len - 1 ELSE len

(* A caller wants the value of n and starts with a buffer for one character. *)
StartQuery(t, n) ==
    /\ query[t].state = "idle"
    /\ query' = [query EXCEPT ![t] = [state |-> "ask", name |-> n, size |-> 1, retries |-> 0,
                                      changes |-> env_changes]]
    /\ UNCHANGED <<winUnchanged, env_map, env_alloc, env_changes, own, env_halt>>

(* GetEnvironmentVariableW, and what the caller makes of the result: a     *)
(* larger one is the size to try next, a smaller one the length it got.    *)
GetEnvironmentVariableW(t) ==
    LET q == query[t]
        found == q.name \in DOMAIN env_map
        len == env_map[q.name] + 1
        r == WindowsCheckBufferSize(len <= q.size, len)
    IN
    /\ q.state = "ask"
    /\ query' = [query EXCEPT ![t] =
          IF ~found THEN [q EXCEPT !.state = "not found"]
          ELSE IF r > q.size THEN [q EXCEPT !.size = r, !.retries = @ + 1]
          ELSE [q EXCEPT !.state = IF r = q.size THEN "ambiguous" ELSE "got"]]
    /\ UNCHANGED <<winUnchanged, env_map, env_alloc, env_changes, own, env_halt>>

(* SetEnvironmentVariableW: a value, or NULL to delete. *)
SetEnvironmentVariableW(n, m, mine) ==
    /\ env_changes < EnvMaxChanges
    /\ IF n \in EnvBadName THEN EnvStop("unsupported")
       ELSE /\ env_map' = m /\ own' = mine
            /\ env_changes' = env_changes + 1
            /\ UNCHANGED <<winUnchanged, env_alloc, query, env_halt>>

(* GetEnvironmentStringsW: a copy of all variables, which the program owns. *)
GetEnvironmentStringsW ==
    /\ Len(env_alloc) < env.allocs
    /\ env_alloc' = Append(env_alloc, RuntimeAlloc({<<n, env_map[n]>> : n \in DOMAIN env_map}))
    /\ UNCHANGED <<winUnchanged, env_map, query, env_changes, own, env_halt>>

FreeEnvironmentStringsW(p) ==
    IF p \notin EnvLive THEN EnvStop("ub")
    ELSE /\ env_alloc' = [env_alloc EXCEPT ![p].live = FALSE]
         /\ UNCHANGED <<winUnchanged, env_map, query, env_changes, own, env_halt>>

WindowsVarStep ==
    \/ \E t \in EnvThread : GetEnvironmentVariableW(t) \/ \E n \in EnvName : StartQuery(t, n)
    \/ \E n \in EnvName : \/ SetEnvironmentVariableW(n, Without(env_map, n), own \ {n})
                          \/ \E v \in EnvLen : SetEnvironmentVariableW(n, With(env_map, n, v), own \cup {n})
    \/ GetEnvironmentStringsW
    \/ \E p \in DOMAIN env_alloc : FreeEnvironmentStringsW(p)

-----------------------------------------------------------------------------
(* Calls that are about the host on either target. *)

hostUnchanged == <<env, env_map, env_alloc, environ, saved_environ, environ_written, held, query,
                   env_changes, own, hostname>>

(* reject_in_isolation: the call fails with PermissionDenied. *)
EnvRejected == env.isolated

(* chdir and SetCurrentDirectoryW. *)
Chdir ==
    /\ host_cwd' = IF EnvRejected THEN host_cwd ELSE "moved"
    /\ UNCHANGED <<hostUnchanged, seen, env_halt>>

(* getcwd and GetCurrentDirectoryW. *)
Getcwd ==
    /\ seen' = IF EnvRejected THEN seen ELSE seen \cup {"cwd"}
    /\ UNCHANGED <<hostUnchanged, host_cwd, env_halt>>

(* check_no_isolation of GetUserProfileDirectoryW and GetTempPathW: the    *)
(* run ends.                                                               *)
HostDirectory(what) ==
    /\ OnWindowsEnv
    /\ IF EnvRejected THEN EnvStop("unsupported")
       ELSE seen' = seen \cup {what} /\ UNCHANGED <<hostUnchanged, host_cwd, env_halt>>

(* get_pid: the one of the host, or 1000. *)
GetPid ==
    /\ seen' = IF EnvRejected THEN seen ELSE seen \cup {"pid"}
    /\ UNCHANGED <<hostUnchanged, host_cwd, env_halt>>

HostStep == Chdir \/ Getcwd \/ GetPid \/ HostDirectory("home") \/ HostDirectory("temp")

EnvNext ==
    /\ env_halt = "no"
    /\ \/ "vars" \in env.calls /\ IF OnWindowsEnv THEN WindowsVarStep ELSE UnixVarStep
       \/ "hostname" \in env.calls /\ \E len \in 0 .. HostnameLen + 1 : Gethostname(len)
       \/ "host" \in env.calls /\ HostStep

EnvSpec == EnvInit /\ [][EnvNext]_envVars

-----------------------------------------------------------------------------

(* Unix: the live strings are the values of the map under their names, and *)
(* one live list holds exactly them, however setenv and unsetenv are mixed *)
(* with writes of NULL, own memory or an earlier list to `environ`:        *)
(* nothing leaks, nothing in the list dangles.  Not so once the program    *)
(* has set `environ` to other memory of Machine kind: update_environ then  *)
(* frees that, the list leaks, and if it was a variable's string the new   *)
(* list names a dead one.                                                  *)
EnvironListsTheMap ==
    ~OnWindowsEnv /\ environ_written # "machine" =>
        /\ {p \in EnvLive : env_alloc[p].kind = "var"} = Values(env_map)
        /\ \A n \in DOMAIN env_map : env_alloc[env_map[n]].name = n
        /\ \E b \in EnvLive : /\ env_alloc[b].kind = "block" /\ env_alloc[b].list = Values(env_map)
                              /\ \A c \in EnvLive : env_alloc[c].kind = "block" => c = b

(* The interpreter frees a string twice only if the program has had it     *)
(* freed through `environ`, by setting that to memory of Machine kind that *)
(* is no list; it reports its own static as broken only if the program     *)
(* wrote it.                                                               *)
OnlyTheProgramBreaksEnviron ==
    /\ env_halt = "double free" => environ_written = "machine"
    /\ env_halt = "bad environ" => environ_written # "no"

(* A result of GetEnvironmentVariableW tells success from failure, and a   *)
(* caller that takes it for the size of its next buffer tries again only   *)
(* because the variable has changed meanwhile.                             *)
RetriesAreChanges ==
    \A t \in EnvThread : /\ query[t].state # "ambiguous"
                         /\ query[t].retries <= 1 + env_changes - query[t].changes

(* In isolation the program sees the forwarded and configured variables    *)
(* and its own, learns nothing else of the host and does not change it.    *)
IsolatedFromHostEnv ==
    env.isolated =>
        /\ DOMAIN env_map \subseteq env.forwarded \cup DOMAIN env.set \cup own
        /\ host_cwd = "start" /\ seen = {}

(* gethostname stays in the buffer, and a success is a terminated string.  *)
HostnameTerminated ==
    hostname.written <= hostname.len /\ (hostname.result = 0 => hostname.terminated)
=============================================================================
