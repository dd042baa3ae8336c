---------------------------- MODULE SyncObjects ----------------------------
(***************************************************************************)
(* The objects behind the memory of locks: a pthread_mutex_t, rwlock_t,    *)
(* cond_t or os_unfair_lock is bytes of the program, and the interpreter   *)
(* attaches its own object to the address when it is first used (sync.rs   *)
(* of concurrency, of the Unix and of the macOS shims).  The program may   *)
(* copy, overwrite and free those bytes, which must never leave a thread   *)
(* waiting for an object nobody can reach, nor bring a lock to life twice. *)
(* What the locks do among threads is in MutexCondvar and RwLock; here     *)
(* they are cut down to their owner and their queue.                       *)
(***************************************************************************)
EXTENDS Naturals, Sequences, FiniteSets
LOCAL INSTANCE SequencesExt

CONSTANTS
    SyncThread, Loc,    \* threads; places the size of one object
    SyncScenarios       \* which locks the program has, its attributes, isolation, a bound

ASSUME SyncObjectsAssumption ==
    /\ 0 \notin SyncThread
    /\ \A s \in SyncScenarios : /\ s.types \subseteq {"mutex", "rwlock", "cond", "unfair"}
                                /\ s.attrs \in BOOLEAN /\ s.isolated \in BOOLEAN /\ s.max \in Nat

VARIABLES
    sync_scenario,
    bytes,       \* what is in each place; "moved" is a copy of "init", the same bytes
    sync_objs,   \* the object attached to each place; 0 is none
    objs,        \* every object so far
    blocked_on,     \* what each thread is blocked on
    mutexattr, condattr,   \* the kind and the clock in two attribute objects
    sync_halt    \* no, or how the run ended

syncVars == <<sync_scenario, bytes, sync_objs, objs, blocked_on, mutexattr, condattr, sync_halt>>

NotWaiting == [obj |-> 0, loc |-> 0, how |-> "no", mutex |-> 0, timed |-> FALSE]

SyncInit ==
    /\ sync_scenario \in SyncScenarios
    /\ bytes \in [Loc -> {"static", "uninit"} \cup (IF "mutex" \in sync_scenario.types THEN {"static_rec"} ELSE {})]
    /\ sync_objs = [l \in Loc |-> 0] /\ objs = <<>>
    /\ blocked_on = [t \in SyncThread |-> NotWaiting]
    /\ mutexattr = "uninit" /\ condattr = "uninit" /\ sync_halt = "no"

SyncNow == [bytes |-> bytes, at |-> sync_objs, objs |-> objs, err |-> "no"]

(* The step ends with memory and objects as in s, or with the error in it. *)
Become(s, w) ==
    IF s.err # "no"
    THEN sync_halt' = s.err /\ UNCHANGED <<sync_scenario, bytes, sync_objs, objs, blocked_on, mutexattr, condattr>>
    ELSE /\ bytes' = s.bytes /\ sync_objs' = s.at /\ objs' = s.objs /\ blocked_on' = w
         /\ UNCHANGED <<sync_scenario, mutexattr, condattr, sync_halt>>

NewObj(type, kind, clock, explicit) ==
    [type |-> type, kind |-> kind, clock |-> clock, explicit |-> explicit,
     owner |-> 0, count |-> 0, readers |-> {}, queue |-> <<>>]

-----------------------------------------------------------------------------
(* Memory of the program. *)

(* Mutant: the object does not look at its queue. *)
QueueEmptyAny(o) == TRUE

(* queue_is_empty of each kind of object. *)
QueueEmpty(o) == o.queue = <<>>

(* on_access, for any kind of access. *)
OnAccess(s, l) == IF s.at[l] # 0 /\ ~QueueEmpty(s.objs[s.at[l]]) THEN [s EXCEPT !.err = "ub"] ELSE s

DeleteOnWrite(s, l) == [s.at EXCEPT ![l] = 0]

(* before_memory_write and the write. *)
Written(s, l, b) ==
    LET a == OnAccess(s, l) IN [a EXCEPT !.bytes[l] = b, !.at = DeleteOnWrite(s, l)]

OverwriteBytes(l, b) == Become(Written(SyncNow, l, b), blocked_on)

Copied(b) == IF b = "init" THEN "moved" ELSE b

CopyBytes(from, to) ==
    LET a == OnAccess(SyncNow, from) IN
    from # to /\ Become(IF a.err # "no" THEN a ELSE Written(a, to, Copied(bytes[from])), blocked_on)

(* before_memory_deallocation; the place is allocated again at once. *)
FreeBytes(l) == LET a == OnAccess(SyncNow, l) IN Become([a EXCEPT !.at[l] = 0, !.bytes[l] = "uninit"], blocked_on)

-----------------------------------------------------------------------------
(* From a place to its object. *)

Content(b) == IF b = "moved" THEN "init" ELSE b

(* What new_meta_obj takes for an object that has not been used: a static  *)
(* initializer; for os_unfair_lock also one that is marked.                *)
IsInitializer(type, b) ==
    CASE type = "mutex" -> b \in {"static", "static_rec"}
      [] type \in {"rwlock", "cond"} -> b = "static"
      [] type = "unfair" -> Content(b) \in {"static", "init"}

KindOf(type, b) ==
    CASE type = "mutex" -> IF b = "static_rec" THEN "recursive" ELSE "default"
      [] type = "unfair" -> IF Content(b) = "init" THEN "permanent" ELSE "active"
      [] OTHER -> type

(* get_immovable_sync_with_static_init: compare, mark the bytes, attach. *)
GetData(s, l, type) ==
    LET there == s.at[l] # 0 /\ s.objs[s.at[l]].type = type IN
    IF s.err # "no" \/ there THEN s
    ELSE IF ~IsInitializer(type, s.bytes[l]) THEN [s EXCEPT !.err = "ub"]
    ELSE [s EXCEPT !.bytes[l] = IF Content(@) = "init" THEN @ ELSE "init",
                   !.at[l] = Len(s.objs) + 1,
                   !.objs = Append(@, NewObj(type, KindOf(type, s.bytes[l]), "realtime", FALSE))]

(* init_immovable_sync: overwrite, mark, attach. *)
Created(s, l, obj) ==
    LET a == Written(s, l, "init") IN
    IF a.err # "no" THEN a ELSE [a EXCEPT !.at[l] = Len(s.objs) + 1, !.objs = Append(@, obj)]

(* destroy: an object in use is an error, the bytes are gone afterwards. *)
Destroyed(s, l, used) ==
    IF s.err # "no" THEN s ELSE IF used THEN [s EXCEPT !.err = "ub"] ELSE Written(s, l, "uninit")

-----------------------------------------------------------------------------
(* Attributes. *)

OnlyAttrs(m, c, err) ==
    /\ mutexattr' = m /\ condattr' = c /\ sync_halt' = err
    /\ UNCHANGED <<sync_scenario, bytes, sync_objs, objs, blocked_on>>

(* PTHREAD_MUTEX_KIND_UNCHANGED *)
UnchangedKind == "unchanged"

(* The kind of the attribute: DEFAULT and NORMAL are the same number. *)
MutexattrTranslateKind(kind) == IF kind = "unchanged" THEN "default" ELSE kind

MutexattrInit == OnlyAttrs(UnchangedKind, condattr, "no")
MutexattrSettype(kind) == OnlyAttrs(kind, condattr, "no")
MutexattrDestroy ==
    IF mutexattr = "uninit" THEN OnlyAttrs(mutexattr, condattr, "ub") ELSE OnlyAttrs("uninit", condattr, "no")

CondattrInit == OnlyAttrs(mutexattr, "realtime", "no")
CondattrSetclock(clock) == OnlyAttrs(mutexattr, clock, "no")
CondattrGetclock == condattr = "uninit" /\ OnlyAttrs(mutexattr, condattr, "ub")
CondattrDestroy ==
    IF condattr = "uninit" THEN OnlyAttrs(mutexattr, condattr, "ub") ELSE OnlyAttrs(mutexattr, "uninit", "no")

AttrStep ==
    \/ "mutex" \in sync_scenario.types /\ \/ MutexattrInit \/ MutexattrDestroy
                                          \/ \E k \in {"normal", "recursive", "errorcheck"} : MutexattrSettype(k)
    \/ "cond" \in sync_scenario.types /\ \/ CondattrInit \/ CondattrGetclock \/ CondattrDestroy
                                         \/ \E c \in {"realtime", "monotonic"} : CondattrSetclock(c)

-----------------------------------------------------------------------------
(* Mutexes. *)

PthreadMutexInit(l, withAttr) ==
    Become(IF withAttr /\ mutexattr = "uninit" THEN [SyncNow EXCEPT !.err = "ub"]
           ELSE Created(SyncNow, l, NewObj("mutex", IF withAttr THEN MutexattrTranslateKind(mutexattr) ELSE "default",
                                       "realtime", withAttr /\ mutexattr # "unchanged")), blocked_on)

Taken(s, o, t) == [s EXCEPT !.objs[o].owner = t, !.objs[o].count = 1]

Enqueued(s, o, t) == [s EXCEPT !.objs[o].queue = Append(@, t)]

Waits(t, o, l, how, m, timed) ==
    [blocked_on EXCEPT ![t] = [obj |-> o, loc |-> l, how |-> how, mutex |-> m, timed |-> timed]]

PthreadMutexLock(t, l) ==
    LET s == GetData(SyncNow, l, "mutex")
        o == s.at[l]
        obj == s.objs[o]
    IN
    IF s.err # "no" THEN Become(s, blocked_on)
    ELSE IF obj.owner = 0 THEN Become(Taken(s, o, t), blocked_on)
    ELSE IF obj.owner # t THEN Become(Enqueued(s, o, t), Waits(t, o, l, "lock", 0, FALSE))
    ELSE Become(CASE obj.kind = "default" -> [s EXCEPT !.err = "ub"]
                  [] obj.kind = "normal" -> [s EXCEPT !.err = "deadlock"]
                  [] obj.kind = "recursive" -> [s EXCEPT !.objs[o].count = @ + 1]
                  [] obj.kind = "errorcheck" -> s, blocked_on)

PthreadMutexTrylock(t, l) ==
    LET s == GetData(SyncNow, l, "mutex")
        o == s.at[l]
    IN Become(IF s.err # "no" \/ s.objs[o].owner \notin {0, t} THEN s
              ELSE IF s.objs[o].owner = 0 THEN Taken(s, o, t)
              ELSE IF s.objs[o].kind = "recursive" THEN [s EXCEPT !.objs[o].count = @ + 1]
              ELSE s, blocked_on)

(* The lock is given up, to the first in the queue if there is one. *)
Released(s, o) ==
    IF s.objs[o].count > 1 THEN [s EXCEPT !.objs[o].count = @ - 1]
    ELSE IF s.objs[o].queue = <<>> THEN [s EXCEPT !.objs[o].owner = 0, !.objs[o].count = 0]
    ELSE [s EXCEPT !.objs[o].owner = Head(s.objs[o].queue), !.objs[o].queue = Tail(@)]

(* Who is in no queue any more runs again. *)
SyncWoken(s, w) ==
    [t \in SyncThread |-> IF w[t].obj # 0 /\ t \notin Range(s.objs[w[t].obj].queue) THEN NotWaiting ELSE w[t]]

PthreadMutexUnlock(t, l) ==
    LET s == GetData(SyncNow, l, "mutex")
        o == s.at[l]
        r == Released(s, o)
    IN
    IF s.err # "no" THEN Become(s, blocked_on)
    ELSE IF s.objs[o].owner = t THEN Become(r, SyncWoken(r, blocked_on))
    ELSE Become(IF s.objs[o].kind \in {"errorcheck", "recursive"} THEN s ELSE [s EXCEPT !.err = "ub"], blocked_on)

PthreadMutexDestroy(l) ==
    LET s == GetData(SyncNow, l, "mutex") IN
    Become(Destroyed(s, l, s.err = "no" /\ s.objs[s.at[l]].owner # 0), blocked_on)

PthreadMutexStep(t, l) ==
    \/ PthreadMutexInit(l, FALSE) \/ (sync_scenario.attrs /\ PthreadMutexInit(l, TRUE))
    \/ PthreadMutexLock(t, l) \/ PthreadMutexTrylock(t, l) \/ PthreadMutexUnlock(t, l) \/ PthreadMutexDestroy(l)

-----------------------------------------------------------------------------
(* Reader-writer locks; queues hold readers and writers alike. *)

RwLocked(o) == o.owner # 0 \/ o.readers # {}
RwGiven(s, o, t, write) ==
    IF write THEN [s EXCEPT !.objs[o].owner = t] ELSE [s EXCEPT !.objs[o].readers = @ \cup {t}]

RwlockLock(t, l, write, try) ==
    LET s == GetData(SyncNow, l, "rwlock")
        o == s.at[l]
        free == IF write THEN ~RwLocked(s.objs[o]) ELSE s.objs[o].owner = 0
    IN
    IF s.err # "no" THEN Become(s, blocked_on)
    ELSE IF free THEN Become(RwGiven(s, o, t, write), blocked_on)
    ELSE IF try THEN Become(s, blocked_on)
    ELSE Become(Enqueued(s, o, t), Waits(t, o, l, IF write THEN "lock" ELSE "read", 0, FALSE))

(* When the last holder is gone a writer takes over, else all readers. *)
RwReleased(s, o, w) ==
    LET q == s.objs[o].queue
        writers == SelectSeq(q, LAMBDA u : w[u].how = "lock")
    IN
    IF RwLocked(s.objs[o]) \/ q = <<>> THEN s
    ELSE IF writers # <<>> THEN [s EXCEPT !.objs[o].owner = Head(writers), !.objs[o].queue = SelectSeq(q, LAMBDA u : u # Head(writers))]
    ELSE [s EXCEPT !.objs[o].readers = Range(q), !.objs[o].queue = <<>>]

RwlockUnlock(t, l) ==
    LET s == GetData(SyncNow, l, "rwlock")
        o == s.at[l]
        mine == s.objs[o].owner = t \/ t \in s.objs[o].readers
        r == RwReleased(IF t \in s.objs[o].readers THEN [s EXCEPT !.objs[o].readers = @ \ {t}]
                        ELSE [s EXCEPT !.objs[o].owner = 0], o, blocked_on)
    IN
    IF s.err # "no" \/ ~mine THEN Become([s EXCEPT !.err = "ub"], blocked_on)
    ELSE Become(r, SyncWoken(r, blocked_on))

RwlockDestroy(l) ==
    LET s == GetData(SyncNow, l, "rwlock") IN
    Become(Destroyed(s, l, s.err = "no" /\ RwLocked(s.objs[s.at[l]])), blocked_on)

(* Read locks are not counted here: a thread takes one at a time. *)
ReadsAlready(t, l) == sync_objs[l] # 0 /\ t \in objs[sync_objs[l]].readers

RwlockStep(t, l) ==
    \/ \E write, try \in BOOLEAN : (write \/ ~ReadsAlready(t, l)) /\ RwlockLock(t, l, write, try)
    \/ RwlockUnlock(t, l) \/ RwlockDestroy(l)

-----------------------------------------------------------------------------
(* Condition variables. *)

CondInit(l, withAttr) ==
    Become(IF withAttr /\ condattr = "uninit" THEN [SyncNow EXCEPT !.err = "ub"]
           ELSE Created(SyncNow, l, NewObj("cond", "cond", IF withAttr THEN condattr ELSE "realtime", FALSE)), blocked_on)

(* pthread_cond_wait and pthread_cond_timedwait: the objects of both       *)
(* places, the mutex given up by reference.                                *)
CondWait(t, l, m, timed) ==
    LET s == GetData(GetData(SyncNow, l, "cond"), m, "mutex")
        o == s.at[l]
        x == s.at[m]
        r == Enqueued(Released(s, x), o, t)
    IN
    /\ l # m
    /\ IF s.err # "no" THEN Become(s, blocked_on)
       ELSE IF timed /\ s.objs[o].clock = "realtime" /\ sync_scenario.isolated
            THEN Become([s EXCEPT !.err = "unsupported"], blocked_on)
       ELSE IF s.objs[x].owner # t THEN Become([s EXCEPT !.err = "ub"], blocked_on)
       ELSE IF s.objs[x].count # 1 THEN Become([s EXCEPT !.err = "unsupported"], blocked_on)
       ELSE Become(r, SyncWoken(r, Waits(t, o, l, "wait", x, timed)))

(* condvar_reacquire_mutex: the object it was given, wherever it is now. *)
Reacquires(s, t, w) ==
    LET x == w[t].mutex
        left == [s EXCEPT !.objs[w[t].obj].queue = SelectSeq(@, LAMBDA v : v # t)]
    IN
    IF s.objs[x].owner = 0 THEN Become(Taken(left, x, t), [w EXCEPT ![t] = NotWaiting])
    ELSE Become(Enqueued(left, x, t), [w EXCEPT ![t] = [NotWaiting EXCEPT !.obj = x, !.how = "reacquire"]])

(* pthread_cond_signal; broadcast is a row of them. *)
CondSignal(l) ==
    LET s == GetData(SyncNow, l, "cond")
        o == s.at[l]
    IN
    IF s.err # "no" \/ s.objs[o].queue = <<>> THEN Become(s, blocked_on)
    ELSE Reacquires(s, Head(s.objs[o].queue), blocked_on)

(* The timeout of a wait. *)
CondTimeout(t) == blocked_on[t].how = "wait" /\ blocked_on[t].timed /\ Reacquires(SyncNow, t, blocked_on)

CondDestroy(l) ==
    LET s == GetData(SyncNow, l, "cond") IN
    Become(Destroyed(s, l, s.err = "no" /\ s.objs[s.at[l]].queue # <<>>), blocked_on)

CondStep(t, l) ==
    \/ CondInit(l, FALSE) \/ (sync_scenario.attrs /\ CondInit(l, TRUE))
    \/ \E m \in Loc, timed \in BOOLEAN : CondWait(t, l, m, timed)
    \/ CondSignal(l) \/ CondDestroy(l)

-----------------------------------------------------------------------------
(* os_unfair_lock of macOS. *)

Permanent(s, l) == s.err = "no" /\ s.objs[s.at[l]].kind = "permanent"

UnfairLock(t, l) ==
    LET s == GetData(SyncNow, l, "unfair")
        o == s.at[l]
    IN
    IF s.err # "no" THEN Become(s, blocked_on)
    ELSE IF Permanent(s, l) THEN Become([s EXCEPT !.err = "unsupported"], blocked_on)
    ELSE IF s.objs[o].owner = 0 THEN Become(Taken(s, o, t), blocked_on)
    ELSE IF s.objs[o].owner = t THEN Become([s EXCEPT !.err = "abort"], blocked_on)
    ELSE Become(Enqueued(s, o, t), Waits(t, o, l, "lock", 0, FALSE))

UnfairTrylock(t, l) ==
    LET s == GetData(SyncNow, l, "unfair") IN
    Become(IF s.err # "no" \/ Permanent(s, l) \/ s.objs[s.at[l]].owner # 0 THEN s ELSE Taken(s, s.at[l], t), blocked_on)

(* A lock that nobody holds any more is as if it had never been used. *)
UnfairQuiet(s, l) == IF s.objs[s.at[l]].owner = 0 THEN Written(s, l, "static") ELSE s

UnfairUnlock(t, l) ==
    LET s == GetData(SyncNow, l, "unfair")
        r == Released(s, s.at[l])
    IN
    IF s.err # "no" THEN Become(s, blocked_on)
    ELSE IF Permanent(s, l) THEN Become([s EXCEPT !.err = "unsupported"], blocked_on)
    ELSE IF s.objs[s.at[l]].owner # t THEN Become([s EXCEPT !.err = "abort"], blocked_on)
    ELSE Become(UnfairQuiet(r, l), SyncWoken(r, blocked_on))

(* os_unfair_lock_assert_owner and os_unfair_lock_assert_not_owner. *)
UnfairAssert(t, l, owner) ==
    LET s == GetData(SyncNow, l, "unfair") IN
    IF s.err # "no" THEN Become(s, blocked_on)
    ELSE IF Permanent(s, l) THEN Become([s EXCEPT !.err = "unsupported"], blocked_on)
    ELSE IF (s.objs[s.at[l]].owner = t) # owner THEN Become([s EXCEPT !.err = "abort"], blocked_on)
    ELSE Become(IF owner THEN s ELSE UnfairQuiet(s, l), blocked_on)

UnfairStep(t, l) ==
    UnfairLock(t, l) \/ UnfairTrylock(t, l) \/ UnfairUnlock(t, l) \/ \E owner \in BOOLEAN : UnfairAssert(t, l, owner)

-----------------------------------------------------------------------------

(* Bounds: objects ever made, and how often a mutex is locked by one thread. *)
SyncBounded == Len(objs) + 2 <= sync_scenario.max /\ \A o \in DOMAIN objs : objs[o].count <= 2

SyncNext ==
    /\ sync_halt = "no" /\ SyncBounded
    /\ \/ \E t \in SyncThread, l \in Loc :
            /\ blocked_on[t].obj = 0
            /\ \/ "mutex" \in sync_scenario.types /\ PthreadMutexStep(t, l)
               \/ "rwlock" \in sync_scenario.types /\ RwlockStep(t, l)
               \/ "cond" \in sync_scenario.types /\ CondStep(t, l)
               \/ "unfair" \in sync_scenario.types /\ UnfairStep(t, l)
       \/ \E t \in SyncThread : CondTimeout(t)
       \/ /\ \E t \in SyncThread : blocked_on[t].obj = 0
          /\ \/ \E l \in Loc : OverwriteBytes(l, "static") \/ OverwriteBytes(l, "junk") \/ FreeBytes(l)
             \/ \E from, to \in Loc : CopyBytes(from, to)
             \/ sync_scenario.attrs /\ AttrStep

-----------------------------------------------------------------------------

(* "if we still see the object, we know the location must still contain    *)
(* init_val": whatever is written, copied, freed and initialized again.    *)
ObjectsAreMarked == \A l \in Loc : sync_objs[l] # 0 => Content(bytes[l]) = "init"

(* Who waits in a lock or wait call is in the queue of the object that is  *)
(* still attached to the place it named, where an unlock or a signal will  *)
(* find it: no write, copy, free, init or destroy has taken it away.       *)
WaitersReachable ==
    \A t \in SyncThread : blocked_on[t].how \in {"lock", "read", "wait"} =>
        /\ sync_objs[blocked_on[t].loc] = blocked_on[t].obj
        /\ t \in Range(objs[blocked_on[t].obj].queue)

(* "If the object is copied somewhere, that will show up": a copy made     *)
(* while in use never becomes a lock of its own.  (An os_unfair_lock is    *)
(* then locked for good.)                                                  *)
CopiesNeverUsed ==
    \A l \in Loc : bytes[l] = "moved" /\ sync_objs[l] # 0 => objs[sync_objs[l]].kind = "permanent"

(* "We de-initialize locks when they get released, so it got copied while  *)
(* locked": a marked os_unfair_lock is locked or a copy of one that was.   *)
MarkedMeansLocked ==
    "unfair" \in sync_scenario.types /\ sync_halt = "no" =>
        \A l \in Loc : bytes[l] = "init" => sync_objs[l] # 0 /\ objs[sync_objs[l]].owner # 0

(* "To differentiate 'the mutex kind has not been changed'": the run stops *)
(* with a local deadlock only over a locked mutex whose kind the program   *)
(* has set; and nobody is queued for a mutex or an unfair lock it owns,    *)
(* also when the unlock of another or the end of a wait gave it away.      *)
SelfDeadlockWasAsked ==
    /\ sync_halt = "deadlock" =>
         \E l \in Loc : LET o == sync_objs[l] IN
             o # 0 /\ objs[o].type = "mutex" /\ objs[o].owner # 0 /\ objs[o].explicit
    /\ \A o \in DOMAIN objs : objs[o].type \in {"mutex", "unfair"} => objs[o].owner \notin Range(objs[o].queue)

(* Whatever a program does to the bytes of its locks, the interpreter's    *)
(* objects stay where their users will find them, and nowhere else.        *)
LockObjectsInPlace ==
    /\ WaitersReachable /\ ObjectsAreMarked /\ CopiesNeverUsed
    /\ MarkedMeansLocked /\ SelfDeadlockWasAsked
=============================================================================
