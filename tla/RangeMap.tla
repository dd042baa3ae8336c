------------------------------ MODULE RangeMap ------------------------------
(***************************************************************************)
(* DedupRangeMap (data_structures/dedup_range_map.rs), the map behind the  *)
(* borrow trackers and the race detector: a sequence of ranges with a      *)
(* value each, split and merged as ranges are mutated; and RangeObjectMap  *)
(* (range_object_map.rs), the map behind the store buffers, whose ranges   *)
(* are objects that are never split.                                       *)
(***************************************************************************)
EXTENDS Integers, Sequences, SequencesExt, FiniteSets

CONSTANTS
    MapSize,        \* the size of the allocation in bytes
    Datum,          \* the values of a DedupRangeMap
    Mutation,       \* what its users do to a value: functions on Datum
    MergeLimit      \* successful_merge_count at the start of iter_mut

VARIABLES
    v,              \* the elements of the DedupRangeMap: [lo, hi, data], hi excluded
    call,           \* the latest mutation of it: <<range, function>>
    objs            \* the elements of the RangeObjectMap: [lo, hi]

rangeVars == <<v, call, objs>>

Elem(lo, hi, data) == [lo |-> lo, hi |-> hi, data |-> data]
Bytes(e) == e.lo .. e.hi - 1

(* DedupRangeMap::new: nothing at all for a size of zero. *)
NewMap(data) == IF MapSize > 0 THEN <<Elem(0, MapSize, data)>> ELSE <<>>

(* find_offset, the position of the element around an offset. *)
find_offset(s, o) == CHOOSE i \in DOMAIN s : o \in Bytes(s[i])

(* split_index: the second element starts at `at`. *)
split_index(s, i, at) ==
    IF at \in {s[i].lo, s[i].hi} THEN s
    ELSE InsertAt([s EXCEPT ![i].hi = at], i + 1, Elem(at, s[i].hi, s[i].data))

(* The scan of iter_mut from `first`, merging equal neighbours on the way  *)
(* for as long as `budget` lasts.  One turn of its loop.                   *)
Scan(s, first) == [s |-> s, since |-> first, stop |-> first, budget |-> MergeLimit, done |-> FALSE]

ScanTurn(c, last) ==
    LET done == c.s[c.stop].hi >= last
        stop == c.stop + 1                      \* the first element not looked at
        block == c.budget > 0 /\ (done \/ c.s[stop].data # c.s[c.since].data)
        gone == stop - c.since - 1              \* elements merged into the first of the block
        merged == SubSeq(c.s, 1, c.since - 1) \o <<Elem(c.s[c.since].lo, c.s[stop - 1].hi, c.s[c.since].data)>>
                  \o SubSeq(c.s, stop, Len(c.s))
    IN  IF block
        THEN [s |-> merged, since |-> stop - gone, stop |-> stop - gone,
              budget |-> IF gone > 0 THEN c.budget + gone ELSE c.budget - 1, done |-> done]
        ELSE [c EXCEPT !.stop = stop, !.done = done]

ScanFrom(s, first, last) ==
    LET turn[n \in 0 .. Len(s)] ==
            IF n = 0 THEN Scan(s, first)
            ELSE LET c == turn[n - 1] IN IF c.done THEN c ELSE ScanTurn(c, last)
    IN  turn[Len(s)]

(* iter_mut: the elements of the map afterwards, and the first and last of *)
(* those that are yielded.                                                 *)
iter_mut(s, o, len) ==
    IF len = 0 THEN [s |-> s, first |-> 1, last |-> 0]
    ELSE LET i == find_offset(s, o)
             t == split_index(s, i, o)
             first == IF t # s THEN i + 1 ELSE i
             c == ScanFrom(t, first, o + len)
         IN  [s |-> split_index(c.s, c.stop - 1, o + len), first |-> first, last |-> c.stop - 1]

(* A user of the map changes what it is given by f. *)
IterMut(o, len, f) ==
    /\ call' = <<<<o, len>>, f>>
    /\ o + len <= MapSize
    /\ LET r == iter_mut(v, o, len)
       IN  v' = [i \in DOMAIN r.s |-> IF i \in r.first .. r.last THEN [r.s[i] EXCEPT !.data = f[@]] ELSE r.s[i]]
    /\ UNCHANGED objs

(* iter: no splitting, so the first and the last element may stick out. *)
iter(o, len) ==
    LET first == IF len = 0 THEN Len(v) + 1 ELSE find_offset(v, o)
    IN  {i \in first .. Len(v) : v[i].lo < o + len}

(* merge_adjacent_thorough *)
(* Mutant: neighbours are joined whatever they hold. *)
JoinedAny(s, e) == IF s # <<>> THEN [s EXCEPT ![Len(s)].hi = e.hi] ELSE Append(s, e)
Joined(s, e) ==
    IF s # <<>> /\ Last(s).data = e.data THEN [s EXCEPT ![Len(s)].hi = e.hi] ELSE Append(s, e)
merge_adjacent_thorough ==
    /\ v' = FoldLeft(Joined, <<>>, v)
    /\ UNCHANGED <<call, objs>>

---------------------------------------------------------------------------
(* RangeObjectMap::find_offset: <<found, position>>, where the position of *)
(* an offset in no object is where one would be inserted.                  *)
find_object(o) ==
    LET around == {i \in DOMAIN objs : o \in objs[i].lo .. objs[i].hi - 1}
    IN  IF around # {} THEN <<TRUE, CHOOSE i \in around : TRUE>>
        ELSE <<FALSE, 1 + Cardinality({i \in DOMAIN objs : objs[i].hi <= o})>>

(* access_type; `to` is excluded. *)
access_type(lo, hi) ==
    LET a == find_object(lo)
        z == find_object(hi - 1)
    IN  CASE a[1] /\ objs[a[2]].lo = lo /\ objs[a[2]].hi = hi -> [kind |-> "perfect", from |-> a[2], to |-> a[2]]
          [] ~a[1] /\ ~z[1] /\ a[2] = z[2] -> [kind |-> "empty", from |-> a[2], to |-> a[2]]
          [] OTHER -> [kind |-> "imperfect", from |-> a[2], to |-> IF z[1] THEN z[2] + 1 ELSE z[2]]

(* get_or_create_store_buffer_mut (weak_memory.rs): objects that overlap   *)
(* with the range without being it are removed, and one made in their      *)
(* place.                                                                  *)
GetOrCreate(lo, hi) ==
    LET t == access_type(lo, hi)
        rest == IF t.kind = "imperfect" THEN SubSeq(objs, 1, t.from - 1) \o SubSeq(objs, t.to, Len(objs)) ELSE objs
    IN  /\ lo < hi /\ hi <= MapSize
        /\ objs' = IF t.kind = "perfect" THEN objs ELSE InsertAt(rest, t.from, [lo |-> lo, hi |-> hi])
        /\ UNCHANGED <<v, call>>

(* non_atomic_write (weak_memory.rs): the objects it overlaps with go. *)
NonAtomicWrite(lo, hi) ==
    LET t == access_type(lo, hi)
    IN  /\ lo < hi /\ hi <= MapSize
        /\ objs' = CASE t.kind = "perfect" -> RemoveAt(objs, t.from)
                     [] t.kind = "imperfect" -> SubSeq(objs, 1, t.from - 1) \o SubSeq(objs, t.to, Len(objs))
                     [] t.kind = "empty" -> objs
        /\ UNCHANGED <<v, call>>

---------------------------------------------------------------------------
RangeInit == objs = <<>> /\ call = <<>> /\ \E d \in Datum : v = NewMap(d)

Spans == {s \in (0 .. MapSize) \X (0 .. MapSize) : s[1] + s[2] <= MapSize}
DedupNext ==
    \/ \E s \in Spans, f \in Mutation : IterMut(s[1], s[2], f)
    \/ merge_adjacent_thorough
ObjectNext == \E s \in Spans : GetOrCreate(s[1], s[1] + s[2]) \/ NonAtomicWrite(s[1], s[1] + s[2])
RangeSpec == RangeInit /\ [][DedupNext]_rangeVars

---------------------------------------------------------------------------
(* The value of a byte, and the map of bytes that the ranges stand for. *)
ByteAt(o) == v[find_offset(v, o)].data
AsBytes == INSTANCE ByteMap WITH bytes <- [o \in 0 .. MapSize - 1 |-> ByteAt(o)]

(* The ranges are a map of bytes: whatever is split, merged or left alone, *)
(* a mutation changes exactly the bytes of its range, each by its own      *)
(* value.                                                                  *)
RangesImplementBytes == AsBytes!ByteSpec

(* Elements are never empty, follow one another without a gap and cover    *)
(* the allocation; objects are disjoint and in order (the assertions of    *)
(* insert_at_pos and merge_adjacent_thorough).                             *)
RangeTypeOK ==
    /\ \A i \in DOMAIN v : v[i].lo < v[i].hi /\ v[i].data \in Datum
    /\ \A i \in 1 .. Len(v) - 1 : v[i].hi = v[i + 1].lo
    /\ MapSize > 0 => v[1].lo = 0 /\ Last(v).hi = MapSize
    /\ \A i \in 1 .. Len(objs) - 1 : objs[i].hi <= objs[i + 1].lo

(* In every state the map can get into, and for every range asked for:     *)
(* iter_mut yields the bytes of the range, no more and no fewer, and iter  *)
(* the elements that overlap with it; access_type finds the objects that   *)
(* overlap with it and no others, and knows when one of them is the range. *)
YieldsWhatIsAsked ==
    \A s \in Spans :
        LET range == s[1] .. s[1] + s[2] - 1
            r == iter_mut(v, s[1], s[2])
        IN  /\ UNION {Bytes(r.s[i]) : i \in r.first .. r.last} = range
            /\ iter(s[1], s[2]) = {i \in DOMAIN v : Bytes(v[i]) \cap range # {}}
            /\ range # {} =>
                  LET t == access_type(s[1], s[1] + s[2])
                      hit == {i \in DOMAIN objs : Bytes(objs[i]) \cap range # {}}
                  IN  CASE t.kind = "empty" -> hit = {}
                        [] t.kind = "imperfect" -> hit = t.from .. t.to - 1 /\ \A i \in hit : Bytes(objs[i]) # range
                        [] t.kind = "perfect" -> hit = {t.from} /\ Bytes(objs[t.from]) = range
=============================================================================
