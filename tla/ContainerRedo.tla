---------------------------- MODULE ContainerRedo ----------------------------
(***************************************************************************)
(* Lists, sets and hashes behind the write-ahead log: the operations of    *)
(* Containers under the lock of vanity/db/db/locked_database.cpp, and what *)
(* wal_redo_db_op makes of their entries.                                  *)
(*                                                                         *)
(* `live', `redone' and the steps that log and purge are those of WalRedo. *)
(* A logged operation is a record of its name and arguments, as wal_log    *)
(* writes it and the serializer reads it back.  An operation whose         *)
(* arguments run into undefined behaviour takes the program down, or into  *)
(* a loop it does not leave, with its entry on the log already; an entry   *)
(* that does the same when it is redone keeps it down.                     *)
(***************************************************************************)
EXTENDS WalRedo, Containers

CONSTANTS
    Items,    \* the elements of lists and sets
    Words,    \* the values of hashes
    Fields,   \* the fields of hashes
    MaxLen,   \* bound: the elements of all lists together, but for copies
    Indices   \* the indices and counts that clients send

\* Values are what str_set, int_set and float_set take.
ASSUME ContainerAssumption ==
    /\ \A v \in Values : v[1] \in {"str", "int", "float"}
    /\ IsFiniteSet(Items)
    /\ MaxLen \in Nat
    /\ Indices \subseteq Int

VARIABLES
    up,       \* the program is running
    stuck,    \* the log holds an entry that cannot be redone
    drawn     \* history: since the snapshot, an operation with more than one outcome

cvars == <<live, redone, now, expiring, persisting, reordered, up, stuck, drawn>>

CInit == Init /\ up = TRUE /\ stuck = FALSE /\ drawn = FALSE

Lists(n) == UNION {[1..m -> Items] : m \in 0..n}
Hashes == UNION {[fs -> Words] : fs \in SUBSET Fields}

\* Bound: once the log and the memory have come apart, all that happens is that
\* the program dies and is started again.
Together == ~reordered /\ ~drawn

\* A step of WalRedo.
Runs(step) == up /\ Together /\ step /\ UNCHANGED <<up, stuck, drawn>>

\* An operation that is not logged, which may find its keys expired.
ReadStep(i, done) == Runs(Unlogged(i, done) /\ UNCHANGED <<now, expiring, persisting>>)

-----------------------------------------------------------------------------
(* Lists *)

ListWrites ==
    [op : {"list_set"}, key : Keys, index : Indices, value : Items]
        \cup [op : {"list_push_left", "list_push_right"}, key : Keys, values : Lists(2)]
        \cup [op : {"list_pop_left", "list_pop_right"}, key : Keys, n : Indices]
        \cup [op : {"list_trim"}, key : Keys, start : Indices, end : Indices]
        \cup [op : {"list_remove"}, key : Keys, element : Items, count : Indices]

\* LockedDatabase, after wal_log.
list_do(d, o, t) ==
    CASE o.op = "list_set" -> list_set(d, o.key, o.index, o.value, t)
      [] o.op = "list_push_left" -> list_push_left(d, o.key, o.values, t)
      [] o.op = "list_push_right" -> list_push_right(d, o.key, o.values, t)
      [] o.op = "list_pop_left" -> list_pop_left(d, o.key, o.n, t)
      [] o.op = "list_pop_right" -> list_pop_right(d, o.key, o.n, t)
      [] o.op = "list_trim" -> list_trim(d, o.key, o.start, o.end, t)
      [] o.op = "list_remove" -> list_remove(d, o.key, o.element, o.count, t)

\* wal_redo_db_op, with expiry off.
redo_list(d, o) ==
    CASE o.op = "list_set" -> list_set(d, o.key, o.index, o.value, Off)
      [] o.op = "list_push_left" -> list_push_left(d, o.key, o.values, Off)
      [] o.op = "list_push_right" -> list_push_right(d, o.key, o.values, Off)
      [] o.op = "list_pop_left" -> list_pop_left(d, o.key, o.n, Off)
      [] o.op = "list_pop_right" -> list_pop_right(d, o.key, o.n, Off)
      [] o.op = "list_trim" -> list_trim(d, o.key, o.start, o.end, Off)
      [] o.op = "list_remove" -> list_remove(d, o.key, o.element, o.count, Off)

\* The operation runs past an end of the list.
ListUndefined(d, o, t) ==
    LET e == erase_if_expired(d, o.key, t).db
        l == ContainerAt(e, o.key, "list")
    IN /\ Holds(e, o.key, "list")
       /\ \/ o.op = "list_trim" /\ RangeCrosses(Len(l), o.start, o.end)
          \/ o.op = "list_remove" /\ RemovesPastFront(l, o.element, o.count)

Bounded(d) ==
    SumFunction([k \in {k \in DOMAIN d.data : Holds(d, k, "list")} |-> Len(d.data[k][2])])
        <= MaxLen

\* A logged operation that returns; nothing is redone behind an entry that
\* cannot be.
Write(i, done, redo) ==
    /\ Together /\ Bounded(done.db)
    /\ live' = [live EXCEPT ![i] = done.db]
    /\ redone' = IF stuck' THEN redone
                 ELSE [redone EXCEPT ![i] = wal_redo_expiry(redo.db, done.expired)]
    /\ reordered' = (reordered \/ done.expired # {})
    /\ UNCHANGED <<now, expiring, persisting, up>>

ListWrite(i, o) ==
    /\ up
    /\ ~ListUndefined(live[i], o, now)
    /\ stuck' = (stuck \/ ListUndefined(redone[i], o, Off))
    /\ drawn' = drawn
    /\ Write(i, list_do(live[i], o, now), redo_list(redone[i], o))

\* The entry is on the log when the operation goes astray.
ListWriteDies(i, o) ==
    /\ up
    /\ ListUndefined(live[i], o, now)
    /\ up' = FALSE
    /\ stuck' = (stuck \/ ListUndefined(redone[i], o, Off))
    /\ redone' = IF stuck' THEN redone ELSE [redone EXCEPT ![i] = redo_list(@, o).db]
    /\ expiring' = 0
    /\ persisting' = 0
    /\ UNCHANGED <<live, now, reordered, drawn>>

ListRead(i) ==
    \E k \in Keys :
        \/ ReadStep(i, list_len(live[i], k, now))
        \/ \E n \in Indices : ReadStep(i, list_get(live[i], k, n, now))

\* list_range is not logged: it may die, and be started again.
ListRange(i, k, start, end) ==
    LET crosses == RangeCrosses(Len(ContainerAt(live[i], k, "list")), start, end)
                     /\ Holds(live[i], k, "list") /\ ~is_expired(live[i], k, now)
    IN \/ /\ ~crosses
          /\ ReadStep(i, list_range(live[i], k, start, end, now))
       \/ /\ up /\ crosses
          /\ up' = FALSE
          /\ expiring' = 0
          /\ persisting' = 0
          /\ UNCHANGED <<live, redone, now, reordered, stuck, drawn>>

ListRequest(i) ==
    \/ \E o \in ListWrites : ListWrite(i, o) \/ ListWriteDies(i, o)
    \/ ListRead(i)
    \/ \E k \in Keys, start, end \in Indices : ListRange(i, k, start, end)

-----------------------------------------------------------------------------
(* Sets *)

SetWrites ==
    [op : {"set_add", "set_discard"}, key : Keys, values : SUBSET Items]
        \cup [op : {"set_move"}, source : Keys, dest : Keys, value : Items]
        \cup [op : {"set_union_into", "set_intersection_into"}, dest : Keys, keys : Keys \X Keys]
        \cup [op : {"set_difference_into"}, dest : Keys, key1 : Keys, key2 : Keys]

set_do(d, o, t) ==
    CASE o.op = "set_add" -> set_add(d, o.key, o.values, t)
      [] o.op = "set_discard" -> set_discard(d, o.key, o.values, t)
      [] o.op = "set_move" -> set_move(d, o.source, o.dest, o.value, t)
      [] o.op = "set_union_into" -> set_union_into(d, o.dest, Range(o.keys), t)
      [] o.op = "set_intersection_into" -> set_intersection_into(d, o.dest, o.keys, t)
      [] o.op = "set_difference_into" -> set_difference_into(d, o.dest, o.key1, o.key2, t)

\* Mutant: the operands of the difference are read back in the wrong order.
redo_set_swapped(d, o) ==
    IF o.op = "set_difference_into" THEN set_difference_into(d, o.dest, o.key2, o.key1, Off)
    ELSE set_do(d, o, Off)

redo_set(d, o) ==
    CASE o.op = "set_add" -> set_add(d, o.key, o.values, Off)
      [] o.op = "set_discard" -> set_discard(d, o.key, o.values, Off)
      [] o.op = "set_move" -> set_move(d, o.source, o.dest, o.value, Off)
      [] o.op = "set_union_into" -> set_union_into(d, o.dest, Range(o.keys), Off)
      [] o.op = "set_intersection_into" -> set_intersection_into(d, o.dest, o.keys, Off)
      [] o.op = "set_difference_into" -> set_difference_into(d, o.dest, o.key1, o.key2, Off)

SetWrite(i, o) ==
    /\ up
    /\ UNCHANGED <<stuck, drawn>>
    /\ Write(i, set_do(live[i], o, now), redo_set(redone[i], o))

\* The log has the count: redoing it draws again.
SetRemove(i, k, count) ==
    /\ up
    /\ stuck' = stuck
    /\ \E here \in Draws(live[i], k, count, now), there \in Draws(redone[i], k, count, Off) :
          /\ drawn' = (drawn \/ Cardinality(Draws(redone[i], k, count, Off)) > 1)
          /\ Write(i, set_remove(live[i], k, here, now), set_remove(redone[i], k, there, Off))

SetRead(i) ==
    \E k, j \in Keys :
        \/ ReadStep(i, set_all(live[i], k, now))
        \/ ReadStep(i, set_len(live[i], k, now))
        \/ \E x \in Items : ReadStep(i, set_contains(live[i], k, x, now))
        \/ ReadStep(i, set_union(live[i], {k, j}, now))
        \/ ReadStep(i, SizeOf(set_union(live[i], {k, j}, now)))
        \/ ReadStep(i, set_intersection(live[i], <<k, j>>, now))
        \/ ReadStep(i, SizeOf(set_intersection(live[i], <<k, j>>, now)))
        \/ ReadStep(i, set_difference(live[i], k, j, now))
        \/ ReadStep(i, SizeOf(set_difference(live[i], k, j, now)))

SetRequest(i) ==
    \/ \E o \in SetWrites : SetWrite(i, o)
    \/ \E k \in Keys, count \in Indices \cap Nat : SetRemove(i, k, count)
    \/ SetRead(i)

-----------------------------------------------------------------------------
(* Hashes *)

HashWrites ==
    [op : {"hash_set"}, key : Keys, values : Hashes]
        \cup [op : {"hash_remove"}, key : Keys, hash_keys : SUBSET Fields]

hash_do(d, o, t) ==
    CASE o.op = "hash_set" -> hash_set(d, o.key, o.values)
      [] o.op = "hash_remove" -> hash_remove(d, o.key, o.hash_keys, t)

redo_hash(d, o) ==
    CASE o.op = "hash_set" -> hash_set(d, o.key, o.values)
      [] o.op = "hash_remove" -> hash_remove(d, o.key, o.hash_keys, Off)

HashWrite(i, o) ==
    /\ up
    /\ UNCHANGED <<stuck, drawn>>
    /\ Write(i, hash_do(live[i], o, now), redo_hash(redone[i], o))

\* The order of an unordered_map is not on the log.
HashUpdate(i, k, values) ==
    /\ up
    /\ stuck' = stuck
    /\ \E here \in Reaches(live[i], k, values, now), there \in Reaches(redone[i], k, values, Off) :
          /\ drawn' = (drawn \/ here # there)
          /\ Write(i, hash_update(live[i], k, values, here, now),
                      hash_update(redone[i], k, values, there, Off))

HashRead(i) ==
    \E k \in Keys :
        \/ ReadStep(i, hash_all(live[i], k, now))
        \/ ReadStep(i, hash_len(live[i], k, now))
        \/ ReadStep(i, hash_keys(live[i], k, now))
        \/ ReadStep(i, hash_values(live[i], k, now))
        \/ ReadStep(i, hash_many_get(live[i], k, Fields, now))
        \/ \E f \in Fields :
              \/ ReadStep(i, hash_get(live[i], k, f, now))
              \/ ReadStep(i, hash_key_len(live[i], k, f, now))
              \/ ReadStep(i, hash_contains(live[i], k, f, now))

HashRequest(i) ==
    \/ \E o \in HashWrites : HashWrite(i, o)
    \/ \E k \in Keys, values \in Hashes : HashUpdate(i, k, values)
    \/ HashRead(i)

-----------------------------------------------------------------------------
(* The rest of the program *)

\* recover, after a crash or after an operation has gone astray.
Restart ==
    /\ ~stuck
    /\ CrashAndRecover
    /\ up' = TRUE
    /\ drawn' = FALSE
    /\ UNCHANGED stuck

\* The program may die at any time; if its log cannot be redone it stays down.
RestartDies ==
    /\ stuck
    /\ up' = FALSE
    /\ expiring' = 0
    /\ persisting' = 0
    /\ UNCHANGED <<live, redone, now, reordered, stuck, drawn>>

CNext ==
    \/ \E i \in Databases :
          \/ ListRequest(i)
          \/ SetRequest(i)
          \/ HashRequest(i)
          \/ Runs(Request(i))
    \/ Restart \/ RestartDies
    \/ Runs(Tick)

CSpec == CInit /\ [][CNext]_cvars

-----------------------------------------------------------------------------
(* Properties *)

IsContainer(v) ==
    \/ v[1] = "list" /\ v[2] \in Lists(MaxLen)
    \/ v[1] = "set" /\ v[2] \subseteq Items
    \/ v[1] = "hash" /\ v[2] \in Hashes

IsStored(d) ==
    /\ DOMAIN d.data \subseteq Keys
    /\ \A k \in DOMAIN d.data : IsContainer(d.data[k]) \/ d.data[k] \in Values \cup {<<"str", "">>}
    /\ DOMAIN d.expiry \subseteq DOMAIN d.data

\* Every key holds a value of one of the types, and only keys that exist have
\* expiry times.
CTypeOK ==
    /\ \A i \in Databases : IsStored(live[i]) /\ IsStored(redone[i])
    /\ now \in 0..MaxTime
    /\ expiring \in 0..NumDatabases
    /\ persisting \in 0..(NumDatabases + 1)
    /\ reordered \in BOOLEAN /\ up \in BOOLEAN /\ stuck \in BOOLEAN /\ drawn \in BOOLEAN

\* While the program serves, its log can be redone and redoing it gives the
\* databases in memory, unless an expired key was found by a logged operation or
\* an operation had more than one outcome (wal_redo_db_op against the
\* operations of LockedDatabase, for lists, sets and hashes).
ContainersRebuilt == up /\ ~reordered /\ ~drawn => ~stuck /\ redone = live

\* The requests that store what they compute, be it empty.
IntoOps == {"set_union_into", "set_intersection_into", "set_difference_into"}

\* The steps that may leave an empty container at a key of a database: one was
\* there, or is copied or moved there, or a restart or a request puts it there.
StoresEmpty(i, k) ==
    \/ \E j \in DOMAIN live[i].data :
          /\ IsEmpty(live[i].data[j])
          /\ j = k \/ CopyTo(i, j, k) \/ MoveTo(i, j, k)
    \/ \E from \in Databases :
          /\ Has(live[from], k) /\ IsEmpty(live[from].data[k])
          /\ CopyToDb(from, i, k) \/ MoveToDb(from, i, k)
    \/ Restart
    \/ \E o \in SetWrites : o.op \in IntoOps /\ o.dest = k /\ SetWrite(i, o)
    \/ \E o \in HashWrites : o.op = "hash_set" /\ o.key = k /\ HashWrite(i, o)

NoneEmptied ==
    \A i \in Databases : \A k \in DOMAIN live'[i].data :
        IsEmpty(live'[i].data[k]) => StoresEmpty(i, k)

\* Taking the last element out of a list, set or hash deletes the key: an empty
\* container is stored only by HASH_SET and the SET_..._INTO requests, copied or
\* moved from another key or another database, or restored by a restart
\* (expiry_aware_del in each of the pops, removals and moves).
EmptiedIsGone == [][NoneEmptied]_cvars

\* The indices the documentation speaks of: from the front, or from the end.
AllIndices == -(MaxLen + 1)..(MaxLen + 1)
FromFront(size, index) == IF index < 0 THEN index + size ELSE index

\* The elements from start to end, both included.
Slice(l, start, end) ==
    Elements(l, {i \in DOMAIN l : FromFront(Len(l), start) < i /\ i <= FromFront(Len(l), end) + 1})

\* The pops and LIST_GET, of the list at a key.
PopsAt(d, k, s) ==
    LET l == d.data[k][2]
        n == FromFront(Len(l), s)
        count == IF n < 0 THEN 0 ELSE IF n > Len(l) THEN Len(l) ELSE n
    IN /\ list_pop_left(d, k, s, Off).out = Ok(SubSeq(l, 1, count))
       /\ list_pop_right(d, k, s, Off).out = Ok(SubSeq(l, Len(l) - count + 1, Len(l)))
       /\ list_get(d, k, s, Off).out[1] = "ok" <=> n \in 0..(Len(l) - 1)

\* LIST_RANGE and LIST_TRIM.
RangeAt(d, k, s, e) ==
    LET l == d.data[k][2] IN
    IF RangeCrosses(Len(l), s, e) THEN Slice(l, s, e) = <<>>
    ELSE /\ list_range(d, k, s, e, Off).out = Ok(Slice(l, s, e))
         /\ ~is_invalid_range(s, e) =>
               ContainerAt(list_trim(d, k, s, e, Off).db, k, "list") = Slice(l, s, e)

\* LIST_RANGE, LIST_TRIM, the pops and LIST_GET agree with the slice of the list
\* that their indices name, in range or not; where the two iterators of a range
\* cross, the slice is empty (iterator_or_end, iterator_pair_inclusive and
\* is_invalid_range).
ListIndexing ==
    \A i \in Databases : \A k \in DOMAIN live[i].data : \A s \in AllIndices :
        Holds(live[i], k, "list") =>
            PopsAt(live[i], k, s) /\ \A e \in AllIndices : RangeAt(live[i], k, s, e)

\* A list request, a set request that stores or moves, or a HASH_UPDATE that is not
\* answered OK has changed nothing, but for the keys it found expired: the types
\* are checked before anything is touched.  HASH_UPDATE of an absent key is the
\* exception: it leaves a string there.
FailedChangesNothing ==
    \A i \in Databases :
        LET d == live[i] IN
        /\ \A o \in ListWrites :
              ~ListUndefined(d, o, now) /\ list_answer(list_do(d, o, now).out) # "OK" =>
                  list_do(d, o, now).db = erase_if_expired(d, o.key, now).db
        /\ \A o \in SetWrites :
              set_answer(set_do(d, o, now).out) # "OK" =>
                  LET r == set_do(d, o, now) IN r.db = wal_redo_expiry(d, r.expired)
        /\ \A k \in Keys, values \in Hashes :
              \A seen \in Reaches(d, k, values, now) :
                  LET r == hash_update(d, k, values, seen, now) IN
                  hash_answer(r.out) # "OK" /\ Has(d, k) /\ ~is_expired(d, k, now) => r.db = d

\* An absent key k of database d, against an empty list, set or hash there: the
\* answers to every request that looks at the key.
AbsentList(d, k) ==
    LET l == Store(d, k, <<"list", <<>>>>) IN
    /\ \A o \in ListWrites : o.key = k => list_do(d, o, Off).out = list_do(l, o, Off).out
    /\ list_len(d, k, Off).out = list_len(l, k, Off).out
    /\ \A n, m \in Indices :
          /\ list_get(d, k, n, Off).out = list_get(l, k, n, Off).out
          /\ list_range(d, k, n, m, Off).out = list_range(l, k, n, m, Off).out

\* The requests with one key, and both ends of SET_MOVE.
AbsentSet(d, k) ==
    LET s == Store(d, k, <<"set", {}>>) IN
    /\ \A o \in SetWrites :
          o.op \in {"set_add", "set_discard"} /\ o.key = k =>
              set_do(d, o, Off).out = set_do(s, o, Off).out
    /\ \A j \in Keys, x \in Items :
          /\ set_move(d, k, j, x, Off).out = set_move(s, k, j, x, Off).out
          /\ set_move(d, j, k, x, Off).out = set_move(s, j, k, x, Off).out
    /\ \A count \in Indices \cap Nat :
          \A here \in Draws(d, k, count, Off), there \in Draws(s, k, count, Off) :
              set_remove(d, k, here, Off).out = set_remove(s, k, there, Off).out
    /\ set_all(d, k, Off).out = set_all(s, k, Off).out
    /\ set_len(d, k, Off).out = set_len(s, k, Off).out
    /\ \A x \in Items : set_contains(d, k, x, Off).out = set_contains(s, k, x, Off).out

\* The result of a set operation, its size, and what storing it answers.
SameResults(r, q) ==
    /\ r.out = q.out
    /\ SizeOf(r).out = SizeOf(q).out
    /\ \A dest \in Keys : StoreInto(r, dest).out = StoreInto(q, dest).out

\* SET_UNION, SET_INTERSECT and SET_DIFFERENCE, with another key j.
AbsentAmongSets(d, k, j) ==
    LET s == Store(d, k, <<"set", {}>>) IN
    /\ SameResults(set_union(d, {j, k}, Off), set_union(s, {j, k}, Off))
    /\ SameResults(set_intersection(d, <<j, k>>, Off), set_intersection(s, <<j, k>>, Off))
    /\ SameResults(set_intersection(d, <<k, j>>, Off), set_intersection(s, <<k, j>>, Off))
    /\ SameResults(set_difference(d, k, j, Off), set_difference(s, k, j, Off))

AbsentHash(d, k) ==
    LET h == Store(d, k, <<"hash", <<>>>>) IN
    /\ hash_all(d, k, Off).out = hash_all(h, k, Off).out
    /\ hash_len(d, k, Off).out = hash_len(h, k, Off).out
    /\ hash_keys(d, k, Off).out = hash_keys(h, k, Off).out
    /\ hash_values(d, k, Off).out = hash_values(h, k, Off).out
    /\ \A fs \in SUBSET Fields :
          /\ hash_remove(d, k, fs, Off).out = hash_remove(h, k, fs, Off).out
          /\ hash_many_get(d, k, fs, Off).out = hash_many_get(h, k, fs, Off).out
    /\ \A f \in Fields :
          /\ hash_get(d, k, f, Off).out = hash_get(h, k, f, Off).out
          /\ hash_key_len(d, k, f, Off).out = hash_key_len(h, k, f, Off).out
          /\ hash_contains(d, k, f, Off).out = hash_contains(h, k, f, Off).out

\* An absent key answers as an empty list, set or hash would, to every request of
\* list_database.cpp, set_database.cpp and hash_database.cpp that looks at it, with
\* three exceptions: the second key of SET_DIFFERENCE (DifferenceWithAbsent),
\* HASH_UPDATE, and an absent key before one that holds no set, which
\* SET_INTERSECT and SET_DIFFERENCE then do not find out.
AbsentIsEmpty ==
    \A i \in Databases : \A k \in Keys \ DOMAIN live[i].data :
        /\ AbsentList(live[i], k) /\ AbsentSet(live[i], k) /\ AbsentHash(live[i], k)
        /\ \A j \in Keys : ~Mistyped(live[i], j, "set") => AbsentAmongSets(live[i], k, j)

\* "If <key2> does not exist, it is treated as an empty set and the set at
\* <key1> is returned."  set_difference answers with the empty set.
DifferenceWithAbsent ==
    \A i \in Databases : \A k1, k2 \in Keys :
        Holds(live[i], k1, "set") /\ ~Has(live[i], k2) =>
            set_difference(live[i], k1, k2, Off).out = Some(live[i].data[k1][2])

\* "If a given key does not exist, it is treated as an empty set and is ignored"
\* (docs/commands/SETS.md, of SET_INTERSECT).  It is treated as an empty set, and
\* so not ignored: set_intersection answers with the empty set.
IntersectionIgnoresAbsent ==
    \A i \in Databases : \A k1, k2 \in Keys :
        Holds(live[i], k1, "set") /\ ~Has(live[i], k2) =>
            set_intersection(live[i], <<k1, k2>>, Off).out = Some(live[i].data[k1][2])
=============================================================================
