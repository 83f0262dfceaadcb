----------------------------- MODULE Containers -----------------------------
(***************************************************************************)
(* The operations of one database on lists, sets and hashes, as functions: *)
(* vanity/db/db/list_database.cpp, set_database.cpp and hash_database.cpp, *)
(* and how the servers of vanity/db/servers answer them.                   *)
(*                                                                         *)
(* The form is that of Keyspace.  A value is <<"list", sequence>>,         *)
(* <<"set", set>> or <<"hash", function>>.  Two operations have no single  *)
(* outcome and take the one they have as an argument: set_remove draws at  *)
(* random, and hash_update stops at the first field it adds, in the order  *)
(* of an unordered_map.  Two lists of arguments run into undefined         *)
(* behaviour, named by RangeCrosses and RemovesPastFront.                  *)
(***************************************************************************)
EXTENDS Keyspace, FiniteSets

\* std::variant<T, ListErrorKind> and std::variant<T, HashError>
Ok(x) == <<"ok", x>>
Error(kind) == <<"error", kind>>

Holds(d, k, kind) == Has(d, k) /\ d.data[k][1] = kind

\* A key holds something else than the operation is for.
Mistyped(d, k, kind) == Has(d, k) /\ d.data[k][1] # kind

EmptyOf == [list |-> <<>>, set |-> {}, hash |-> <<>>]

\* What an operation works on: the container at the key, or a new one.
ContainerAt(d, k, kind) == IF Holds(d, k, kind) THEN d.data[k][2] ELSE EmptyOf[kind]

IsEmpty(v) == v[1] \in DOMAIN EmptyOf /\ v[2] = EmptyOf[v[1]]

\* Mutant: the emptied container stays.
StoreBack(d, k, v) == Store(d, k, v)

\* A container that has lost its last element goes, with its expiry time
\* (expiry_aware_del).
StoreOrDel(d, k, v) == IF IsEmpty(v) THEN del(d, k).db ELSE Store(d, k, v)

-----------------------------------------------------------------------------
(* list_database.cpp.  Positions count from 0; the size stands for end(). *)

iterator_or_end(size, index) ==
    IF index >= size \/ index < -size THEN size
    ELSE IF index < 0 THEN index + size ELSE index

\* Positions from the back; the size stands for rend().
reverse_iterator_or_rend(size, index) == iterator_or_end(size, index)

is_invalid_range(start, end) ==
    \/ start > 0 /\ end > 0 /\ start > end
    \/ start < 0 /\ end < 0 /\ start > end

\* Mutant: the end is not part of the range.
iterator_pair_exclusive(size, start, end) ==
    <<IF start < -size THEN 0 ELSE iterator_or_end(size, start),
      IF end < -size THEN 0 ELSE iterator_or_end(size, end)>>

iterator_pair_inclusive(size, start, end) ==
    LET it == iterator_or_end(size, start)
        end_it == iterator_or_end(size, end)
    IN <<IF it = size /\ start < 0 THEN 0 ELSE it,
         IF end_it = size /\ end < 0 THEN 0
         ELSE IF end_it # size THEN end_it + 1 ELSE end_it>>

\* The two iterators of a range are in the wrong order: list_t{it, end_it} and
\* the two erasures of list_trim run past end().
RangeCrosses(size, start, end) ==
    LET pair == iterator_pair_inclusive(size, start, end) IN
    ~is_invalid_range(start, end) /\ pair[1] > pair[2]

list_len(d, k, t) ==
    LET e == erase_if_expired(d, k, t) IN
    Result(e.db,
           IF Mistyped(e.db, k, "list") THEN Error("NotList")
           ELSE Ok(Len(ContainerAt(e.db, k, "list"))),
           e.expired)

\* Mutant: an absent key is not a list.
iterator_or_error_absent(d, k, index) ==
    IF ~Holds(d, k, "list") THEN Error("NotList")
    ELSE LET size == Len(d.data[k][2])
             it == iterator_or_end(size, index)
         IN IF it = size THEN Error("OutOfRange") ELSE Ok(it)

\* As list_get and list_set use it: Ok(position) or an error.
iterator_or_error(d, k, index) ==
    IF ~Has(d, k) THEN Error("OutOfRange")
    ELSE IF ~Holds(d, k, "list") THEN Error("NotList")
    ELSE LET size == Len(d.data[k][2])
             it == iterator_or_end(size, index)
         IN IF it = size THEN Error("OutOfRange") ELSE Ok(it)

list_get(d, k, index, t) ==
    LET e == erase_if_expired(d, k, t)
        it == iterator_or_error(e.db, k, index)
    IN Result(e.db, IF it[1] = "ok" THEN Ok(e.db.data[k][2][it[2] + 1]) ELSE it, e.expired)

list_set(d, k, index, x, t) ==
    LET e == erase_if_expired(d, k, t)
        it == iterator_or_error(e.db, k, index)
        l == ContainerAt(e.db, k, "list")
    IN IF it[1] = "error" THEN Result(e.db, it, e.expired)
       ELSE Result(Store(e.db, k, <<"list", [l EXCEPT ![it[2] + 1] = x]>>),
                   Ok(l[it[2] + 1]), e.expired)

\* list_push_left and list_push_right, by the list they leave.
ListPush(e, k, values, pushed) ==
    IF values = <<>> THEN Result(e.db, Ok(0), e.expired)
    ELSE IF Mistyped(e.db, k, "list") THEN Result(e.db, Error("NotList"), e.expired)
    ELSE Result(Store(e.db, k, <<"list", pushed>>), Ok(Len(pushed)), e.expired)

list_push_left(d, k, values, t) ==
    LET e == erase_if_expired(d, k, t) IN
    ListPush(e, k, values,
             [i \in 1..Len(values) |-> values[Len(values) + 1 - i]] \o ContainerAt(e.db, k, "list"))

list_push_right(d, k, values, t) ==
    LET e == erase_if_expired(d, k, t) IN
    ListPush(e, k, values, ContainerAt(e.db, k, "list") \o values)

\* The two pops, by what they take and what they leave.
ListPop(e, k, taken, rest) ==
    IF ~Has(e.db, k) THEN Result(e.db, Ok(<<>>), e.expired)
    ELSE IF ~Holds(e.db, k, "list") THEN Result(e.db, Error("NotList"), e.expired)
    ELSE Result(StoreOrDel(e.db, k, <<"list", rest>>), Ok(taken), e.expired)

list_pop_left(d, k, n, t) ==
    LET e == erase_if_expired(d, k, t)
        l == ContainerAt(e.db, k, "list")
        it == IF n < -Len(l) THEN 0 ELSE iterator_or_end(Len(l), n)
    IN ListPop(e, k, SubSeq(l, 1, it), SubSeq(l, it + 1, Len(l)))

list_pop_right(d, k, n, t) ==
    LET e == erase_if_expired(d, k, t)
        l == ContainerAt(e.db, k, "list")
        rit == IF n < -Len(l) THEN 0 ELSE reverse_iterator_or_rend(Len(l), n)
    IN ListPop(e, k, SubSeq(l, Len(l) - rit + 1, Len(l)), SubSeq(l, 1, Len(l) - rit))

\* Of a range that does not cross.
list_range(d, k, start, end, t) ==
    LET e == erase_if_expired(d, k, t)
        l == ContainerAt(e.db, k, "list")
        pair == iterator_pair_inclusive(Len(l), start, end)
    IN Result(e.db,
              IF Mistyped(e.db, k, "list") THEN Error("NotList")
              ELSE IF is_invalid_range(start, end) THEN Ok(<<>>)
              ELSE Ok(SubSeq(l, pair[1] + 1, pair[2])),
              e.expired)

\* Of a range that does not cross.
list_trim(d, k, start, end, t) ==
    LET e == erase_if_expired(d, k, t)
        l == ContainerAt(e.db, k, "list")
        pair == iterator_pair_inclusive(Len(l), start, end)
        kept == SubSeq(l, pair[1] + 1, pair[2])
    IN IF Mistyped(e.db, k, "list") THEN Result(e.db, Error("NotList"), e.expired)
       ELSE IF ~Has(e.db, k) \/ is_invalid_range(start, end) THEN Result(e.db, Ok(0), e.expired)
       ELSE Result(StoreOrDel(e.db, k, <<"list", kept>>), Ok(Len(l) - Len(kept)), e.expired)

\* Where x is in a list.
Places(l, x) == {i \in 1..Len(l) : l[i] = x}

\* The places list_remove erases: the first count of them, the last -count of
\* them, or all when count is 0.
Erased(l, x, count) ==
    {i \in Places(l, x) :
        \/ count = 0
        \/ count > 0 /\ Cardinality({j \in Places(l, x) : j < i}) < count
        \/ count < 0 /\ Cardinality({j \in Places(l, x) : j > i}) < -count}

\* Going backwards, rend() is taken once: when the first element is erased and
\* more are wanted, the loop does not find its end.
RemovesPastFront(l, x, count) ==
    count < 0 /\ 1 \in Places(l, x) /\ Cardinality(Places(l, x)) < -count

\* The elements of a list at the places in kept, in order.
Elements(l, kept) ==
    [n \in 1..Cardinality(kept) |->
        l[CHOOSE i \in kept : Cardinality({j \in kept : j < i}) = n - 1]]

\* Of arguments that do not run past the front.
list_remove(d, k, x, count, t) ==
    LET e == erase_if_expired(d, k, t)
        l == ContainerAt(e.db, k, "list")
        gone == Erased(l, x, count)
    IN IF Mistyped(e.db, k, "list") THEN Result(e.db, Error("NotList"), e.expired)
       ELSE IF ~Has(e.db, k) THEN Result(e.db, Ok(0), e.expired)
       ELSE Result(StoreOrDel(e.db, k, <<"list", Elements(l, DOMAIN l \ gone)>>),
                   Ok(Cardinality(gone)), e.expired)

-----------------------------------------------------------------------------
(* set_database.cpp *)

\* erase_if_expired on each of several keys.
erase_all_expired(d, ks, t) ==
    LET gone == {k \in ks : is_expired(d, k, t)} IN
    Result([data |-> Restrict(d.data, DOMAIN d.data \ gone),
            expiry |-> Restrict(d.expiry, DOMAIN d.expiry \ gone)], gone # {}, gone)

set_add(d, k, values, t) ==
    LET e == erase_if_expired(d, k, t)
        s == ContainerAt(e.db, k, "set")
    IN IF values = {} THEN Result(e.db, Some(0), e.expired)
       ELSE IF Mistyped(e.db, k, "set") THEN Result(e.db, None, e.expired)
       ELSE Result(Store(e.db, k, <<"set", s \cup values>>), Some(Cardinality(values \ s)), e.expired)

\* set_all, set_len and set_contains.
set_all(d, k, t) ==
    LET e == erase_if_expired(d, k, t) IN
    Result(e.db, IF Mistyped(e.db, k, "set") THEN None ELSE Some(ContainerAt(e.db, k, "set")),
           e.expired)

set_len(d, k, t) ==
    LET all == set_all(d, k, t) IN
    [all EXCEPT !.out = IF @ = None THEN None ELSE Some(Cardinality(@[1]))]

set_contains(d, k, x, t) ==
    LET all == set_all(d, k, t) IN
    [all EXCEPT !.out = IF @ = None THEN None ELSE Some(x \in @[1])]

\* What set_remove may draw from the set at k: count elements, or all of them.
Draws(d, k, count, t) ==
    LET s == ContainerAt(erase_if_expired(d, k, t).db, k, "set") IN
    {drawn \in SUBSET s :
        Cardinality(drawn) = IF count < Cardinality(s) THEN count ELSE Cardinality(s)}

\* With what it draws.
set_remove(d, k, drawn, t) ==
    LET e == erase_if_expired(d, k, t)
        s == ContainerAt(e.db, k, "set")
    IN IF Mistyped(e.db, k, "set") THEN Result(e.db, None, e.expired)
       ELSE IF ~Has(e.db, k) THEN Result(e.db, Some({}), e.expired)
       ELSE Result(StoreOrDel(e.db, k, <<"set", s \ drawn>>), Some(drawn), e.expired)

\* The size after the erasures is read from the set that expiry_aware_del has
\* destroyed when they leave none; the memory still holds 0.
set_discard(d, k, values, t) ==
    LET e == erase_if_expired(d, k, t)
        s == ContainerAt(e.db, k, "set")
    IN IF Mistyped(e.db, k, "set") THEN Result(e.db, None, e.expired)
       ELSE IF ~Has(e.db, k) THEN Result(e.db, Some(0), e.expired)
       ELSE Result(StoreOrDel(e.db, k, <<"set", s \ values>>), Some(Cardinality(s \cap values)),
                   e.expired)

\* The node is extracted from the source and inserted into the destination,
\* which may be the same set.
set_move(d, source, dest, x, t) ==
    LET e == erase_all_expired(d, {source, dest}, t)
        from == ContainerAt(e.db, source, "set")
        moved == Store(e.db, dest, <<"set", ContainerAt(e.db, dest, "set") \cup {x}>>)
    IN IF ~Has(e.db, source) THEN Result(e.db, Some(FALSE), e.expired)
       ELSE IF Mistyped(e.db, source, "set") THEN Result(e.db, None, e.expired)
       ELSE IF x \notin from THEN Result(e.db, Some(FALSE), e.expired)
       ELSE IF Mistyped(e.db, dest, "set") THEN Result(e.db, None, e.expired)
       ELSE Result(IF source = dest THEN e.db ELSE StoreOrDel(moved, source, <<"set", from \ {x}>>),
                   Some(TRUE), e.expired)

set_union(d, ks, t) ==
    LET e == erase_all_expired(d, ks, t) IN
    Result(e.db,
           IF \E k \in ks : Mistyped(e.db, k, "set") THEN None
           ELSE Some(UNION {ContainerAt(e.db, k, "set") : k \in ks}),
           e.expired)

\* The keys come in an order: a missing one ends the loop before a mistyped one
\* after it is seen.
set_intersection(d, ks, t) ==
    LET e == erase_all_expired(d, Range(ks), t)
        bad == {i \in DOMAIN ks : ~Holds(e.db, ks[i], "set")}
        first == CHOOSE i \in bad : \A j \in bad : i <= j
    IN Result(e.db,
              IF ks = <<>> THEN Some({})
              ELSE IF bad # {} THEN (IF Has(e.db, ks[first]) THEN None ELSE Some({}))
              ELSE Some({x \in e.db.data[ks[1]][2] : \A i \in DOMAIN ks : x \in e.db.data[ks[i]][2]}),
              e.expired)

set_difference(d, k1, k2, t) ==
    LET e == erase_all_expired(d, {k1, k2}, t) IN
    Result(e.db,
           IF ~Has(e.db, k1) \/ ~Has(e.db, k2) THEN Some({})
           ELSE IF Mistyped(e.db, k1, "set") \/ Mistyped(e.db, k2, "set") THEN None
           ELSE Some(e.db.data[k1][2] \ e.db.data[k2][2]),
           e.expired)

\* set_union_into, set_intersection_into and set_difference_into store what the
\* operation gives, an empty set too, and clear the expiry of the destination.
StoreInto(r, dest) ==
    IF r.out = None THEN r
    ELSE Result(clear_expiry(Store(r.db, dest, <<"set", r.out[1]>>), dest).db,
                Some(Cardinality(r.out[1])), r.expired)

set_union_into(d, dest, ks, t) == StoreInto(set_union(d, ks, t), dest)
set_intersection_into(d, dest, ks, t) == StoreInto(set_intersection(d, ks, t), dest)
set_difference_into(d, dest, k1, k2, t) == StoreInto(set_difference(d, k1, k2, t), dest)

\* set_union_len, set_intersection_len and set_difference_len.
SizeOf(r) == [r EXCEPT !.out = IF @ = None THEN None ELSE Some(Cardinality(@[1]))]

-----------------------------------------------------------------------------
(* hash_database.cpp.  A hash is a function from its fields. *)

hash_set(d, k, values) == Result(clear_expiry(Store(d, k, <<"hash", values>>), k).db, Ok("ok"), {})

\* hash_all, and of its answer hash_len, hash_keys and hash_contains.
hash_all(d, k, t) ==
    LET e == erase_if_expired(d, k, t) IN
    Result(e.db,
           IF Mistyped(e.db, k, "hash") THEN Error("NotHash") ELSE Ok(ContainerAt(e.db, k, "hash")),
           e.expired)

OfHash(all, out) == [all EXCEPT !.out = IF @[1] = "error" THEN @ ELSE Ok(out)]

hash_len(d, k, t) ==
    LET all == hash_all(d, k, t) IN OfHash(all, Cardinality(DOMAIN all.out[2]))

hash_keys(d, k, t) == LET all == hash_all(d, k, t) IN OfHash(all, DOMAIN all.out[2])

\* In the order of the keys; here, as a set.
hash_values(d, k, t) == LET all == hash_all(d, k, t) IN OfHash(all, Range(all.out[2]))

hash_contains(d, k, f, t) ==
    LET all == hash_all(d, k, t) IN OfHash(all, f \in DOMAIN all.out[2])

hash_many_get(d, k, fs, t) ==
    LET all == hash_all(d, k, t) IN
    OfHash(all, [f \in fs |-> IF f \in DOMAIN all.out[2] THEN Some(all.out[2][f]) ELSE None])

\* hash_get, and hash_key_len of the length of what it gives.
hash_get(d, k, f, t) ==
    LET all == hash_all(d, k, t) IN
    [all EXCEPT !.out = IF @[1] = "error" THEN @
                        ELSE IF f \notin DOMAIN @[2] THEN Error("BadKey") ELSE Ok(@[2][f])]

hash_key_len(d, k, f, t) ==
    LET got == hash_get(d, k, f, t) IN
    [got EXCEPT !.out = IF @[1] = "error" THEN @ ELSE Ok(Len(@[2]))]

\* The size is read as in set_discard.
hash_remove(d, k, fs, t) ==
    LET e == erase_if_expired(d, k, t)
        h == ContainerAt(e.db, k, "hash")
    IN IF Mistyped(e.db, k, "hash") THEN Result(e.db, Error("NotHash"), e.expired)
       ELSE IF ~Has(e.db, k) THEN Result(e.db, Ok(0), e.expired)
       ELSE Result(StoreOrDel(e.db, k, <<"hash", Restrict(h, DOMAIN h \ fs)>>),
                   Ok(Cardinality(DOMAIN h \cap fs)), e.expired)

\* The fields hash_update may get to: extracting a node makes the loop go on in
\* the hash it was inserted into, so it ends after the first field it adds.
Reached(h, values) ==
    LET new == DOMAIN values \ DOMAIN h IN
    IF new = {} THEN {DOMAIN values}
    ELSE {seen \cup {f} : seen \in SUBSET (DOMAIN values \cap DOMAIN h), f \in new}

Reaches(d, k, values, t) ==
    Reached(ContainerAt(erase_if_expired(d, k, t).db, k, "hash"), values)

\* Mutant: the value is made a hash before it is looked at.
hash_update_typed(d, k, values, reached, t) ==
    LET e == erase_if_expired(d, k, t)
        h == ContainerAt(e.db, k, "hash")
    IN Result(Store(e.db, k, <<"hash", [f \in DOMAIN h \cup reached |->
                                          IF f \in reached THEN values[f] ELSE h[f]]>>),
              IF Mistyped(e.db, k, "hash") THEN Error("NotHash") ELSE Ok(Cardinality(reached \ DOMAIN h)),
              e.expired)

\* With the fields it gets to.  At a key that is absent, m_data[key] = {} stores
\* the first alternative of the variant, an empty string, and that is no hash.
hash_update(d, k, values, reached, t) ==
    LET e == erase_if_expired(d, k, t)
        h == ContainerAt(e.db, k, "hash")
    IN IF ~Has(e.db, k) THEN Result(Store(e.db, k, <<"str", "">>), Error("NotHash"), e.expired)
       ELSE IF ~Holds(e.db, k, "hash") THEN Result(e.db, Error("NotHash"), e.expired)
       ELSE Result(Store(e.db, k, <<"hash", [f \in DOMAIN h \cup reached |->
                                              IF f \in reached THEN values[f] ELSE h[f]]>>),
                   Ok(Cardinality(reached \ DOMAIN h)), e.expired)

-----------------------------------------------------------------------------
(* handle_result and send_error of the three servers: the status answered *)

list_answer(out) ==
    CASE out[1] = "ok" -> "OK"
      [] out = Error("NotList") -> "BAD_TYPE"
      [] out = Error("OutOfRange") -> "ERROR"

set_answer(out) == IF out = None THEN "BAD_TYPE" ELSE "OK"

hash_answer(out) ==
    CASE out[1] = "ok" -> "OK"
      [] out = Error("NotHash") -> "BAD_TYPE"
      [] out = Error("BadKey") -> "ERROR"
=============================================================================
