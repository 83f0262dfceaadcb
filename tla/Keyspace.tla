------------------------------ MODULE Keyspace ------------------------------
(***************************************************************************)
(* One database and its operations on keys, numbers, strings and expiry    *)
(* times, as functions: vanity/db/db/expiry_database.cpp,                  *)
(* general_database.cpp and primitive_database.cpp.                        *)
(*                                                                         *)
(* A database is [data, expiry]: m_data and m_expiry_times, as functions   *)
(* whose domains are the keys present.  A value is <<type, payload>>.  An  *)
(* operation takes the database and the time, and returns the database it  *)
(* leaves, the answer, and the keys for which it called pre_expire.  The   *)
(* time is Off when m_expiry_enabled is false.                             *)
(***************************************************************************)
EXTENDS Integers, Sequences, Functions

\* No expiry time is before it.
Off == -1

Result(d, out, expired) == [db |-> d, out |-> out, expired |-> expired]

\* std::optional
None == <<>>
Some(x) == <<x>>

NewDatabase == [data |-> <<>>, expiry |-> <<>>]

Put(f, k, v) == [x \in DOMAIN f \cup {k} |-> IF x = k THEN v ELSE f[x]]
Without(f, k) == Restrict(f, DOMAIN f \ {k})

Has(d, k) == k \in DOMAIN d.data
Store(d, k, v) == [d EXCEPT !.data = Put(d.data, k, v)]

-----------------------------------------------------------------------------
(* expiry_database.cpp *)

is_expired(d, k, t) == k \in DOMAIN d.expiry /\ t > d.expiry[k]

clear_expiry(d, k) == Result([d EXCEPT !.expiry = Without(d.expiry, k)], "ok", {})

\* _do_expire, which force_expire calls as well.
do_expire(d, k) == clear_expiry([d EXCEPT !.data = Without(d.data, k)], k).db

\* erase_if_expired as the first step of an operation.
erase_if_expired(d, k, t) ==
    IF is_expired(d, k, t) THEN Result(do_expire(d, k), TRUE, {k}) ELSE Result(d, FALSE, {})

set_expiry(d, k, at) ==
    Result(IF Has(d, k) THEN [d EXCEPT !.expiry = Put(d.expiry, k, at)] ELSE d, "ok", {})

get_expiry(d, k, t) ==
    LET e == erase_if_expired(d, k, t) IN
    Result(e.db, IF k \in DOMAIN e.db.expiry THEN Some(e.db.expiry[k]) ELSE None, e.expired)

deep_purge(d, t) ==
    LET gone == {k \in DOMAIN d.expiry : is_expired(d, k, t)} IN
    Result([data |-> Restrict(d.data, DOMAIN d.data \ gone),
            expiry |-> Restrict(d.expiry, DOMAIN d.expiry \ gone)], "ok", gone)

-----------------------------------------------------------------------------
(* general_database.cpp *)

has(d, k, t) ==
    LET e == erase_if_expired(d, k, t) IN Result(e.db, Has(e.db, k), e.expired)

\* Mutant: a read that does not look at the expiry time.
get_any(d, k, t) == Result(d, IF Has(d, k) THEN Some(d.data[k]) ELSE None, {})

\* expiry_aware_get
get(d, k, t) ==
    LET e == erase_if_expired(d, k, t) IN
    Result(e.db, IF Has(e.db, k) THEN Some(e.db.data[k]) ELSE None, e.expired)

\* With clear_all_expiry.
reset(d) == Result(NewDatabase, "ok", {})

\* Mutant: the expiry time stays behind.
del_data(d, k) == Result([d EXCEPT !.data = Without(d.data, k)], Has(d, k), {})

\* expiry_aware_del
del(d, k) == Result(do_expire(d, k), Has(d, k), {})

type(d, k, t) ==
    LET e == erase_if_expired(d, k, t) IN
    Result(e.db, IF Has(e.db, k) THEN Some(e.db.data[k][1]) ELSE None, e.expired)

keys(d, t) ==
    LET e == deep_purge(d, t) IN Result(e.db, DOMAIN e.db.data, e.expired)

copy_to(d, from, to, t) ==
    LET e == erase_if_expired(d, from, t) IN
    Result(IF Has(e.db, from) /\ from # to
           THEN clear_expiry(Store(e.db, to, e.db.data[from]), to).db ELSE e.db,
           Has(e.db, from), e.expired)

\* The value at one key of one database becomes the value at a key of another
\* one, or of the same; with it goes its expiry time, if it has one.
MoveValue(src, from, dst, to) ==
    LET moved == Store(dst, to, src.data[from]) IN
    IF from \in DOMAIN src.expiry
    THEN [moved EXCEPT !.expiry = Put(dst.expiry, to, src.expiry[from])] ELSE moved

move_to(d, from, to, t) ==
    LET e == erase_if_expired(d, from, t) IN
    Result(IF Has(e.db, from) /\ from # to
           THEN del(MoveValue(e.db, from, e.db, to), from).db ELSE e.db,
           Has(e.db, from), e.expired)

\* copy_to_db and move_to_db return the other database as well.
copy_to_db(d, from, dst, t) ==
    LET e == erase_if_expired(d, from, t) IN
    [db |-> e.db, out |-> Has(e.db, from), expired |-> e.expired,
     dst |-> IF Has(e.db, from)
             THEN clear_expiry(Store(dst, from, e.db.data[from]), from).db ELSE dst]

move_to_db(d, from, dst, t) ==
    LET e == erase_if_expired(d, from, t) IN
    [db |-> IF Has(e.db, from) THEN del(e.db, from).db ELSE e.db,
     out |-> Has(e.db, from), expired |-> e.expired,
     dst |-> IF Has(e.db, from) THEN MoveValue(e.db, from, dst, from) ELSE dst]

-----------------------------------------------------------------------------
(* primitive_database.cpp *)

\* str_set, int_set and float_set, by the type of the value.
prim_set(d, k, v) == Result(clear_expiry(Store(d, k, v), k).db, "ok", {})

\* incr_int and incr_float, by the type of the increment.
incr(d, k, v, t) ==
    LET e == erase_if_expired(d, k, t) IN
    IF ~Has(e.db, k) THEN Result(Store(e.db, k, v), Some(v), e.expired)
    ELSE IF e.db.data[k][1] # v[1] THEN Result(e.db, None, e.expired)
    ELSE LET sum == <<v[1], e.db.data[k][2] + v[2]>>
         IN Result(Store(e.db, k, sum), Some(sum), e.expired)

str_len(d, k, t) ==
    LET e == erase_if_expired(d, k, t) IN
    Result(e.db,
           IF Has(e.db, k) /\ e.db.data[k][1] = "str" THEN Some(Len(e.db.data[k][2])) ELSE None,
           e.expired)

many_get(d, ks, t) ==
    LET gone == {k \in ks : is_expired(d, k, t)}
        e == [data |-> Restrict(d.data, DOMAIN d.data \ gone),
              expiry |-> Restrict(d.expiry, DOMAIN d.expiry \ gone)]
    IN Result(e, [k \in ks |-> IF Has(e, k) THEN Some(e.data[k]) ELSE None], gone)
=============================================================================
