--------------------------- MODULE WalRedoProofs ---------------------------
(***************************************************************************)
(* Proofs about WalRedo, for any keys, values, times and number of         *)
(* databases: redoing the log gives what is in memory, and no expiry time  *)
(* is left without a value.  And lemmas about the requests of              *)
(* ContainerRedo on a key that is absent.                                  *)
(***************************************************************************)
EXTENDS ContainerRedo, TLAPS

IsFcn(f) == f = [x \in DOMAIN f |-> f[x]]

\* A database: two maps, the times are on the clock and each is some value's.
IsDb(d) ==
    /\ d = [data |-> d.data, expiry |-> d.expiry]
    /\ IsFcn(d.data) /\ IsFcn(d.expiry)
    /\ \A k \in DOMAIN d.expiry : d.expiry[k] \in Nat
    /\ DOMAIN d.expiry \subseteq DOMAIN d.data

-----------------------------------------------------------------------------
(* The maps *)

\* What Put and Without map a key to.
LEMMA PutIs ==
    ASSUME NEW f, NEW k, NEW v
    PROVE  /\ IsFcn(Put(f, k, v))
           /\ DOMAIN Put(f, k, v) = DOMAIN f \cup {k}
           /\ \A x \in DOMAIN f \cup {k} : Put(f, k, v)[x] = IF x = k THEN v ELSE f[x]
BY DEF IsFcn, Put

LEMMA WithoutIs ==
    ASSUME NEW f, NEW k
    PROVE  /\ IsFcn(Without(f, k))
           /\ DOMAIN Without(f, k) = DOMAIN f \ {k}
           /\ \A x \in DOMAIN f \ {k} : Without(f, k)[x] = f[x]
BY DEF IsFcn, Without, Restrict

\* A map restricted to its whole domain is itself.
LEMMA RestrictAll ==
    ASSUME NEW f, IsFcn(f)
    PROVE  Restrict(f, DOMAIN f \ {}) = f
BY DEF IsFcn, Restrict

-----------------------------------------------------------------------------
(* One database *)

LEMMA NewIsDb == IsDb(NewDatabase)
BY DEF IsDb, NewDatabase, IsFcn

\* The two fields are all a database is.
LEMMA MakeDb ==
    ASSUME NEW f, NEW g, IsFcn(f), IsFcn(g),
           \A k \in DOMAIN g : g[k] \in Nat, DOMAIN g \subseteq DOMAIN f
    PROVE  IsDb([data |-> f, expiry |-> g])
BY DEF IsDb

\* Store, clear_expiry and do_expire, spelled out.
LEMMA StoreIs ==
    ASSUME NEW d, NEW k, NEW v, IsDb(d)
    PROVE  /\ Store(d, k, v) = [data |-> Put(d.data, k, v), expiry |-> d.expiry]
           /\ IsDb(Store(d, k, v))
<1>1. Store(d, k, v) = [data |-> Put(d.data, k, v), expiry |-> d.expiry]
  BY DEF Store, IsDb
<1>2. /\ IsFcn(Put(d.data, k, v)) /\ IsFcn(d.expiry)
      /\ \A x \in DOMAIN d.expiry : d.expiry[x] \in Nat
      /\ DOMAIN d.expiry \subseteq DOMAIN Put(d.data, k, v)
  <2>1. DOMAIN Put(d.data, k, v) = DOMAIN d.data \cup {k} BY PutIs, Zenon
  <2> QED BY <2>1, PutIs, Zenon DEF IsDb
<1>3. IsDb([data |-> Put(d.data, k, v), expiry |-> d.expiry]) BY <1>2, MakeDb
<1> QED BY <1>1, <1>3

LEMMA ClearIs ==
    ASSUME NEW d, NEW k, IsDb(d)
    PROVE  /\ clear_expiry(d, k).db = [data |-> d.data, expiry |-> Without(d.expiry, k)]
           /\ IsDb(clear_expiry(d, k).db)
<1>1. clear_expiry(d, k).db = [data |-> d.data, expiry |-> Without(d.expiry, k)]
  BY DEF clear_expiry, Result, IsDb
<1> DEFINE g == Without(d.expiry, k)
<1>2. IsFcn(g) /\ DOMAIN g = DOMAIN d.expiry \ {k} /\ \A x \in DOMAIN g : g[x] = d.expiry[x]
  BY WithoutIs, Zenon
<1>3. (\A x \in DOMAIN g : g[x] \in Nat) /\ DOMAIN g \subseteq DOMAIN d.data
  BY <1>2 DEF IsDb
<1>4. IsDb([data |-> d.data, expiry |-> g]) BY <1>2, <1>3, MakeDb DEF IsDb
<1> QED BY <1>1, <1>4

LEMMA ExpireIs ==
    ASSUME NEW d, NEW k, IsDb(d)
    PROVE  /\ do_expire(d, k) = [data |-> Without(d.data, k), expiry |-> Without(d.expiry, k)]
           /\ IsDb(do_expire(d, k))
<1>1. do_expire(d, k) = [data |-> Without(d.data, k), expiry |-> Without(d.expiry, k)]
  BY Zenon DEF do_expire, clear_expiry, Result, IsDb
<1> DEFINE f == Without(d.data, k)
           g == Without(d.expiry, k)
<1>2. /\ IsFcn(f) /\ IsFcn(g)
      /\ DOMAIN f = DOMAIN d.data \ {k} /\ DOMAIN g = DOMAIN d.expiry \ {k}
      /\ \A x \in DOMAIN g : g[x] = d.expiry[x]
  BY WithoutIs, Zenon
<1>3. (\A x \in DOMAIN g : g[x] \in Nat) /\ DOMAIN g \subseteq DOMAIN f
  BY <1>2 DEF IsDb
<1>4. IsDb([data |-> f, expiry |-> g]) BY <1>2, <1>3, MakeDb
<1> QED BY <1>1, <1>4

\* The expiry entries of the log, applied: nothing for no keys.
LEMMA RedoExpiry ==
    ASSUME NEW d, NEW gone, IsDb(d)
    PROVE  IsDb(wal_redo_expiry(d, gone)) /\ wal_redo_expiry(d, {}) = d
<1>1. IsDb(wal_redo_expiry(d, gone))
  <2> DEFINE f == Restrict(d.data, DOMAIN d.data \ gone)
             g == Restrict(d.expiry, DOMAIN d.expiry \ gone)
  <2>1. IsFcn(f) /\ IsFcn(g) BY DEF IsFcn, Restrict
  <2>2. (\A k \in DOMAIN g : g[k] \in Nat) /\ DOMAIN g \subseteq DOMAIN f
    BY DEF IsDb, Restrict
  <2>3. wal_redo_expiry(d, gone) = [data |-> f, expiry |-> g] BY DEF wal_redo_expiry
  <2> QED BY <2>1, <2>2, <2>3, MakeDb
<1>2. wal_redo_expiry(d, {}) = d BY RestrictAll DEF wal_redo_expiry, IsDb
<1> QED BY <1>1, <1>2

\* erase_if_expired leaves a database, which is what its `expire' entry gives;
\* it leaves everything when nothing has expired.
LEMMA EraseIs ==
    ASSUME NEW d, NEW k, NEW t \in Int, IsDb(d)
    PROVE  LET e == erase_if_expired(d, k, t) IN
           /\ IsDb(e.db)
           /\ e.db = wal_redo_expiry(d, e.expired)
           /\ e.expired = {} => e.db = d
<1>2. CASE is_expired(d, k, t)
  <2> DEFINE e == erase_if_expired(d, k, t)
  <2>1. e.db = do_expire(d, k) /\ e.expired = {k} BY <1>2 DEF erase_if_expired, Result
  <2>2. IsDb(e.db) BY <2>1, ExpireIs
  <2>3. wal_redo_expiry(d, {k}) = [data |-> Without(d.data, k), expiry |-> Without(d.expiry, k)]
    BY DEF wal_redo_expiry, Without
  <2>4. e.db = wal_redo_expiry(d, e.expired) BY <2>1, <2>3, ExpireIs
  <2>5. e.expired # {} BY <2>1
  <2> QED BY <2>2, <2>4, <2>5
<1>3. CASE ~is_expired(d, k, t)
  <2> DEFINE e == erase_if_expired(d, k, t)
  <2>1. e.db = d /\ e.expired = {} BY <1>3 DEF erase_if_expired, Result
  <2>2. e.db = wal_redo_expiry(d, e.expired) BY <2>1, RedoExpiry
  <2> QED BY <2>1, <2>2
<1> QED BY <1>2, <1>3

\* It leaves everything when expiry is off.
LEMMA EraseOff ==
    ASSUME NEW d, NEW k, IsDb(d)
    PROVE  erase_if_expired(d, k, Off).db = d
<1>1. ~is_expired(d, k, Off) BY DEF is_expired, Off, IsDb
<1> QED BY <1>1 DEF erase_if_expired, Result

\* deep_purge leaves a database, which is what its `expire' entries give.
LEMMA PurgeIs ==
    ASSUME NEW d, NEW t, IsDb(d)
    PROVE  LET e == deep_purge(d, t) IN
           IsDb(e.db) /\ e.db = wal_redo_expiry(d, e.expired)
<1> DEFINE e == deep_purge(d, t)
<1>1. e.db = wal_redo_expiry(d, e.expired) BY DEF deep_purge, wal_redo_expiry, Result
<1> QED BY <1>1, RedoExpiry

-----------------------------------------------------------------------------
(* The operations *)

\* What an operation and its entry in the log do to a database: they leave a
\* database, the same one when the operation has found nothing expired.
Redoable(done, redo) == IsDb(done.db) /\ (done.expired = {} => redo.db = done.db)

LEMMA SetExpiryIs ==
    ASSUME NEW d, NEW k, NEW at \in Nat, IsDb(d)
    PROVE  IsDb(set_expiry(d, k, at).db)
<1>1. CASE Has(d, k)
  <2> DEFINE g == Put(d.expiry, k, at)
  <2>1. set_expiry(d, k, at).db = [data |-> d.data, expiry |-> g]
    BY <1>1 DEF set_expiry, Result, IsDb
  <2>2. /\ IsFcn(g) /\ DOMAIN g = DOMAIN d.expiry \cup {k}
        /\ \A x \in DOMAIN d.expiry \cup {k} : g[x] = IF x = k THEN at ELSE d.expiry[x]
    BY DEF Put, IsFcn
  <2>3. (\A x \in DOMAIN g : g[x] \in Nat) /\ DOMAIN g \subseteq DOMAIN d.data
    BY <1>1, <2>2 DEF IsDb, Has
  <2> HIDE DEF g
  <2> QED BY <2>1, <2>2, <2>3, MakeDb DEF IsDb
<1>2. CASE ~Has(d, k)
  BY <1>2 DEF set_expiry, Result
<1> QED BY <1>1, <1>2

LEMMA PrimSetIs ==
    ASSUME NEW d, NEW k, NEW v, IsDb(d)
    PROVE  IsDb(prim_set(d, k, v).db)
BY StoreIs, ClearIs, Zenon DEF prim_set, Result

LEMMA MoveValueIs ==
    ASSUME NEW src, NEW from, NEW dst, NEW to, IsDb(src), IsDb(dst)
    PROVE  IsDb(MoveValue(src, from, dst, to))
<1> DEFINE moved == Store(dst, to, src.data[from])
<1>1. /\ IsDb(moved)
      /\ moved = [data |-> Put(dst.data, to, src.data[from]), expiry |-> dst.expiry]
  BY StoreIs
<1>2. CASE from \in DOMAIN src.expiry
  <2> DEFINE g == Put(dst.expiry, to, src.expiry[from])
             f == Put(dst.data, to, src.data[from])
  <2>1. MoveValue(src, from, dst, to) = [data |-> f, expiry |-> g]
    BY <1>1, <1>2 DEF MoveValue
  <2>2. /\ IsFcn(g) /\ DOMAIN g = DOMAIN dst.expiry \cup {to}
        /\ \A x \in DOMAIN dst.expiry \cup {to} : g[x] = IF x = to THEN src.expiry[from] ELSE dst.expiry[x]
    BY DEF Put, IsFcn
  <2>3. IsFcn(f) /\ DOMAIN f = DOMAIN dst.data \cup {to} BY PutIs, Zenon
  <2>4. (\A x \in DOMAIN g : g[x] \in Nat) /\ DOMAIN g \subseteq DOMAIN f
    BY <1>2, <2>2, <2>3 DEF IsDb
  <2> HIDE DEF f, g
  <2> QED BY <2>1, <2>2, <2>3, <2>4, MakeDb
<1>3. CASE from \notin DOMAIN src.expiry
  BY <1>1, <1>3 DEF MoveValue
<1> QED BY <1>2, <1>3

LEMMA CopyToIs ==
    ASSUME NEW d, NEW from, NEW to, NEW t \in Int, IsDb(d)
    PROVE  Redoable(copy_to(d, from, to, t), copy_to(d, from, to, Off))
<1> DEFINE e == erase_if_expired(d, from, t).db
           c(x) == clear_expiry(Store(x, to, x.data[from]), to).db
<1>1. IsDb(e) BY EraseIs
<1>2. IsDb(c(e)) BY <1>1, StoreIs, ClearIs, Zenon
<1>3. /\ copy_to(d, from, to, t).db = IF Has(e, from) /\ from # to THEN c(e) ELSE e
      /\ copy_to(d, from, to, t).expired = erase_if_expired(d, from, t).expired
  BY DEF copy_to, Result
<1>4. copy_to(d, from, to, Off).db = IF Has(d, from) /\ from # to THEN c(d) ELSE d
  <2>1. erase_if_expired(d, from, Off).db = d BY EraseOff
  <2> HIDE DEF e
  <2> QED BY <2>1 DEF copy_to, Result
<1>5. erase_if_expired(d, from, t).expired = {} => e = d BY EraseIs
<1> HIDE DEF e, c
<1> QED BY <1>1, <1>2, <1>3, <1>4, <1>5 DEF Redoable

LEMMA MoveToIs ==
    ASSUME NEW d, NEW from, NEW to, NEW t \in Int, IsDb(d)
    PROVE  Redoable(move_to(d, from, to, t), move_to(d, from, to, Off))
<1> DEFINE e == erase_if_expired(d, from, t).db
           m(x) == del(MoveValue(x, from, x, to), from).db
<1>1. IsDb(e) BY EraseIs
<1>2. IsDb(m(e))
  <2>1. m(e) = do_expire(MoveValue(e, from, e, to), from) BY DEF del, Result
  <2> QED BY <1>1, <2>1, MoveValueIs, ExpireIs
<1>3. /\ move_to(d, from, to, t).db = IF Has(e, from) /\ from # to THEN m(e) ELSE e
      /\ move_to(d, from, to, t).expired = erase_if_expired(d, from, t).expired
  BY DEF move_to, Result
<1>4. move_to(d, from, to, Off).db = IF Has(d, from) /\ from # to THEN m(d) ELSE d
  <2>1. erase_if_expired(d, from, Off).db = d BY EraseOff
  <2> HIDE DEF e
  <2> QED BY <2>1 DEF move_to, Result
<1>5. erase_if_expired(d, from, t).expired = {} => e = d BY EraseIs
<1> HIDE DEF e, m
<1> QED BY <1>1, <1>2, <1>3, <1>4, <1>5 DEF Redoable

LEMMA CopyToDbIs ==
    ASSUME NEW d, NEW k, NEW dst, NEW t \in Int, IsDb(d), IsDb(dst)
    PROVE  LET done == copy_to_db(d, k, dst, t)
               redo == copy_to_db(d, k, dst, Off) IN
           Redoable(done, redo) /\ IsDb(done.dst) /\ (done.expired = {} => redo.dst = done.dst)
<1> DEFINE e == erase_if_expired(d, k, t).db
           c(x) == clear_expiry(Store(dst, k, x.data[k]), k).db
           done == copy_to_db(d, k, dst, t)
           redo == copy_to_db(d, k, dst, Off)
<1>1. IsDb(e) BY EraseIs
<1>2. IsDb(c(e)) BY StoreIs, ClearIs, Zenon
<1>3. /\ done.db = e
      /\ done.dst = IF Has(e, k) THEN c(e) ELSE dst
      /\ done.expired = erase_if_expired(d, k, t).expired
  BY DEF copy_to_db
<1>4. redo.db = d /\ redo.dst = IF Has(d, k) THEN c(d) ELSE dst
  <2>1. erase_if_expired(d, k, Off).db = d BY EraseOff
  <2> HIDE DEF e
  <2> QED BY <2>1 DEF copy_to_db, Result
<1>5. erase_if_expired(d, k, t).expired = {} => e = d BY EraseIs
<1> HIDE DEF e, c, done, redo
<1>6. Redoable(done, redo) BY <1>1, <1>3, <1>4, <1>5 DEF Redoable
<1>7. IsDb(done.dst) /\ (done.expired = {} => redo.dst = done.dst)
  BY <1>2, <1>3, <1>4, <1>5
<1> QED BY <1>6, <1>7 DEF done, redo

LEMMA MoveToDbIs ==
    ASSUME NEW d, NEW k, NEW dst, NEW t \in Int, IsDb(d), IsDb(dst)
    PROVE  LET done == move_to_db(d, k, dst, t)
               redo == move_to_db(d, k, dst, Off) IN
           Redoable(done, redo) /\ IsDb(done.dst) /\ (done.expired = {} => redo.dst = done.dst)
<1> DEFINE e == erase_if_expired(d, k, t).db
           r(x) == del(x, k).db
           m(x) == MoveValue(x, k, dst, k)
           done == move_to_db(d, k, dst, t)
           redo == move_to_db(d, k, dst, Off)
<1>1. IsDb(e) BY EraseIs
<1>2. IsDb(m(e)) /\ IsDb(r(e))
  <2>1. r(e) = do_expire(e, k) BY DEF del, Result
  <2> QED BY <1>1, <2>1, MoveValueIs, ExpireIs
<1>3. /\ done.db = IF Has(e, k) THEN r(e) ELSE e
      /\ done.dst = IF Has(e, k) THEN m(e) ELSE dst
      /\ done.expired = erase_if_expired(d, k, t).expired
  BY DEF move_to_db
<1>4. /\ redo.db = IF Has(d, k) THEN r(d) ELSE d
      /\ redo.dst = IF Has(d, k) THEN m(d) ELSE dst
  <2>1. erase_if_expired(d, k, Off).db = d BY EraseOff
  <2> HIDE DEF e
  <2> QED BY <2>1 DEF move_to_db, Result
<1>5. erase_if_expired(d, k, t).expired = {} => e = d BY EraseIs
<1> HIDE DEF e, r, m, done, redo
<1>6. Redoable(done, redo) BY <1>1, <1>2, <1>3, <1>4, <1>5 DEF Redoable
<1>7. IsDb(done.dst) /\ (done.expired = {} => redo.dst = done.dst)
  BY <1>2, <1>3, <1>4, <1>5
<1> QED BY <1>6, <1>7 DEF done, redo

LEMMA IncrIs ==
    ASSUME NEW d, NEW k, NEW v, NEW t \in Int, IsDb(d)
    PROVE  Redoable(incr(d, k, v, t), incr(d, k, v, Off))
<1> DEFINE e == erase_if_expired(d, k, t).db
           sum(x) == <<v[1], x.data[k][2] + v[2]>>
           inc(x) == IF ~Has(x, k) THEN Store(x, k, v)
                     ELSE IF x.data[k][1] # v[1] THEN x ELSE Store(x, k, sum(x))
<1>1. IsDb(e) BY EraseIs
<1>2. IsDb(inc(e))
  <2>1. IsDb(Store(e, k, v)) /\ IsDb(Store(e, k, sum(e))) BY <1>1, StoreIs
  <2> HIDE DEF sum, e
  <2> QED BY <1>1, <2>1
<1>3. /\ incr(d, k, v, t).db = inc(e)
      /\ incr(d, k, v, t).expired = erase_if_expired(d, k, t).expired
  BY DEF incr, Result
<1>4. incr(d, k, v, Off).db = inc(d)
  <2>1. erase_if_expired(d, k, Off).db = d BY EraseOff
  <2> HIDE DEF e
  <2> QED BY <2>1 DEF incr, Result
<1>5. erase_if_expired(d, k, t).expired = {} => e = d BY EraseIs
<1> HIDE DEF e, inc
<1> QED BY <1>2, <1>3, <1>4, <1>5 DEF Redoable

-----------------------------------------------------------------------------
(* The inductive invariant *)

AreDbs(f) == IsFcn(f) /\ DOMAIN f = Databases /\ \A i \in Databases : IsDb(f[i])

IInv ==
    /\ AreDbs(live) /\ AreDbs(redone)
    /\ now \in Nat
    /\ expiring \in 0..NumDatabases
    /\ persisting \in 0..(NumDatabases + 1)
    /\ reordered \in BOOLEAN
    /\ RedoRebuilds

LEMMA ChangeDb ==
    ASSUME NEW f, NEW i \in Databases, NEW d, AreDbs(f), IsDb(d)
    PROVE  AreDbs([f EXCEPT ![i] = d])
BY Zenon DEF AreDbs, IsFcn

LEMMA Initially == Init => IInv
<1> SUFFICES ASSUME Init PROVE IInv OBVIOUS
<1>1. AreDbs(live) /\ AreDbs(redone) BY NewIsDb DEF Init, AreDbs, IsFcn
<1>2. now \in Nat /\ expiring \in 0..NumDatabases /\ persisting \in 0..(NumDatabases + 1)
  BY WalRedoAssumption DEF Init
<1>3. reordered \in BOOLEAN /\ RedoRebuilds BY Zenon DEF Init, RedoRebuilds
<1> QED BY <1>1, <1>2, <1>3 DEF IInv

\* A logged operation that its entry redoes keeps the invariant.
LEMMA LoggedKeeps ==
    ASSUME IInv, NEW i \in Databases, NEW done, NEW redo, Logged(i, done, redo),
           IsDb(done.db), IsDb(redo.db),
           live = redone /\ done.expired = {} => redo.db = done.db
    PROVE  IInv'
<1> DEFINE r == wal_redo_expiry(redo.db, done.expired)
<1>1. IsDb(r) BY RedoExpiry
<1>2. AreDbs(live)' BY ChangeDb, Zenon DEF IInv, Logged
<1>3. AreDbs(redone)' BY <1>1, ChangeDb, Zenon DEF IInv, Logged
<1>4. RedoRebuilds'
  <2>1. CASE reordered \/ done.expired # {}
    BY <2>1, Zenon DEF Logged, RedoRebuilds
  <2>2. CASE ~reordered /\ done.expired = {}
    <3>1. live = redone BY <2>2 DEF IInv, RedoRebuilds
    <3>2. r = done.db BY <2>2, <3>1, RedoExpiry
    <3> QED BY <3>1, <3>2 DEF Logged, RedoRebuilds
  <2> QED BY <2>1, <2>2
<1>5. (now \in Nat /\ expiring \in 0..NumDatabases /\ persisting \in 0..(NumDatabases + 1))'
  BY DEF IInv, Logged
<1>6. reordered' \in BOOLEAN BY DEF Logged
<1> QED BY <1>2, <1>3, <1>4, <1>5, <1>6 DEF IInv

\* The same with a destination.
LEMMA LoggedOnKeeps ==
    ASSUME IInv, NEW i \in Databases, NEW j \in Databases, NEW done, NEW redo,
           LoggedOn(i, j, done, redo),
           IsDb(done.db), IsDb(redo.db), IsDb(done.dst), IsDb(redo.dst),
           live = redone /\ done.expired = {} => redo.db = done.db /\ redo.dst = done.dst
    PROVE  IInv'
<1> DEFINE r == wal_redo_expiry(redo.db, done.expired)
<1>1. IsDb(r) BY RedoExpiry
<1>2. AreDbs(live)'
  <2>1. AreDbs([live EXCEPT ![i] = done.db]) BY ChangeDb DEF IInv
  <2>2. AreDbs([[live EXCEPT ![i] = done.db] EXCEPT ![j] = done.dst]) BY <2>1, ChangeDb, Zenon
  <2> QED BY <2>2 DEF LoggedOn
<1>3. AreDbs(redone)'
  <2>1. AreDbs([redone EXCEPT ![i] = r]) BY <1>1, ChangeDb DEF IInv
  <2>2. AreDbs([[redone EXCEPT ![i] = r] EXCEPT ![j] = redo.dst]) BY <2>1, ChangeDb, Zenon
  <2> QED BY <2>2 DEF LoggedOn
<1>4. RedoRebuilds'
  <2>1. CASE reordered \/ done.expired # {}
    BY <2>1, Zenon DEF LoggedOn, RedoRebuilds
  <2>2. CASE ~reordered /\ done.expired = {}
    <3>1. live = redone BY <2>2 DEF IInv, RedoRebuilds
    <3>2. r = done.db /\ redo.dst = done.dst BY <2>2, <3>1, RedoExpiry
    <3> QED BY <3>1, <3>2 DEF LoggedOn, RedoRebuilds
  <2> QED BY <2>1, <2>2
<1>5. (now \in Nat /\ expiring \in 0..NumDatabases /\ persisting \in 0..(NumDatabases + 1))'
  BY DEF IInv, LoggedOn
<1>6. reordered' \in BOOLEAN BY DEF LoggedOn
<1> QED BY <1>2, <1>3, <1>4, <1>5, <1>6 DEF IInv

\* An operation that is not logged leaves what its `expire' entries give.
LEMMA UnloggedKeeps ==
    ASSUME IInv, NEW i \in Databases, NEW done, Unlogged(i, done),
           IsDb(done.db), done.db = wal_redo_expiry(live[i], done.expired)
    PROVE  AreDbs(live)' /\ AreDbs(redone)' /\ reordered' \in BOOLEAN /\ RedoRebuilds'
<1> DEFINE r == wal_redo_expiry(redone[i], done.expired)
<1>1. IsDb(r) BY RedoExpiry DEF IInv, AreDbs
<1>2. AreDbs(live)' BY ChangeDb, Zenon DEF IInv, Unlogged
<1>3. AreDbs(redone)' BY <1>1, ChangeDb, Zenon DEF IInv, Unlogged
<1>4. RedoRebuilds' /\ reordered' \in BOOLEAN
  <2>1. CASE reordered BY <2>1 DEF Unlogged, RedoRebuilds
  <2>2. CASE ~reordered BY <2>2, Zenon DEF IInv, Unlogged, RedoRebuilds
  <2> QED BY <2>1, <2>2 DEF IInv
<1> QED BY <1>2, <1>3, <1>4

LEMMA RequestKeeps ==
    ASSUME IInv, NEW i \in Databases, Request(i)
    PROVE  IInv'
<1> DEFINE d == live[i]
           r == redone[i]
<1>1. IsDb(d) /\ IsDb(r) /\ now \in Int /\ Off \in Int /\ (live = redone => d = r)
  BY DEF IInv, AreDbs, Off
<1>2. CASE Reset(i)
  <2>1. IsDb(reset(d).db) /\ reset(d) = reset(r) BY NewIsDb DEF reset, Result
  <2> QED BY <1>2, <2>1, LoggedKeeps DEF Reset
<1>3. CASE Read(i)
  <2>1. PICK done : /\ Unlogged(i, done) /\ IsDb(done.db)
                    /\ done.db = wal_redo_expiry(d, done.expired)
    <3>1. ASSUME NEW k \in Keys, NEW x, x \in {has(d, k, now), get(d, k, now),
                type(d, k, now), get_expiry(d, k, now), str_len(d, k, now)}
          PROVE  IsDb(x.db) /\ x.db = wal_redo_expiry(d, x.expired)
      <4>1. LET e == erase_if_expired(d, k, now) IN x.db = e.db /\ x.expired = e.expired
        <5> DEFINE e == erase_if_expired(d, k, now)
        <5>1. CASE x = has(d, k, now) BY <5>1, Zenon DEF has, Result
        <5>2. CASE x = get(d, k, now) BY <5>2, Zenon DEF get, Result
        <5>3. CASE x = type(d, k, now) BY <5>3, Zenon DEF type, Result
        <5>4. CASE x = get_expiry(d, k, now) BY <5>4, Zenon DEF get_expiry, Result
        <5>5. CASE x = str_len(d, k, now) BY <5>5, Zenon DEF str_len, Result
        <5> QED BY <3>1, <5>1, <5>2, <5>3, <5>4, <5>5, Zenon
      <4> QED BY <1>1, <4>1, EraseIs
    <3>2. ASSUME NEW ks \in SUBSET Keys, NEW x, x = many_get(d, ks, now)
          PROVE  IsDb(x.db) /\ x.db = wal_redo_expiry(d, x.expired)
      <4>1. x.db = wal_redo_expiry(d, x.expired)
        BY <3>2, Zenon DEF many_get, wal_redo_expiry, Result
      <4> QED BY <1>1, <4>1, RedoExpiry
    <3>3. ASSUME NEW x, x = keys(d, now)
          PROVE  IsDb(x.db) /\ x.db = wal_redo_expiry(d, x.expired)
      <4>1. x.db = deep_purge(d, now).db /\ x.expired = deep_purge(d, now).expired
        BY <3>3 DEF keys, Result
      <4> QED BY <1>1, <4>1, PurgeIs
    <3> HIDE DEF d
    <3> QED BY <1>3, <3>1, <3>2, <3>3 DEF Read, d
  <2>2. UNCHANGED <<now, expiring, persisting>> BY <1>3 DEF Read
  <2>3. AreDbs(live)' /\ AreDbs(redone)' /\ reordered' \in BOOLEAN /\ RedoRebuilds'
    BY <2>1, UnloggedKeeps
  <2> QED BY <2>2, <2>3 DEF IInv
<1>4. ASSUME NEW k \in Keys, Del(i, k) PROVE IInv'
  <2>1. del(d, k).db = do_expire(d, k) /\ del(r, k).db = do_expire(r, k) BY DEF del, Result
  <2>2. IsDb(del(d, k).db) /\ IsDb(del(r, k).db) BY <1>1, <2>1, ExpireIs
  <2> QED BY <1>1, <1>4, <2>2, LoggedKeeps DEF Del
<1>5. ASSUME NEW k \in Keys, ClearExpiry(i, k) PROVE IInv'
  <2>1. IsDb(clear_expiry(d, k).db) /\ IsDb(clear_expiry(r, k).db) BY <1>1, ClearIs, Zenon
  <2> QED BY <1>1, <1>5, <2>1, LoggedKeeps DEF ClearExpiry
<1>6. ASSUME NEW k \in Keys, NEW to \in Keys, CopyTo(i, k, to) PROVE IInv'
  <2>1. /\ Redoable(copy_to(d, k, to, now), copy_to(d, k, to, Off))
        /\ Redoable(copy_to(r, k, to, Off), copy_to(r, k, to, Off))
    BY <1>1, CopyToIs
  <2> QED BY <1>1, <1>6, <2>1, LoggedKeeps, Zenon DEF CopyTo, Redoable
<1>7. ASSUME NEW k \in Keys, NEW to \in Keys, MoveTo(i, k, to) PROVE IInv'
  <2>1. /\ Redoable(move_to(d, k, to, now), move_to(d, k, to, Off))
        /\ Redoable(move_to(r, k, to, Off), move_to(r, k, to, Off))
    BY <1>1, MoveToIs
  <2> QED BY <1>1, <1>7, <2>1, LoggedKeeps DEF MoveTo, Redoable
<1>8. ASSUME NEW k \in Keys, NEW j \in Databases, CopyToDb(i, j, k) PROVE IInv'
  <2>1. IsDb(live[j]) /\ IsDb(redone[j]) /\ (live = redone => live[j] = redone[j])
    BY DEF IInv, AreDbs
  <2> DEFINE done == copy_to_db(d, k, live[j], now)
             redo == copy_to_db(r, k, redone[j], Off)
  <2>2. /\ IsDb(done.db) /\ IsDb(redo.db) /\ IsDb(done.dst) /\ IsDb(redo.dst)
        /\ live = redone /\ done.expired = {} => redo.db = done.db /\ redo.dst = done.dst
    BY <1>1, <2>1, CopyToDbIs DEF Redoable
  <2>3. LoggedOn(i, j, done, redo) BY <1>8, Zenon DEF CopyToDb
  <2> QED BY <2>2, <2>3, LoggedOnKeeps, Zenon
<1>9. ASSUME NEW k \in Keys, NEW j \in Databases, MoveToDb(i, j, k) PROVE IInv'
  <2>1. IsDb(live[j]) /\ IsDb(redone[j]) /\ (live = redone => live[j] = redone[j])
    BY DEF IInv, AreDbs
  <2> DEFINE done == move_to_db(d, k, live[j], now)
             redo == move_to_db(r, k, redone[j], Off)
  <2>2. /\ IsDb(done.db) /\ IsDb(redo.db) /\ IsDb(done.dst) /\ IsDb(redo.dst)
        /\ live = redone /\ done.expired = {} => redo.db = done.db /\ redo.dst = done.dst
    BY <1>1, <2>1, MoveToDbIs DEF Redoable
  <2>3. LoggedOn(i, j, done, redo) BY <1>9 DEF MoveToDb
  <2> QED BY <2>2, <2>3, LoggedOnKeeps
<1>10. ASSUME NEW k \in Keys, NEW at \in Times, SetExpiry(i, k, at) PROVE IInv'
  <2>1. at \in Nat BY WalRedoAssumption DEF Times
  <2>2. IsDb(set_expiry(d, k, at).db) /\ IsDb(set_expiry(r, k, at).db)
    BY <1>1, <2>1, SetExpiryIs
  <2> QED BY <1>1, <1>10, <2>2, LoggedKeeps DEF SetExpiry
<1>11. ASSUME NEW k \in Keys, NEW v \in Values, Set(i, k, v) PROVE IInv'
  <2>1. IsDb(prim_set(d, k, v).db) /\ IsDb(prim_set(r, k, v).db) BY <1>1, PrimSetIs
  <2> QED BY <1>1, <1>11, <2>1, LoggedKeeps DEF Set
<1>12. ASSUME NEW k \in Keys, NEW v \in Values, Incr(i, k, v) PROVE IInv'
  <2>1. /\ Redoable(incr(d, k, v, now), incr(d, k, v, Off))
        /\ Redoable(incr(r, k, v, Off), incr(r, k, v, Off))
    BY <1>1, IncrIs
  <2>2. Logged(i, incr(d, k, v, now), incr(r, k, v, Off)) BY <1>12 DEF Incr
  <2> QED BY <1>1, <2>1, <2>2, LoggedKeeps, Zenon DEF Redoable
<1> QED BY <1>2, <1>3, <1>4, <1>5, <1>6, <1>7, <1>8, <1>9, <1>10, <1>11, <1>12 DEF Request

\* A purge of one database, from event_expire or from persist_no_check.
LEMMA PurgeKeeps ==
    ASSUME IInv, NEW i \in Databases, Unlogged(i, deep_purge(live[i], now))
    PROVE  AreDbs(live)' /\ AreDbs(redone)' /\ reordered' \in BOOLEAN /\ RedoRebuilds'
<1>1. IsDb(live[i]) BY DEF IInv, AreDbs
<1> DEFINE done == deep_purge(live[i], now)
<1>2. IsDb(done.db) /\ done.db = wal_redo_expiry(live[i], done.expired) BY <1>1, PurgeIs
<1>3. Unlogged(i, done) OBVIOUS
<1> HIDE DEF done
<1> QED BY <1>2, <1>3, UnloggedKeeps

LEMMA StepKeeps == IInv /\ [Next]_vars => IInv'
<1> SUFFICES ASSUME IInv, [Next]_vars PROVE IInv' OBVIOUS
<1>1. ASSUME NEW i \in Databases, Request(i) PROVE IInv' BY <1>1, RequestKeeps
<1>2. CASE ExpireEvent
  BY <1>2, WalRedoAssumption DEF ExpireEvent, IInv, RedoRebuilds, AreDbs
<1>3. CASE ExpirePurge
  <2>1. expiring \in Databases /\ expiring' \in 0..NumDatabases
    BY <1>3, WalRedoAssumption DEF ExpirePurge, IInv, Databases, NextDatabase
  <2>2. AreDbs(live)' /\ AreDbs(redone)' /\ reordered' \in BOOLEAN /\ RedoRebuilds'
    BY <1>3, <2>1, PurgeKeeps DEF ExpirePurge
  <2> QED BY <1>3, <2>1, <2>2 DEF ExpirePurge, IInv
<1>4. CASE Persist
  BY <1>4, WalRedoAssumption DEF Persist, IInv, RedoRebuilds, AreDbs
<1>5. CASE PersistPurge
  <2>1. persisting \in Databases /\ persisting' \in 0..(NumDatabases + 1)
    BY <1>5, WalRedoAssumption DEF PersistPurge, IInv, Databases
  <2>2. AreDbs(live)' /\ AreDbs(redone)' /\ reordered' \in BOOLEAN /\ RedoRebuilds'
    BY <1>5, <2>1, PurgeKeeps DEF PersistPurge
  <2> QED BY <1>5, <2>1, <2>2 DEF PersistPurge, IInv
<1>6. CASE PersistSnapshot
  <2>1. AreDbs(live)' /\ AreDbs(redone)' BY <1>6 DEF PersistSnapshot, IInv, AreDbs
  <2>2. (now \in Nat /\ expiring \in 0..NumDatabases /\ persisting \in 0..(NumDatabases + 1))'
    BY <1>6, WalRedoAssumption DEF PersistSnapshot, IInv
  <2>3. reordered' \in BOOLEAN /\ RedoRebuilds' BY <1>6, Zenon DEF PersistSnapshot, RedoRebuilds
  <2> QED BY <2>1, <2>2, <2>3 DEF IInv
<1>7. CASE CrashAndRecover
  <2>1. \A i \in Databases : IsDb(deep_purge(redone[i], now).db)
    BY PurgeIs DEF IInv, AreDbs
  <2>2. AreDbs(live)'
    BY <1>7, <2>1 DEF CrashAndRecover, AreDbs, IsFcn
  <2>3. AreDbs(redone)' BY <1>7, <2>2 DEF CrashAndRecover, AreDbs
  <2>4. (now \in Nat /\ expiring \in 0..NumDatabases /\ persisting \in 0..(NumDatabases + 1))'
    BY <1>7, WalRedoAssumption DEF CrashAndRecover, IInv
  <2>5. reordered' \in BOOLEAN /\ RedoRebuilds' BY <1>7, Zenon DEF CrashAndRecover, RedoRebuilds
  <2> QED BY <2>2, <2>3, <2>4, <2>5 DEF IInv
<1>8. CASE Tick
  BY <1>8 DEF Tick, IInv, RedoRebuilds, AreDbs
<1>9. CASE UNCHANGED vars
  BY <1>9 DEF vars, IInv, RedoRebuilds, AreDbs
<1> QED BY <1>1, <1>2, <1>3, <1>4, <1>5, <1>6, <1>7, <1>8, <1>9 DEF Next

LEMMA Inductive == Spec => []IInv
BY Initially, StepKeeps, PTL DEF Spec

\* Redoing the log on the snapshot gives the databases in memory, whatever the
\* keys, the values, the times and the number of databases, unless a logged
\* operation has found an expired key since the snapshot (wal_log, pre_expire
\* and wal_redo_db_op of locked_database.cpp).
THEOREM RedoIsRight == Spec => []RedoRebuilds
<1>1. IInv => RedoRebuilds BY DEF IInv
<1> QED BY <1>1, Inductive, PTL

\* No database in memory, and none that the redo gives, has an expiry time for a
\* key without a value (clear_expiry and del wherever a value goes).
THEOREM NoOrphanedExpiry == Spec => []ExpiryOnLiveKeys
<1>1. IInv => ExpiryOnLiveKeys BY DEF IInv, AreDbs, IsDb, ExpiryOnLiveKeys
<1> QED BY <1>1, Inductive, PTL

-----------------------------------------------------------------------------
(* What has expired is not seen *)

\* Two databases have the same at a key.
SameAt(a, b, k) ==
    /\ Has(a, k) <=> Has(b, k)
    /\ Has(a, k) => a.data[k] = b.data[k]
    /\ k \in DOMAIN a.expiry <=> k \in DOMAIN b.expiry
    /\ k \in DOMAIN a.expiry => a.expiry[k] = b.expiry[k]

\* What a database has at a key, unless the key has expired.
KeptAt(a, d, k, t) ==
    /\ Has(a, k) <=> Has(d, k) /\ ~is_expired(d, k, t)
    /\ Has(a, k) => a.data[k] = d.data[k]
    /\ k \in DOMAIN a.expiry <=> k \in DOMAIN d.expiry /\ ~is_expired(d, k, t)
    /\ k \in DOMAIN a.expiry => a.expiry[k] = d.expiry[k]

LEMMA KeptTwice ==
    ASSUME NEW a, NEW b, NEW d, NEW k, NEW t, KeptAt(a, d, k, t), KeptAt(b, d, k, t)
    PROVE  SameAt(a, b, k)
BY Zenon DEF KeptAt, SameAt

\* Redoing the expiry of some keys leaves the others.
LEMMA RestKept ==
    ASSUME NEW d, NEW gone, NEW k, NEW t, k \in gone <=> is_expired(d, k, t)
    PROVE  KeptAt(wal_redo_expiry(d, gone), d, k, t)
BY DEF KeptAt, wal_redo_expiry, Has, Restrict

LEMMA PurgedAt ==
    ASSUME NEW d, NEW t, NEW k
    PROVE  KeptAt(deep_purge(d, t).db, d, k, t)
<1> DEFINE gone == {x \in DOMAIN d.expiry : is_expired(d, x, t)}
<1>1. deep_purge(d, t).db = wal_redo_expiry(d, gone) BY DEF deep_purge, wal_redo_expiry, Result
<1>2. k \in gone <=> is_expired(d, k, t) BY DEF is_expired
<1> HIDE DEF gone
<1>3. KeptAt(wal_redo_expiry(d, gone), d, k, t) BY <1>2, RestKept
<1> QED BY <1>1, <1>3, Zenon

LEMMA ErasedAt ==
    ASSUME NEW d, NEW t \in Int, NEW k, IsDb(d)
    PROVE  KeptAt(erase_if_expired(d, k, t).db, d, k, t)
<1> DEFINE e == erase_if_expired(d, k, t)
<1>1. e.db = wal_redo_expiry(d, e.expired) BY EraseIs
<1>2. k \in e.expired <=> is_expired(d, k, t) BY Zenon DEF erase_if_expired, Result
<1> HIDE DEF e
<1>3. KeptAt(wal_redo_expiry(d, e.expired), d, k, t) BY <1>2, RestKept
<1> QED BY <1>1, <1>3, Zenon DEF e

LEMMA ManyErasedAt ==
    ASSUME NEW d, NEW t, NEW ks, NEW k \in ks
    PROVE  KeptAt(many_get(d, ks, t).db, d, k, t)
<1> DEFINE gone == {x \in ks : is_expired(d, x, t)}
<1>1. many_get(d, ks, t).db = wal_redo_expiry(d, gone) BY DEF many_get, wal_redo_expiry, Result
<1>2. k \in gone <=> is_expired(d, k, t) OBVIOUS
<1> HIDE DEF gone
<1>3. KeptAt(wal_redo_expiry(d, gone), d, k, t) BY <1>2, RestKept
<1> QED BY <1>1, <1>3, Zenon

\* A read of one key looks at what erase_if_expired has left there, so it
\* answers the same in two databases that have the same there after it.
LEMMA SameReads ==
    ASSUME NEW a, NEW b, NEW k, NEW t, NEW u,
           SameAt(erase_if_expired(a, k, t).db, erase_if_expired(b, k, u).db, k)
    PROVE  /\ has(a, k, t).out <=> has(b, k, u).out
           /\ get(a, k, t).out = get(b, k, u).out
           /\ type(a, k, t).out = type(b, k, u).out
           /\ get_expiry(a, k, t).out = get_expiry(b, k, u).out
           /\ str_len(a, k, t).out = str_len(b, k, u).out
<1> DEFINE e == erase_if_expired(a, k, t).db
           g == erase_if_expired(b, k, u).db
<1>1. has(a, k, t).out <=> has(b, k, u).out
  BY Zenon DEF has, Result, SameAt
<1>2. get(a, k, t).out = get(b, k, u).out
  <2>1. get(a, k, t).out = IF Has(e, k) THEN Some(e.data[k]) ELSE None BY DEF get, Result
  <2>2. get(b, k, u).out = IF Has(g, k) THEN Some(g.data[k]) ELSE None BY DEF get, Result
  <2> QED BY <2>1, <2>2, Zenon DEF SameAt
<1>3. type(a, k, t).out = type(b, k, u).out
  <2>1. type(a, k, t).out = IF Has(e, k) THEN Some(e.data[k][1]) ELSE None BY DEF type, Result
  <2>2. type(b, k, u).out = IF Has(g, k) THEN Some(g.data[k][1]) ELSE None BY DEF type, Result
  <2> QED BY <2>1, <2>2, Zenon DEF SameAt
<1>4. get_expiry(a, k, t).out = get_expiry(b, k, u).out
  <2>1. get_expiry(a, k, t).out = IF k \in DOMAIN e.expiry THEN Some(e.expiry[k]) ELSE None
    BY DEF get_expiry, Result
  <2>2. get_expiry(b, k, u).out = IF k \in DOMAIN g.expiry THEN Some(g.expiry[k]) ELSE None
    BY DEF get_expiry, Result
  <2> QED BY <2>1, <2>2, Zenon DEF SameAt
<1>5. str_len(a, k, t).out = str_len(b, k, u).out
  <2> DEFINE lenof(x) == IF Has(x, k) /\ x.data[k][1] = "str" THEN Some(Len(x.data[k][2])) ELSE None
  <2>1. str_len(a, k, t).out = lenof(e) BY DEF str_len, Result
  <2>2. str_len(b, k, u).out = lenof(g) BY DEF str_len, Result
  <2>3. CASE Has(e, k) BY <2>1, <2>2, <2>3, Zenon DEF SameAt
  <2>4. CASE ~Has(e, k) BY <2>1, <2>2, <2>4, Zenon DEF SameAt
  <2> QED BY <2>3, <2>4
<1> QED BY <1>1, <1>2, <1>3, <1>4, <1>5

\* Of one database and of what a purge leaves of it.
LEMMA UnseenReads ==
    ASSUME NEW d, NEW t \in Int, NEW k, IsDb(d)
    PROVE  LET p == deep_purge(d, t).db IN
           SameAt(erase_if_expired(d, k, t).db, p, k) /\ erase_if_expired(p, k, Off).db = p
<1> DEFINE p == deep_purge(d, t).db
<1>1. KeptAt(p, d, k, t) BY PurgedAt
<1>2. KeptAt(erase_if_expired(d, k, t).db, d, k, t) BY ErasedAt
<1>3. IsDb(p) BY PurgeIs
<1> HIDE DEF p
<1>4. SameAt(erase_if_expired(d, k, t).db, p, k) BY <1>1, <1>2, KeptTwice
<1>5. erase_if_expired(p, k, Off).db = p BY <1>3, EraseOff
<1> QED BY <1>4, <1>5 DEF p

LEMMA UnseenManyReads ==
    ASSUME NEW d, NEW t \in Int, NEW ks, IsDb(d)
    PROVE  many_get(d, ks, t).out = many_get(deep_purge(d, t).db, ks, Off).out
<1> DEFINE p == deep_purge(d, t).db
           e == many_get(d, ks, t).db
           g == many_get(p, ks, Off).db
           of(x) == [k \in ks |-> IF Has(x, k) THEN Some(x.data[k]) ELSE None]
<1>1. many_get(d, ks, t).out = of(e) BY DEF many_get, Result
<1>2. many_get(p, ks, Off).out = of(g) BY DEF many_get, Result
<1>3. IsDb(p) BY PurgeIs
<1>4. ASSUME NEW k \in ks PROVE SameAt(e, g, k)
  <2>1. KeptAt(e, d, k, t) BY ManyErasedAt
  <2>2. KeptAt(p, d, k, t) BY PurgedAt
  <2> HIDE DEF p
  <2>3. KeptAt(g, p, k, Off) BY ManyErasedAt
  <2>4. ~is_expired(p, k, Off) BY <1>3 DEF is_expired, Off, IsDb
  <2>5. SameAt(e, p, k) BY <2>1, <2>2, KeptTwice
  <2> HIDE DEF e, g
  <2> QED BY <2>3, <2>4, <2>5, Zenon DEF KeptAt, SameAt
<1> HIDE DEF e, g, p
<1>5. \A k \in ks : (IF Has(e, k) THEN Some(e.data[k]) ELSE None)
                      = (IF Has(g, k) THEN Some(g.data[k]) ELSE None)
  BY <1>4, Zenon DEF SameAt
<1>6. of(e) = of(g) BY <1>5, Zenon
<1> QED BY <1>1, <1>2, <1>6 DEF p

\* A database whose expired keys nobody sees, at the time t.
Unseen(d, t) ==
    LET p == deep_purge(d, t).db IN
    /\ keys(d, t).out = DOMAIN p.data
    /\ \A ks \in SUBSET Keys : many_get(d, ks, t).out = many_get(p, ks, Off).out
    /\ \A k \in Keys :
          /\ has(d, k, t).out = Has(p, k)
          /\ get(d, k, t).out = get(p, k, Off).out
          /\ type(d, k, t).out = type(p, k, Off).out
          /\ get_expiry(d, k, t).out = get_expiry(p, k, Off).out
          /\ str_len(d, k, t).out = str_len(p, k, Off).out

LEMMA NoneSeen ==
    ASSUME NEW d, NEW t \in Int, IsDb(d)
    PROVE  Unseen(d, t)
<1> DEFINE p == deep_purge(d, t).db
<1>1. keys(d, t).out = DOMAIN p.data BY DEF keys, Result
<1>2. \A ks \in SUBSET Keys : many_get(d, ks, t).out = many_get(p, ks, Off).out
  BY UnseenManyReads
<1>3. ASSUME NEW k \in Keys
      PROVE  /\ has(d, k, t).out = Has(p, k)
             /\ get(d, k, t).out = get(p, k, Off).out
             /\ type(d, k, t).out = type(p, k, Off).out
             /\ get_expiry(d, k, t).out = get_expiry(p, k, Off).out
             /\ str_len(d, k, t).out = str_len(p, k, Off).out
  <2>1. SameAt(erase_if_expired(d, k, t).db, p, k) /\ erase_if_expired(p, k, Off).db = p
    BY UnseenReads
  <2> HIDE DEF p
  <2>2. SameAt(erase_if_expired(d, k, t).db, erase_if_expired(p, k, Off).db, k) BY <2>1, Zenon
  <2>3. has(d, k, t).out = Has(p, k)
    <3> DEFINE e == erase_if_expired(d, k, t).db
    <3>1. has(d, k, t).out = Has(e, k) BY Zenon DEF has, Result
    <3>2. Has(e, k) = Has(p, k)
      <4> HIDE DEF e
      <4>1. k \in DOMAIN e.data <=> k \in DOMAIN p.data BY <2>1, Zenon DEF SameAt, Has, e
      <4> QED BY <4>1 DEF Has
    <3> QED BY <3>1, <3>2
  <2>4. /\ get(d, k, t).out = get(p, k, Off).out
        /\ type(d, k, t).out = type(p, k, Off).out
        /\ get_expiry(d, k, t).out = get_expiry(p, k, Off).out
        /\ str_len(d, k, t).out = str_len(p, k, Off).out
    BY <2>2, SameReads
  <2> QED BY <2>3, <2>4, Zenon
<1> QED BY <1>1, <1>2, <1>3, Zenon DEF Unseen

\* A key that has expired is not seen by any read, purged or not
\* (erase_if_expired in every read of general_database.cpp,
\* primitive_database.cpp and expiry_database.cpp).
THEOREM ExpiredIsUnseen == Spec => []ExpiredUnseen
<1>1. IInv => ExpiredUnseen
  <2> SUFFICES ASSUME IInv, NEW i \in Databases PROVE Unseen(live[i], now)
    BY Zenon DEF ExpiredUnseen, Unseen
  <2>1. IsDb(live[i]) /\ now \in Int BY DEF IInv, AreDbs
  <2> QED BY <2>1, NoneSeen
<1> QED BY <1>1, Inductive, PTL

-----------------------------------------------------------------------------
(* Absent keys *)

\* A hypothesis here; ContainerRedoProofs has it from FS_EmptySet.
NothingCounts == Cardinality({}) = 0

LEMMA ResultIs ==
    ASSUME NEW a, NEW b, NEW c
    PROVE  Result(a, b, c).db = a /\ Result(a, b, c).out = b /\ Result(a, b, c).expired = c
BY DEF Result

LEMMA NoPart ==
    ASSUME NEW l, NEW from \in Int, NEW to \in Int, to < from
    PROVE  SubSeq(l, from, to) = <<>>
OBVIOUS

\* The two ends of a range, as positions.
LEMMA PairIs ==
    ASSUME NEW size \in Nat, NEW start \in Int, NEW end \in Int
    PROVE  LET pair == iterator_pair_inclusive(size, start, end) IN
           /\ pair[1] = IF start >= size THEN size ELSE IF start < -size THEN 0
                        ELSE IF start < 0 THEN start + size ELSE start
           /\ pair[2] = IF end >= size THEN size ELSE IF end < -size THEN 0
                        ELSE IF end < 0 THEN end + size + 1 ELSE end + 1
           /\ pair[1] \in 0 .. size /\ pair[2] \in 0 .. size
<1> DEFINE pair == iterator_pair_inclusive(size, start, end)
           it == iterator_or_end(size, start)
           end_it == iterator_or_end(size, end)
<1>1. /\ pair[1] = IF it = size /\ start < 0 THEN 0 ELSE it
      /\ pair[2] = IF end_it = size /\ end < 0 THEN 0
                   ELSE IF end_it # size THEN end_it + 1 ELSE end_it
  BY DEF iterator_pair_inclusive
<1>2. it = IF start >= size \/ start < -size THEN size ELSE IF start < 0 THEN start + size ELSE start
  BY DEF iterator_or_end
<1>3. end_it = IF end >= size \/ end < -size THEN size ELSE IF end < 0 THEN end + size ELSE end
  BY DEF iterator_or_end
<1> HIDE DEF it, end_it, pair
<1>4. pair[1] = IF start >= size THEN size ELSE IF start < -size THEN 0
                ELSE IF start < 0 THEN start + size ELSE start
  BY <1>1, <1>2
<1>5. pair[2] = IF end >= size THEN size ELSE IF end < -size THEN 0
                ELSE IF end < 0 THEN end + size + 1 ELSE end + 1
  BY <1>1, <1>3
<1>6. pair[1] \in 0 .. size /\ pair[2] \in 0 .. size BY <1>4, <1>5
<1> QED BY <1>4, <1>5, <1>6 DEF pair

LEMMA NothingExpired ==
    ASSUME NEW d, NEW k, IsDb(d)
    PROVE  erase_if_expired(d, k, Off).db = d /\ erase_if_expired(d, k, Off).expired = {}
<1>1. ~is_expired(d, k, Off) BY DEF is_expired, Off, IsDb
<1>2. erase_if_expired(d, k, Off).expired = {} BY <1>1 DEF erase_if_expired, Result
<1> QED BY <1>2, EraseOff

\* w is d with an empty container of the kind at k, which d does not have.
Stands(d, w, k, kind) ==
    /\ IsDb(d) /\ IsDb(w)
    /\ ~Has(d, k) /\ ~Holds(d, k, kind) /\ ~Mistyped(d, k, kind)
    /\ Has(w, k) /\ Holds(w, k, kind) /\ ~Mistyped(w, k, kind)
    /\ ContainerAt(d, k, kind) = EmptyOf[kind]
    /\ ContainerAt(w, k, kind) = EmptyOf[kind]
    /\ w.data[k][2] = EmptyOf[kind]
    /\ \A j : j # k => (Has(w, j) <=> Has(d, j)) /\ (Has(d, j) => w.data[j] = d.data[j])

LEMMA StandsIs ==
    ASSUME NEW d, NEW k, NEW kind, IsDb(d), k \notin DOMAIN d.data
    PROVE  Stands(d, Store(d, k, <<kind, EmptyOf[kind]>>), k, kind)
<1> DEFINE v == <<kind, EmptyOf[kind]>>
           w == Store(d, k, v)
<1>1. IsDb(w) /\ w.data = Put(d.data, k, v) BY StoreIs
<1>2. /\ DOMAIN Put(d.data, k, v) = DOMAIN d.data \cup {k}
      /\ \A x \in DOMAIN d.data \cup {k} : Put(d.data, k, v)[x] = IF x = k THEN v ELSE d.data[x]
  BY DEF Put
<1>3. v[1] = kind /\ v[2] = EmptyOf[kind] OBVIOUS
<1> HIDE DEF w, v
<1>4. DOMAIN w.data = DOMAIN d.data \cup {k} /\ w.data[k] = v BY <1>1, <1>2, Zenon
<1>5. \A j : j # k => (Has(w, j) <=> Has(d, j)) /\ (Has(d, j) => w.data[j] = d.data[j])
  BY <1>1, <1>2, Zenon DEF Has
<1>6. ~Has(d, k) /\ ~Holds(d, k, kind) /\ ~Mistyped(d, k, kind) BY Zenon DEF Has, Holds, Mistyped
<1>7. Has(w, k) /\ Holds(w, k, kind) /\ ~Mistyped(w, k, kind)
  BY <1>3, <1>4, Zenon DEF Has, Holds, Mistyped
<1>8. Stands(d, w, k, kind) BY <1>1, <1>3, <1>4, <1>5, <1>6, <1>7, Zenon DEF Stands, ContainerAt
<1> QED BY <1>8 DEF w, v

LEMMA PushAnswer ==
    ASSUME NEW e, NEW k, NEW values, NEW pushed, ~Mistyped(e.db, k, "list")
    PROVE  ListPush(e, k, values, pushed).out = IF values = <<>> THEN Ok(0) ELSE Ok(Len(pushed))
BY DEF ListPush, Result

LEMMA PopAnswer ==
    ASSUME NEW e, NEW k, NEW taken, NEW rest, ~Mistyped(e.db, k, "list")
    PROVE  ListPop(e, k, taken, rest).out = IF Has(e.db, k) THEN Ok(taken) ELSE Ok(<<>>)
BY DEF ListPop, Mistyped, Holds, Result

\* Every index of an empty list is its end.
LEMMA NoIndex ==
    ASSUME NEW n \in Int
    PROVE  iterator_or_end(Len(<<>>), n) = 0 /\ Len(<<>>) = 0
BY DEF iterator_or_end

SameOnLists(d, w, k, n, m, x, values) ==
    /\ list_set(d, k, n, x, Off).out = list_set(w, k, n, x, Off).out
    /\ list_push_left(d, k, values, Off).out = list_push_left(w, k, values, Off).out
    /\ list_push_right(d, k, values, Off).out = list_push_right(w, k, values, Off).out
    /\ list_pop_left(d, k, n, Off).out = list_pop_left(w, k, n, Off).out
    /\ list_pop_right(d, k, n, Off).out = list_pop_right(w, k, n, Off).out
    /\ list_trim(d, k, n, m, Off).out = list_trim(w, k, n, m, Off).out
    /\ list_remove(d, k, x, n, Off).out = list_remove(w, k, x, n, Off).out
    /\ list_len(d, k, Off).out = list_len(w, k, Off).out
    /\ list_get(d, k, n, Off).out = list_get(w, k, n, Off).out
    /\ list_range(d, k, n, m, Off).out = list_range(w, k, n, m, Off).out

LEMMA NoneExpired ==
    ASSUME NEW d, NEW ks, IsDb(d)
    PROVE  erase_all_expired(d, ks, Off).db = d /\ erase_all_expired(d, ks, Off).expired = {}
<1> DEFINE e == erase_all_expired(d, ks, Off)
           gone == {k \in ks : is_expired(d, k, Off)}
<1>1. gone = {} BY DEF is_expired, Off, IsDb
<1>2. e = Result(wal_redo_expiry(d, gone), gone # {}, gone)
  BY Zenon DEF erase_all_expired, wal_redo_expiry
<1> HIDE DEF gone
<1>3. e.db = wal_redo_expiry(d, gone) /\ e.expired = gone BY <1>2 DEF Result
<1>4. wal_redo_expiry(d, {}) = d BY RedoExpiry
<1> HIDE DEF e
<1>5. e.db = d /\ e.expired = {} BY <1>1, <1>3, <1>4, Zenon
<1> QED BY <1>5 DEF e

SameOnSet(d, w, k, values, x) ==
    /\ set_add(d, k, values, Off).out = set_add(w, k, values, Off).out
    /\ set_discard(d, k, values, Off).out = set_discard(w, k, values, Off).out
    /\ set_contains(d, k, x, Off).out = set_contains(w, k, x, Off).out
    /\ set_all(d, k, Off).out = set_all(w, k, Off).out
    /\ set_len(d, k, Off).out = set_len(w, k, Off).out

SameOnSets(d, w, k, j) ==
    /\ SameResults(set_union(d, {j, k}, Off), set_union(w, {j, k}, Off))
    /\ SameResults(set_intersection(d, <<j, k>>, Off), set_intersection(w, <<j, k>>, Off))
    /\ SameResults(set_intersection(d, <<k, j>>, Off), set_intersection(w, <<k, j>>, Off))
    /\ SameResults(set_difference(d, k, j, Off), set_difference(w, k, j, Off))

\* The size of a result, and the answer to storing it, are functions of it.
LEMMA ResultsAlike ==
    ASSUME NEW a, NEW b, NEW y, NEW r, NEW q, r = Result(a, y, {}), q = Result(b, y, {})
    PROVE  SameResults(r, q)
<1>1. r.out = y /\ q.out = y BY ResultIs
<1>2. SizeOf(r).out = SizeOf(q).out
  <2> DEFINE z == IF y = None THEN None ELSE Some(Cardinality(y[1]))
  <2>1. ASSUME NEW c, NEW u, u = Result(c, y, {}) PROVE SizeOf(u).out = z
    BY <2>1 DEF SizeOf, Result
  <2> HIDE DEF z
  <2> QED BY <2>1, Zenon
<1>3. ASSUME NEW dest PROVE StoreInto(r, dest).out = StoreInto(q, dest).out
  <2>1. CASE y = None BY <1>1, <2>1, Zenon DEF StoreInto
  <2>2. CASE y # None
    <3>1. \E c, x : StoreInto(r, dest) = Result(c, Some(Cardinality(y[1])), x)
      BY <1>1, <2>2, Zenon DEF StoreInto
    <3>2. \E c, x : StoreInto(q, dest) = Result(c, Some(Cardinality(y[1])), x)
      BY <1>1, <2>2, Zenon DEF StoreInto
    <3> QED BY <3>1, <3>2, ResultIs
  <2> QED BY <2>1, <2>2
<1> QED BY <1>1, <1>2, <1>3, Zenon DEF SameResults

\* j is a set in both databases, or in neither.
LEMMA AbsentBeside ==
    ASSUME NEW d, NEW w, NEW k, Stands(d, w, k, "set"), NEW j, ~Mistyped(d, j, "set")
    PROVE  /\ ~Mistyped(w, j, "set") /\ ContainerAt(w, j, "set") = ContainerAt(d, j, "set")
           /\ j # k => (Holds(w, j, "set") <=> Holds(d, j, "set")) /\ (Has(w, j) <=> Has(d, j))
<1>1. CASE j = k BY <1>1, Zenon DEF Stands
<1>2. CASE j # k
  <2>1. (Has(w, j) <=> Has(d, j)) /\ (Has(d, j) => w.data[j] = d.data[j]) BY <1>2, Zenon DEF Stands
  <2> QED BY <1>2, <2>1, Zenon DEF Mistyped, Holds, ContainerAt
<1> QED BY <1>1, <1>2

LEMMA AbsentIntersection ==
    ASSUME NEW d, NEW w, NEW k, Stands(d, w, k, "set"), NEW j, ~Mistyped(d, j, "set"),
           NEW ks, DOMAIN ks = {1, 2}, ks # <<>>,
           \A i \in {1, 2} : ks[i] \in {j, k}, \E i \in {1, 2} : ks[i] = k
    PROVE  SameResults(set_intersection(d, ks, Off), set_intersection(w, ks, Off))
<1> DEFINE e(b) == erase_all_expired(b, Range(ks), Off)
           bad(b) == {i \in DOMAIN ks : ~Holds(b, ks[i], "set")}
           first(b) == CHOOSE i \in bad(b) : \A n \in bad(b) : i <= n
           all(b) == {x \in b.data[ks[1]][2] : \A i \in DOMAIN ks : x \in b.data[ks[i]][2]}
           answer(b, x) ==
               Result(b, IF ks = <<>> THEN Some({})
                         ELSE IF bad(b) # {} THEN (IF Has(b, ks[first(b)]) THEN None ELSE Some({}))
                         ELSE Some(all(b)), x)
<1>0. EmptyOf["set"] = {} BY DEF EmptyOf
<1>1. /\ e(d).db = d /\ e(d).expired = {} /\ e(w).db = w /\ e(w).expired = {}
      /\ ~Has(d, k) /\ ~Holds(d, k, "set") /\ Holds(w, k, "set") /\ w.data[k][2] = {}
  BY <1>0, NoneExpired, Zenon DEF Stands
<1>2. ~Mistyped(w, j, "set") BY AbsentBeside, Zenon
<1>6. ASSUME NEW b, ASSUME NEW i \in bad(b) PROVE ~Has(b, ks[i])
      PROVE  bad(b) # {} => answer(b, {}) = Result(b, Some({}), {})
  <2>1. bad(b) # {} => \E i \in bad(b) : \A n \in bad(b) : i <= n
    <3>1. bad(b) \in SUBSET {1, 2} BY Zenon
    <3> HIDE DEF bad
    <3>2. CASE 1 \in bad(b) BY <3>1, <3>2
    <3>3. CASE 1 \notin bad(b) BY <3>1, <3>3
    <3> QED BY <3>2, <3>3
  <2> SUFFICES ASSUME bad(b) # {} PROVE answer(b, {}) = Result(b, Some({}), {})
    OBVIOUS
  <2> HIDE DEF bad
  <2>2. first(b) \in bad(b) BY <2>1, Zenon
  <2>3. ~Has(b, ks[first(b)]) BY <1>6, <2>2, Zenon
  <2> HIDE DEF first, all
  <2> QED BY <2>3, Zenon
<1>7. /\ set_intersection(d, ks, Off) = answer(e(d).db, e(d).expired)
      /\ set_intersection(w, ks, Off) = answer(e(w).db, e(w).expired)
  BY Zenon DEF set_intersection
<1> HIDE DEF e
<1>8. bad(d) # {} /\ \A i \in bad(d) : ~Has(d, ks[i]) BY <1>1, Zenon DEF Mistyped, Holds
<1>9. \A i \in bad(w) : ~Has(w, ks[i]) BY <1>1, <1>2, Zenon DEF Mistyped, Holds
<1>10. bad(w) = {} => answer(w, {}) = Result(w, Some({}), {})
  <2>1. all(w) = {} BY <1>1, Zenon
  <2> HIDE DEF bad, first, all
  <2> QED BY <2>1, Zenon
<1> HIDE DEF bad, first, all, answer
<1>11. /\ set_intersection(d, ks, Off) = answer(d, {})
       /\ set_intersection(w, ks, Off) = answer(w, {})
  BY <1>1, <1>7, Zenon
<1>12. /\ set_intersection(d, ks, Off) = Result(d, Some({}), {})
       /\ set_intersection(w, ks, Off) = Result(w, Some({}), {})
  BY <1>6, <1>8, <1>9, <1>10, <1>11, Zenon
<1> QED BY <1>12, ResultsAlike, Zenon

LEMMA AbsentOtherSet ==
    ASSUME NEW d, NEW w, NEW k, Stands(d, w, k, "set"), NEW j, ~Mistyped(d, j, "set")
    PROVE  SameOnSets(d, w, k, j)
<1> DEFINE e(b, ks) == erase_all_expired(b, ks, Off)
<1>0. EmptyOf["set"] = {} BY DEF EmptyOf
<1>1. /\ \A ks : /\ e(d, ks).db = d /\ e(d, ks).expired = {}
                 /\ e(w, ks).db = w /\ e(w, ks).expired = {}
      /\ ~Mistyped(d, k, "set") /\ ~Mistyped(w, k, "set") /\ ~Has(d, k) /\ Has(w, k)
      /\ ~Holds(d, k, "set") /\ Holds(w, k, "set") /\ w.data[k][2] = {}
      /\ ContainerAt(d, k, "set") = {} /\ ContainerAt(w, k, "set") = {}
  BY <1>0, NoneExpired, Zenon DEF Stands
<1>2. /\ ~Mistyped(w, j, "set") /\ ContainerAt(w, j, "set") = ContainerAt(d, j, "set")
      /\ j # k => (Has(w, j) <=> Has(d, j))
  BY AbsentBeside, Zenon
<1> HIDE DEF e
<1>3. SameResults(set_union(d, {j, k}, Off), set_union(w, {j, k}, Off))
  <2>1. UNION {ContainerAt(w, x, "set") : x \in {j, k}} = UNION {ContainerAt(d, x, "set") : x \in {j, k}}
    BY <1>1, <1>2
  <2>2. /\ \A x \in {j, k} : ~Mistyped(d, x, "set")
        /\ \A x \in {j, k} : ~Mistyped(w, x, "set")
    BY <1>1, <1>2, Zenon
  <2>3. set_union(d, {j, k}, Off) = Result(d, Some(UNION {ContainerAt(d, x, "set") : x \in {j, k}}), {})
    BY <1>1, <2>2, Zenon DEF set_union, e
  <2>4. set_union(w, {j, k}, Off) = Result(w, Some(UNION {ContainerAt(w, x, "set") : x \in {j, k}}), {})
    BY <1>1, <2>2, Zenon DEF set_union, e
  <2> DEFINE a == UNION {ContainerAt(d, x, "set") : x \in {j, k}}
             b == UNION {ContainerAt(w, x, "set") : x \in {j, k}}
  <2>5. a = b BY <2>1, Zenon
  <2> HIDE DEF a, b
  <2>6. set_union(d, {j, k}, Off) = Result(d, Some(a), {}) BY <2>3, Zenon DEF a
  <2>7. set_union(w, {j, k}, Off) = Result(w, Some(b), {}) BY <2>4, Zenon DEF b
  <2> QED BY <2>5, <2>6, <2>7, ResultsAlike, Zenon
<1>4. SameResults(set_difference(d, k, j, Off), set_difference(w, k, j, Off))
  <2>1. set_difference(d, k, j, Off) = Result(d, Some({}), {}) BY <1>1, Zenon DEF set_difference, e
  <2>2. set_difference(w, k, j, Off) = Result(w, Some({}), {})
    <3>1. {} \ w.data[j][2] = {} BY Zenon
    <3> QED BY <1>1, <1>2, <3>1, Zenon DEF set_difference, e
  <2> QED BY <2>1, <2>2, ResultsAlike, Zenon
<1>5. SameResults(set_intersection(d, <<j, k>>, Off), set_intersection(w, <<j, k>>, Off))
  <2> DEFINE ks == <<j, k>>
  <2>1. DOMAIN ks = {1, 2} /\ ks[1] = j /\ ks[2] = k /\ ks # <<>> OBVIOUS
  <2> HIDE DEF ks
  <2>2. (\A i \in {1, 2} : ks[i] \in {j, k}) /\ (\E i \in {1, 2} : ks[i] = k) BY <2>1, Zenon
  <2>3. SameResults(set_intersection(d, ks, Off), set_intersection(w, ks, Off))
    BY <2>1, <2>2, AbsentIntersection, Zenon
  <2> QED BY <2>3 DEF ks
<1>6. SameResults(set_intersection(d, <<k, j>>, Off), set_intersection(w, <<k, j>>, Off))
  <2> DEFINE ks == <<k, j>>
  <2>1. DOMAIN ks = {1, 2} /\ ks[1] = k /\ ks[2] = j /\ ks # <<>> OBVIOUS
  <2> HIDE DEF ks
  <2>2. (\A i \in {1, 2} : ks[i] \in {j, k}) /\ (\E i \in {1, 2} : ks[i] = k) BY <2>1, Zenon
  <2>3. SameResults(set_intersection(d, ks, Off), set_intersection(w, ks, Off))
    BY <2>1, <2>2, AbsentIntersection, Zenon
  <2> QED BY <2>3 DEF ks
<1> QED BY <1>3, <1>4, <1>5, <1>6, Zenon DEF SameOnSets

LEMMA AbsentListDo ==
    ASSUME NothingCounts, NEW d, NEW w, NEW k, Stands(d, w, k, "list"),
           NEW n \in Int, NEW m \in Int, NEW x, NEW values
    PROVE  SameOnLists(d, w, k, n, m, x, values)
<1> DEFINE e(b) == erase_if_expired(b, k, Off)
<1>0. EmptyOf["list"] = <<>> BY DEF EmptyOf
<1>1. /\ e(d).db = d /\ e(d).expired = {} /\ e(w).db = w /\ e(w).expired = {}
      /\ ~Mistyped(d, k, "list") /\ ~Mistyped(w, k, "list") /\ ~Has(d, k) /\ Has(w, k)
      /\ Holds(w, k, "list") /\ w.data[k][2] = <<>>
      /\ ContainerAt(d, k, "list") = <<>> /\ ContainerAt(w, k, "list") = <<>>
  BY <1>0, NothingExpired, Zenon DEF Stands
<1>a. /\ ~Mistyped(e(d).db, k, "list") /\ ~Mistyped(e(w).db, k, "list")
      /\ ~Has(e(d).db, k) /\ Has(e(w).db, k)
  BY <1>1, Zenon
<1>2. iterator_or_end(Len(<<>>), n) = 0 /\ Len(<<>>) = 0 BY NoIndex
<1> HIDE DEF e
<1>3. list_set(d, k, n, x, Off).out = list_set(w, k, n, x, Off).out
  <2>1. iterator_or_error(d, k, n) = Error("OutOfRange") BY <1>1, Zenon DEF iterator_or_error
  <2>2. iterator_or_error(w, k, n) = Error("OutOfRange") BY <1>1, <1>2, Zenon DEF iterator_or_error
  <2>3. Error("OutOfRange")[1] = "error" BY DEF Error
  <2>4. list_set(d, k, n, x, Off) = Result(d, Error("OutOfRange"), {})
    BY <1>1, <2>1, <2>3, Zenon DEF list_set, e
  <2>5. list_set(w, k, n, x, Off) = Result(w, Error("OutOfRange"), {})
    BY <1>1, <2>2, <2>3, Zenon DEF list_set, e
  <2> QED BY <2>4, <2>5, ResultIs
<1>4. list_push_left(d, k, values, Off).out = list_push_left(w, k, values, Off).out
  <2> DEFINE p == [i \in 1..Len(values) |-> values[Len(values) + 1 - i]] \o <<>>
  <2>1. /\ list_push_left(d, k, values, Off) = ListPush(e(d), k, values, p)
        /\ list_push_left(w, k, values, Off) = ListPush(e(w), k, values, p)
    BY <1>1, Zenon DEF list_push_left, e
  <2> HIDE DEF p
  <2>2. ListPush(e(d), k, values, p).out = IF values = <<>> THEN Ok(0) ELSE Ok(Len(p))
    BY <1>a, PushAnswer
  <2>3. ListPush(e(w), k, values, p).out = IF values = <<>> THEN Ok(0) ELSE Ok(Len(p))
    BY <1>a, PushAnswer
  <2> QED BY <2>1, <2>2, <2>3, Zenon
<1>5. list_push_right(d, k, values, Off).out = list_push_right(w, k, values, Off).out
  <2> DEFINE p == <<>> \o values
  <2>1. /\ list_push_right(d, k, values, Off) = ListPush(e(d), k, values, p)
        /\ list_push_right(w, k, values, Off) = ListPush(e(w), k, values, p)
    BY <1>1, Zenon DEF list_push_right, e
  <2> HIDE DEF p
  <2>2. ListPush(e(d), k, values, p).out = IF values = <<>> THEN Ok(0) ELSE Ok(Len(p))
    BY <1>a, PushAnswer
  <2>3. ListPush(e(w), k, values, p).out = IF values = <<>> THEN Ok(0) ELSE Ok(Len(p))
    BY <1>a, PushAnswer
  <2> QED BY <2>1, <2>2, <2>3, Zenon
<1>6. list_pop_left(d, k, n, Off).out = list_pop_left(w, k, n, Off).out
  <2>1. \E a, b : list_pop_left(d, k, n, Off) = ListPop(e(d), k, a, b)
    BY <1>1, Zenon DEF list_pop_left, e
  <2>2. \E b : list_pop_left(w, k, n, Off) = ListPop(e(w), k, SubSeq(<<>>, 1, 0), b)
    BY <1>1, <1>2, Zenon DEF list_pop_left, e
  <2>3. SubSeq(<<>>, 1, 0) = <<>> BY NoPart
  <2> QED BY <1>a, <2>1, <2>2, <2>3, PopAnswer, Zenon
<1>7. list_pop_right(d, k, n, Off).out = list_pop_right(w, k, n, Off).out
  <2>1. \E a, b : list_pop_right(d, k, n, Off) = ListPop(e(d), k, a, b)
    BY <1>1, Zenon DEF list_pop_right, e
  <2>2. \E b : list_pop_right(w, k, n, Off) = ListPop(e(w), k, SubSeq(<<>>, 0 - 0 + 1, 0), b)
    BY <1>1, <1>2, Zenon DEF list_pop_right, reverse_iterator_or_rend, e
  <2>3. SubSeq(<<>>, 0 - 0 + 1, 0) = <<>> BY NoPart
  <2> QED BY <1>a, <2>1, <2>2, <2>3, PopAnswer, Zenon
<1> DEFINE pair == iterator_pair_inclusive(Len(<<>>), n, m)
           kept == SubSeq(<<>>, pair[1] + 1, pair[2])
<1>b. kept = <<>>
  <2>1. pair[1] = 0 /\ pair[2] = 0
    <3> DEFINE q == iterator_pair_inclusive(0, n, m)
    <3>0. 0 \in Nat OBVIOUS
    <3>1. q[1] \in 0 .. 0 /\ q[2] \in 0 .. 0 BY <3>0, PairIs, Zenon
    <3>2. pair = q BY <1>2, Zenon
    <3> HIDE DEF q, pair
    <3> QED BY <3>1, <3>2
  <2> HIDE DEF pair
  <2> QED BY <2>1, NoPart
<1>8. list_trim(d, k, n, m, Off).out = list_trim(w, k, n, m, Off).out
  <2>3. list_trim(d, k, n, m, Off) = Result(d, Ok(0), {}) BY <1>1, Zenon DEF list_trim, e
  <2> DEFINE z == Len(<<>>) - Len(kept)
  <2>4. \E b : list_trim(w, k, n, m, Off)
                 = IF is_invalid_range(n, m) THEN Result(w, Ok(0), {}) ELSE Result(b, Ok(z), {})
    BY <1>1, Zenon DEF list_trim, e
  <2> HIDE DEF kept
  <2>5. z = 0 BY <1>2, <1>b
  <2> HIDE DEF z
  <2>6. \E b : list_trim(w, k, n, m, Off) = Result(b, Ok(0), {})
    <3>1. CASE is_invalid_range(n, m) BY <2>4, <3>1, Zenon
    <3>2. CASE ~is_invalid_range(n, m) BY <2>4, <2>5, <3>2, Zenon
    <3> QED BY <3>1, <3>2
  <2> QED BY <2>3, <2>6, ResultIs
<1>9. list_remove(d, k, x, n, Off).out = list_remove(w, k, x, n, Off).out
  <2>1. Erased(<<>>, x, n) = {} BY <1>2 DEF Erased, Places
  <2>2. Cardinality(Erased(<<>>, x, n)) = 0 BY <2>1, Zenon DEF NothingCounts
  <2>3. list_remove(d, k, x, n, Off) = Result(d, Ok(0), {}) BY <1>1, Zenon DEF list_remove, e
  <2>4. \E b : list_remove(w, k, x, n, Off) = Result(b, Ok(Cardinality(Erased(<<>>, x, n))), {})
    BY <1>1, Zenon DEF list_remove, e
  <2>5. \E b : list_remove(w, k, x, n, Off) = Result(b, Ok(0), {}) BY <2>2, <2>4, Zenon
  <2> QED BY <2>3, <2>5, ResultIs
<1>10. list_len(d, k, Off).out = list_len(w, k, Off).out
  <2>1. /\ list_len(d, k, Off) = Result(d, Ok(Len(<<>>)), {})
        /\ list_len(w, k, Off) = Result(w, Ok(Len(<<>>)), {})
    BY <1>1, Zenon DEF list_len, e
  <2> QED BY <2>1, ResultIs
<1>11. list_get(d, k, n, Off).out = list_get(w, k, n, Off).out
  <2>1. iterator_or_error(d, k, n) = Error("OutOfRange") BY <1>1, Zenon DEF iterator_or_error
  <2>2. iterator_or_error(w, k, n) = Error("OutOfRange") BY <1>1, <1>2, Zenon DEF iterator_or_error
  <2>3. Error("OutOfRange")[1] # "ok" BY DEF Error
  <2>4. list_get(d, k, n, Off) = Result(d, Error("OutOfRange"), {})
    BY <1>1, <2>1, <2>3, Zenon DEF list_get, e
  <2>5. list_get(w, k, n, Off) = Result(w, Error("OutOfRange"), {})
    BY <1>1, <2>2, <2>3, Zenon DEF list_get, e
  <2> QED BY <2>4, <2>5, ResultIs
<1>12. list_range(d, k, n, m, Off).out = list_range(w, k, n, m, Off).out
  <2> DEFINE y == IF is_invalid_range(n, m) THEN Ok(<<>>) ELSE Ok(kept)
  <2>1. list_range(d, k, n, m, Off) = Result(d, y, {}) /\ list_range(w, k, n, m, Off) = Result(w, y, {})
    BY <1>1, Zenon DEF list_range, e
  <2> HIDE DEF y
  <2> QED BY <2>1, ResultIs
<1> QED BY <1>3, <1>4, <1>5, <1>6, <1>7, <1>8, <1>9, <1>10, <1>11, <1>12, Zenon DEF SameOnLists

LEMMA AbsentListIs ==
    ASSUME NothingCounts, NEW d, NEW k, IsDb(d), k \notin DOMAIN d.data
    PROVE  AbsentList(d, k)
<1> DEFINE w == Store(d, k, <<"list", <<>>>>)
<1>1. Stands(d, w, k, "list")
  <2>1. EmptyOf["list"] = <<>> BY DEF EmptyOf
  <2> QED BY <2>1, StandsIs, Zenon
<1> HIDE DEF w
<1>0. Indices \subseteq Int BY ContainerAssumption
<1>a. list_len(d, k, Off).out = list_len(w, k, Off).out
  <2>1. 0 \in Int OBVIOUS
  <2>2. SameOnLists(d, w, k, 0, 0, 0, 0) BY <1>1, <2>1, AbsentListDo, Zenon
  <2> QED BY <2>2, Zenon DEF SameOnLists
<1>b. ASSUME NEW n \in Indices, NEW m \in Indices
      PROVE  /\ list_get(d, k, n, Off).out = list_get(w, k, n, Off).out
             /\ list_range(d, k, n, m, Off).out = list_range(w, k, n, m, Off).out
  <2>1. n \in Int /\ m \in Int BY <1>0, Zenon
  <2>2. SameOnLists(d, w, k, n, m, 0, 0) BY <1>1, <2>1, AbsentListDo, Zenon
  <2> QED BY <2>2, Zenon DEF SameOnLists
<1> SUFFICES ASSUME NEW o \in ListWrites, o.key = k
             PROVE  list_do(d, o, Off).out = list_do(w, o, Off).out
  BY <1>a, <1>b, Zenon DEF AbsentList, w
<1>2. CASE o \in [op : {"list_set"}, key : Keys, index : Indices, value : Items]
  <2>1. o.op = "list_set" /\ o.index \in Int BY <1>0, <1>2
  <2>2. /\ list_do(d, o, Off) = list_set(d, k, o.index, o.value, Off)
        /\ list_do(w, o, Off) = list_set(w, k, o.index, o.value, Off)
    BY <2>1 DEF list_do
  <2>3. SameOnLists(d, w, k, o.index, o.index, o.value, 0) BY <1>1, <2>1, AbsentListDo, Zenon
  <2> QED BY <2>2, <2>3, Zenon DEF SameOnLists
<1>3. CASE o \in [op : {"list_push_left", "list_push_right"}, key : Keys, values : Lists(2)]
  <2>1. o.op \in {"list_push_left", "list_push_right"} /\ 0 \in Int BY <1>3
  <2>2. CASE o.op = "list_push_left"
    <3>1. /\ list_do(d, o, Off) = list_push_left(d, k, o.values, Off)
          /\ list_do(w, o, Off) = list_push_left(w, k, o.values, Off)
      BY <2>2 DEF list_do
    <3>2. SameOnLists(d, w, k, 0, 0, 0, o.values) BY <1>1, <2>1, AbsentListDo, Zenon
    <3> QED BY <3>1, <3>2, Zenon DEF SameOnLists
  <2>3. CASE o.op = "list_push_right"
    <3>1. /\ list_do(d, o, Off) = list_push_right(d, k, o.values, Off)
          /\ list_do(w, o, Off) = list_push_right(w, k, o.values, Off)
      BY <2>3 DEF list_do
    <3>2. SameOnLists(d, w, k, 0, 0, 0, o.values) BY <1>1, <2>1, AbsentListDo, Zenon
    <3> QED BY <3>1, <3>2, Zenon DEF SameOnLists
  <2> QED BY <2>1, <2>2, <2>3
<1>4. CASE o \in [op : {"list_pop_left", "list_pop_right"}, key : Keys, n : Indices]
  <2>1. o.op \in {"list_pop_left", "list_pop_right"} /\ o.n \in Int BY <1>0, <1>4
  <2>2. CASE o.op = "list_pop_left"
    <3>1. /\ list_do(d, o, Off) = list_pop_left(d, k, o.n, Off)
          /\ list_do(w, o, Off) = list_pop_left(w, k, o.n, Off)
      BY <2>2 DEF list_do
    <3>2. SameOnLists(d, w, k, o.n, o.n, 0, 0) BY <1>1, <2>1, AbsentListDo, Zenon
    <3> QED BY <3>1, <3>2, Zenon DEF SameOnLists
  <2>3. CASE o.op = "list_pop_right"
    <3>1. /\ list_do(d, o, Off) = list_pop_right(d, k, o.n, Off)
          /\ list_do(w, o, Off) = list_pop_right(w, k, o.n, Off)
      BY <2>3 DEF list_do
    <3>2. SameOnLists(d, w, k, o.n, o.n, 0, 0) BY <1>1, <2>1, AbsentListDo, Zenon
    <3> QED BY <3>1, <3>2, Zenon DEF SameOnLists
  <2> QED BY <2>1, <2>2, <2>3
<1>5. CASE o \in [op : {"list_trim"}, key : Keys, start : Indices, end : Indices]
  <2>1. o.op = "list_trim" /\ o.start \in Int /\ o.end \in Int BY <1>0, <1>5
  <2>2. /\ list_do(d, o, Off) = list_trim(d, k, o.start, o.end, Off)
        /\ list_do(w, o, Off) = list_trim(w, k, o.start, o.end, Off)
    BY <2>1 DEF list_do
  <2>3. SameOnLists(d, w, k, o.start, o.end, 0, 0) BY <1>1, <2>1, AbsentListDo, Zenon
  <2> QED BY <2>2, <2>3, Zenon DEF SameOnLists
<1>6. CASE o \in [op : {"list_remove"}, key : Keys, element : Items, count : Indices]
  <2>1. o.op = "list_remove" /\ o.count \in Int BY <1>0, <1>6
  <2>2. /\ list_do(d, o, Off) = list_remove(d, k, o.element, o.count, Off)
        /\ list_do(w, o, Off) = list_remove(w, k, o.element, o.count, Off)
    BY <2>1 DEF list_do
  <2>3. SameOnLists(d, w, k, o.count, o.count, o.element, 0) BY <1>1, <2>1, AbsentListDo, Zenon
  <2> QED BY <2>2, <2>3, Zenon DEF SameOnLists
<1> QED BY <1>2, <1>3, <1>4, <1>5, <1>6, Zenon DEF ListWrites

LEMMA AbsentOneSet ==
    ASSUME NothingCounts, NEW d, NEW w, NEW k, Stands(d, w, k, "set"), NEW values, NEW x
    PROVE  SameOnSet(d, w, k, values, x)
<1> DEFINE e(b) == erase_if_expired(b, k, Off)
<1>0. EmptyOf["set"] = {} BY DEF EmptyOf
<1>1. /\ e(d).db = d /\ e(d).expired = {} /\ e(w).db = w /\ e(w).expired = {}
      /\ ~Mistyped(d, k, "set") /\ ~Mistyped(w, k, "set") /\ ~Has(d, k) /\ Has(w, k)
      /\ ContainerAt(d, k, "set") = {} /\ ContainerAt(w, k, "set") = {}
  BY <1>0, NothingExpired, Zenon DEF Stands
<1> HIDE DEF e
<1>2. set_add(d, k, values, Off).out = set_add(w, k, values, Off).out
  <2>1. CASE values = {}
    <3>1. /\ set_add(d, k, values, Off) = Result(d, Some(0), {})
          /\ set_add(w, k, values, Off) = Result(w, Some(0), {})
      BY <1>1, <2>1, Zenon DEF set_add, e
    <3> QED BY <3>1, ResultIs
  <2>2. CASE values # {}
    <3>1. \E a, b :
             /\ set_add(d, k, values, Off) = Result(a, Some(Cardinality(values \ {})), {})
             /\ set_add(w, k, values, Off) = Result(b, Some(Cardinality(values \ {})), {})
      BY <1>1, <2>2, Zenon DEF set_add, e
    <3> QED BY <3>1, ResultIs
  <2> QED BY <2>1, <2>2
<1>3. set_discard(d, k, values, Off).out = set_discard(w, k, values, Off).out
  <2>1. set_discard(d, k, values, Off) = Result(d, Some(0), {}) BY <1>1, Zenon DEF set_discard, e
  <2>2. \E b : set_discard(w, k, values, Off) = Result(b, Some(Cardinality({} \cap values)), {})
    BY <1>1, Zenon DEF set_discard, e
  <2>3. Cardinality({} \cap values) = 0
    <3>1. {} \cap values = {} BY Zenon
    <3> QED BY <3>1, Zenon DEF NothingCounts
  <2> QED BY <2>1, <2>2, <2>3, ResultIs
<1>4. set_contains(d, k, x, Off).out = set_contains(w, k, x, Off).out
  <2>1. /\ set_all(d, k, Off) = Result(d, Some({}), {})
        /\ set_all(w, k, Off) = Result(w, Some({}), {})
    BY <1>1, Zenon DEF set_all, e
  <2> DEFINE y == IF Some({}) = None THEN None ELSE Some(x \in Some({})[1])
  <2>2. ASSUME NEW b, NEW all, all = Result(b, Some({}), {})
        PROVE  [all EXCEPT !.out = IF @ = None THEN None ELSE Some(x \in @[1])].out = y
    BY <2>2 DEF Result
  <2>3. set_contains(d, k, x, Off).out = y BY <2>1, <2>2, Zenon DEF set_contains
  <2>4. set_contains(w, k, x, Off).out = y BY <2>1, <2>2, Zenon DEF set_contains
  <2> HIDE DEF y
  <2> QED BY <2>3, <2>4, Zenon
<1>5. /\ set_all(d, k, Off).out = set_all(w, k, Off).out
      /\ set_len(d, k, Off).out = set_len(w, k, Off).out
  <2>1. /\ set_all(d, k, Off) = Result(d, Some({}), {})
        /\ set_all(w, k, Off) = Result(w, Some({}), {})
    BY <1>1, Zenon DEF set_all, e
  <2>2. set_len(d, k, Off) = SizeOf(set_all(d, k, Off)) /\ set_len(w, k, Off) = SizeOf(set_all(w, k, Off))
    BY Zenon DEF set_len, SizeOf
  <2>3. SameResults(set_all(d, k, Off), set_all(w, k, Off)) BY <2>1, ResultsAlike, Zenon
  <2> QED BY <2>2, <2>3, Zenon DEF SameResults
<1> QED BY <1>2, <1>3, <1>4, <1>5, Zenon DEF SameOnSet

\* An element moves from or to an absent key as from or to an empty set.
SameOnMove(d, w, k, j, x) ==
    /\ set_move(d, k, j, x, Off).out = set_move(w, k, j, x, Off).out
    /\ set_move(d, j, k, x, Off).out = set_move(w, j, k, x, Off).out

LEMMA AbsentMove ==
    ASSUME NEW d, NEW w, NEW k, Stands(d, w, k, "set"), NEW j, NEW x
    PROVE  SameOnMove(d, w, k, j, x)
<1> DEFINE e(b, ks) == erase_all_expired(b, ks, Off)
           no == Some(FALSE)
           yes == Some(TRUE)
<1>0. EmptyOf["set"] = {} BY DEF EmptyOf
<1>1. /\ \A ks : /\ e(d, ks).db = d /\ e(d, ks).expired = {}
                 /\ e(w, ks).db = w /\ e(w, ks).expired = {}
      /\ ~Mistyped(d, k, "set") /\ ~Mistyped(w, k, "set") /\ ~Has(d, k) /\ Has(w, k)
      /\ ContainerAt(d, k, "set") = {} /\ ContainerAt(w, k, "set") = {}
  BY <1>0, NoneExpired, Zenon DEF Stands
<1> HIDE DEF e, no, yes
<1>2. ASSUME NEW i PROVE set_move(d, k, i, x, Off).out = set_move(w, k, i, x, Off).out
  <2>1. set_move(d, k, i, x, Off) = Result(d, no, {}) BY <1>1, Zenon DEF set_move, e, no, yes
  <2>2. set_move(w, k, i, x, Off) = Result(w, no, {}) BY <1>1, Zenon DEF set_move, e, no, yes
  <2> QED BY <2>1, <2>2, ResultIs
<1>3. ASSUME j # k PROVE set_move(d, j, k, x, Off).out = set_move(w, j, k, x, Off).out
  <2>1. /\ Has(w, j) <=> Has(d, j)
        /\ Mistyped(w, j, "set") <=> Mistyped(d, j, "set")
        /\ ContainerAt(w, j, "set") = ContainerAt(d, j, "set")
    <3>1. (Has(w, j) <=> Has(d, j)) /\ (Has(d, j) => w.data[j] = d.data[j]) BY <1>3, Zenon DEF Stands
    <3> QED BY <3>1, Zenon DEF Mistyped, Holds, ContainerAt
  <2>2. CASE ~Has(d, j) \/ (~Mistyped(d, j, "set") /\ x \notin ContainerAt(d, j, "set"))
    <3>1. set_move(d, j, k, x, Off) = Result(d, no, {}) BY <1>1, <2>2, Zenon DEF set_move, e, no, yes
    <3>2. set_move(w, j, k, x, Off) = Result(w, no, {})
      BY <1>1, <2>1, <2>2, Zenon DEF set_move, e, no, yes
    <3> QED BY <3>1, <3>2, ResultIs
  <2>3. CASE Mistyped(d, j, "set")
    <3>0. Has(d, j) BY <2>3, Zenon DEF Mistyped
    <3>1. set_move(d, j, k, x, Off) = Result(d, None, {}) BY <1>1, <2>3, <3>0, Zenon DEF set_move, e, no, yes
    <3>2. set_move(w, j, k, x, Off) = Result(w, None, {})
      BY <1>1, <2>1, <2>3, <3>0, Zenon DEF set_move, e, no, yes
    <3> QED BY <3>1, <3>2, ResultIs
  <2>4. CASE Has(d, j) /\ ~Mistyped(d, j, "set") /\ x \in ContainerAt(d, j, "set")
    <3>1. \E a : set_move(d, j, k, x, Off) = Result(a, yes, {})
      BY <1>1, <2>4, Zenon DEF set_move, e, no, yes
    <3>2. \E a : set_move(w, j, k, x, Off) = Result(a, yes, {})
      BY <1>1, <2>1, <2>4, Zenon DEF set_move, e, no, yes
    <3> QED BY <3>1, <3>2, ResultIs
  <2> QED BY <2>2, <2>3, <2>4, Zenon
<1> QED BY <1>2, <1>3, Zenon DEF SameOnMove

\* There is nothing to draw from either.
SameOnDraw(d, w, k, here, there) ==
    set_remove(d, k, here, Off).out = set_remove(w, k, there, Off).out

LEMMA AbsentDraw ==
    ASSUME NEW d, NEW w, NEW k, Stands(d, w, k, "set"), NEW count,
           NEW here \in Draws(d, k, count, Off), NEW there \in Draws(w, k, count, Off)
    PROVE  SameOnDraw(d, w, k, here, there)
<1> DEFINE e(b) == erase_if_expired(b, k, Off)
<1>0. EmptyOf["set"] = {} BY DEF EmptyOf
<1>1. /\ e(d).db = d /\ e(d).expired = {} /\ e(w).db = w /\ e(w).expired = {}
      /\ ~Mistyped(d, k, "set") /\ ~Mistyped(w, k, "set") /\ ~Has(d, k) /\ Has(w, k)
      /\ ContainerAt(w, k, "set") = {}
  BY <1>0, NothingExpired, Zenon DEF Stands
<1> HIDE DEF e
<1>2. there = {}
  <2>1. there \in SUBSET ContainerAt(e(w).db, k, "set") BY Zenon DEF Draws, e
  <2> QED BY <1>1, <2>1, Zenon
<1>3. set_remove(d, k, here, Off) = Result(d, Some({}), {}) BY <1>1, Zenon DEF set_remove, e
<1>4. \E a : set_remove(w, k, there, Off) = Result(a, Some({}), {})
  BY <1>1, <1>2, Zenon DEF set_remove, e
<1> QED BY <1>3, <1>4, ResultIs DEF SameOnDraw

LEMMA AbsentSetIs ==
    ASSUME NothingCounts, NEW d, NEW k, IsDb(d), k \notin DOMAIN d.data
    PROVE  AbsentSet(d, k)
<1> DEFINE w == Store(d, k, <<"set", {}>>)
<1>1. Stands(d, w, k, "set")
  <2>1. EmptyOf["set"] = {} BY DEF EmptyOf
  <2> QED BY <2>1, StandsIs, Zenon
<1> HIDE DEF w
<1>2. ASSUME NEW o \in SetWrites, o.op \in {"set_add", "set_discard"}, o.key = k
      PROVE  set_do(d, o, Off).out = set_do(w, o, Off).out
  <2>1. CASE o.op = "set_add"
    <3>1. /\ set_do(d, o, Off) = set_add(d, k, o.values, Off)
          /\ set_do(w, o, Off) = set_add(w, k, o.values, Off)
      BY <1>2, <2>1 DEF set_do
    <3>2. SameOnSet(d, w, k, o.values, 0) BY <1>1, AbsentOneSet, Zenon
    <3> QED BY <3>1, <3>2, Zenon DEF SameOnSet
  <2>2. CASE o.op = "set_discard"
    <3>1. /\ set_do(d, o, Off) = set_discard(d, k, o.values, Off)
          /\ set_do(w, o, Off) = set_discard(w, k, o.values, Off)
      BY <1>2, <2>2 DEF set_do
    <3>2. SameOnSet(d, w, k, o.values, 0) BY <1>1, AbsentOneSet, Zenon
    <3> QED BY <3>1, <3>2, Zenon DEF SameOnSet
  <2> QED BY <1>2, <2>1, <2>2, Zenon
<1>3. ASSUME NEW x \in Items
      PROVE  set_contains(d, k, x, Off).out = set_contains(w, k, x, Off).out
  <2>1. SameOnSet(d, w, k, {}, x) BY <1>1, AbsentOneSet, Zenon
  <2> QED BY <2>1, Zenon DEF SameOnSet
<1>4. set_all(d, k, Off).out = set_all(w, k, Off).out /\ set_len(d, k, Off).out = set_len(w, k, Off).out
  <2>1. SameOnSet(d, w, k, {}, 0) BY <1>1, AbsentOneSet, Zenon
  <2> QED BY <2>1, Zenon DEF SameOnSet
<1>5. ASSUME NEW j, NEW x
      PROVE  /\ set_move(d, k, j, x, Off).out = set_move(w, k, j, x, Off).out
             /\ set_move(d, j, k, x, Off).out = set_move(w, j, k, x, Off).out
  <2>1. SameOnMove(d, w, k, j, x) BY <1>1, AbsentMove, Zenon
  <2> QED BY <2>1, Zenon DEF SameOnMove
<1>6. ASSUME NEW count, NEW here \in Draws(d, k, count, Off), NEW there \in Draws(w, k, count, Off)
      PROVE  set_remove(d, k, here, Off).out = set_remove(w, k, there, Off).out
  <2>1. SameOnDraw(d, w, k, here, there) BY <1>1, AbsentDraw, Zenon
  <2> QED BY <2>1, Zenon DEF SameOnDraw
<1> QED BY <1>2, <1>3, <1>4, <1>5, <1>6, Zenon DEF AbsentSet, w

LEMMA AbsentAmongSetsIs ==
    ASSUME NEW d, NEW k, IsDb(d), k \notin DOMAIN d.data, NEW j, ~Mistyped(d, j, "set")
    PROVE  AbsentAmongSets(d, k, j)
<1> DEFINE w == Store(d, k, <<"set", {}>>)
<1>1. Stands(d, w, k, "set")
  <2>1. EmptyOf["set"] = {} BY DEF EmptyOf
  <2> QED BY <2>1, StandsIs, Zenon
<1> HIDE DEF w
<1>2. SameOnSets(d, w, k, j) BY <1>1, AbsentOtherSet, Zenon
<1> QED BY <1>2, Zenon DEF SameOnSets, AbsentAmongSets, w

LEMMA AbsentHashIs ==
    ASSUME NothingCounts, NEW d, NEW k, IsDb(d), k \notin DOMAIN d.data
    PROVE  AbsentHash(d, k)
<1> DEFINE w == Store(d, k, <<"hash", <<>>>>)
           e(b) == erase_if_expired(b, k, Off)
<1>0. EmptyOf["hash"] = <<>> BY DEF EmptyOf
<1>1. Stands(d, w, k, "hash") BY <1>0, StandsIs, Zenon
<1> HIDE DEF w
<1>2. /\ e(d).db = d /\ e(d).expired = {} /\ e(w).db = w /\ e(w).expired = {}
      /\ ~Mistyped(d, k, "hash") /\ ~Mistyped(w, k, "hash") /\ ~Has(d, k) /\ Has(w, k)
      /\ ContainerAt(d, k, "hash") = <<>> /\ ContainerAt(w, k, "hash") = <<>>
  BY <1>0, <1>1, NothingExpired, Zenon DEF Stands
<1> HIDE DEF e
<1>3. hash_all(d, k, Off) = Result(d, Ok(<<>>), {}) /\ hash_all(w, k, Off) = Result(w, Ok(<<>>), {})
  BY <1>2, Zenon DEF hash_all, e
<1>4. ASSUME NEW fs
      PROVE  hash_remove(d, k, fs, Off).out = hash_remove(w, k, fs, Off).out
  <2>1. hash_remove(d, k, fs, Off) = Result(d, Ok(0), {}) BY <1>2, Zenon DEF hash_remove, e
  <2>2. \E b : hash_remove(w, k, fs, Off) = Result(b, Ok(Cardinality(DOMAIN <<>> \cap fs)), {})
    BY <1>2, Zenon DEF hash_remove, e
  <2>3. Cardinality(DOMAIN <<>> \cap fs) = 0
    <3>1. DOMAIN <<>> \cap fs = {} OBVIOUS
    <3> QED BY <3>1, Zenon DEF NothingCounts
  <2> QED BY <2>1, <2>2, <2>3, ResultIs
<1>5. hash_all(d, k, Off).out = Ok(<<>>) /\ hash_all(w, k, Off).out = Ok(<<>>) BY <1>3, ResultIs
<1>6. ASSUME NEW b, NEW y PROVE OfHash(Result(b, Ok(<<>>), {}), y).out = Ok(y)
  BY DEF OfHash, Result, Ok
<1>7. ASSUME NEW fs
      PROVE  hash_many_get(d, k, fs, Off).out = hash_many_get(w, k, fs, Off).out
  <2> DEFINE g(h) == [f \in fs |-> IF f \in DOMAIN h[2] THEN Some(h[2][f]) ELSE None]
  <2>1. /\ hash_many_get(d, k, fs, Off) = OfHash(hash_all(d, k, Off), g(hash_all(d, k, Off).out))
        /\ hash_many_get(w, k, fs, Off) = OfHash(hash_all(w, k, Off), g(hash_all(w, k, Off).out))
    BY Zenon DEF hash_many_get
  <2> HIDE DEF g
  <2> QED BY <1>3, <1>5, <1>6, <2>1, Zenon
<1>8. /\ hash_len(d, k, Off).out = hash_len(w, k, Off).out
      /\ hash_keys(d, k, Off).out = hash_keys(w, k, Off).out
      /\ hash_values(d, k, Off).out = hash_values(w, k, Off).out
  <2> DEFINE o == Ok(<<>>)
  <2>1. /\ hash_len(d, k, Off).out = Ok(Cardinality(DOMAIN o[2]))
        /\ hash_len(w, k, Off).out = Ok(Cardinality(DOMAIN o[2]))
    BY <1>3, <1>5, <1>6, Zenon DEF hash_len
  <2>2. hash_keys(d, k, Off).out = Ok(DOMAIN o[2]) /\ hash_keys(w, k, Off).out = Ok(DOMAIN o[2])
    BY <1>3, <1>5, <1>6, Zenon DEF hash_keys
  <2>3. hash_values(d, k, Off).out = Ok(Range(o[2])) /\ hash_values(w, k, Off).out = Ok(Range(o[2]))
    BY <1>3, <1>5, <1>6, Zenon DEF hash_values
  <2> QED BY <2>1, <2>2, <2>3, Zenon
<1>9. ASSUME NEW f
      PROVE  hash_contains(d, k, f, Off).out = hash_contains(w, k, f, Off).out
  BY <1>3, <1>5, <1>6, Zenon DEF hash_contains
<1>10. ASSUME NEW f
       PROVE  /\ hash_get(d, k, f, Off).out = hash_get(w, k, f, Off).out
              /\ hash_key_len(d, k, f, Off).out = hash_key_len(w, k, f, Off).out
  <2>1. ASSUME NEW b, hash_all(b, k, Off) = Result(b, Ok(<<>>), {})
        PROVE  /\ hash_get(b, k, f, Off).out = Error("BadKey")
               /\ hash_key_len(b, k, f, Off).out = Error("BadKey")
    <3>1. hash_get(b, k, f, Off) = [Result(b, Ok(<<>>), {}) EXCEPT !.out =
                                       IF @[1] = "error" THEN @
                                       ELSE IF f \notin DOMAIN @[2] THEN Error("BadKey") ELSE Ok(@[2][f])]
      BY <2>1, Zenon DEF hash_get
    <3>2. hash_get(b, k, f, Off) = Result(b, Error("BadKey"), {})
      <4>1. Ok(<<>>)[1] # "error" /\ f \notin DOMAIN Ok(<<>>)[2] BY DEF Ok
      <4> QED BY <3>1, <4>1 DEF Result
    <3>3. hash_key_len(b, k, f, Off) = [Result(b, Error("BadKey"), {}) EXCEPT !.out =
                                           IF @[1] = "error" THEN @ ELSE Ok(Len(@[2]))]
      BY <3>2, Zenon DEF hash_key_len
    <3>4. hash_key_len(b, k, f, Off).out = Error("BadKey") BY <3>3 DEF Result, Error
    <3> QED BY <3>2, <3>4, ResultIs
  <2> QED BY <1>3, <2>1, Zenon
<1> QED BY <1>4, <1>5, <1>7, <1>8, <1>9, <1>10, Zenon DEF AbsentHash, w
=============================================================================
