----------------------- MODULE ContainerRequestProofs -----------------------
(***************************************************************************)
(* What the requests of ContainerRedo do to a database with containers:    *)
(* lemmas about single operations, for any keys, elements, fields and      *)
(* indices; and the invariant CInv, with the steps that keep it which do   *)
(* not count elements.  ContainerRedoProofs has the others.                *)
(***************************************************************************)
EXTENDS ContainerRedo, WalRedoProofs

-----------------------------------------------------------------------------
(* Values and what an operation leaves *)

\* A list is a sequence, of whatever it has been given.
IsList(l) == l \in Seq(Range(l))

\* A container holds what it is for.
GoodValue(v) ==
    /\ v[1] = "list" => IsList(v[2])
    /\ v[1] = "set" => v[2] \subseteq Items
    /\ v[1] = "hash" => IsFcn(v[2])

GoodDb(d) == IsDb(d) /\ \A k \in DOMAIN d.data : GoodValue(d.data[k])

\* e has at each key what d has there, or a new value that is not empty; at the
\* keys in ks it may be.
Leaves(d, e, ks) ==
    \A k \in DOMAIN e.data :
        \/ k \in DOMAIN d.data /\ e.data[k] = d.data[k]
        \/ GoodValue(e.data[k]) /\ (k \in ks \/ ~IsEmpty(e.data[k]))

LEMMA LeavesGood ==
    ASSUME NEW d, NEW e, NEW ks, GoodDb(d), IsDb(e), Leaves(d, e, ks)
    PROVE  GoodDb(e)
BY Zenon DEF GoodDb, Leaves

LEMMA LeavesItself ==
    ASSUME NEW d, NEW ks
    PROVE  Leaves(d, d, ks)
BY Zenon DEF Leaves

LEMMA RedoLeaves ==
    ASSUME NEW d, NEW gone, NEW ks
    PROVE  Leaves(d, wal_redo_expiry(d, gone), ks)
<1> DEFINE e == wal_redo_expiry(d, gone)
<1>1. \A k \in DOMAIN e.data : k \in DOMAIN d.data /\ e.data[k] = d.data[k]
  BY DEF wal_redo_expiry, Restrict
<1> QED BY <1>1, Zenon DEF Leaves

LEMMA StoreLeaves ==
    ASSUME NEW d, NEW e, NEW k, NEW v, NEW ks, IsDb(e), Leaves(d, e, ks),
           GoodValue(v), k \in ks \/ ~IsEmpty(v)
    PROVE  IsDb(Store(e, k, v)) /\ Leaves(d, Store(e, k, v), ks)
<1> DEFINE s == Store(e, k, v)
<1>1. IsDb(s) /\ s.data = Put(e.data, k, v) BY StoreIs
<1>2. /\ DOMAIN s.data = DOMAIN e.data \cup {k}
      /\ \A x \in DOMAIN e.data \cup {k} : s.data[x] = IF x = k THEN v ELSE e.data[x]
  <2>1. /\ DOMAIN Put(e.data, k, v) = DOMAIN e.data \cup {k}
        /\ \A x \in DOMAIN e.data \cup {k} : Put(e.data, k, v)[x] = IF x = k THEN v ELSE e.data[x]
    BY DEF Put
  <2> HIDE DEF s
  <2> QED BY <1>1, <2>1, Zenon
<1> HIDE DEF s
<1>3. ASSUME NEW x \in DOMAIN s.data
      PROVE  \/ x \in DOMAIN d.data /\ s.data[x] = d.data[x]
             \/ GoodValue(s.data[x]) /\ (x \in ks \/ ~IsEmpty(s.data[x]))
  <2>1. CASE x = k
    <3>1. s.data[x] = v BY <1>2, <2>1, Zenon
    <3> QED BY <2>1, <3>1, Zenon
  <2>2. CASE x # k
    <3>1. x \in DOMAIN e.data /\ s.data[x] = e.data[x] BY <1>2, <2>2, Zenon
    <3> QED BY <3>1, Zenon DEF Leaves
  <2> QED BY <2>1, <2>2
<1>4. Leaves(d, s, ks) BY <1>3, Zenon DEF Leaves
<1> QED BY <1>1, <1>4 DEF s

LEMMA ExpireLeaves ==
    ASSUME NEW d, NEW e, NEW k, NEW ks, IsDb(e), Leaves(d, e, ks)
    PROVE  IsDb(do_expire(e, k)) /\ Leaves(d, do_expire(e, k), ks)
<1> DEFINE s == do_expire(e, k)
<1>1. IsDb(s) /\ s.data = Without(e.data, k) BY ExpireIs
<1>2. DOMAIN s.data = DOMAIN e.data \ {k} /\ \A x \in DOMAIN e.data \ {k} : s.data[x] = e.data[x]
  <2>1. /\ DOMAIN Without(e.data, k) = DOMAIN e.data \ {k}
        /\ \A x \in DOMAIN e.data \ {k} : Without(e.data, k)[x] = e.data[x]
    BY WithoutIs
  <2> HIDE DEF s
  <2> QED BY <1>1, <2>1, Zenon
<1> HIDE DEF s
<1>3. Leaves(d, s, ks) BY <1>2, Zenon DEF Leaves
<1> QED BY <1>1, <1>3 DEF s

LEMMA ClearLeaves ==
    ASSUME NEW d, NEW e, NEW k, NEW ks, IsDb(e), Leaves(d, e, ks)
    PROVE  IsDb(clear_expiry(e, k).db) /\ Leaves(d, clear_expiry(e, k).db, ks)
<1> DEFINE s == clear_expiry(e, k).db
<1>1. IsDb(s) /\ s.data = e.data
  <2>1. s = [data |-> e.data, expiry |-> Without(e.expiry, k)] /\ IsDb(s) BY ClearIs
  <2> HIDE DEF s
  <2> QED BY <2>1
<1> HIDE DEF s
<1>2. Leaves(d, s, ks) BY <1>1, Zenon DEF Leaves
<1> QED BY <1>1, <1>2 DEF s

LEMMA StoreOrDelLeaves ==
    ASSUME NEW d, NEW e, NEW k, NEW v, NEW ks, IsDb(e), Leaves(d, e, ks), GoodValue(v)
    PROVE  IsDb(StoreOrDel(e, k, v)) /\ Leaves(d, StoreOrDel(e, k, v), ks)
<1>1. CASE IsEmpty(v)
  <2>1. StoreOrDel(e, k, v) = do_expire(e, k) BY <1>1 DEF StoreOrDel, del, Result
  <2> QED BY <2>1, ExpireLeaves, Zenon
<1>2. CASE ~IsEmpty(v)
  <2>1. StoreOrDel(e, k, v) = Store(e, k, v) BY <1>2 DEF StoreOrDel
  <2> QED BY <1>2, <2>1, StoreLeaves, Zenon
<1> QED BY <1>1, <1>2

\* erase_if_expired and erase_all_expired: what they leave is what redoing the
\* `expire' entries leaves, and if they find nothing they do as without expiry.
Erasure(d, e, off) ==
    /\ GoodDb(e.db) /\ Leaves(d, e.db, {})
    /\ e.db = wal_redo_expiry(d, e.expired)
    /\ e.expired = {} => off = e

LEMMA ErasureIs ==
    ASSUME NEW d, NEW k, NEW t \in Int, GoodDb(d)
    PROVE  Erasure(d, erase_if_expired(d, k, t), erase_if_expired(d, k, Off))
<1> DEFINE e == erase_if_expired(d, k, t)
<1>0. IsDb(d) BY DEF GoodDb
<1>1. IsDb(e.db) /\ e.db = wal_redo_expiry(d, e.expired) BY <1>0, EraseIs
<1>2. Leaves(d, e.db, {}) BY <1>1, RedoLeaves
<1>3. GoodDb(e.db) BY <1>1, <1>2, LeavesGood
<1>4. ASSUME e.expired = {} PROVE erase_if_expired(d, k, Off) = e
  <2>1. ~is_expired(d, k, Off) BY <1>0 DEF is_expired, Off, IsDb
  <2>2. ~is_expired(d, k, t) BY <1>4 DEF erase_if_expired, Result
  <2> QED BY <2>1, <2>2 DEF erase_if_expired
<1> QED BY <1>1, <1>2, <1>3, <1>4 DEF Erasure

LEMMA ErasureOfAll ==
    ASSUME NEW d, NEW ks, NEW t \in Int, GoodDb(d)
    PROVE  Erasure(d, erase_all_expired(d, ks, t), erase_all_expired(d, ks, Off))
<1> DEFINE e == erase_all_expired(d, ks, t)
           gone(u) == {k \in ks : is_expired(d, k, u)}
<1>0. IsDb(d) BY DEF GoodDb
<1>1. e.db = wal_redo_expiry(d, gone(t)) /\ e.expired = gone(t)
  BY Zenon DEF erase_all_expired, wal_redo_expiry, Result
<1>2. IsDb(e.db) BY <1>0, <1>1, RedoExpiry
<1>3. Leaves(d, e.db, {}) BY <1>1, RedoLeaves
<1>4. GoodDb(e.db) BY <1>2, <1>3, LeavesGood
<1>5. ASSUME e.expired = {} PROVE erase_all_expired(d, ks, Off) = e
  <2>1. gone(Off) = {} BY <1>0 DEF is_expired, Off, IsDb
  <2>2. gone(Off) = gone(t) BY <1>1, <1>5, <2>1
  <2> QED BY <2>2, Zenon DEF erase_all_expired
<1> QED BY <1>1, <1>2, <1>3, <1>4, <1>5 DEF Erasure

-----------------------------------------------------------------------------
(* Containers *)

LEMMA EmptyIs ==
    ASSUME NEW x
    PROVE  /\ IsEmpty(<<"list", x>>) <=> x = <<>>
           /\ IsEmpty(<<"set", x>>) <=> x = {}
           /\ IsEmpty(<<"hash", x>>) <=> x = <<>>
BY DEF IsEmpty, EmptyOf

LEMMA OtherIsGood ==
    ASSUME NEW v, v[1] \in {"str", "int", "float"}
    PROVE  GoodValue(v) /\ ~IsEmpty(v)
BY DEF GoodValue, IsEmpty, EmptyOf

LEMMA ListOf ==
    ASSUME NEW S, NEW s \in Seq(S)
    PROVE  IsList(s)
BY DEF IsList, Range

LEMMA ListIs ==
    ASSUME NEW l, IsList(l)
    PROVE  Len(l) \in Nat /\ DOMAIN l = 1 .. Len(l) /\ l = [i \in 1 .. Len(l) |-> l[i]]
BY DEF IsList

LEMMA ListConcat ==
    ASSUME NEW a, NEW b, IsList(a), IsList(b)
    PROVE  IsList(a \o b) /\ Len(a \o b) = Len(a) + Len(b)
<1> DEFINE S == Range(a) \cup Range(b)
<1>1. a \in Seq(S) /\ b \in Seq(S) BY DEF IsList
<1> HIDE DEF S
<1>2. a \o b \in Seq(S) /\ Len(a \o b) = Len(a) + Len(b) BY <1>1
<1> QED BY <1>2, ListOf

LEMMA ListPart ==
    ASSUME NEW l, IsList(l), NEW m \in Nat \ {0}, NEW n \in Nat, n <= Len(l)
    PROVE  IsList(SubSeq(l, m, n))
<1> DEFINE S == Range(l)
<1>1. l \in Seq(S) /\ Len(l) \in Nat BY DEF IsList
<1> HIDE DEF S
<1>2. SubSeq(l, m, n) \in Seq(S) BY <1>1
<1> QED BY <1>2, ListOf

\* A list by its elements.
LEMMA ListMade ==
    ASSUME NEW n \in Nat, NEW f, f = [i \in 1 .. n |-> f[i]]
    PROVE  IsList(f) /\ Len(f) = n
<1> DEFINE S == {f[i] : i \in 1 .. n}
<1>1. \A i \in 1 .. n : f[i] \in S OBVIOUS
<1> HIDE DEF S
<1>2. f \in [1 .. n -> S] BY <1>1
<1>3. f \in Seq(S) /\ Len(f) = n BY <1>2
<1> QED BY <1>3, ListOf

LEMMA ContainersGood ==
    ASSUME NEW d, NEW k, GoodDb(d)
    PROVE  /\ IsList(ContainerAt(d, k, "list"))
           /\ ContainerAt(d, k, "set") \subseteq Items
           /\ IsFcn(ContainerAt(d, k, "hash"))
<1>1. IsList(ContainerAt(d, k, "list"))
  <2>1. CASE Holds(d, k, "list")
    <3>1. ContainerAt(d, k, "list") = d.data[k][2] BY <2>1 DEF ContainerAt
    <3>2. GoodValue(d.data[k]) /\ d.data[k][1] = "list" BY <2>1, Zenon DEF GoodDb, Holds, Has
    <3> QED BY <3>1, <3>2, Zenon DEF GoodValue
  <2>2. CASE ~Holds(d, k, "list")
    <3>1. ContainerAt(d, k, "list") = <<>> BY <2>2 DEF ContainerAt, EmptyOf
    <3>2. <<>> \in Seq({}) OBVIOUS
    <3> QED BY <3>1, <3>2, ListOf
  <2> QED BY <2>1, <2>2
<1>2. ContainerAt(d, k, "set") \subseteq Items
  <2>1. CASE Holds(d, k, "set")
    <3>1. ContainerAt(d, k, "set") = d.data[k][2] BY <2>1 DEF ContainerAt
    <3>2. GoodValue(d.data[k]) /\ d.data[k][1] = "set" BY <2>1, Zenon DEF GoodDb, Holds, Has
    <3> QED BY <3>1, <3>2, Zenon DEF GoodValue
  <2>2. CASE ~Holds(d, k, "set") BY <2>2 DEF ContainerAt, EmptyOf
  <2> QED BY <2>1, <2>2
<1>3. IsFcn(ContainerAt(d, k, "hash"))
  <2>1. CASE Holds(d, k, "hash")
    <3>1. ContainerAt(d, k, "hash") = d.data[k][2] BY <2>1 DEF ContainerAt
    <3>2. GoodValue(d.data[k]) /\ d.data[k][1] = "hash" BY <2>1, Zenon DEF GoodDb, Holds, Has
    <3> QED BY <3>1, <3>2, Zenon DEF GoodValue
  <2>2. CASE ~Holds(d, k, "hash") BY <2>2 DEF ContainerAt, EmptyOf, IsFcn
  <2> QED BY <2>1, <2>2
<1> QED BY <1>1, <1>2, <1>3

-----------------------------------------------------------------------------
(* The requests on lists *)

\* What a request on the list at a key does: it erases the key if that has
\* expired, stores no empty list, changes nothing more if it fails, and if it
\* finds nothing expired its entry does the same.
ListProper(d, k, t, r, off) ==
    /\ r.expired = erase_if_expired(d, k, t).expired
    /\ IsDb(r.db) /\ Leaves(d, r.db, {})
    /\ r.out[1] = "ok" \/ r.db = erase_if_expired(d, k, t).db
    /\ r.expired = {} => off = r

\* A request that fails, or has nothing to do.
LEMMA ListRefused ==
    ASSUME NEW d, NEW k, NEW t \in Int, GoodDb(d), NEW out, NEW r, NEW off,
           r = Result(erase_if_expired(d, k, t).db, out, erase_if_expired(d, k, t).expired),
           erase_if_expired(d, k, t).expired = {} => off = r
    PROVE  ListProper(d, k, t, r, off)
<1> DEFINE e == erase_if_expired(d, k, t)
<1>1. Erasure(d, e, erase_if_expired(d, k, Off)) BY ErasureIs
<1>2. r.db = e.db /\ r.expired = e.expired BY ResultIs
<1> HIDE DEF e
<1>3. IsDb(e.db) /\ Leaves(d, e.db, {}) BY <1>1, Zenon DEF Erasure, GoodDb
<1> QED BY <1>2, <1>3, Zenon DEF ListProper, e

\* A request that stores a list that is not empty.
LEMMA ListStored ==
    ASSUME NEW d, NEW k, NEW t \in Int, GoodDb(d), NEW l, IsList(l), l # <<>>, NEW out, NEW r, NEW off,
           r = Result(Store(erase_if_expired(d, k, t).db, k, <<"list", l>>), Ok(out),
                      erase_if_expired(d, k, t).expired),
           erase_if_expired(d, k, t).expired = {} => off = r
    PROVE  ListProper(d, k, t, r, off)
<1> DEFINE e == erase_if_expired(d, k, t)
<1>1. Erasure(d, e, erase_if_expired(d, k, Off)) BY ErasureIs
<1>2. r.db = Store(e.db, k, <<"list", l>>) /\ r.expired = e.expired /\ r.out = Ok(out) BY ResultIs
<1>3. GoodValue(<<"list", l>>) BY DEF GoodValue
<1>4. ~IsEmpty(<<"list", l>>) BY EmptyIs
<1> HIDE DEF e
<1>5. IsDb(e.db) /\ Leaves(d, e.db, {}) BY <1>1, Zenon DEF Erasure, GoodDb
<1>6. IsDb(r.db) /\ Leaves(d, r.db, {}) BY <1>2, <1>3, <1>4, <1>5, StoreLeaves, Zenon
<1>7. r.out[1] = "ok" BY <1>2 DEF Ok
<1> QED BY <1>2, <1>6, <1>7, Zenon DEF ListProper, e

\* A request that stores what is left of a list, unless that is empty.
LEMMA ListCut ==
    ASSUME NEW d, NEW k, NEW t \in Int, GoodDb(d), NEW l, IsList(l), NEW out, NEW r, NEW off,
           r = Result(StoreOrDel(erase_if_expired(d, k, t).db, k, <<"list", l>>), Ok(out),
                      erase_if_expired(d, k, t).expired),
           erase_if_expired(d, k, t).expired = {} => off = r
    PROVE  ListProper(d, k, t, r, off)
<1> DEFINE e == erase_if_expired(d, k, t)
<1>1. Erasure(d, e, erase_if_expired(d, k, Off)) BY ErasureIs
<1>2. r.db = StoreOrDel(e.db, k, <<"list", l>>) /\ r.expired = e.expired /\ r.out = Ok(out) BY ResultIs
<1>3. GoodValue(<<"list", l>>) BY DEF GoodValue
<1> HIDE DEF e
<1>5. IsDb(e.db) /\ Leaves(d, e.db, {}) BY <1>1, Zenon DEF Erasure, GoodDb
<1>6. IsDb(r.db) /\ Leaves(d, r.db, {}) BY <1>2, <1>3, <1>5, StoreOrDelLeaves, Zenon
<1>7. r.out[1] = "ok" BY <1>2 DEF Ok
<1> QED BY <1>2, <1>6, <1>7, Zenon DEF ListProper, e

LEMMA ListSetIs ==
    ASSUME NEW d, NEW k, NEW index \in Int, NEW x, NEW t \in Int, GoodDb(d)
    PROVE  ListProper(d, k, t, list_set(d, k, index, x, t), list_set(d, k, index, x, Off))
<1> DEFINE e == erase_if_expired(d, k, t)
           it == iterator_or_error(e.db, k, index)
           l == ContainerAt(e.db, k, "list")
           r == list_set(d, k, index, x, t)
           off == list_set(d, k, index, x, Off)
<1>0. Erasure(d, e, erase_if_expired(d, k, Off)) BY ErasureIs
<1>1. e.expired = {} => off = r
  <2>1. e.expired = {} => erase_if_expired(d, k, Off) = e BY <1>0, Zenon DEF Erasure
  <2> QED BY <2>1, Zenon DEF list_set
<1>2. CASE it[1] = "error"
  <2>1. r = Result(e.db, it, e.expired) BY <1>2, Zenon DEF list_set
  <2> HIDE DEF r, off, it
  <2> QED BY <1>1, <2>1, ListRefused DEF r, off
<1>3. CASE it[1] # "error"
  <2>1. IsList(l) BY <1>0, ContainersGood, Zenon DEF Erasure
  <2>2. Len(l) \in Nat /\ DOMAIN l = 1 .. Len(l) /\ l = [i \in 1 .. Len(l) |-> l[i]]
    BY <2>1, ListIs, Zenon
  <2>3. /\ Holds(e.db, k, "list")
        /\ iterator_or_end(Len(l), index) # Len(l)
        /\ it = Ok(iterator_or_end(Len(l), index))
    BY <1>3 DEF iterator_or_error, Error, Ok, ContainerAt
  <2> HIDE DEF l
  <2>4. it[2] + 1 \in 1 .. Len(l)
    <3>1. it[2] = iterator_or_end(Len(l), index) BY <2>3 DEF Ok
    <3> HIDE DEF it
    <3> QED BY <2>2, <2>3, <3>1 DEF iterator_or_end
  <2> DEFINE m == [l EXCEPT ![it[2] + 1] = x]
  <2>5. r = Result(Store(e.db, k, <<"list", m>>), Ok(l[it[2] + 1]), e.expired)
    BY <1>3, Zenon DEF list_set, l
  <2>6. IsList(m) /\ Len(m) = Len(l)
    <3> HIDE DEF it
    <3>1. m = [i \in 1 .. Len(l) |-> m[i]] BY <2>2
    <3> HIDE DEF m
    <3> QED BY <2>2, <3>1, ListMade
  <2>7. m # <<>> BY <2>4, <2>6
  <2> HIDE DEF r, off, it, m
  <2> QED BY <1>1, <2>5, <2>6, <2>7, ListStored DEF r, off
<1> QED BY <1>2, <1>3

LEMMA ListPushIs ==
    ASSUME NEW d, NEW k, NEW values, IsList(values), NEW pushed, NEW t \in Int, GoodDb(d), NEW off,
           IsList(pushed), Len(pushed) >= Len(values),
           erase_if_expired(d, k, t).expired = {} =>
               off = ListPush(erase_if_expired(d, k, t), k, values, pushed)
    PROVE  ListProper(d, k, t, ListPush(erase_if_expired(d, k, t), k, values, pushed), off)
<1> DEFINE e == erase_if_expired(d, k, t)
           r == ListPush(e, k, values, pushed)
<1>1. CASE values = <<>>
  <2>1. r = Result(e.db, Ok(0), e.expired) BY <1>1, Zenon DEF ListPush
  <2> HIDE DEF r
  <2> QED BY <2>1, ListRefused DEF r
<1>2. CASE values # <<>> /\ Mistyped(e.db, k, "list")
  <2>1. r = Result(e.db, Error("NotList"), e.expired) BY <1>2, Zenon DEF ListPush
  <2> HIDE DEF r
  <2> QED BY <2>1, ListRefused DEF r
<1>3. CASE values # <<>> /\ ~Mistyped(e.db, k, "list")
  <2>1. r = Result(Store(e.db, k, <<"list", pushed>>), Ok(Len(pushed)), e.expired)
    BY <1>3, Zenon DEF ListPush
  <2>2. Len(values) # 0 BY <1>3 DEF IsList
  <2>3. pushed # <<>> BY <2>2, ListIs
  <2> HIDE DEF r
  <2> QED BY <2>1, <2>3, ListStored DEF r
<1> QED BY <1>1, <1>2, <1>3

LEMMA ListPushLeftIs ==
    ASSUME NEW d, NEW k, NEW values, IsList(values), NEW t \in Int, GoodDb(d)
    PROVE  ListProper(d, k, t, list_push_left(d, k, values, t), list_push_left(d, k, values, Off))
<1> DEFINE e == erase_if_expired(d, k, t)
           l == ContainerAt(e.db, k, "list")
           turned == [i \in 1..Len(values) |-> values[Len(values) + 1 - i]]
           r == list_push_left(d, k, values, t)
           off == list_push_left(d, k, values, Off)
<1>0. Erasure(d, e, erase_if_expired(d, k, Off)) BY ErasureIs
<1>1. e.expired = {} => off = r
  <2>1. e.expired = {} => erase_if_expired(d, k, Off) = e BY <1>0, Zenon DEF Erasure
  <2> QED BY <2>1, Zenon DEF list_push_left
<1>2. r = ListPush(e, k, values, turned \o l) BY Zenon DEF list_push_left
<1>3. IsList(l) /\ Len(l) \in Nat /\ Len(values) \in Nat BY <1>0, ContainersGood, ListIs, Zenon DEF Erasure
<1>4. IsList(turned) /\ Len(turned) = Len(values)
  <2>1. turned = [i \in 1 .. Len(values) |-> turned[i]] OBVIOUS
  <2> HIDE DEF turned
  <2> QED BY <1>3, <2>1, ListMade
<1> HIDE DEF turned, l, r, off
<1>5. IsList(turned \o l) /\ Len(turned \o l) >= Len(values) BY <1>3, <1>4, ListConcat
<1> QED BY <1>1, <1>2, <1>5, ListPushIs DEF r, off

LEMMA ListPushRightIs ==
    ASSUME NEW d, NEW k, NEW values, IsList(values), NEW t \in Int, GoodDb(d)
    PROVE  ListProper(d, k, t, list_push_right(d, k, values, t), list_push_right(d, k, values, Off))
<1> DEFINE e == erase_if_expired(d, k, t)
           l == ContainerAt(e.db, k, "list")
           r == list_push_right(d, k, values, t)
           off == list_push_right(d, k, values, Off)
<1>0. Erasure(d, e, erase_if_expired(d, k, Off)) BY ErasureIs
<1>1. e.expired = {} => off = r
  <2>1. e.expired = {} => erase_if_expired(d, k, Off) = e BY <1>0, Zenon DEF Erasure
  <2> QED BY <2>1, Zenon DEF list_push_right
<1>2. r = ListPush(e, k, values, l \o values) BY Zenon DEF list_push_right
<1>3. IsList(l) /\ Len(l) \in Nat /\ Len(values) \in Nat BY <1>0, ContainersGood, ListIs, Zenon DEF Erasure
<1> HIDE DEF l, r, off
<1>5. IsList(l \o values) /\ Len(l \o values) >= Len(values) BY <1>3, ListConcat
<1> QED BY <1>1, <1>2, <1>5, ListPushIs DEF r, off

LEMMA ListPopIs ==
    ASSUME NEW d, NEW k, NEW taken, NEW rest, NEW t \in Int, GoodDb(d), NEW off, IsList(rest),
           erase_if_expired(d, k, t).expired = {} =>
               off = ListPop(erase_if_expired(d, k, t), k, taken, rest)
    PROVE  ListProper(d, k, t, ListPop(erase_if_expired(d, k, t), k, taken, rest), off)
<1> DEFINE e == erase_if_expired(d, k, t)
           r == ListPop(e, k, taken, rest)
<1>1. CASE ~Has(e.db, k)
  <2>1. r = Result(e.db, Ok(<<>>), e.expired) BY <1>1, Zenon DEF ListPop
  <2> HIDE DEF r
  <2> QED BY <2>1, ListRefused DEF r
<1>2. CASE Has(e.db, k) /\ ~Holds(e.db, k, "list")
  <2>1. r = Result(e.db, Error("NotList"), e.expired) BY <1>2, Zenon DEF ListPop
  <2> HIDE DEF r
  <2> QED BY <2>1, ListRefused DEF r
<1>3. CASE Has(e.db, k) /\ Holds(e.db, k, "list")
  <2>1. r = Result(StoreOrDel(e.db, k, <<"list", rest>>), Ok(taken), e.expired)
    BY <1>3, Zenon DEF ListPop
  <2> HIDE DEF r
  <2> QED BY <2>1, ListCut DEF r
<1> QED BY <1>1, <1>2, <1>3

\* Where the pops cut.
LEMMA PopCut ==
    ASSUME NEW size \in Nat, NEW n \in Int
    PROVE  (IF n < -size THEN 0 ELSE iterator_or_end(size, n)) \in 0 .. size
BY DEF iterator_or_end

LEMMA ListPopLeftIs ==
    ASSUME NEW d, NEW k, NEW n \in Int, NEW t \in Int, GoodDb(d)
    PROVE  ListProper(d, k, t, list_pop_left(d, k, n, t), list_pop_left(d, k, n, Off))
<1> DEFINE e == erase_if_expired(d, k, t)
           l == ContainerAt(e.db, k, "list")
           it == IF n < -Len(l) THEN 0 ELSE iterator_or_end(Len(l), n)
           r == list_pop_left(d, k, n, t)
           off == list_pop_left(d, k, n, Off)
<1>0. Erasure(d, e, erase_if_expired(d, k, Off)) BY ErasureIs
<1>1. e.expired = {} => off = r
  <2>1. e.expired = {} => erase_if_expired(d, k, Off) = e BY <1>0, Zenon DEF Erasure
  <2> QED BY <2>1, Zenon DEF list_pop_left
<1>2. r = ListPop(e, k, SubSeq(l, 1, it), SubSeq(l, it + 1, Len(l))) BY Zenon DEF list_pop_left
<1>3. IsList(l) /\ Len(l) \in Nat BY <1>0, ContainersGood, ListIs, Zenon DEF Erasure
<1> HIDE DEF l
<1>4. it \in 0 .. Len(l) BY <1>3, PopCut
<1> HIDE DEF it
<1>5. IsList(SubSeq(l, it + 1, Len(l)))
  <2>1. it + 1 \in Nat \ {0} BY <1>3, <1>4
  <2> QED BY <1>3, <2>1, ListPart
<1> HIDE DEF r, off
<1> QED BY <1>1, <1>2, <1>5, ListPopIs DEF r, off

LEMMA ListPopRightIs ==
    ASSUME NEW d, NEW k, NEW n \in Int, NEW t \in Int, GoodDb(d)
    PROVE  ListProper(d, k, t, list_pop_right(d, k, n, t), list_pop_right(d, k, n, Off))
<1> DEFINE e == erase_if_expired(d, k, t)
           l == ContainerAt(e.db, k, "list")
           it == IF n < -Len(l) THEN 0 ELSE reverse_iterator_or_rend(Len(l), n)
           r == list_pop_right(d, k, n, t)
           off == list_pop_right(d, k, n, Off)
<1>0. Erasure(d, e, erase_if_expired(d, k, Off)) BY ErasureIs
<1>1. e.expired = {} => off = r
  <2>1. e.expired = {} => erase_if_expired(d, k, Off) = e BY <1>0, Zenon DEF Erasure
  <2> QED BY <2>1, Zenon DEF list_pop_right
<1>2. r = ListPop(e, k, SubSeq(l, Len(l) - it + 1, Len(l)), SubSeq(l, 1, Len(l) - it))
  BY Zenon DEF list_pop_right
<1>3. IsList(l) /\ Len(l) \in Nat BY <1>0, ContainersGood, ListIs, Zenon DEF Erasure
<1> HIDE DEF l
<1>4. it \in 0 .. Len(l) BY <1>3, PopCut DEF reverse_iterator_or_rend
<1> HIDE DEF it
<1>5. IsList(SubSeq(l, 1, Len(l) - it))
  <2>1. Len(l) - it \in Nat /\ Len(l) - it <= Len(l) BY <1>3, <1>4
  <2> QED BY <1>3, <2>1, ListPart
<1> HIDE DEF r, off
<1> QED BY <1>1, <1>2, <1>5, ListPopIs DEF r, off

LEMMA ListTrimIs ==
    ASSUME NEW d, NEW k, NEW start \in Int, NEW end \in Int, NEW t \in Int, GoodDb(d)
    PROVE  ListProper(d, k, t, list_trim(d, k, start, end, t), list_trim(d, k, start, end, Off))
<1> DEFINE e == erase_if_expired(d, k, t)
           l == ContainerAt(e.db, k, "list")
           pair == iterator_pair_inclusive(Len(l), start, end)
           kept == SubSeq(l, pair[1] + 1, pair[2])
           r == list_trim(d, k, start, end, t)
           off == list_trim(d, k, start, end, Off)
<1>0. Erasure(d, e, erase_if_expired(d, k, Off)) BY ErasureIs
<1>1. e.expired = {} => off = r
  <2>1. e.expired = {} => erase_if_expired(d, k, Off) = e BY <1>0, Zenon DEF Erasure
  <2> QED BY <2>1, Zenon DEF list_trim
<1>2. IsList(l) /\ Len(l) \in Nat BY <1>0, ContainersGood, ListIs, Zenon DEF Erasure
<1>3. CASE Mistyped(e.db, k, "list")
  <2>1. r = Result(e.db, Error("NotList"), e.expired) BY <1>3, Zenon DEF list_trim
  <2> HIDE DEF r, off
  <2> QED BY <1>1, <2>1, ListRefused DEF r, off
<1>4. CASE ~Mistyped(e.db, k, "list") /\ (~Has(e.db, k) \/ is_invalid_range(start, end))
  <2>1. r = Result(e.db, Ok(0), e.expired) BY <1>4, Zenon DEF list_trim
  <2> HIDE DEF r, off
  <2> QED BY <1>1, <2>1, ListRefused DEF r, off
<1>5. CASE ~Mistyped(e.db, k, "list") /\ ~(~Has(e.db, k) \/ is_invalid_range(start, end))
  <2>1. r = Result(StoreOrDel(e.db, k, <<"list", kept>>), Ok(Len(l) - Len(kept)), e.expired)
    BY <1>5, Zenon DEF list_trim
  <2> HIDE DEF l
  <2>2. pair[1] \in 0 .. Len(l) /\ pair[2] \in 0 .. Len(l) BY <1>2, PairIs
  <2> HIDE DEF pair
  <2>3. IsList(kept)
    <3>1. pair[1] + 1 \in Nat \ {0} /\ pair[2] \in Nat /\ pair[2] <= Len(l) BY <1>2, <2>2
    <3> QED BY <1>2, <3>1, ListPart
  <2> HIDE DEF r, off, kept
  <2> QED BY <1>1, <2>1, <2>3, ListCut DEF r, off
<1> QED BY <1>3, <1>4, <1>5

\* What a client sends is a list.
LEMMA SentList ==
    ASSUME NEW n \in Nat, NEW values \in Lists(n)
    PROVE  IsList(values)
<1>1. PICK m \in 0 .. n : values \in [1 .. m -> Items] BY DEF Lists
<1>2. values \in Seq(Items) BY <1>1
<1> QED BY <1>2, ListOf

-----------------------------------------------------------------------------
(* The requests on sets *)

\* What a request on sets does, as ListProper; an empty set may be stored at
\* the keys in ks.
SetProper(d, ks, r, off) ==
    /\ IsDb(r.db) /\ Leaves(d, r.db, ks)
    /\ r.out # None \/ r.db = wal_redo_expiry(d, r.expired)
    /\ r.expired = {} => off = r

LEMMA LeavesMore ==
    ASSUME NEW d, NEW e, NEW ks, Leaves(d, e, {})
    PROVE  Leaves(d, e, ks)
BY Zenon DEF Leaves

LEMMA SomeIsNotNone ==
    ASSUME NEW x
    PROVE  Some(x) # None
BY DEF Some, None

LEMMA SetRefused ==
    ASSUME NEW d, NEW e, NEW eo, NEW ks, Erasure(d, e, eo), NEW out, NEW r, NEW off,
           r = Result(e.db, out, e.expired), e.expired = {} => off = r
    PROVE  SetProper(d, ks, r, off)
<1>1. r.db = e.db /\ r.expired = e.expired BY ResultIs
<1>2. IsDb(e.db) /\ Leaves(d, e.db, ks) /\ e.db = wal_redo_expiry(d, e.expired)
  BY LeavesMore, Zenon DEF Erasure, GoodDb
<1> QED BY <1>1, <1>2, Zenon DEF SetProper

LEMMA SetStored ==
    ASSUME NEW d, NEW e, NEW eo, NEW ks, Erasure(d, e, eo), NEW k, NEW s \in SUBSET Items,
           k \in ks \/ s # {}, NEW out, NEW r, NEW off,
           r = Result(Store(e.db, k, <<"set", s>>), Some(out), e.expired), e.expired = {} => off = r
    PROVE  SetProper(d, ks, r, off)
<1>1. r.db = Store(e.db, k, <<"set", s>>) /\ r.out = Some(out) /\ r.expired = e.expired BY ResultIs
<1>2. IsDb(e.db) /\ Leaves(d, e.db, ks) BY LeavesMore, Zenon DEF Erasure, GoodDb
<1>3. GoodValue(<<"set", s>>) BY DEF GoodValue
<1>4. k \in ks \/ ~IsEmpty(<<"set", s>>) BY EmptyIs
<1>5. IsDb(r.db) /\ Leaves(d, r.db, ks) BY <1>1, <1>2, <1>3, <1>4, StoreLeaves, Zenon
<1>6. r.out # None BY <1>1, SomeIsNotNone
<1> QED BY <1>1, <1>5, <1>6, Zenon DEF SetProper

LEMMA SetCut ==
    ASSUME NEW d, NEW e, NEW eo, NEW ks, Erasure(d, e, eo), NEW k, NEW s \in SUBSET Items,
           NEW out, NEW r, NEW off,
           r = Result(StoreOrDel(e.db, k, <<"set", s>>), Some(out), e.expired),
           e.expired = {} => off = r
    PROVE  SetProper(d, ks, r, off)
<1>1. r.db = StoreOrDel(e.db, k, <<"set", s>>) /\ r.out = Some(out) /\ r.expired = e.expired
  BY ResultIs
<1>2. IsDb(e.db) /\ Leaves(d, e.db, ks) BY LeavesMore, Zenon DEF Erasure, GoodDb
<1>3. GoodValue(<<"set", s>>) BY DEF GoodValue
<1>5. IsDb(r.db) /\ Leaves(d, r.db, ks) BY <1>1, <1>2, <1>3, StoreOrDelLeaves, Zenon
<1>6. r.out # None BY <1>1, SomeIsNotNone
<1> QED BY <1>1, <1>5, <1>6, Zenon DEF SetProper

LEMMA SetAddIs ==
    ASSUME NEW d, NEW k, NEW values \in SUBSET Items, NEW t \in Int, GoodDb(d)
    PROVE  SetProper(d, {}, set_add(d, k, values, t), set_add(d, k, values, Off))
<1> DEFINE e == erase_if_expired(d, k, t)
           s == ContainerAt(e.db, k, "set")
           r == set_add(d, k, values, t)
           off == set_add(d, k, values, Off)
<1>0. Erasure(d, e, erase_if_expired(d, k, Off)) BY ErasureIs
<1>1. e.expired = {} => off = r
  <2>1. e.expired = {} => erase_if_expired(d, k, Off) = e BY <1>0, Zenon DEF Erasure
  <2> QED BY <2>1, Zenon DEF set_add
<1>2. s \subseteq Items BY <1>0, ContainersGood, Zenon DEF Erasure
<1>3. CASE values = {}
  <2>1. r = Result(e.db, Some(0), e.expired) BY <1>3, Zenon DEF set_add
  <2> HIDE DEF r, off, e
  <2> QED BY <1>0, <1>1, <2>1, SetRefused, Zenon DEF r, off
<1>4. CASE values # {} /\ Mistyped(e.db, k, "set")
  <2>1. r = Result(e.db, None, e.expired) BY <1>4, Zenon DEF set_add
  <2> HIDE DEF r, off, e
  <2> QED BY <1>0, <1>1, <2>1, SetRefused, Zenon DEF r, off
<1>5. CASE values # {} /\ ~Mistyped(e.db, k, "set")
  <2>1. r = Result(Store(e.db, k, <<"set", s \cup values>>), Some(Cardinality(values \ s)), e.expired)
    BY <1>5, Zenon DEF set_add
  <2> DEFINE u == s \cup values
  <2> HIDE DEF s
  <2>2. u \in SUBSET Items /\ u # {} BY <1>2, <1>5
  <2> HIDE DEF r, off, e, u
  <2> QED BY <1>0, <1>1, <2>1, <2>2, SetStored DEF r, off, u
<1> QED BY <1>3, <1>4, <1>5

LEMMA SetDiscardIs ==
    ASSUME NEW d, NEW k, NEW values, NEW t \in Int, GoodDb(d)
    PROVE  SetProper(d, {}, set_discard(d, k, values, t), set_discard(d, k, values, Off))
<1> DEFINE e == erase_if_expired(d, k, t)
           s == ContainerAt(e.db, k, "set")
           r == set_discard(d, k, values, t)
           off == set_discard(d, k, values, Off)
<1>0. Erasure(d, e, erase_if_expired(d, k, Off)) BY ErasureIs
<1>1. e.expired = {} => off = r
  <2>1. e.expired = {} => erase_if_expired(d, k, Off) = e BY <1>0, Zenon DEF Erasure
  <2> QED BY <2>1, Zenon DEF set_discard
<1>2. s \subseteq Items BY <1>0, ContainersGood, Zenon DEF Erasure
<1>3. CASE Mistyped(e.db, k, "set")
  <2>1. r = Result(e.db, None, e.expired) BY <1>3, Zenon DEF set_discard
  <2> HIDE DEF r, off, e
  <2> QED BY <1>0, <1>1, <2>1, SetRefused, Zenon DEF r, off
<1>4. CASE ~Mistyped(e.db, k, "set") /\ ~Has(e.db, k)
  <2>1. r = Result(e.db, Some(0), e.expired) BY <1>4, Zenon DEF set_discard
  <2> HIDE DEF r, off, e
  <2> QED BY <1>0, <1>1, <2>1, SetRefused, Zenon DEF r, off
<1>5. CASE ~Mistyped(e.db, k, "set") /\ Has(e.db, k)
  <2>1. r = Result(StoreOrDel(e.db, k, <<"set", s \ values>>), Some(Cardinality(s \cap values)), e.expired)
    BY <1>5, Zenon DEF set_discard
  <2> DEFINE u == s \ values
  <2> HIDE DEF s
  <2>2. u \in SUBSET Items BY <1>2
  <2> HIDE DEF r, off, e, u
  <2> QED BY <1>0, <1>1, <2>1, <2>2, SetCut DEF r, off, u
<1> QED BY <1>3, <1>4, <1>5

\* Of one draw.
LEMMA SetRemoveIs ==
    ASSUME NEW d, NEW k, NEW taken, NEW t \in Int, GoodDb(d)
    PROVE  SetProper(d, {}, set_remove(d, k, taken, t), set_remove(d, k, taken, Off))
<1> DEFINE e == erase_if_expired(d, k, t)
           s == ContainerAt(e.db, k, "set")
           r == set_remove(d, k, taken, t)
           off == set_remove(d, k, taken, Off)
<1>0. Erasure(d, e, erase_if_expired(d, k, Off)) BY ErasureIs
<1>1. e.expired = {} => off = r
  <2>1. e.expired = {} => erase_if_expired(d, k, Off) = e BY <1>0, Zenon DEF Erasure
  <2> QED BY <2>1, Zenon DEF set_remove
<1>2. s \subseteq Items BY <1>0, ContainersGood, Zenon DEF Erasure
<1>3. CASE Mistyped(e.db, k, "set")
  <2>1. r = Result(e.db, None, e.expired) BY <1>3, Zenon DEF set_remove
  <2> HIDE DEF r, off, e
  <2> QED BY <1>0, <1>1, <2>1, SetRefused, Zenon DEF r, off
<1>4. CASE ~Mistyped(e.db, k, "set") /\ ~Has(e.db, k)
  <2>1. r = Result(e.db, Some({}), e.expired) BY <1>4, Zenon DEF set_remove
  <2> HIDE DEF r, off, e
  <2> QED BY <1>0, <1>1, <2>1, SetRefused, Zenon DEF r, off
<1>5. CASE ~Mistyped(e.db, k, "set") /\ Has(e.db, k)
  <2>1. r = Result(StoreOrDel(e.db, k, <<"set", s \ taken>>), Some(taken), e.expired)
    BY <1>5, Zenon DEF set_remove
  <2> DEFINE u == s \ taken
  <2> HIDE DEF s
  <2>2. u \in SUBSET Items BY <1>2
  <2> HIDE DEF r, off, e, u
  <2> QED BY <1>0, <1>1, <2>1, <2>2, SetCut DEF r, off, u
<1> QED BY <1>3, <1>4, <1>5

\* The destination gets the element, so it is not empty.
LEMMA SetMoveIs ==
    ASSUME NEW d, NEW source, NEW dest, NEW x \in Items, NEW t \in Int, GoodDb(d)
    PROVE  SetProper(d, {}, set_move(d, source, dest, x, t), set_move(d, source, dest, x, Off))
<1> DEFINE e == erase_all_expired(d, {source, dest}, t)
           from == ContainerAt(e.db, source, "set")
           into == ContainerAt(e.db, dest, "set") \cup {x}
           moved == Store(e.db, dest, <<"set", into>>)
           r == set_move(d, source, dest, x, t)
           off == set_move(d, source, dest, x, Off)
<1>0. Erasure(d, e, erase_all_expired(d, {source, dest}, Off)) BY ErasureOfAll
<1>1. e.expired = {} => off = r
  <2>1. e.expired = {} => erase_all_expired(d, {source, dest}, Off) = e BY <1>0, Zenon DEF Erasure
  <2> QED BY <2>1, Zenon DEF set_move
<1>2. ASSUME NEW out, r = Result(e.db, out, e.expired) PROVE SetProper(d, {}, r, off)
  <2> HIDE DEF r, off, e
  <2> QED BY <1>0, <1>1, <1>2, SetRefused, Zenon
<1>3. CASE ~Has(e.db, source) BY <1>2, <1>3, Zenon DEF set_move
<1>4. CASE Has(e.db, source) /\ Mistyped(e.db, source, "set") BY <1>2, <1>4, Zenon DEF set_move
<1>5. CASE Has(e.db, source) /\ ~Mistyped(e.db, source, "set") /\ x \notin from
  BY <1>2, <1>5, Zenon DEF set_move
<1>6. CASE /\ Has(e.db, source) /\ ~Mistyped(e.db, source, "set") /\ x \in from
           /\ Mistyped(e.db, dest, "set")
  BY <1>2, <1>6, Zenon DEF set_move
<1>7. CASE /\ Has(e.db, source) /\ ~Mistyped(e.db, source, "set") /\ x \in from
           /\ ~Mistyped(e.db, dest, "set")
  <2>1. r = Result(IF source = dest THEN e.db
                   ELSE StoreOrDel(moved, source, <<"set", from \ {x}>>), Some(TRUE), e.expired)
    BY <1>7, Zenon DEF set_move
  <2>2. CASE source = dest
    <3>1. r = Result(e.db, Some(TRUE), e.expired) BY <2>1, <2>2, Zenon
    <3> QED BY <1>2, <3>1
  <2>3. CASE source # dest
    <3> DEFINE left == from \ {x}
               s == StoreOrDel(moved, source, <<"set", left>>)
    <3>1. r = Result(s, Some(TRUE), e.expired) BY <2>1, <2>3, Zenon
    <3>2. r.db = s /\ r.out = Some(TRUE) /\ r.expired = e.expired
      <4> HIDE DEF r, s, e
      <4>1. /\ Result(s, Some(TRUE), e.expired).db = s
            /\ Result(s, Some(TRUE), e.expired).out = Some(TRUE)
            /\ Result(s, Some(TRUE), e.expired).expired = e.expired
        BY Zenon DEF Result
      <4> QED BY <3>1, <4>1, Zenon
    <3>3. from \subseteq Items /\ ContainerAt(e.db, dest, "set") \subseteq Items
      BY <1>0, ContainersGood, Zenon DEF Erasure
    <3>4. left \subseteq Items /\ into \subseteq Items /\ into # {} BY <3>3
    <3>5. IsDb(e.db) /\ Leaves(d, e.db, {}) BY <1>0, Zenon DEF Erasure, GoodDb
    <3> HIDE DEF left, into, e
    <3>6. GoodValue(<<"set", left>>) /\ GoodValue(<<"set", into>>) BY <3>4 DEF GoodValue
    <3>7. ~IsEmpty(<<"set", into>>) BY <3>4, EmptyIs
    <3>8. IsDb(moved) /\ Leaves(d, moved, {}) BY <3>5, <3>6, <3>7, StoreLeaves, Zenon
    <3> HIDE DEF moved
    <3>9. IsDb(s) /\ Leaves(d, s, {}) BY <3>6, <3>8, StoreOrDelLeaves, Zenon
    <3>10. r.out # None BY <3>2, SomeIsNotNone
    <3> HIDE DEF s, r, off
    <3> QED BY <1>1, <3>2, <3>9, <3>10, Zenon DEF SetProper, r, off
  <2> QED BY <2>2, <2>3
<1> QED BY <1>3, <1>4, <1>5, <1>6, <1>7, Zenon

\* The answers of set_union, set_intersection and set_difference.
SetAnswer(out) == out = None \/ \E s \in SUBSET Items : out = Some(s)

\* They only read, and their answer is no set or a set of items.
SetReadIs(d, e, r) == r.db = e.db /\ r.expired = e.expired /\ SetAnswer(r.out)

LEMMA IntoIs ==
    ASSUME NEW d, NEW e, NEW eo, Erasure(d, e, eo), NEW r, SetReadIs(d, e, r), NEW dest, NEW off,
           r = Result(r.db, r.out, r.expired), e.expired = {} => off = StoreInto(r, dest)
    PROVE  SetProper(d, {dest}, StoreInto(r, dest), off)
<1> DEFINE i == StoreInto(r, dest)
<1>1. r.db = e.db /\ r.expired = e.expired BY DEF SetReadIs
<1>2. CASE r.out = None
  <2>1. i = Result(e.db, r.out, e.expired) BY <1>1, <1>2, Zenon DEF StoreInto
  <2> HIDE DEF i
  <2> QED BY <2>1, SetRefused, Zenon DEF i
<1>3. CASE r.out # None
  <2>1. PICK s \in SUBSET Items : r.out = Some(s) BY <1>3, Zenon DEF SetReadIs, SetAnswer
  <2>2. r.out[1] = s BY <2>1 DEF Some
  <2> DEFINE w == Store(e.db, dest, <<"set", s>>)
             c == clear_expiry(w, dest).db
  <2>3. i = Result(c, Some(Cardinality(s)), e.expired) BY <1>1, <1>3, <2>2, Zenon DEF StoreInto
  <2>4. IsDb(e.db) /\ Leaves(d, e.db, {dest}) BY LeavesMore, Zenon DEF Erasure, GoodDb
  <2>5. GoodValue(<<"set", s>>) BY DEF GoodValue
  <2>6. IsDb(w) /\ Leaves(d, w, {dest}) BY <2>4, <2>5, StoreLeaves
  <2> HIDE DEF w
  <2>7. IsDb(c) /\ Leaves(d, c, {dest}) BY <2>6, ClearLeaves
  <2> HIDE DEF c
  <2> HIDE DEF i
  <2>8. i.db = c /\ i.out = Some(Cardinality(s)) /\ i.expired = e.expired BY <2>3, ResultIs
  <2>9. i.out # None BY <2>8, SomeIsNotNone
  <2> QED BY <2>7, <2>8, <2>9, Zenon DEF SetProper, i
<1> QED BY <1>2, <1>3

LEMMA SetUnionIs ==
    ASSUME NEW d, NEW ks, NEW t, GoodDb(erase_all_expired(d, ks, t).db)
    PROVE  SetReadIs(d, erase_all_expired(d, ks, t), set_union(d, ks, t))
<1> DEFINE e == erase_all_expired(d, ks, t)
           r == set_union(d, ks, t)
           u == UNION {ContainerAt(e.db, k, "set") : k \in ks}
<1>1. /\ r.db = e.db /\ r.expired = e.expired
      /\ r.out = IF \E k \in ks : Mistyped(e.db, k, "set") THEN None ELSE Some(u)
  BY DEF set_union, Result
<1>2. \A k : ContainerAt(e.db, k, "set") \subseteq Items BY ContainersGood
<1>3. u \in SUBSET Items BY <1>2
<1> HIDE DEF u, r, e
<1> QED BY <1>1, <1>3, Zenon DEF SetReadIs, SetAnswer, r, e

LEMMA SetIntersectionIs ==
    ASSUME NEW d, NEW ks, NEW t, GoodDb(erase_all_expired(d, Range(ks), t).db), 1 \in DOMAIN ks
    PROVE  SetReadIs(d, erase_all_expired(d, Range(ks), t), set_intersection(d, ks, t))
<1> DEFINE e == erase_all_expired(d, Range(ks), t)
           r == set_intersection(d, ks, t)
           bad == {i \in DOMAIN ks : ~Holds(e.db, ks[i], "set")}
           first == CHOOSE i \in bad : \A j \in bad : i <= j
           u == {x \in e.db.data[ks[1]][2] : \A i \in DOMAIN ks : x \in e.db.data[ks[i]][2]}
<1>1. /\ r.db = e.db /\ r.expired = e.expired
      /\ r.out = IF ks = <<>> THEN Some({})
                 ELSE IF bad # {} THEN (IF Has(e.db, ks[first]) THEN None ELSE Some({}))
                 ELSE Some(u)
  BY Zenon DEF set_intersection, Result
<1>2. CASE bad = {}
  <2>1. Holds(e.db, ks[1], "set") BY <1>2
  <2>2. GoodValue(e.db.data[ks[1]]) /\ e.db.data[ks[1]][1] = "set"
    BY <2>1, Zenon DEF GoodDb, Holds, Has
  <2>3. u \in SUBSET Items BY <2>2 DEF GoodValue
  <2> HIDE DEF u, r, e, bad
  <2>4. {} \in SUBSET Items OBVIOUS
  <2> QED BY <1>1, <1>2, <2>3, <2>4, Zenon DEF SetReadIs, SetAnswer, r, e
<1>3. CASE bad # {}
  <2>1. {} \in SUBSET Items OBVIOUS
  <2>2. r.out = None \/ r.out = Some({}) BY <1>1, <1>3, Zenon
  <2> HIDE DEF u, r, e, bad
  <2> QED BY <1>1, <2>1, <2>2, Zenon DEF SetReadIs, SetAnswer, r, e
<1> QED BY <1>2, <1>3

LEMMA SetDifferenceIs ==
    ASSUME NEW d, NEW k1, NEW k2, NEW t, GoodDb(erase_all_expired(d, {k1, k2}, t).db)
    PROVE  SetReadIs(d, erase_all_expired(d, {k1, k2}, t), set_difference(d, k1, k2, t))
<1> DEFINE e == erase_all_expired(d, {k1, k2}, t)
           r == set_difference(d, k1, k2, t)
           u == e.db.data[k1][2] \ e.db.data[k2][2]
<1>1. /\ r.db = e.db /\ r.expired = e.expired
      /\ r.out = IF ~Has(e.db, k1) \/ ~Has(e.db, k2) THEN Some({})
                 ELSE IF Mistyped(e.db, k1, "set") \/ Mistyped(e.db, k2, "set") THEN None
                 ELSE Some(u)
  BY Zenon DEF set_difference, Result
<1>2. {} \in SUBSET Items OBVIOUS
<1>3. CASE Holds(e.db, k1, "set")
  <2>1. GoodValue(e.db.data[k1]) /\ e.db.data[k1][1] = "set" BY <1>3, Zenon DEF GoodDb, Holds, Has
  <2>2. u \in SUBSET Items BY <2>1 DEF GoodValue
  <2> HIDE DEF u, r, e
  <2> QED BY <1>1, <1>2, <2>2, Zenon DEF SetReadIs, SetAnswer, r, e
<1>4. CASE ~Holds(e.db, k1, "set")
  <2>1. r.out = None \/ r.out = Some({}) BY <1>1, <1>4, Zenon DEF Holds, Mistyped
  <2> HIDE DEF u, r, e
  <2> QED BY <1>1, <1>2, <2>1, Zenon DEF SetReadIs, SetAnswer, r, e
<1> QED BY <1>3, <1>4

\* The requests that store what they compute.
LEMMA SetUnionIntoIs ==
    ASSUME NEW d, NEW dest, NEW ks, NEW t \in Int, GoodDb(d)
    PROVE  SetProper(d, {dest}, set_union_into(d, dest, ks, t), set_union_into(d, dest, ks, Off))
<1> DEFINE e == erase_all_expired(d, ks, t)
           r == set_union(d, ks, t)
<1>0. Erasure(d, e, erase_all_expired(d, ks, Off)) BY ErasureOfAll
<1>1. e.expired = {} => set_union(d, ks, Off) = r
  <2>1. e.expired = {} => erase_all_expired(d, ks, Off) = e BY <1>0, Zenon DEF Erasure
  <2> QED BY <2>1, Zenon DEF set_union
<1>2. SetReadIs(d, e, r) BY <1>0, SetUnionIs, Zenon DEF Erasure
<1>3. r = Result(r.db, r.out, r.expired) BY DEF set_union, Result
<1> HIDE DEF r, e
<1>4. e.expired = {} => set_union_into(d, dest, ks, Off) = StoreInto(r, dest)
  BY <1>1, Zenon DEF set_union_into
<1>5. SetProper(d, {dest}, StoreInto(r, dest), set_union_into(d, dest, ks, Off))
  BY <1>0, <1>2, <1>3, <1>4, IntoIs
<1> QED BY <1>5 DEF set_union_into, r

LEMMA SetIntersectionIntoIs ==
    ASSUME NEW d, NEW dest, NEW ks, 1 \in DOMAIN ks, NEW t \in Int, GoodDb(d)
    PROVE  SetProper(d, {dest}, set_intersection_into(d, dest, ks, t),
                     set_intersection_into(d, dest, ks, Off))
<1> DEFINE e == erase_all_expired(d, Range(ks), t)
           r == set_intersection(d, ks, t)
<1>0. Erasure(d, e, erase_all_expired(d, Range(ks), Off)) BY ErasureOfAll
<1>1. e.expired = {} => set_intersection(d, ks, Off) = r
  <2>1. e.expired = {} => erase_all_expired(d, Range(ks), Off) = e BY <1>0, Zenon DEF Erasure
  <2> QED BY <2>1, Zenon DEF set_intersection
<1>2. SetReadIs(d, e, r) BY <1>0, SetIntersectionIs, Zenon DEF Erasure
<1>3. r = Result(r.db, r.out, r.expired) BY Zenon DEF set_intersection, Result
<1> HIDE DEF r, e
<1>4. e.expired = {} => set_intersection_into(d, dest, ks, Off) = StoreInto(r, dest)
  BY <1>1, Zenon DEF set_intersection_into
<1>5. SetProper(d, {dest}, StoreInto(r, dest), set_intersection_into(d, dest, ks, Off))
  BY <1>0, <1>2, <1>3, <1>4, IntoIs
<1> QED BY <1>5 DEF set_intersection_into, r

LEMMA SetDifferenceIntoIs ==
    ASSUME NEW d, NEW dest, NEW k1, NEW k2, NEW t \in Int, GoodDb(d)
    PROVE  SetProper(d, {dest}, set_difference_into(d, dest, k1, k2, t),
                     set_difference_into(d, dest, k1, k2, Off))
<1> DEFINE e == erase_all_expired(d, {k1, k2}, t)
           r == set_difference(d, k1, k2, t)
<1>0. Erasure(d, e, erase_all_expired(d, {k1, k2}, Off)) BY ErasureOfAll
<1>1. e.expired = {} => set_difference(d, k1, k2, Off) = r
  <2>1. e.expired = {} => erase_all_expired(d, {k1, k2}, Off) = e BY <1>0, Zenon DEF Erasure
  <2> QED BY <2>1, Zenon DEF set_difference
<1>2. SetReadIs(d, e, r) BY <1>0, SetDifferenceIs, Zenon DEF Erasure
<1>3. r = Result(r.db, r.out, r.expired) BY Zenon DEF set_difference, Result
<1> HIDE DEF r, e
<1>4. e.expired = {} => set_difference_into(d, dest, k1, k2, Off) = StoreInto(r, dest)
  BY <1>1, Zenon DEF set_difference_into
<1>5. SetProper(d, {dest}, StoreInto(r, dest), set_difference_into(d, dest, k1, k2, Off))
  BY <1>0, <1>2, <1>3, <1>4, IntoIs
<1> QED BY <1>5 DEF set_difference_into, r

\* Where a request may store an empty set.
Stores(o) == IF o.op \in IntoOps THEN {o.dest} ELSE {}

LEMMA SetDoIs ==
    ASSUME NEW d, NEW o \in SetWrites, NEW t \in Int, GoodDb(d)
    PROVE  SetProper(d, Stores(o), set_do(d, o, t), redo_set(d, o))
<1>1. CASE o \in [op : {"set_add", "set_discard"}, key : Keys, values : SUBSET Items]
  <2>1. o.op \in {"set_add", "set_discard"} /\ o.values \in SUBSET Items BY <1>1
  <2>2. Stores(o) = {} BY <2>1 DEF Stores, IntoOps
  <2>3. CASE o.op = "set_add"
    <3>1. /\ set_do(d, o, t) = set_add(d, o.key, o.values, t)
          /\ redo_set(d, o) = set_add(d, o.key, o.values, Off)
      BY <2>3 DEF set_do, redo_set
    <3>2. SetProper(d, {}, set_add(d, o.key, o.values, t), set_add(d, o.key, o.values, Off))
      BY <2>1, SetAddIs
    <3> QED BY <2>2, <3>1, <3>2, Zenon
  <2>4. CASE o.op = "set_discard"
    <3>1. /\ set_do(d, o, t) = set_discard(d, o.key, o.values, t)
          /\ redo_set(d, o) = set_discard(d, o.key, o.values, Off)
      BY <2>4 DEF set_do, redo_set
    <3>2. SetProper(d, {}, set_discard(d, o.key, o.values, t), set_discard(d, o.key, o.values, Off))
      BY SetDiscardIs
    <3> QED BY <2>2, <3>1, <3>2, Zenon
  <2> QED BY <2>1, <2>3, <2>4
<1>2. CASE o \in [op : {"set_move"}, source : Keys, dest : Keys, value : Items]
  <2>1. o.op = "set_move" /\ o.value \in Items BY <1>2
  <2>2. Stores(o) = {} BY <2>1 DEF Stores, IntoOps
  <2>3. /\ set_do(d, o, t) = set_move(d, o.source, o.dest, o.value, t)
        /\ redo_set(d, o) = set_move(d, o.source, o.dest, o.value, Off)
    BY <2>1 DEF set_do, redo_set
  <2>4. SetProper(d, {}, set_move(d, o.source, o.dest, o.value, t),
                  set_move(d, o.source, o.dest, o.value, Off))
    BY <2>1, SetMoveIs
  <2> QED BY <2>2, <2>3, <2>4, Zenon
<1>3. CASE o \in [op : {"set_union_into", "set_intersection_into"}, dest : Keys, keys : Keys \X Keys]
  <2>1. o.op \in {"set_union_into", "set_intersection_into"} /\ 1 \in DOMAIN o.keys BY <1>3
  <2>2. Stores(o) = {o.dest} BY <2>1 DEF Stores, IntoOps
  <2>3. CASE o.op = "set_union_into"
    <3>1. /\ set_do(d, o, t) = set_union_into(d, o.dest, Range(o.keys), t)
          /\ redo_set(d, o) = set_union_into(d, o.dest, Range(o.keys), Off)
      BY <2>3 DEF set_do, redo_set
    <3>2. SetProper(d, {o.dest}, set_union_into(d, o.dest, Range(o.keys), t),
                    set_union_into(d, o.dest, Range(o.keys), Off))
      BY SetUnionIntoIs
    <3> QED BY <2>2, <3>1, <3>2, Zenon
  <2>4. CASE o.op = "set_intersection_into"
    <3>1. /\ set_do(d, o, t) = set_intersection_into(d, o.dest, o.keys, t)
          /\ redo_set(d, o) = set_intersection_into(d, o.dest, o.keys, Off)
      BY <2>4 DEF set_do, redo_set
    <3>2. SetProper(d, {o.dest}, set_intersection_into(d, o.dest, o.keys, t),
                    set_intersection_into(d, o.dest, o.keys, Off))
      BY <2>1, SetIntersectionIntoIs
    <3> QED BY <2>2, <3>1, <3>2, Zenon
  <2> QED BY <2>1, <2>3, <2>4
<1>4. CASE o \in [op : {"set_difference_into"}, dest : Keys, key1 : Keys, key2 : Keys]
  <2>1. o.op = "set_difference_into" BY <1>4
  <2>2. Stores(o) = {o.dest} BY <2>1 DEF Stores, IntoOps
  <2>3. /\ set_do(d, o, t) = set_difference_into(d, o.dest, o.key1, o.key2, t)
        /\ redo_set(d, o) = set_difference_into(d, o.dest, o.key1, o.key2, Off)
    BY <2>1 DEF set_do, redo_set
  <2>4. SetProper(d, {o.dest}, set_difference_into(d, o.dest, o.key1, o.key2, t),
                  set_difference_into(d, o.dest, o.key1, o.key2, Off))
    BY SetDifferenceIntoIs
  <2> QED BY <2>2, <2>3, <2>4, Zenon
<1> QED BY <1>1, <1>2, <1>3, <1>4, Zenon DEF SetWrites

-----------------------------------------------------------------------------
(* The requests on hashes *)

\* What a request on the hash at a key does, as SetProper.
HashProper(d, ks, r, off) ==
    /\ IsDb(r.db) /\ Leaves(d, r.db, ks)
    /\ r.expired = {} => off = r

LEMMA HashRefused ==
    ASSUME NEW d, NEW e, NEW eo, NEW ks, Erasure(d, e, eo), NEW out, NEW r, NEW off,
           r = Result(e.db, out, e.expired), e.expired = {} => off = r
    PROVE  HashProper(d, ks, r, off)
<1>1. SetProper(d, ks, r, off) BY SetRefused, Zenon
<1> QED BY <1>1, Zenon DEF HashProper, SetProper

LEMMA HashSent ==
    ASSUME NEW values \in Hashes
    PROVE  IsFcn(values)
<1>1. PICK fs \in SUBSET Fields : values \in [fs -> Words] BY Zenon DEF Hashes
<1> QED BY <1>1 DEF IsFcn

LEMMA HashSetIs ==
    ASSUME NEW d, NEW k, NEW values, IsFcn(values), GoodDb(d)
    PROVE  HashProper(d, {k}, hash_set(d, k, values), hash_set(d, k, values))
<1> DEFINE w == Store(d, k, <<"hash", values>>)
           c == clear_expiry(w, k).db
           r == hash_set(d, k, values)
<1>1. r.db = c BY Zenon DEF hash_set, Result
<1>2. GoodValue(<<"hash", values>>) BY DEF GoodValue
<1>3. IsDb(d) /\ Leaves(d, d, {k}) BY LeavesItself, Zenon DEF GoodDb
<1>4. IsDb(w) /\ Leaves(d, w, {k}) BY <1>2, <1>3, StoreLeaves
<1> HIDE DEF w
<1>5. IsDb(c) /\ Leaves(d, c, {k}) BY <1>4, ClearLeaves, Zenon
<1> HIDE DEF c, r
<1> QED BY <1>1, <1>5, Zenon DEF HashProper, r

LEMMA HashRemoveIs ==
    ASSUME NEW d, NEW k, NEW fs, NEW t \in Int, GoodDb(d)
    PROVE  HashProper(d, {}, hash_remove(d, k, fs, t), hash_remove(d, k, fs, Off))
<1> DEFINE e == erase_if_expired(d, k, t)
           h == ContainerAt(e.db, k, "hash")
           r == hash_remove(d, k, fs, t)
           off == hash_remove(d, k, fs, Off)
<1>0. Erasure(d, e, erase_if_expired(d, k, Off)) BY ErasureIs
<1>1. e.expired = {} => off = r
  <2>1. e.expired = {} => erase_if_expired(d, k, Off) = e BY <1>0, Zenon DEF Erasure
  <2> QED BY <2>1, Zenon DEF hash_remove
<1>2. ASSUME NEW out, r = Result(e.db, out, e.expired) PROVE HashProper(d, {}, r, off)
  <2> HIDE DEF r, off, e
  <2> QED BY <1>0, <1>1, <1>2, HashRefused, Zenon
<1>3. CASE Mistyped(e.db, k, "hash") BY <1>2, <1>3, Zenon DEF hash_remove
<1>4. CASE ~Mistyped(e.db, k, "hash") /\ ~Has(e.db, k) BY <1>2, <1>4, Zenon DEF hash_remove
<1>5. CASE ~Mistyped(e.db, k, "hash") /\ Has(e.db, k)
  <2> DEFINE u == Restrict(h, DOMAIN h \ fs)
             s == StoreOrDel(e.db, k, <<"hash", u>>)
             n == Cardinality(DOMAIN h \cap fs)
  <2>1. r = Result(s, Ok(n), e.expired) BY <1>5, Zenon DEF hash_remove
  <2>2. IsFcn(u) BY DEF IsFcn, Restrict
  <2> HIDE DEF u
  <2>3. GoodValue(<<"hash", u>>) BY <2>2 DEF GoodValue
  <2>4. IsDb(e.db) /\ Leaves(d, e.db, {}) BY <1>0, Zenon DEF Erasure, GoodDb
  <2> HIDE DEF e, n
  <2>5. IsDb(s) /\ Leaves(d, s, {}) BY <2>3, <2>4, StoreOrDelLeaves, Zenon
  <2> HIDE DEF s, r, off
  <2>6. r.db = s /\ r.expired = e.expired BY <2>1, ResultIs
  <2> QED BY <1>1, <2>5, <2>6, Zenon DEF HashProper, r, off
<1> QED BY <1>3, <1>4, <1>5, Zenon

\* The key, if it holds an empty container.
EmptyAt(d, k) == IF Has(d, k) /\ IsEmpty(d.data[k]) THEN {k} ELSE {}

\* An update adds to the hash, so that is empty only if it was.
LEMMA UpdatedIs ==
    ASSUME NEW h, NEW reached, NEW u, IsFcn(h), DOMAIN u = DOMAIN h \cup reached, u = <<>>
    PROVE  h = <<>>
<1>1. DOMAIN u = {} OBVIOUS
<1>2. DOMAIN h = {} BY <1>1
<1> QED BY <1>2 DEF IsFcn

\* Of the fields it gets to.
LEMMA HashUpdateIs ==
    ASSUME NEW d, NEW k, NEW values, NEW reached, NEW t \in Int, GoodDb(d)
    PROVE  HashProper(d, EmptyAt(d, k), hash_update(d, k, values, reached, t),
                      hash_update(d, k, values, reached, Off))
<1> DEFINE e == erase_if_expired(d, k, t)
           h == ContainerAt(e.db, k, "hash")
           r == hash_update(d, k, values, reached, t)
           off == hash_update(d, k, values, reached, Off)
           ks == EmptyAt(d, k)
<1>0. Erasure(d, e, erase_if_expired(d, k, Off)) BY ErasureIs
<1>1. e.expired = {} => off = r
  <2>1. e.expired = {} => erase_if_expired(d, k, Off) = e BY <1>0, Zenon DEF Erasure
  <2> QED BY <2>1, Zenon DEF hash_update
<1>2. IsDb(e.db) /\ Leaves(d, e.db, ks) BY <1>0, LeavesMore, Zenon DEF Erasure, GoodDb
<1>3. ASSUME NEW v, NEW out, r = Result(Store(e.db, k, v), out, e.expired), GoodValue(v),
             k \in ks \/ ~IsEmpty(v)
      PROVE  HashProper(d, ks, r, off)
  <2> DEFINE s == Store(e.db, k, v)
  <2> HIDE DEF ks, e
  <2>1. IsDb(s) /\ Leaves(d, s, ks) BY <1>2, <1>3, StoreLeaves, Zenon
  <2> HIDE DEF s, r, off
  <2>2. r = Result(s, out, e.expired) BY <1>3, Zenon DEF s
  <2>3. r.db = s /\ r.expired = e.expired BY <2>2, ResultIs
  <2> QED BY <1>1, <2>1, <2>3, Zenon DEF HashProper, r, off
<1>4. CASE ~Has(e.db, k)
  <2>1. r = Result(Store(e.db, k, <<"str", "">>), Error("NotHash"), e.expired)
    BY <1>4, Zenon DEF hash_update
  <2>2. GoodValue(<<"str", "">>) /\ ~IsEmpty(<<"str", "">>) BY DEF GoodValue, IsEmpty, EmptyOf
  <2> QED BY <1>3, <2>1, <2>2, Zenon
<1>5. CASE Has(e.db, k) /\ ~Holds(e.db, k, "hash")
  <2>1. r = Result(e.db, Error("NotHash"), e.expired) BY <1>5, Zenon DEF hash_update
  <2> HIDE DEF r, off, e, ks
  <2> QED BY <1>0, <1>1, <2>1, HashRefused, Zenon DEF r, off
<1>6. CASE Has(e.db, k) /\ Holds(e.db, k, "hash")
  <2> DEFINE u == [f \in DOMAIN h \cup reached |-> IF f \in reached THEN values[f] ELSE h[f]]
             n == Cardinality(reached \ DOMAIN h)
  <2>1. r = Result(Store(e.db, k, <<"hash", u>>), Ok(n), e.expired) BY <1>6, Zenon DEF hash_update
  <2>2. IsFcn(u) BY DEF IsFcn
  <2>3. DOMAIN u = DOMAIN h \cup reached OBVIOUS
  <2>4. IsFcn(h) BY <1>0, ContainersGood, Zenon DEF Erasure
  <2>5. h = e.db.data[k][2] /\ e.db.data[k][1] = "hash" BY <1>6, Zenon DEF ContainerAt, Holds
  <2>6. Has(d, k) /\ e.db.data[k] = d.data[k]
    <3>1. e.db = wal_redo_expiry(d, e.expired) BY <1>0, Zenon DEF Erasure
    <3> HIDE DEF e
    <3>2. k \in DOMAIN e.db.data BY <1>6, Zenon DEF Has
    <3>3. ASSUME NEW gone, k \in DOMAIN wal_redo_expiry(d, gone).data
          PROVE  k \in DOMAIN d.data /\ wal_redo_expiry(d, gone).data[k] = d.data[k]
      BY <3>3 DEF wal_redo_expiry, Restrict
    <3> QED BY <3>1, <3>2, <3>3, Zenon DEF Has
  <2> HIDE DEF u, n, h, e
  <2>7. GoodValue(<<"hash", u>>) BY <2>2 DEF GoodValue
  <2>8. k \in ks \/ ~IsEmpty(<<"hash", u>>)
    <3> SUFFICES ASSUME IsEmpty(<<"hash", u>>) PROVE k \in ks OBVIOUS
    <3>1. u = <<>> BY EmptyIs, Zenon
    <3>2. h = <<>> BY <2>3, <2>4, <3>1, UpdatedIs
    <3>3. d.data[k][1] = "hash" /\ d.data[k][2] = <<>> BY <2>5, <2>6, <3>2, Zenon
    <3>4. IsEmpty(d.data[k]) BY <3>3 DEF IsEmpty, EmptyOf
    <3> QED BY <2>6, <3>4, Zenon DEF EmptyAt
  <2> QED BY <1>3, <2>1, <2>7, <2>8, Zenon
<1> QED BY <1>4, <1>5, <1>6, Zenon

\* Where a request may store an empty hash.
EmptyHashAt(o) == IF o.op = "hash_set" THEN {o.key} ELSE {}

LEMMA HashDoIs ==
    ASSUME NEW d, NEW o \in HashWrites, NEW t \in Int, GoodDb(d)
    PROVE  HashProper(d, EmptyHashAt(o), hash_do(d, o, t), redo_hash(d, o))
<1>1. CASE o \in [op : {"hash_set"}, key : Keys, values : Hashes]
  <2>1. o.op = "hash_set" /\ o.values \in Hashes BY <1>1
  <2>2. EmptyHashAt(o) = {o.key} BY <2>1 DEF EmptyHashAt
  <2>3. /\ hash_do(d, o, t) = hash_set(d, o.key, o.values)
        /\ redo_hash(d, o) = hash_set(d, o.key, o.values)
    BY <2>1 DEF hash_do, redo_hash
  <2>4. IsFcn(o.values) BY <2>1, HashSent
  <2>5. HashProper(d, {o.key}, hash_set(d, o.key, o.values), hash_set(d, o.key, o.values))
    BY <2>4, HashSetIs
  <2> QED BY <2>2, <2>3, <2>5, Zenon
<1>2. CASE o \in [op : {"hash_remove"}, key : Keys, hash_keys : SUBSET Fields]
  <2>1. o.op = "hash_remove" BY <1>2
  <2>2. EmptyHashAt(o) = {} BY <2>1 DEF EmptyHashAt
  <2>3. /\ hash_do(d, o, t) = hash_remove(d, o.key, o.hash_keys, t)
        /\ redo_hash(d, o) = hash_remove(d, o.key, o.hash_keys, Off)
    BY <2>1 DEF hash_do, redo_hash
  <2>4. HashProper(d, {}, hash_remove(d, o.key, o.hash_keys, t), hash_remove(d, o.key, o.hash_keys, Off))
    BY HashRemoveIs
  <2> QED BY <2>2, <2>3, <2>4, Zenon
<1> QED BY <1>1, <1>2, Zenon DEF HashWrites

-----------------------------------------------------------------------------
(* The requests of WalRedo, in a database with containers *)

\* e has at each key what d has there; at the key `to' it may have what src has
\* at `from'.
Brings(d, e, src, from, to) ==
    \A k \in DOMAIN e.data :
        \/ k \in DOMAIN d.data /\ e.data[k] = d.data[k]
        \/ k = to /\ from \in DOMAIN src.data /\ e.data[k] = src.data[from]

LEMMA BringsGood ==
    ASSUME NEW d, NEW e, NEW src, NEW from, NEW to, GoodDb(d), GoodDb(src), IsDb(e),
           Brings(d, e, src, from, to)
    PROVE  GoodDb(e)
BY Zenon DEF GoodDb, Brings

\* What is left after an erasure.
LEMMA ErasureBrings ==
    ASSUME NEW d, NEW k, NEW t \in Int, GoodDb(d)
    PROVE  LET e == erase_if_expired(d, k, t).db IN
           IsDb(e) /\ \A x \in DOMAIN e.data : x \in DOMAIN d.data /\ e.data[x] = d.data[x]
<1> DEFINE e == erase_if_expired(d, k, t)
<1>1. IsDb(e.db) /\ e.db = wal_redo_expiry(d, e.expired) BY EraseIs, Zenon DEF GoodDb
<1>2. ASSUME NEW gone, NEW x \in DOMAIN wal_redo_expiry(d, gone).data
      PROVE  x \in DOMAIN d.data /\ wal_redo_expiry(d, gone).data[x] = d.data[x]
  BY DEF wal_redo_expiry, Restrict
<1> HIDE DEF e
<1>3. \A x \in DOMAIN e.db.data : x \in DOMAIN d.data /\ e.db.data[x] = d.data[x]
  BY <1>1, <1>2, Zenon
<1> QED BY <1>1, <1>3, Zenon DEF e

LEMMA PutBrings ==
    ASSUME NEW d, NEW dst, NEW e, NEW src, NEW from, NEW to,
           \A x \in DOMAIN dst.data : x \in DOMAIN d.data /\ dst.data[x] = d.data[x],
           from \in DOMAIN src.data, e.data = Put(dst.data, to, src.data[from])
    PROVE  Brings(d, e, src, from, to)
<1> DEFINE v == src.data[from]
<1>1. /\ DOMAIN Put(dst.data, to, v) = DOMAIN dst.data \cup {to}
      /\ \A x \in DOMAIN dst.data \cup {to} : Put(dst.data, to, v)[x] = IF x = to THEN v ELSE dst.data[x]
  BY DEF Put
<1>2. ASSUME NEW k \in DOMAIN e.data
      PROVE  \/ k \in DOMAIN d.data /\ e.data[k] = d.data[k]
             \/ k = to /\ from \in DOMAIN src.data /\ e.data[k] = src.data[from]
  <2>1. CASE k = to BY <1>1, <2>1, Zenon
  <2>2. CASE k # to BY <1>1, <2>2, Zenon
  <2> QED BY <2>1, <2>2
<1> QED BY <1>2, Zenon DEF Brings

LEMMA MoveValueBrings ==
    ASSUME NEW src, NEW from, NEW dst, NEW to, IsDb(dst)
    PROVE  MoveValue(src, from, dst, to).data = Put(dst.data, to, src.data[from])
<1> DEFINE moved == Store(dst, to, src.data[from])
<1>1. moved = [data |-> Put(dst.data, to, src.data[from]), expiry |-> dst.expiry] BY StoreIs
<1>2. CASE from \in DOMAIN src.expiry BY <1>1, <1>2 DEF MoveValue
<1>3. CASE from \notin DOMAIN src.expiry BY <1>1, <1>3 DEF MoveValue
<1> QED BY <1>2, <1>3

LEMMA CopyToBrings ==
    ASSUME NEW d, NEW from, NEW to, NEW t \in Int, GoodDb(d)
    PROVE  Brings(d, copy_to(d, from, to, t).db, d, from, to)
<1> DEFINE e == erase_if_expired(d, from, t).db
           w == Store(e, to, e.data[from])
           c == clear_expiry(w, to).db
           r == copy_to(d, from, to, t).db
<1>1. IsDb(e) /\ \A x \in DOMAIN e.data : x \in DOMAIN d.data /\ e.data[x] = d.data[x]
  BY ErasureBrings
<1>2. r = IF Has(e, from) /\ from # to THEN c ELSE e BY DEF copy_to, Result
<1> HIDE DEF e
<1>3. CASE Has(e, from) /\ from # to
  <2>1. w = [data |-> Put(e.data, to, e.data[from]), expiry |-> e.expiry] /\ IsDb(w)
    BY <1>1, StoreIs, Zenon
  <2>2. c = [data |-> w.data, expiry |-> Without(w.expiry, to)] BY <2>1, ClearIs, Zenon
  <2> HIDE DEF w, c
  <2>3. w.data = Put(e.data, to, e.data[from]) BY <2>1
  <2>4. c.data = w.data BY <2>2
  <2>5. from \in DOMAIN d.data /\ e.data[from] = d.data[from] BY <1>1, <1>3, Zenon DEF Has
  <2>6. c.data = Put(e.data, to, d.data[from]) BY <2>3, <2>4, <2>5, Zenon
  <2>7. Brings(d, c, d, from, to) BY <1>1, <2>5, <2>6, PutBrings, Zenon
  <2> QED BY <1>2, <1>3, <2>7, Zenon
<1>4. CASE ~(Has(e, from) /\ from # to)
  <2>1. r = e BY <1>2, <1>4, Zenon
  <2> HIDE DEF r
  <2> QED BY <1>1, <2>1, Zenon DEF Brings, r
<1> QED BY <1>3, <1>4

LEMMA MoveToBrings ==
    ASSUME NEW d, NEW from, NEW to, NEW t \in Int, GoodDb(d)
    PROVE  Brings(d, move_to(d, from, to, t).db, d, from, to)
<1> DEFINE e == erase_if_expired(d, from, t).db
           m == MoveValue(e, from, e, to)
           c == do_expire(m, from)
           r == move_to(d, from, to, t).db
<1>1. IsDb(e) /\ \A x \in DOMAIN e.data : x \in DOMAIN d.data /\ e.data[x] = d.data[x]
  BY ErasureBrings
<1>2. r = IF Has(e, from) /\ from # to THEN c ELSE e BY DEF move_to, del, Result
<1> HIDE DEF e
<1>3. CASE Has(e, from) /\ from # to
  <2>1. IsDb(m) /\ m.data = Put(e.data, to, e.data[from])
    BY <1>1, MoveValueIs, MoveValueBrings, Zenon
  <2>2. from \in DOMAIN d.data /\ e.data[from] = d.data[from] BY <1>1, <1>3, Zenon DEF Has
  <2>3. m.data = Put(e.data, to, d.data[from]) BY <2>1, <2>2, Zenon
  <2> HIDE DEF m
  <2>4. Brings(d, m, d, from, to) BY <1>1, <2>2, <2>3, PutBrings, Zenon
  <2>5. c = [data |-> Without(m.data, from), expiry |-> Without(m.expiry, from)]
    BY <2>1, ExpireIs, Zenon
  <2> HIDE DEF c
  <2>6. c.data = Without(m.data, from) BY <2>5
  <2>7. /\ DOMAIN Without(m.data, from) = DOMAIN m.data \ {from}
        /\ \A x \in DOMAIN m.data \ {from} : Without(m.data, from)[x] = m.data[x]
    BY WithoutIs
  <2>8. DOMAIN c.data = DOMAIN m.data \ {from} /\ \A x \in DOMAIN m.data \ {from} : c.data[x] = m.data[x]
    BY <2>6, <2>7, Zenon
  <2>9. Brings(d, c, d, from, to) BY <2>4, <2>8, Zenon DEF Brings
  <2> QED BY <1>2, <1>3, <2>9, Zenon
<1>4. CASE ~(Has(e, from) /\ from # to)
  <2>1. r = e BY <1>2, <1>4, Zenon
  <2> HIDE DEF r
  <2> QED BY <1>1, <2>1, Zenon DEF Brings, r
<1> QED BY <1>3, <1>4

\* From one database to another.
LEMMA CopyToDbBrings ==
    ASSUME NEW d, NEW k, NEW dst, NEW t \in Int, GoodDb(d), GoodDb(dst)
    PROVE  LET r == copy_to_db(d, k, dst, t) IN
           Leaves(d, r.db, {}) /\ Brings(dst, r.dst, d, k, k)
<1> DEFINE e == erase_if_expired(d, k, t).db
           w == Store(dst, k, e.data[k])
           c == clear_expiry(w, k).db
           r == copy_to_db(d, k, dst, t)
<1>1. IsDb(e) /\ \A x \in DOMAIN e.data : x \in DOMAIN d.data /\ e.data[x] = d.data[x]
  BY ErasureBrings
<1>2. r.db = e /\ r.dst = IF Has(e, k) THEN c ELSE dst BY DEF copy_to_db
<1> HIDE DEF e
<1>3. Leaves(d, e, {}) BY <1>1, Zenon DEF Leaves
<1>4. CASE Has(e, k)
  <2>0. IsDb(dst) BY DEF GoodDb
  <2>1. w = [data |-> Put(dst.data, k, e.data[k]), expiry |-> dst.expiry] /\ IsDb(w)
    BY <2>0, StoreIs, Zenon
  <2>2. c = [data |-> w.data, expiry |-> Without(w.expiry, k)] BY <2>1, ClearIs, Zenon
  <2> HIDE DEF w, c
  <2>3. w.data = Put(dst.data, k, e.data[k]) BY <2>1
  <2>4. c.data = w.data BY <2>2
  <2>5. k \in DOMAIN d.data /\ e.data[k] = d.data[k] BY <1>1, <1>4, Zenon DEF Has
  <2>6. c.data = Put(dst.data, k, d.data[k]) BY <2>3, <2>4, <2>5, Zenon
  <2>7. Brings(dst, c, d, k, k) BY <2>5, <2>6, PutBrings, Zenon
  <2> HIDE DEF r
  <2> QED BY <1>2, <1>3, <1>4, <2>7, Zenon DEF r
<1>5. CASE ~Has(e, k)
  <2> HIDE DEF r, c
  <2>1. Brings(dst, dst, d, k, k) BY Zenon DEF Brings
  <2> QED BY <1>2, <1>3, <1>5, <2>1, Zenon DEF r
<1> QED BY <1>4, <1>5

LEMMA MoveToDbBrings ==
    ASSUME NEW d, NEW k, NEW dst, NEW t \in Int, GoodDb(d), GoodDb(dst)
    PROVE  LET r == move_to_db(d, k, dst, t) IN
           Leaves(d, r.db, {}) /\ Brings(dst, r.dst, d, k, k)
<1> DEFINE e == erase_if_expired(d, k, t).db
           x == do_expire(e, k)
           c == MoveValue(e, k, dst, k)
           r == move_to_db(d, k, dst, t)
<1>1. IsDb(e) /\ \A y \in DOMAIN e.data : y \in DOMAIN d.data /\ e.data[y] = d.data[y]
  BY ErasureBrings
<1>2. r.db = (IF Has(e, k) THEN x ELSE e) /\ r.dst = IF Has(e, k) THEN c ELSE dst
  BY DEF move_to_db, del, Result
<1> HIDE DEF e
<1>3. Leaves(d, e, {}) BY <1>1, Zenon DEF Leaves
<1>4. Leaves(d, x, {}) BY <1>1, <1>3, ExpireLeaves
<1> HIDE DEF x
<1>5. CASE Has(e, k)
  <2>0. IsDb(dst) BY DEF GoodDb
  <2>1. c.data = Put(dst.data, k, e.data[k]) BY <2>0, MoveValueBrings, Zenon
  <2>5. k \in DOMAIN d.data /\ e.data[k] = d.data[k] BY <1>1, <1>5, Zenon DEF Has
  <2>6. c.data = Put(dst.data, k, d.data[k]) BY <2>1, <2>5, Zenon
  <2> HIDE DEF c
  <2>7. Brings(dst, c, d, k, k) BY <2>5, <2>6, PutBrings, Zenon
  <2> HIDE DEF r
  <2> QED BY <1>2, <1>4, <1>5, <2>7, Zenon DEF r
<1>6. CASE ~Has(e, k)
  <2> HIDE DEF r, c
  <2>1. Brings(dst, dst, d, k, k) BY Zenon DEF Brings
  <2> QED BY <1>2, <1>3, <1>6, <2>1, Zenon DEF r
<1> QED BY <1>5, <1>6

\* A string or a number takes the place of a container.
LEMMA PrimSetLeaves ==
    ASSUME NEW d, NEW k, NEW v \in Values, GoodDb(d)
    PROVE  Leaves(d, prim_set(d, k, v).db, {})
<1> DEFINE w == Store(d, k, v)
<1>1. GoodValue(v) /\ ~IsEmpty(v) BY ContainerAssumption, OtherIsGood
<1>2. IsDb(w) /\ Leaves(d, w, {}) BY <1>1, StoreLeaves, LeavesItself, Zenon DEF GoodDb
<1>3. prim_set(d, k, v).db = clear_expiry(w, k).db BY Zenon DEF prim_set, Result
<1> HIDE DEF w
<1> QED BY <1>2, <1>3, ClearLeaves, Zenon

LEMMA IncrLeaves ==
    ASSUME NEW d, NEW k, NEW v \in Values, NEW t \in Int, GoodDb(d)
    PROVE  Leaves(d, incr(d, k, v, t).db, {})
<1> DEFINE e == erase_if_expired(d, k, t).db
           sum == <<v[1], e.data[k][2] + v[2]>>
           r == incr(d, k, v, t).db
<1>1. IsDb(e) /\ \A x \in DOMAIN e.data : x \in DOMAIN d.data /\ e.data[x] = d.data[x]
  BY ErasureBrings
<1>2. r \in {e, Store(e, k, v), Store(e, k, sum)} BY DEF incr, Result
<1>3. GoodValue(v) /\ ~IsEmpty(v) BY ContainerAssumption, OtherIsGood
<1>4. GoodValue(sum) /\ ~IsEmpty(sum)
  <2>1. sum[1] = v[1] OBVIOUS
  <2> HIDE DEF sum
  <2> QED BY <2>1, ContainerAssumption, OtherIsGood
<1> HIDE DEF e, sum
<1>5. Leaves(d, e, {}) BY <1>1, Zenon DEF Leaves
<1>6. Leaves(d, Store(e, k, v), {}) BY <1>1, <1>3, <1>5, StoreLeaves, Zenon
<1>7. Leaves(d, Store(e, k, sum), {}) BY <1>1, <1>4, <1>5, StoreLeaves, Zenon
<1> HIDE DEF r
<1> QED BY <1>2, <1>5, <1>6, <1>7, Zenon DEF r

LEMMA SetExpiryLeaves ==
    ASSUME NEW d, NEW k, NEW at, GoodDb(d)
    PROVE  Leaves(d, set_expiry(d, k, at).db, {})
<1>1. set_expiry(d, k, at).db.data = d.data BY DEF set_expiry, Result, GoodDb, IsDb
<1> QED BY <1>1, Zenon DEF Leaves

LEMMA ResetLeaves ==
    ASSUME NEW d
    PROVE  Leaves(d, reset(d).db, {})
<1>1. DOMAIN reset(d).db.data = {} BY DEF reset, NewDatabase, Result
<1> QED BY <1>1 DEF Leaves

LEMMA DelLeaves ==
    ASSUME NEW d, NEW k, GoodDb(d)
    PROVE  Leaves(d, del(d, k).db, {})
<1>1. del(d, k).db = do_expire(d, k) BY DEF del, Result
<1>2. IsDb(d) /\ Leaves(d, d, {}) BY LeavesItself, Zenon DEF GoodDb
<1> QED BY <1>1, <1>2, ExpireLeaves, Zenon

-----------------------------------------------------------------------------
(* The reads *)

\* All that a read does is to expire keys.
ReadOnly(d, r) == IsDb(r.db) /\ r.db = wal_redo_expiry(d, r.expired)

LEMMA OutIs ==
    ASSUME NEW r, NEW a, NEW b, NEW c, r = Result(a, b, c), NEW out
    PROVE  [r EXCEPT !.out = out].db = a /\ [r EXCEPT !.out = out].expired = c
BY DEF Result

LEMMA ErasureRead ==
    ASSUME NEW d, NEW e, NEW eo, Erasure(d, e, eo), NEW r, r.db = e.db, r.expired = e.expired
    PROVE  ReadOnly(d, r)
<1>1. IsDb(e.db) /\ e.db = wal_redo_expiry(d, e.expired) BY Zenon DEF Erasure, GoodDb
<1> QED BY <1>1, Zenon DEF ReadOnly

\* A read of one key, by its answer or by what it makes of another's answer.
LEMMA KeyRead ==
    ASSUME NEW d, NEW k, NEW t \in Int, GoodDb(d), NEW all, NEW b,
           all = Result(erase_if_expired(d, k, t).db, b, erase_if_expired(d, k, t).expired)
    PROVE  ReadOnly(d, all) /\ \A out : ReadOnly(d, [all EXCEPT !.out = out])
<1> DEFINE e == erase_if_expired(d, k, t)
<1>1. Erasure(d, e, erase_if_expired(d, k, Off)) BY ErasureIs
<1> HIDE DEF e
<1>2. all = Result(e.db, b, e.expired) BY Zenon DEF e
<1>3. all.db = e.db /\ all.expired = e.expired BY <1>2, ResultIs
<1>4. ASSUME NEW out PROVE ReadOnly(d, [all EXCEPT !.out = out])
  <2> DEFINE r == [all EXCEPT !.out = out]
  <2>1. r.db = e.db /\ r.expired = e.expired BY <1>2, OutIs
  <2> HIDE DEF r
  <2>2. ReadOnly(d, r) BY <1>1, <2>1, ErasureRead, Zenon
  <2> QED BY <2>2 DEF r
<1> QED BY <1>1, <1>3, <1>4, ErasureRead, Zenon

LEMMA ListReads ==
    ASSUME NEW d, NEW k, NEW t \in Int, GoodDb(d), NEW n, NEW m
    PROVE  /\ ReadOnly(d, list_len(d, k, t))
           /\ ReadOnly(d, list_get(d, k, n, t))
           /\ ReadOnly(d, list_range(d, k, n, m, t))
<1> DEFINE e == erase_if_expired(d, k, t)
<1>1. \E b : list_len(d, k, t) = Result(e.db, b, e.expired) BY Zenon DEF list_len
<1>2. \E b : list_get(d, k, n, t) = Result(e.db, b, e.expired) BY Zenon DEF list_get
<1>3. \E b : list_range(d, k, n, m, t) = Result(e.db, b, e.expired) BY Zenon DEF list_range
<1> QED BY <1>1, <1>2, <1>3, KeyRead, Zenon

LEMMA SetReads ==
    ASSUME NEW d, NEW k, NEW t \in Int, GoodDb(d), NEW x
    PROVE  /\ ReadOnly(d, set_all(d, k, t))
           /\ ReadOnly(d, set_len(d, k, t))
           /\ ReadOnly(d, set_contains(d, k, x, t))
<1> DEFINE e == erase_if_expired(d, k, t)
           all == set_all(d, k, t)
<1>1. \E b : all = Result(e.db, b, e.expired) BY Zenon DEF set_all
<1>2. ReadOnly(d, all) /\ \A out : ReadOnly(d, [all EXCEPT !.out = out]) BY <1>1, KeyRead, Zenon
<1> QED BY <1>2, Zenon DEF set_len, set_contains

LEMMA HashReads ==
    ASSUME NEW d, NEW k, NEW t \in Int, GoodDb(d), NEW f, NEW fs
    PROVE  /\ ReadOnly(d, hash_all(d, k, t))
           /\ ReadOnly(d, hash_len(d, k, t))
           /\ ReadOnly(d, hash_keys(d, k, t))
           /\ ReadOnly(d, hash_values(d, k, t))
           /\ ReadOnly(d, hash_many_get(d, k, fs, t))
           /\ ReadOnly(d, hash_get(d, k, f, t))
           /\ ReadOnly(d, hash_key_len(d, k, f, t))
           /\ ReadOnly(d, hash_contains(d, k, f, t))
<1> DEFINE e == erase_if_expired(d, k, t)
           all == hash_all(d, k, t)
           got == hash_get(d, k, f, t)
<1>1. \E b : all = Result(e.db, b, e.expired) BY Zenon DEF hash_all
<1>2. ReadOnly(d, all) /\ \A out : ReadOnly(d, [all EXCEPT !.out = out]) BY <1>1, KeyRead, Zenon
<1>3. \E b : got = Result(e.db, b, e.expired)
  <2>1. \E out : got = [all EXCEPT !.out = out] BY Zenon DEF hash_get
  <2>2. ASSUME NEW b, all = Result(e.db, b, e.expired), NEW out
        PROVE  [all EXCEPT !.out = out] = Result(e.db, out, e.expired)
    <3> HIDE DEF all, e
    <3> QED BY <2>2 DEF Result
  <2> QED BY <1>1, <2>1, <2>2, Zenon
<1>4. ReadOnly(d, got) /\ \A out : ReadOnly(d, [got EXCEPT !.out = out]) BY <1>3, KeyRead, Zenon
<1>5. \A x : ReadOnly(d, OfHash(all, x)) BY <1>2, Zenon DEF OfHash
<1>6. ReadOnly(d, hash_len(d, k, t)) BY <1>5, Zenon DEF hash_len
<1>7. ReadOnly(d, hash_keys(d, k, t)) BY <1>5, Zenon DEF hash_keys
<1>8. ReadOnly(d, hash_values(d, k, t)) BY <1>5, Zenon DEF hash_values
<1>9. ReadOnly(d, hash_many_get(d, k, fs, t)) BY <1>5, Zenon DEF hash_many_get
<1>10. ReadOnly(d, hash_key_len(d, k, f, t)) BY <1>4, Zenon DEF hash_key_len
<1>11. ReadOnly(d, hash_contains(d, k, f, t)) BY <1>5, Zenon DEF hash_contains
<1> QED BY <1>2, <1>4, <1>6, <1>7, <1>8, <1>9, <1>10, <1>11, Zenon

LEMMA SetsRead ==
    ASSUME NEW d, NEW t \in Int, GoodDb(d), NEW ks, NEW r, NEW b,
           r = Result(erase_all_expired(d, ks, t).db, b, erase_all_expired(d, ks, t).expired)
    PROVE  ReadOnly(d, r) /\ ReadOnly(d, SizeOf(r))
<1> DEFINE e == erase_all_expired(d, ks, t)
<1>1. Erasure(d, e, erase_all_expired(d, ks, Off)) BY ErasureOfAll
<1> HIDE DEF e
<1>2. r = Result(e.db, b, e.expired) BY Zenon DEF e
<1>3. r.db = e.db /\ r.expired = e.expired BY <1>2, ResultIs
<1>4. SizeOf(r).db = e.db /\ SizeOf(r).expired = e.expired
  <2>1. \E out : SizeOf(r) = [r EXCEPT !.out = out] BY Zenon DEF SizeOf
  <2>2. ASSUME NEW out PROVE [r EXCEPT !.out = out].db = e.db /\ [r EXCEPT !.out = out].expired = e.expired
    BY <1>2, OutIs
  <2> QED BY <2>1, <2>2, Zenon
<1> QED BY <1>1, <1>3, <1>4, ErasureRead, Zenon

LEMMA ManySetReads ==
    ASSUME NEW d, NEW t \in Int, GoodDb(d), NEW k, NEW j, NEW ks, NEW l
    PROVE  /\ ReadOnly(d, set_union(d, ks, t)) /\ ReadOnly(d, SizeOf(set_union(d, ks, t)))
           /\ ReadOnly(d, set_intersection(d, l, t)) /\ ReadOnly(d, SizeOf(set_intersection(d, l, t)))
           /\ ReadOnly(d, set_difference(d, k, j, t)) /\ ReadOnly(d, SizeOf(set_difference(d, k, j, t)))
<1>1. \E b : set_union(d, ks, t)
               = Result(erase_all_expired(d, ks, t).db, b, erase_all_expired(d, ks, t).expired)
  BY Zenon DEF set_union
<1>2. \E b : set_intersection(d, l, t)
               = Result(erase_all_expired(d, Range(l), t).db, b, erase_all_expired(d, Range(l), t).expired)
  BY Zenon DEF set_intersection
<1>3. \E b : set_difference(d, k, j, t)
               = Result(erase_all_expired(d, {k, j}, t).db, b, erase_all_expired(d, {k, j}, t).expired)
  BY Zenon DEF set_difference
<1> QED BY <1>1, <1>2, <1>3, SetsRead, Zenon

-----------------------------------------------------------------------------
(* Indices *)

LEMMA PartIs ==
    ASSUME NEW S, NEW l, NEW from \in Int, NEW to \in Int, \A i \in from .. to : l[i] \in S
    PROVE  /\ SubSeq(l, from, to) \in Seq(S)
           /\ Len(SubSeq(l, from, to)) = IF to < from THEN 0 ELSE to - from + 1
           /\ \A i \in 1 .. to - from + 1 : SubSeq(l, from, to)[i] = l[from + i - 1]
OBVIOUS

LEMMA SameList ==
    ASSUME NEW S, NEW l \in Seq(S), NEW m \in Seq(S), Len(m) = Len(l),
           \A i \in 1 .. Len(l) : m[i] = l[i]
    PROVE  l = m
OBVIOUS

\* A list request on a list, without expiry.
LEMMA ListHeld ==
    ASSUME NEW d, NEW k, GoodDb(d), Holds(d, k, "list")
    PROVE  LET e == erase_if_expired(d, k, Off) IN
           /\ e.db = d /\ e.expired = {} /\ IsDb(d) /\ Has(d, k) /\ ~Mistyped(d, k, "list")
           /\ ContainerAt(d, k, "list") = d.data[k][2] /\ IsList(d.data[k][2])
<1>1. IsDb(d) /\ GoodValue(d.data[k]) BY Zenon DEF GoodDb, Holds, Has
<1>2. IsList(d.data[k][2]) BY <1>1, Zenon DEF GoodValue, Holds
<1>3. Has(d, k) /\ ~Mistyped(d, k, "list") /\ ContainerAt(d, k, "list") = d.data[k][2]
  BY Zenon DEF Holds, Mistyped, ContainerAt
<1> QED BY <1>1, <1>2, <1>3, NothingExpired, Zenon

\* How far a pop goes.
LEMMA PopCount ==
    ASSUME NEW size \in Nat, NEW s \in Int
    PROVE  LET n == FromFront(size, s)
               count == IF n < 0 THEN 0 ELSE IF n > size THEN size ELSE n
               it == iterator_or_end(size, s)
           IN /\ (IF s < -size THEN 0 ELSE it) = count
              /\ it # size <=> n \in 0 .. (size - 1)
BY DEF FromFront, iterator_or_end

LEMMA PopsIndex ==
    ASSUME NEW d, NEW k, GoodDb(d), Holds(d, k, "list"), NEW s \in Int
    PROVE  PopsAt(d, k, s)
<1> DEFINE e == erase_if_expired(d, k, Off)
           l == d.data[k][2]
           n == FromFront(Len(l), s)
           count == IF n < 0 THEN 0 ELSE IF n > Len(l) THEN Len(l) ELSE n
           it == iterator_or_end(Len(l), s)
           c == IF s < -Len(l) THEN 0 ELSE it
<1>1. /\ e.db = d /\ e.expired = {} /\ Has(d, k)
      /\ ContainerAt(d, k, "list") = l /\ IsList(l)
  BY ListHeld
<1>2. Len(l) \in Nat BY <1>1, ListIs
<1>3. c = count /\ (it # Len(l) <=> n \in 0 .. (Len(l) - 1)) BY <1>2, PopCount
<1> HIDE DEF l, e, count, it, n
<1>4. list_pop_left(d, k, s, Off).out = Ok(SubSeq(l, 1, c))
  <2>1. list_pop_left(d, k, s, Off) = ListPop(e, k, SubSeq(l, 1, c), SubSeq(l, c + 1, Len(l)))
    BY <1>1, Zenon DEF list_pop_left, e, it
  <2>2. ASSUME NEW taken, NEW rest PROVE ListPop(e, k, taken, rest).out = Ok(taken)
    BY <1>1 DEF ListPop, Result
  <2> QED BY <2>1, <2>2, Zenon
<1>5. list_pop_right(d, k, s, Off).out = Ok(SubSeq(l, Len(l) - c + 1, Len(l)))
  <2>1. list_pop_right(d, k, s, Off)
          = ListPop(e, k, SubSeq(l, Len(l) - c + 1, Len(l)), SubSeq(l, 1, Len(l) - c))
    BY <1>1, Zenon DEF list_pop_right, reverse_iterator_or_rend, e, it
  <2>2. ASSUME NEW taken, NEW rest PROVE ListPop(e, k, taken, rest).out = Ok(taken)
    BY <1>1 DEF ListPop, Result
  <2> QED BY <2>1, <2>2, Zenon
<1>6. list_get(d, k, s, Off).out[1] = "ok" <=> it # Len(l)
  <2> DEFINE i == iterator_or_error(d, k, s)
  <2>1. i = IF it = Len(l) THEN Error("OutOfRange") ELSE Ok(it)
    BY <1>1, Zenon DEF iterator_or_error, it, l
  <2>2. i[1] = "ok" <=> it # Len(l)
    <3> HIDE DEF i
    <3> QED BY <2>1 DEF Error, Ok
  <2>3. \E x : list_get(d, k, s, Off) = Result(d, IF i[1] = "ok" THEN Ok(x) ELSE i, {})
    BY <1>1, Zenon DEF list_get, e
  <2> HIDE DEF i
  <2>4. \E x : list_get(d, k, s, Off).out = IF i[1] = "ok" THEN Ok(x) ELSE i BY <2>3, ResultIs
  <2>5. \A x : Ok(x)[1] = "ok" BY DEF Ok
  <2> QED BY <2>2, <2>4, <2>5, Zenon
<1> QED BY <1>3, <1>4, <1>5, <1>6, Zenon DEF l, count, n, PopsAt

-----------------------------------------------------------------------------
(* The inductive invariant *)

AreGood(f) == IsFcn(f) /\ DOMAIN f = Databases /\ \A i \in Databases : GoodDb(f[i])

CInv ==
    /\ AreGood(live) /\ AreGood(redone)
    /\ now \in Nat
    /\ expiring \in 0..NumDatabases
    /\ persisting \in 0..(NumDatabases + 1)
    /\ reordered \in BOOLEAN /\ up \in BOOLEAN /\ stuck \in BOOLEAN /\ drawn \in BOOLEAN
    /\ ContainersRebuilt

LEMMA ChangeGood ==
    ASSUME NEW f, NEW i \in Databases, NEW d, AreGood(f), GoodDb(d)
    PROVE  AreGood([f EXCEPT ![i] = d])
BY Zenon DEF AreGood, IsFcn

LEMMA GoodIsDbs ==
    ASSUME NEW f, AreGood(f)
    PROVE  AreDbs(f)
BY Zenon DEF AreGood, GoodDb, AreDbs

LEMMA RedoGood ==
    ASSUME NEW d, NEW gone, GoodDb(d)
    PROVE  GoodDb(wal_redo_expiry(d, gone))
<1>1. IsDb(wal_redo_expiry(d, gone)) BY RedoExpiry, Zenon DEF GoodDb
<1> QED BY <1>1, RedoLeaves, LeavesGood, Zenon

LEMMA CInitially == CInit => CInv
<1> SUFFICES ASSUME CInit PROVE CInv OBVIOUS
<1>1. GoodDb(NewDatabase) BY NewIsDb DEF GoodDb, NewDatabase
<1>2. AreGood(live) /\ AreGood(redone) BY <1>1 DEF CInit, Init, AreGood, IsFcn
<1>3. now \in Nat /\ expiring \in 0..NumDatabases /\ persisting \in 0..(NumDatabases + 1)
  BY WalRedoAssumption DEF CInit, Init
<1>4. reordered \in BOOLEAN /\ up \in BOOLEAN /\ stuck \in BOOLEAN /\ drawn \in BOOLEAN
  BY DEF CInit, Init
<1>5. ContainersRebuilt BY Zenon DEF CInit, Init, ContainersRebuilt
<1> QED BY <1>2, <1>3, <1>4, <1>5 DEF CInv

\* While the program serves, the log gives what is in memory.
LEMMA Serving ==
    ASSUME CInv, up, Together
    PROVE  ~stuck /\ redone = live
BY Zenon DEF CInv, ContainersRebuilt, Together

LEMMA Parts ==
    ASSUME CInv, NEW i \in Databases
    PROVE  GoodDb(live[i]) /\ GoodDb(redone[i]) /\ now \in Int /\ Off \in Int
<1>1. GoodDb(live[i]) /\ GoodDb(redone[i]) BY Zenon DEF CInv, AreGood
<1>2. now \in Int /\ Off \in Int BY DEF CInv, Off
<1> QED BY <1>1, <1>2

\* A logged request that its entry redoes, unless it finds an expired key or has
\* more than one outcome.
LEMMA WriteKeeps ==
    ASSUME CInv, up, NEW i \in Databases, NEW done, NEW redo, Write(i, done, redo),
           stuck' \in BOOLEAN, drawn' \in BOOLEAN, GoodDb(done.db), GoodDb(redo.db),
           done.expired = {} /\ ~drawn' => ~stuck' /\ redo.db = done.db
    PROVE  CInv'
<1> DEFINE r == wal_redo_expiry(redo.db, done.expired)
<1>1. GoodDb(r) BY RedoGood, Zenon
<1>2. redone = live BY Serving, Zenon DEF Write
<1>3. AreGood(live)' BY ChangeGood, Zenon DEF CInv, Write
<1>4. AreGood(redone)'
  <2>1. AreGood(redone) /\ AreGood([redone EXCEPT ![i] = r]) BY <1>1, ChangeGood, Zenon DEF CInv
  <2>2. redone' = redone \/ redone' = [redone EXCEPT ![i] = r] BY Zenon DEF Write
  <2> HIDE DEF r
  <2> QED BY <2>1, <2>2, Zenon DEF AreGood
<1>5. (now \in Nat /\ expiring \in 0..NumDatabases /\ persisting \in 0..(NumDatabases + 1))'
  BY Zenon DEF CInv, Write
<1>6. reordered' \in BOOLEAN /\ up' \in BOOLEAN BY DEF CInv, Write
<1>7. ContainersRebuilt'
  <2> SUFFICES ASSUME ~reordered', ~drawn' PROVE ~stuck' /\ redone' = live'
    BY Zenon DEF ContainersRebuilt
  <2>1. done.expired = {} BY DEF Write
  <2>2. ~stuck' /\ redo.db = done.db BY <2>1, Zenon
  <2>3. r = done.db
    <3>1. wal_redo_expiry(redo.db, {}) = redo.db BY RedoExpiry, Zenon DEF GoodDb
    <3> QED BY <2>1, <2>2, <3>1, Zenon
  <2>4. redone' = [redone EXCEPT ![i] = r] BY <2>2, Zenon DEF Write
  <2> HIDE DEF r
  <2> QED BY <1>2, <2>2, <2>3, <2>4, Zenon DEF Write
<1> QED BY <1>3, <1>4, <1>5, <1>6, <1>7, Zenon DEF CInv

\* A read, whose `expire' entries are all it leaves on the log.
LEMMA ReadKeeps ==
    ASSUME CInv, NEW i \in Databases, NEW done, ReadStep(i, done), ReadOnly(live[i], done)
    PROVE  CInv'
<1>0. up /\ Together /\ Unlogged(i, done) /\ UNCHANGED <<now, expiring, persisting>>
        /\ UNCHANGED <<up, stuck, drawn>>
  BY Zenon DEF ReadStep, Runs
<1>1. ~stuck /\ redone = live BY <1>0, Serving, Zenon
<1>2. done.db = wal_redo_expiry(live[i], done.expired) BY Zenon DEF ReadOnly
<1>3. GoodDb(done.db) BY <1>2, RedoGood, Zenon DEF CInv, AreGood
<1>4. AreGood(live)' BY <1>0, <1>3, ChangeGood, Zenon DEF CInv, Unlogged
<1>5. redone' = live' BY <1>0, <1>1, <1>2, Zenon DEF Unlogged
<1>6. AreGood(redone)' BY <1>4, <1>5, Zenon DEF AreGood
<1>7. reordered' = reordered BY <1>0, Zenon DEF Unlogged
<1>8. ContainersRebuilt' BY <1>0, <1>1, <1>5, Zenon DEF ContainersRebuilt
<1>9. (now \in Nat /\ expiring \in 0..NumDatabases /\ persisting \in 0..(NumDatabases + 1))'
  BY <1>0, Zenon DEF CInv
<1>10. reordered' \in BOOLEAN /\ up' \in BOOLEAN /\ stuck' \in BOOLEAN /\ drawn' \in BOOLEAN
  BY <1>0, <1>7, Zenon DEF CInv
<1> QED BY <1>4, <1>6, <1>8, <1>9, <1>10, Zenon DEF CInv

-----------------------------------------------------------------------------
(* Lists, sets and hashes keep it *)

\* An operation goes astray in memory just when its entry does, if it finds
\* nothing expired.
LEMMA SameUndefined ==
    ASSUME NEW d, NEW o, NEW t \in Int, GoodDb(d), erase_if_expired(d, o.key, t).expired = {}
    PROVE  ListUndefined(d, o, t) <=> ListUndefined(d, o, Off)
<1>1. Erasure(d, erase_if_expired(d, o.key, t), erase_if_expired(d, o.key, Off)) BY ErasureIs
<1>2. erase_if_expired(d, o.key, Off) = erase_if_expired(d, o.key, t) BY <1>1, Zenon DEF Erasure
<1> QED BY <1>2, Zenon DEF ListUndefined

\* A range that crosses takes the program down.
LEMMA ListRangeKeeps ==
    ASSUME CInv, NEW i \in Databases, NEW k, NEW start, NEW end, ListRange(i, k, start, end)
    PROVE  CInv' /\ (live' = live \/ \E r : ReadStep(i, r) /\ ReadOnly(live[i], r))
<1>1. CASE ReadStep(i, list_range(live[i], k, start, end, now))
  <2>1. ReadOnly(live[i], list_range(live[i], k, start, end, now)) BY Parts, ListReads
  <2>2. CInv' BY <1>1, <2>1, ReadKeeps
  <2> QED BY <1>1, <2>1, <2>2, Zenon
<1>2. CASE /\ up' = FALSE /\ expiring' = 0 /\ persisting' = 0
           /\ UNCHANGED <<live, redone, now, reordered, stuck, drawn>>
  <2>1. AreGood(live)' /\ AreGood(redone)' BY <1>2, Zenon DEF CInv, AreGood
  <2>2. now' \in Nat /\ expiring' \in 0..NumDatabases /\ persisting' \in 0..(NumDatabases + 1)
    BY <1>2, WalRedoAssumption DEF CInv
  <2>3. reordered' \in BOOLEAN /\ up' \in BOOLEAN /\ drawn' \in BOOLEAN /\ stuck' \in BOOLEAN
    BY <1>2 DEF CInv
  <2>4. ContainersRebuilt' BY <1>2, Zenon DEF ContainersRebuilt
  <2> QED BY <1>2, <2>1, <2>2, <2>3, <2>4, Zenon DEF CInv
<1> QED BY <1>1, <1>2, Zenon DEF ListRange

LEMMA SetWriteKeeps ==
    ASSUME CInv, NEW i \in Databases, NEW o \in SetWrites, SetWrite(i, o)
    PROVE  CInv' /\ Leaves(live[i], live'[i], Stores(o))
<1> DEFINE done == set_do(live[i], o, now)
           redo == redo_set(redone[i], o)
<1>0. up /\ Together /\ Write(i, done, redo) /\ UNCHANGED <<stuck, drawn>>
  BY Zenon DEF SetWrite, Write
<1>1. GoodDb(live[i]) /\ now \in Int /\ Off \in Int BY Parts
<1>2. SetProper(live[i], Stores(o), done, redo_set(live[i], o)) BY <1>1, SetDoIs
<1>3. ~stuck /\ redone = live BY <1>0, Serving, Zenon
<1>4. GoodDb(redo.db)
  <2> DEFINE r == set_do(live[i], o, Off)
  <2>1. SetProper(live[i], Stores(o), r, redo_set(live[i], o)) BY <1>1, SetDoIs
  <2>2. r = redo_set(live[i], o) BY Zenon DEF set_do, redo_set
  <2> HIDE DEF r
  <2>3. GoodDb(r.db) BY <1>1, <2>1, LeavesGood, Zenon DEF SetProper
  <2> QED BY <1>3, <2>2, <2>3, Zenon
<1> HIDE DEF done
<1>5. GoodDb(done.db) /\ Leaves(live[i], done.db, Stores(o))
  BY <1>1, <1>2, LeavesGood, Zenon DEF SetProper
<1>6. done.expired = {} => redo.db = done.db BY <1>2, <1>3, Zenon DEF SetProper
<1>7. stuck' \in BOOLEAN /\ drawn' \in BOOLEAN /\ ~stuck' BY <1>0, <1>3, Zenon DEF CInv
<1> HIDE DEF redo
<1>8. CInv' BY <1>0, <1>4, <1>5, <1>6, <1>7, WriteKeeps, Zenon
<1>9. live'[i] = done.db BY <1>0, Zenon DEF Write, CInv, AreGood
<1> QED BY <1>5, <1>8, <1>9, Zenon

LEMMA HashWriteKeeps ==
    ASSUME CInv, NEW i \in Databases, NEW o \in HashWrites, HashWrite(i, o)
    PROVE  CInv' /\ Leaves(live[i], live'[i], EmptyHashAt(o))
<1> DEFINE done == hash_do(live[i], o, now)
           redo == redo_hash(redone[i], o)
<1>0. up /\ Together /\ Write(i, done, redo) /\ UNCHANGED <<stuck, drawn>>
  BY Zenon DEF HashWrite, Write
<1>1. GoodDb(live[i]) /\ now \in Int /\ Off \in Int BY Parts
<1>2. HashProper(live[i], EmptyHashAt(o), done, redo_hash(live[i], o)) BY <1>1, HashDoIs
<1>3. ~stuck /\ redone = live BY <1>0, Serving, Zenon
<1>4. GoodDb(redo.db)
  <2> DEFINE r == hash_do(live[i], o, Off)
  <2>1. HashProper(live[i], EmptyHashAt(o), r, redo_hash(live[i], o)) BY <1>1, HashDoIs
  <2>2. r = redo_hash(live[i], o) BY Zenon DEF hash_do, redo_hash
  <2> HIDE DEF r
  <2>3. GoodDb(r.db) BY <1>1, <2>1, LeavesGood, Zenon DEF HashProper
  <2> QED BY <1>3, <2>2, <2>3, Zenon
<1> HIDE DEF done
<1>5. GoodDb(done.db) /\ Leaves(live[i], done.db, EmptyHashAt(o))
  BY <1>1, <1>2, LeavesGood, Zenon DEF HashProper
<1>6. done.expired = {} => redo.db = done.db BY <1>2, <1>3, Zenon DEF HashProper
<1>7. stuck' \in BOOLEAN /\ drawn' \in BOOLEAN /\ ~stuck' BY <1>0, <1>3, Zenon DEF CInv
<1> HIDE DEF redo
<1>8. CInv' BY <1>0, <1>4, <1>5, <1>6, <1>7, WriteKeeps, Zenon
<1>9. live'[i] = done.db BY <1>0, Zenon DEF Write, CInv, AreGood
<1> QED BY <1>5, <1>8, <1>9, Zenon

LEMMA HashUpdateKeeps ==
    ASSUME CInv, NEW i \in Databases, NEW k, NEW values, HashUpdate(i, k, values)
    PROVE  CInv' /\ Leaves(live[i], live'[i], EmptyAt(live[i], k))
<1>1. GoodDb(live[i]) /\ now \in Int /\ Off \in Int BY Parts
<1>2. up /\ stuck' = stuck BY Zenon DEF HashUpdate
<1>3. PICK here, there :
         /\ drawn' = (drawn \/ here # there)
         /\ Write(i, hash_update(live[i], k, values, here, now),
                     hash_update(redone[i], k, values, there, Off))
  BY Zenon DEF HashUpdate
<1> DEFINE done == hash_update(live[i], k, values, here, now)
           redo == hash_update(redone[i], k, values, there, Off)
<1>4. ~stuck /\ redone = live
  <2>1. Together BY <1>3, Zenon DEF Write
  <2> QED BY <1>2, <2>1, Serving, Zenon
<1>5. /\ HashProper(live[i], EmptyAt(live[i], k), done, hash_update(live[i], k, values, here, Off))
      /\ HashProper(live[i], EmptyAt(live[i], k), hash_update(live[i], k, values, there, Off),
                    hash_update(live[i], k, values, there, Off))
  BY <1>1, HashUpdateIs
<1>6. GoodDb(done.db) /\ GoodDb(redo.db) /\ Leaves(live[i], done.db, EmptyAt(live[i], k))
  BY <1>1, <1>4, <1>5, LeavesGood, Zenon DEF HashProper
<1>7. ASSUME done.expired = {}, ~drawn' PROVE redo.db = done.db
  <2>1. here = there BY <1>3, <1>7, Zenon
  <2>2. done = hash_update(live[i], k, values, here, Off) BY <1>5, <1>7, Zenon DEF HashProper
  <2> QED BY <1>4, <2>1, <2>2, Zenon
<1>8. Write(i, done, redo) BY <1>3, Zenon
<1>9. drawn' \in BOOLEAN BY <1>3
<1>10. stuck' \in BOOLEAN /\ ~stuck' BY <1>2, <1>4, Zenon DEF CInv
<1> HIDE DEF done, redo
<1>11. CInv' BY <1>2, <1>6, <1>7, <1>8, <1>9, <1>10, WriteKeeps, Zenon
<1>12. live'[i] = done.db BY <1>8, Zenon DEF Write, CInv, AreGood
<1> QED BY <1>6, <1>11, <1>12, Zenon

-----------------------------------------------------------------------------
(* The requests of WalRedo keep it *)

LEMMA LoggedGood ==
    ASSUME CInv, NEW i \in Databases, NEW done, NEW redo, Logged(i, done, redo),
           IsDb(done.db), IsDb(redo.db), NEW ks,
           Leaves(live[i], done.db, ks), Leaves(redone[i], redo.db, ks)
    PROVE  AreGood(live)' /\ AreGood(redone)'
<1>1. GoodDb(done.db) /\ GoodDb(redo.db) BY Parts, LeavesGood, Zenon
<1>2. GoodDb(wal_redo_expiry(redo.db, done.expired)) BY <1>1, RedoGood, Zenon
<1>3. AreGood(live)' BY <1>1, ChangeGood, Zenon DEF CInv, Logged
<1>4. AreGood(redone)' BY <1>2, ChangeGood, Zenon DEF CInv, Logged
<1> QED BY <1>3, <1>4

\* From one key to another.
LEMMA LoggedBrings ==
    ASSUME CInv, NEW i \in Databases, NEW done, NEW redo, Logged(i, done, redo),
           IsDb(done.db), IsDb(redo.db), NEW from, NEW to,
           Brings(live[i], done.db, live[i], from, to),
           Brings(redone[i], redo.db, redone[i], from, to)
    PROVE  AreGood(live)' /\ AreGood(redone)'
<1>1. GoodDb(done.db) /\ GoodDb(redo.db) BY Parts, BringsGood, Zenon
<1>2. GoodDb(wal_redo_expiry(redo.db, done.expired)) BY <1>1, RedoGood, Zenon
<1>3. AreGood(live)' BY <1>1, ChangeGood, Zenon DEF CInv, Logged
<1>4. AreGood(redone)' BY <1>2, ChangeGood, Zenon DEF CInv, Logged
<1> QED BY <1>3, <1>4

\* From one database to another.
LEMMA LoggedOnBrings ==
    ASSUME CInv, NEW i \in Databases, NEW j \in Databases, NEW done, NEW redo,
           LoggedOn(i, j, done, redo),
           IsDb(done.db), IsDb(redo.db), IsDb(done.dst), IsDb(redo.dst), NEW k,
           Leaves(live[i], done.db, {}), Leaves(redone[i], redo.db, {}),
           Brings(live[j], done.dst, live[i], k, k), Brings(redone[j], redo.dst, redone[i], k, k)
    PROVE  AreGood(live)' /\ AreGood(redone)'
<1>1. GoodDb(done.db) /\ GoodDb(redo.db) BY Parts, LeavesGood, Zenon
<1>2. GoodDb(done.dst) /\ GoodDb(redo.dst) BY Parts, BringsGood, Zenon
<1> DEFINE r == wal_redo_expiry(redo.db, done.expired)
<1>3. GoodDb(r) BY <1>1, RedoGood, Zenon
<1>4. AreGood([[live EXCEPT ![i] = done.db] EXCEPT ![j] = done.dst])
  BY <1>1, <1>2, ChangeGood, Zenon DEF CInv
<1>5. AreGood([[redone EXCEPT ![i] = r] EXCEPT ![j] = redo.dst])
  BY <1>2, <1>3, ChangeGood, Zenon DEF CInv
<1>6. AreGood(live)' BY <1>4, Zenon DEF LoggedOn
<1>7. AreGood(redone)' BY <1>5, Zenon DEF LoggedOn
<1> QED BY <1>6, <1>7

\* What a read is, of WalRedo.
LEMMA KeysRead ==
    ASSUME NEW i \in Databases, GoodDb(live[i]), now \in Int, Read(i)
    PROVE  \E done : Unlogged(i, done) /\ ReadOnly(live[i], done)
<1> DEFINE d == live[i]
           e(k) == erase_if_expired(d, k, now)
<1>1. ASSUME NEW k, NEW r, NEW b, r = Result(e(k).db, b, e(k).expired) PROVE ReadOnly(d, r)
  BY <1>1, KeyRead, Zenon
<1>2. ASSUME NEW k
      PROVE  /\ ReadOnly(d, has(d, k, now)) /\ ReadOnly(d, get(d, k, now))
             /\ ReadOnly(d, type(d, k, now)) /\ ReadOnly(d, get_expiry(d, k, now))
             /\ ReadOnly(d, str_len(d, k, now))
  <2>1. has(d, k, now) = Result(e(k).db, Has(e(k).db, k), e(k).expired) BY Zenon DEF has
  <2>2. \E b : get(d, k, now) = Result(e(k).db, b, e(k).expired) BY Zenon DEF get
  <2>3. \E b : type(d, k, now) = Result(e(k).db, b, e(k).expired) BY Zenon DEF type
  <2>4. \E b : get_expiry(d, k, now) = Result(e(k).db, b, e(k).expired) BY Zenon DEF get_expiry
  <2>5. \E b : str_len(d, k, now) = Result(e(k).db, b, e(k).expired) BY Zenon DEF str_len
  <2> QED BY <1>1, <2>1, <2>2, <2>3, <2>4, <2>5, Zenon
<1>3. ASSUME NEW r, r.db = wal_redo_expiry(d, r.expired) PROVE ReadOnly(d, r)
  <2>1. IsDb(wal_redo_expiry(d, r.expired)) BY RedoExpiry, Zenon DEF GoodDb
  <2> QED BY <1>3, <2>1, Zenon DEF ReadOnly
<1>4. ASSUME NEW ks PROVE ReadOnly(d, many_get(d, ks, now))
  <2>1. many_get(d, ks, now).db = wal_redo_expiry(d, many_get(d, ks, now).expired)
    BY Zenon DEF many_get, wal_redo_expiry, Result
  <2> QED BY <1>3, <2>1, Zenon
<1>5. ReadOnly(d, keys(d, now))
  <2>1. keys(d, now).db = wal_redo_expiry(d, keys(d, now).expired)
    BY Zenon DEF keys, deep_purge, wal_redo_expiry, Result
  <2> QED BY <1>3, <2>1, Zenon
<1> QED BY <1>2, <1>4, <1>5, Zenon DEF Read

LEMMA ReadGood ==
    ASSUME CInv, NEW i \in Databases, NEW done, Unlogged(i, done), ReadOnly(live[i], done)
    PROVE  AreGood(live)' /\ AreGood(redone)'
<1>1. done.db = wal_redo_expiry(live[i], done.expired) BY Zenon DEF ReadOnly
<1>2. GoodDb(done.db) BY <1>1, RedoGood, Zenon DEF CInv, AreGood
<1>3. GoodDb(wal_redo_expiry(redone[i], done.expired)) BY RedoGood, Zenon DEF CInv, AreGood
<1>4. AreGood(live)' BY <1>2, ChangeGood, Zenon DEF CInv, Unlogged
<1>5. AreGood(redone)' BY <1>3, ChangeGood, Zenon DEF CInv, Unlogged
<1> QED BY <1>4, <1>5

-----------------------------------------------------------------------------
(* No step leaves an empty container behind, but for those that store one *)

LEMMA EmptyStays ==
    ASSUME NEW i, NEW k \in DOMAIN live[i].data, IsEmpty(live[i].data[k])
    PROVE  StoresEmpty(i, k)
BY Zenon DEF StoresEmpty

LEMMA NoneByLeaving ==
    ASSUME NEW i \in Databases, NEW ks, Leaves(live[i], live'[i], ks),
           \A j \in Databases \ {i} : live'[j] = live[j],
           \A k \in ks : StoresEmpty(i, k)
    PROVE  NoneEmptied
<1> SUFFICES ASSUME NEW j \in Databases, NEW k \in DOMAIN live'[j].data, IsEmpty(live'[j].data[k])
             PROVE  StoresEmpty(j, k)
  BY Zenon DEF NoneEmptied
<1>1. CASE j # i
  <2>1. live'[j] = live[j] BY <1>1, Zenon
  <2> QED BY <2>1, EmptyStays, Zenon
<1>2. CASE j = i
  <2>1. k \in ks \/ (k \in DOMAIN live[i].data /\ IsEmpty(live[i].data[k])) BY <1>2, Zenon DEF Leaves
  <2> QED BY <1>2, <2>1, EmptyStays, Zenon
<1> QED BY <1>1, <1>2

LEMMA NoneByLeavingNone ==
    ASSUME NEW i \in Databases, Leaves(live[i], live'[i], {}),
           \A j \in Databases \ {i} : live'[j] = live[j]
    PROVE  NoneEmptied
<1> DEFINE ks == {}
<1>1. Leaves(live[i], live'[i], ks) /\ \A k \in ks : StoresEmpty(i, k) BY Zenon
<1> HIDE DEF ks
<1> QED BY <1>1, NoneByLeaving, Zenon

LEMMA NoneByBringing ==
    ASSUME NEW i \in Databases, NEW from, NEW to, Brings(live[i], live'[i], live[i], from, to),
           \A j \in Databases \ {i} : live'[j] = live[j],
           CopyTo(i, from, to) \/ MoveTo(i, from, to)
    PROVE  NoneEmptied
<1> SUFFICES ASSUME NEW j \in Databases, NEW k \in DOMAIN live'[j].data, IsEmpty(live'[j].data[k])
             PROVE  StoresEmpty(j, k)
  BY Zenon DEF NoneEmptied
<1>1. CASE j # i
  <2>1. live'[j] = live[j] BY <1>1, Zenon
  <2> QED BY <2>1, EmptyStays, Zenon
<1>2. CASE j = i
  <2>1. \/ k \in DOMAIN live[i].data /\ IsEmpty(live[i].data[k])
        \/ k = to /\ from \in DOMAIN live[i].data /\ IsEmpty(live[i].data[from])
    BY <1>2, Zenon DEF Brings
  <2>2. CASE k = to /\ from \in DOMAIN live[i].data /\ IsEmpty(live[i].data[from])
    BY <1>2, <2>2, Zenon DEF StoresEmpty
  <2> QED BY <1>2, <2>1, <2>2, EmptyStays, Zenon
<1> QED BY <1>1, <1>2

LEMMA NoneByBringingOver ==
    ASSUME NEW i \in Databases, NEW d \in Databases, NEW k, i # d,
           Leaves(live[i], live'[i], {}), Brings(live[d], live'[d], live[i], k, k),
           \A j \in Databases \ {i, d} : live'[j] = live[j],
           CopyToDb(i, d, k) \/ MoveToDb(i, d, k)
    PROVE  NoneEmptied
<1> SUFFICES ASSUME NEW j \in Databases, NEW x \in DOMAIN live'[j].data, IsEmpty(live'[j].data[x])
             PROVE  StoresEmpty(j, x)
  BY Zenon DEF NoneEmptied
<1>1. CASE j # i /\ j # d
  <2>1. live'[j] = live[j] BY <1>1, Zenon
  <2> QED BY <2>1, EmptyStays, Zenon
<1>2. CASE j = i
  <2>1. x \in DOMAIN live[i].data /\ IsEmpty(live[i].data[x]) BY <1>2, Zenon DEF Leaves
  <2> QED BY <1>2, <2>1, EmptyStays, Zenon
<1>3. CASE j = d
  <2>1. \/ x \in DOMAIN live[d].data /\ IsEmpty(live[d].data[x])
        \/ x = k /\ k \in DOMAIN live[i].data /\ IsEmpty(live[i].data[k])
    BY <1>3, Zenon DEF Brings
  <2>2. CASE x = k /\ k \in DOMAIN live[i].data /\ IsEmpty(live[i].data[k])
    BY <1>3, <2>2, Zenon DEF StoresEmpty, Has
  <2> QED BY <1>3, <2>1, <2>2, EmptyStays, Zenon
<1> QED BY <1>1, <1>2, <1>3

LEMMA SetsNone ==
    ASSUME CInv, NEW i \in Databases, NEW o \in SetWrites, SetWrite(i, o)
    PROVE  NoneEmptied
<1>1. Leaves(live[i], live'[i], Stores(o)) BY SetWriteKeeps, Zenon
<1>2. \A j \in Databases \ {i} : live'[j] = live[j] BY Zenon DEF SetWrite, Write, CInv, AreGood
<1>3. \A k \in Stores(o) : StoresEmpty(i, k)
  <2>1. \A k \in Stores(o) : o.op \in IntoOps /\ o.dest = k BY Zenon DEF Stores, IntoOps
  <2> QED BY <2>1, Zenon DEF StoresEmpty
<1> QED BY <1>1, <1>2, <1>3, NoneByLeaving, Zenon

LEMMA HashesNone ==
    ASSUME CInv, NEW i \in Databases, NEW o \in HashWrites, HashWrite(i, o)
    PROVE  NoneEmptied
<1>1. Leaves(live[i], live'[i], EmptyHashAt(o)) BY HashWriteKeeps, Zenon
<1>2. \A j \in Databases \ {i} : live'[j] = live[j] BY Zenon DEF HashWrite, Write, CInv, AreGood
<1>3. \A k \in EmptyHashAt(o) : StoresEmpty(i, k)
  <2>1. \A k \in EmptyHashAt(o) : o.op = "hash_set" /\ o.key = k BY Zenon DEF EmptyHashAt
  <2> QED BY <2>1, Zenon DEF StoresEmpty
<1> QED BY <1>1, <1>2, <1>3, NoneByLeaving, Zenon

LEMMA UpdateNone ==
    ASSUME CInv, NEW i \in Databases, NEW k, NEW values, HashUpdate(i, k, values)
    PROVE  NoneEmptied
<1>1. Leaves(live[i], live'[i], EmptyAt(live[i], k)) BY HashUpdateKeeps, Zenon
<1>2. \A j \in Databases \ {i} : live'[j] = live[j] BY Zenon DEF HashUpdate, Write, CInv, AreGood
<1>3. \A x \in EmptyAt(live[i], k) : StoresEmpty(i, x)
  <2>1. \A x \in EmptyAt(live[i], k) : x \in DOMAIN live[i].data /\ IsEmpty(live[i].data[x])
    BY Zenon DEF EmptyAt, Has, Holds
  <2> QED BY <2>1, EmptyStays, Zenon
<1> QED BY <1>1, <1>2, <1>3, NoneByLeaving, Zenon

-----------------------------------------------------------------------------
(* The steps *)

\* The requests of WalRedo.
RequestDoes == AreGood(live)' /\ AreGood(redone)' /\ NoneEmptied

LEMMA LoggedDoes ==
    ASSUME CInv, NEW i \in Databases, NEW done, NEW redo, Logged(i, done, redo),
           IsDb(done.db), IsDb(redo.db),
           Leaves(live[i], done.db, {}), Leaves(redone[i], redo.db, {})
    PROVE  RequestDoes
<1>1. AreGood(live)' /\ AreGood(redone)' BY LoggedGood, Zenon
<1>2. live'[i] = done.db /\ \A j \in Databases \ {i} : live'[j] = live[j]
  BY Zenon DEF Logged, CInv, AreGood
<1>3. NoneEmptied BY <1>2, NoneByLeavingNone, Zenon
<1> QED BY <1>1, <1>3 DEF RequestDoes

LEMMA BringsDoes ==
    ASSUME CInv, NEW i \in Databases, NEW done, NEW redo, Logged(i, done, redo),
           IsDb(done.db), IsDb(redo.db), NEW from, NEW to,
           Brings(live[i], done.db, live[i], from, to),
           Brings(redone[i], redo.db, redone[i], from, to),
           CopyTo(i, from, to) \/ MoveTo(i, from, to)
    PROVE  RequestDoes
<1>1. AreGood(live)' /\ AreGood(redone)' BY LoggedBrings, Zenon
<1>2. live'[i] = done.db /\ \A j \in Databases \ {i} : live'[j] = live[j]
  BY Zenon DEF Logged, CInv, AreGood
<1>3. NoneEmptied BY <1>2, NoneByBringing, Zenon
<1> QED BY <1>1, <1>3 DEF RequestDoes

LEMMA BringsOverDoes ==
    ASSUME CInv, NEW i \in Databases, NEW j \in Databases, i # j, NEW done, NEW redo,
           LoggedOn(i, j, done, redo),
           IsDb(done.db), IsDb(redo.db), IsDb(done.dst), IsDb(redo.dst), NEW k,
           Leaves(live[i], done.db, {}), Leaves(redone[i], redo.db, {}),
           Brings(live[j], done.dst, live[i], k, k), Brings(redone[j], redo.dst, redone[i], k, k),
           CopyToDb(i, j, k) \/ MoveToDb(i, j, k)
    PROVE  RequestDoes
<1>1. AreGood(live)' /\ AreGood(redone)' BY LoggedOnBrings, Zenon
<1>2. /\ live'[i] = done.db /\ live'[j] = done.dst
      /\ \A x \in Databases \ {i, j} : live'[x] = live[x]
  BY Zenon DEF LoggedOn, CInv, AreGood
<1>3. NoneEmptied BY <1>2, NoneByBringingOver, Zenon
<1> QED BY <1>1, <1>3 DEF RequestDoes

LEMMA ReadDoes ==
    ASSUME CInv, NEW i \in Databases, NEW done, Unlogged(i, done), ReadOnly(live[i], done)
    PROVE  RequestDoes
<1>1. AreGood(live)' /\ AreGood(redone)' BY ReadGood, Zenon
<1>2. /\ live'[i] = wal_redo_expiry(live[i], done.expired)
      /\ \A j \in Databases \ {i} : live'[j] = live[j]
  BY Zenon DEF Unlogged, ReadOnly, CInv, AreGood
<1>3. Leaves(live[i], live'[i], {}) BY <1>2, RedoLeaves, Zenon
<1>4. NoneEmptied BY <1>2, <1>3, NoneByLeavingNone, Zenon
<1> QED BY <1>1, <1>4 DEF RequestDoes

LEMMA OneKey ==
    ASSUME CInv, NEW i \in Databases, NEW k \in Keys,
           \/ Reset(i) \/ Del(i, k) \/ ClearExpiry(i, k)
           \/ \E at \in Times : SetExpiry(i, k, at)
           \/ \E v \in Values : Set(i, k, v) \/ Incr(i, k, v)
    PROVE  RequestDoes
<1> DEFINE d == live[i]
           r == redone[i]
<1>1. GoodDb(d) /\ GoodDb(r) /\ now \in Int /\ Off \in Int BY Parts
<1>2. CASE Reset(i)
  <2>1. IsDb(reset(d).db) /\ IsDb(reset(r).db) BY NewIsDb DEF reset, Result
  <2>2. Leaves(d, reset(d).db, {}) /\ Leaves(r, reset(r).db, {}) BY ResetLeaves, Zenon
  <2>3. Logged(i, reset(d), reset(r)) BY <1>2, Zenon DEF Reset
  <2> QED BY <2>1, <2>2, <2>3, LoggedDoes, Zenon
<1>3. CASE Del(i, k)
  <2>1. IsDb(del(d, k).db) /\ IsDb(del(r, k).db) BY <1>1, ExpireIs, Zenon DEF del, Result, GoodDb
  <2>2. Leaves(d, del(d, k).db, {}) /\ Leaves(r, del(r, k).db, {}) BY <1>1, DelLeaves, Zenon
  <2>3. Logged(i, del(d, k), del(r, k)) BY <1>3, Zenon DEF Del
  <2> QED BY <2>1, <2>2, <2>3, LoggedDoes, Zenon
<1>4. CASE ClearExpiry(i, k)
  <2>1. ASSUME NEW x, GoodDb(x) PROVE IsDb(clear_expiry(x, k).db) /\ Leaves(x, clear_expiry(x, k).db, {})
    BY <2>1, ClearLeaves, LeavesItself, Zenon DEF GoodDb
  <2>2. Logged(i, clear_expiry(d, k), clear_expiry(r, k)) BY <1>4, Zenon DEF ClearExpiry
  <2> QED BY <1>1, <2>1, <2>2, LoggedDoes, Zenon
<1>5. ASSUME NEW at \in Times, SetExpiry(i, k, at) PROVE RequestDoes
  <2>1. at \in Nat BY WalRedoAssumption DEF Times
  <2>2. ASSUME NEW x, GoodDb(x) PROVE IsDb(set_expiry(x, k, at).db) /\ Leaves(x, set_expiry(x, k, at).db, {})
    BY <2>1, <2>2, SetExpiryIs, SetExpiryLeaves, Zenon DEF GoodDb
  <2>3. Logged(i, set_expiry(d, k, at), set_expiry(r, k, at)) BY <1>5, Zenon DEF SetExpiry
  <2> QED BY <1>1, <2>2, <2>3, LoggedDoes, Zenon
<1>6. ASSUME NEW v \in Values, Set(i, k, v) PROVE RequestDoes
  <2>1. ASSUME NEW x, GoodDb(x) PROVE IsDb(prim_set(x, k, v).db) /\ Leaves(x, prim_set(x, k, v).db, {})
    BY <2>1, PrimSetIs, PrimSetLeaves, Zenon DEF GoodDb
  <2>2. Logged(i, prim_set(d, k, v), prim_set(r, k, v)) BY <1>6, Zenon DEF Set
  <2> QED BY <1>1, <2>1, <2>2, LoggedDoes, Zenon
<1>7. ASSUME NEW v \in Values, Incr(i, k, v) PROVE RequestDoes
  <2>1. ASSUME NEW x, NEW t \in Int, GoodDb(x)
        PROVE  IsDb(incr(x, k, v, t).db) /\ Leaves(x, incr(x, k, v, t).db, {})
    BY <2>1, IncrIs, IncrLeaves, Zenon DEF GoodDb, Redoable
  <2>2. Logged(i, incr(d, k, v, now), incr(r, k, v, Off)) BY <1>7, Zenon DEF Incr
  <2> QED BY <1>1, <2>1, <2>2, LoggedDoes, Zenon
<1> QED BY <1>2, <1>3, <1>4, <1>5, <1>6, <1>7, Zenon

LEMMA TwoKeys ==
    ASSUME CInv, NEW i \in Databases, NEW k, NEW to, CopyTo(i, k, to) \/ MoveTo(i, k, to)
    PROVE  RequestDoes
<1> DEFINE d == live[i]
           r == redone[i]
<1>1. GoodDb(d) /\ GoodDb(r) /\ now \in Int /\ Off \in Int BY Parts
<1>2. CASE CopyTo(i, k, to)
  <2>1. ASSUME NEW x, NEW t \in Int, GoodDb(x)
        PROVE  IsDb(copy_to(x, k, to, t).db) /\ Brings(x, copy_to(x, k, to, t).db, x, k, to)
    BY <2>1, CopyToIs, CopyToBrings, Zenon DEF GoodDb, Redoable
  <2>2. Logged(i, copy_to(d, k, to, now), copy_to(r, k, to, Off)) BY <1>2, Zenon DEF CopyTo
  <2> QED BY <1>1, <1>2, <2>1, <2>2, BringsDoes, Zenon
<1>3. CASE MoveTo(i, k, to)
  <2>1. ASSUME NEW x, NEW t \in Int, GoodDb(x)
        PROVE  IsDb(move_to(x, k, to, t).db) /\ Brings(x, move_to(x, k, to, t).db, x, k, to)
    BY <2>1, MoveToIs, MoveToBrings, Zenon DEF GoodDb, Redoable
  <2>2. Logged(i, move_to(d, k, to, now), move_to(r, k, to, Off)) BY <1>3, Zenon DEF MoveTo
  <2> QED BY <1>1, <1>3, <2>1, <2>2, BringsDoes, Zenon
<1> QED BY <1>2, <1>3

LEMMA TwoDatabases ==
    ASSUME CInv, NEW i \in Databases, NEW j \in Databases, NEW k, CopyToDb(i, j, k) \/ MoveToDb(i, j, k)
    PROVE  RequestDoes
<1>1. /\ GoodDb(live[i]) /\ GoodDb(redone[i]) /\ GoodDb(live[j]) /\ GoodDb(redone[j])
      /\ now \in Int /\ Off \in Int
  BY Parts, Zenon
<1>2. CASE CopyToDb(i, j, k)
  <2> DEFINE c(x, y, t) == copy_to_db(x, k, y, t)
  <2>1. ASSUME NEW x, NEW y, NEW t \in Int, GoodDb(x), GoodDb(y)
        PROVE  /\ IsDb(c(x, y, t).db) /\ IsDb(c(x, y, t).dst)
               /\ Leaves(x, c(x, y, t).db, {}) /\ Brings(y, c(x, y, t).dst, x, k, k)
    <3>1. IsDb(c(x, y, t).db) /\ IsDb(c(x, y, t).dst) BY <2>1, CopyToDbIs, Zenon DEF GoodDb, Redoable
    <3>2. Leaves(x, c(x, y, t).db, {}) /\ Brings(y, c(x, y, t).dst, x, k, k)
      BY <2>1, CopyToDbBrings, Zenon
    <3> QED BY <3>1, <3>2, Zenon
  <2>2. i # j /\ LoggedOn(i, j, c(live[i], live[j], now), c(redone[i], redone[j], Off))
    BY <1>2, Zenon DEF CopyToDb
  <2> HIDE DEF c
  <2> QED BY <1>1, <1>2, <2>1, <2>2, BringsOverDoes, Zenon
<1>3. CASE MoveToDb(i, j, k)
  <2> DEFINE c(x, y, t) == move_to_db(x, k, y, t)
  <2>1. ASSUME NEW x, NEW y, NEW t \in Int, GoodDb(x), GoodDb(y)
        PROVE  /\ IsDb(c(x, y, t).db) /\ IsDb(c(x, y, t).dst)
               /\ Leaves(x, c(x, y, t).db, {}) /\ Brings(y, c(x, y, t).dst, x, k, k)
    <3>1. IsDb(c(x, y, t).db) /\ IsDb(c(x, y, t).dst) BY <2>1, MoveToDbIs, Zenon DEF GoodDb, Redoable
    <3>2. Leaves(x, c(x, y, t).db, {}) /\ Brings(y, c(x, y, t).dst, x, k, k)
      BY <2>1, MoveToDbBrings, Zenon
    <3> QED BY <3>1, <3>2, Zenon
  <2>2. i # j /\ LoggedOn(i, j, c(live[i], live[j], now), c(redone[i], redone[j], Off))
    BY <1>3, Zenon DEF MoveToDb
  <2> HIDE DEF c
  <2> QED BY <1>1, <1>3, <2>1, <2>2, BringsOverDoes, Zenon
<1> QED BY <1>2, <1>3

LEMMA RequestStep ==
    ASSUME CInv, NEW i \in Databases, Runs(Request(i))
    PROVE  CInv' /\ NoneEmptied
<1>0. up /\ Together /\ Request(i) /\ UNCHANGED <<up, stuck, drawn>> BY Zenon DEF Runs
<1>1. RequestDoes
  <2>1. CASE Read(i)
    <3>1. GoodDb(live[i]) /\ now \in Int BY Parts
    <3> QED BY <2>1, <3>1, KeysRead, ReadDoes, Zenon
  <2>2. CASE Reset(i)
    <3>1. Logged(i, reset(live[i]), reset(redone[i])) BY <2>2, Zenon DEF Reset
    <3>2. IsDb(reset(live[i]).db) /\ IsDb(reset(redone[i]).db) BY NewIsDb DEF reset, Result
    <3> QED BY <3>1, <3>2, ResetLeaves, LoggedDoes, Zenon
  <2> QED BY <1>0, <2>1, <2>2, OneKey, TwoKeys, TwoDatabases, Zenon DEF Request
<1>2. ~stuck /\ redone = live BY <1>0, Serving, Zenon
<1>3. IInv
  <2>1. AreDbs(live) /\ AreDbs(redone) BY GoodIsDbs, Zenon DEF CInv
  <2>2. RedoRebuilds BY <1>2, Zenon DEF RedoRebuilds
  <2> QED BY <2>1, <2>2, Zenon DEF IInv, CInv
<1>4. IInv' BY <1>0, <1>3, RequestKeeps, Zenon
<1>5. ContainersRebuilt' BY <1>0, <1>2, <1>4, Zenon DEF IInv, RedoRebuilds, ContainersRebuilt
<1>6. up' \in BOOLEAN /\ stuck' \in BOOLEAN /\ drawn' \in BOOLEAN BY <1>0, Zenon DEF CInv
<1> QED BY <1>1, <1>4, <1>5, <1>6, Zenon DEF CInv, IInv, RequestDoes

\* A step that leaves memory alone.
LEMMA QuietStep ==
    ASSUME live' = live
    PROVE  NoneEmptied
<1> SUFFICES ASSUME NEW j \in Databases, NEW k \in DOMAIN live'[j].data, IsEmpty(live'[j].data[k])
             PROVE  StoresEmpty(j, k)
  BY Zenon DEF NoneEmptied
<1> QED BY EmptyStays, Zenon

LEMMA RestartStep ==
    ASSUME CInv, Restart
    PROVE  CInv' /\ NoneEmptied
<1>1. AreGood(live)'
  <2>1. ASSUME NEW i \in Databases PROVE GoodDb(deep_purge(redone[i], now).db)
    <3>1. GoodDb(redone[i]) BY Parts
    <3>2. deep_purge(redone[i], now).db = wal_redo_expiry(redone[i], deep_purge(redone[i], now).expired)
      BY <3>1, PurgeIs, Zenon DEF GoodDb
    <3> QED BY <3>1, <3>2, RedoGood, Zenon
  <2>2. live' = [i \in Databases |-> deep_purge(redone[i], now).db] BY Zenon DEF Restart, CrashAndRecover
  <2> QED BY <2>1, <2>2, Zenon DEF AreGood, IsFcn
<1>2. redone' = live' /\ ~stuck' /\ up' = TRUE /\ drawn' = FALSE /\ reordered' = FALSE
  BY Zenon DEF Restart, CrashAndRecover, CInv
<1>3. AreGood(redone)' BY <1>1, <1>2, Zenon DEF AreGood
<1>4. now' \in Nat /\ expiring' \in 0..NumDatabases /\ persisting' \in 0..(NumDatabases + 1)
  BY WalRedoAssumption DEF Restart, CrashAndRecover, CInv
<1>5. reordered' \in BOOLEAN /\ up' \in BOOLEAN /\ stuck' \in BOOLEAN /\ drawn' \in BOOLEAN
  BY <1>2, Zenon DEF Restart, CInv
<1>6. ContainersRebuilt' BY <1>2, Zenon DEF ContainersRebuilt
<1>7. NoneEmptied BY Zenon DEF NoneEmptied, StoresEmpty
<1> QED BY <1>1, <1>3, <1>4, <1>5, <1>6, <1>7, Zenon DEF CInv

LEMMA RestartDiesStep ==
    ASSUME CInv, RestartDies
    PROVE  CInv' /\ NoneEmptied
<1>1. AreGood(live)' /\ AreGood(redone)' BY Zenon DEF CInv, AreGood, RestartDies
<1>2. now' \in Nat /\ expiring' \in 0..NumDatabases /\ persisting' \in 0..(NumDatabases + 1)
  BY WalRedoAssumption DEF CInv, RestartDies
<1>3. reordered' \in BOOLEAN /\ up' \in BOOLEAN /\ stuck' \in BOOLEAN /\ drawn' \in BOOLEAN
  BY Zenon DEF CInv, RestartDies
<1>4. ContainersRebuilt' BY Zenon DEF RestartDies, ContainersRebuilt
<1>5. NoneEmptied BY QuietStep, Zenon DEF RestartDies
<1> QED BY <1>1, <1>2, <1>3, <1>4, <1>5, Zenon DEF CInv

LEMMA TickStep ==
    ASSUME CInv, Runs(Tick)
    PROVE  CInv' /\ NoneEmptied
<1>1. UNCHANGED <<live, redone, expiring, persisting, reordered, up, stuck, drawn>>
  BY Zenon DEF Runs, Tick
<1>2. AreGood(live)' /\ AreGood(redone)' BY <1>1, Zenon DEF CInv, AreGood
<1>3. now' \in Nat BY DEF CInv, Runs, Tick
<1>4. ContainersRebuilt' BY <1>1, Zenon DEF CInv, ContainersRebuilt
<1>5. NoneEmptied BY <1>1, QuietStep, Zenon
<1>6. (/\ expiring \in 0..NumDatabases /\ persisting \in 0..(NumDatabases + 1)
       /\ reordered \in BOOLEAN /\ up \in BOOLEAN /\ stuck \in BOOLEAN /\ drawn \in BOOLEAN)'
  BY <1>1, Zenon DEF CInv
<1> QED BY <1>2, <1>3, <1>4, <1>5, <1>6, Zenon DEF CInv

LEMMA ReadStepKeeps ==
    ASSUME CInv, NEW i \in Databases, NEW done, ReadStep(i, done), ReadOnly(live[i], done)
    PROVE  CInv' /\ NoneEmptied
<1>1. CInv' BY ReadKeeps, Zenon
<1>2. Unlogged(i, done) BY Zenon DEF ReadStep, Runs
<1>3. RequestDoes BY <1>2, ReadDoes, Zenon
<1> QED BY <1>1, <1>3, Zenon DEF RequestDoes

\* A write of a container leaves the other databases alone.
LEMMA WriteElsewhere ==
    ASSUME CInv, NEW i \in Databases, NEW done, NEW redo, Write(i, done, redo)
    PROVE  \A j \in Databases \ {i} : live'[j] = live[j]
BY Zenon DEF Write, CInv, AreGood

LEMMA HashStep ==
    ASSUME CInv, NEW i \in Databases, HashRequest(i)
    PROVE  CInv' /\ NoneEmptied
<1>1. GoodDb(live[i]) /\ now \in Int BY Parts
<1>2. ASSUME NEW o \in HashWrites, HashWrite(i, o) PROVE CInv' /\ NoneEmptied
  BY <1>2, HashWriteKeeps, HashesNone, Zenon
<1>3. ASSUME NEW k, NEW values, HashUpdate(i, k, values) PROVE CInv' /\ NoneEmptied
  BY <1>3, HashUpdateKeeps, UpdateNone, Zenon
<1>4. CASE HashRead(i)
  <2>1. PICK r : ReadStep(i, r) /\ ReadOnly(live[i], r) BY <1>1, <1>4, HashReads, Zenon DEF HashRead
  <2> QED BY <2>1, ReadStepKeeps, Zenon
<1> QED BY <1>2, <1>3, <1>4, Zenon DEF HashRequest

LEMMA StutterKeeps ==
    ASSUME CInv, UNCHANGED cvars
    PROVE  CInv'
<1>1. UNCHANGED <<live, redone, now, expiring, persisting, reordered, up, stuck, drawn>>
  BY Zenon DEF cvars
<1>2. AreGood(live)' /\ AreGood(redone)' BY <1>1, Zenon DEF CInv, AreGood
<1>3. ContainersRebuilt' BY <1>1, Zenon DEF CInv, ContainersRebuilt
<1>4. (/\ now \in Nat /\ expiring \in 0..NumDatabases /\ persisting \in 0..(NumDatabases + 1)
       /\ reordered \in BOOLEAN /\ up \in BOOLEAN /\ stuck \in BOOLEAN /\ drawn \in BOOLEAN)'
  BY <1>1, Zenon DEF CInv
<1> QED BY <1>2, <1>3, <1>4, Zenon DEF CInv

-----------------------------------------------------------------------------
(* Requests that fail *)

LEMMA UpdateRefused ==
    ASSUME NEW d, NEW k, NEW values, NEW seen, NEW t, Has(d, k), ~is_expired(d, k, t),
           hash_answer(hash_update(d, k, values, seen, t).out) # "OK"
    PROVE  hash_update(d, k, values, seen, t).db = d
<1> DEFINE r == hash_update(d, k, values, seen, t)
           e == erase_if_expired(d, k, t)
<1>1. e.db = d BY DEF erase_if_expired, Result
<1>2. CASE Holds(d, k, "hash")
  <2>1. \E x : r.out = Ok(x)
    <3>1. \E x, y : r = Result(y, Ok(x), e.expired) BY <1>1, <1>2, Zenon DEF hash_update
    <3>2. PICK x, y : r = Result(y, Ok(x), e.expired) BY <3>1
    <3> HIDE DEF r, e
    <3>3. r.out = Ok(x) BY <3>2, ResultIs
    <3> QED BY <3>3
  <2>2. ASSUME NEW x PROVE hash_answer(Ok(x)) = "OK" BY DEF hash_answer, Ok, Error
  <2> QED BY <2>1, <2>2, Zenon
<1>3. CASE ~Holds(d, k, "hash")
  <2>1. r = Result(e.db, Error("NotHash"), e.expired) BY <1>1, <1>3, Zenon DEF hash_update
  <2> HIDE DEF r, e
  <2>2. r.db = e.db BY <2>1, ResultIs
  <2> QED BY <1>1, <2>2 DEF r
<1> QED BY <1>2, <1>3
=============================================================================
