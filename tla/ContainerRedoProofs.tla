------------------------- MODULE ContainerRedoProofs -------------------------
(***************************************************************************)
(* Proofs about ContainerRedo, for any keys, elements, fields, indices and *)
(* number of databases.                                                    *)
(***************************************************************************)
EXTENDS ContainerRequestProofs, FiniteSetTheorems

-----------------------------------------------------------------------------
(* List requests, by their counts *)

\* The elements at some places of a list are a list.
LEMMA ElementsList ==
    ASSUME NEW l, NEW kept, IsFiniteSet(kept)
    PROVE  IsList(Elements(l, kept)) /\ Len(Elements(l, kept)) = Cardinality(kept)
<1> DEFINE f == Elements(l, kept)
<1>1. Cardinality(kept) \in Nat BY FS_CardinalityType
<1>2. f = [n \in 1 .. Cardinality(kept) |-> f[n]] BY DEF Elements
<1> HIDE DEF f
<1>3. IsList(f) /\ Len(f) = Cardinality(kept) BY <1>1, <1>2, ListMade
<1> QED BY <1>3 DEF f

LEMMA ListRemoveIs ==
    ASSUME NEW d, NEW k, NEW x, NEW count \in Int, NEW t \in Int, GoodDb(d)
    PROVE  ListProper(d, k, t, list_remove(d, k, x, count, t), list_remove(d, k, x, count, Off))
<1> DEFINE e == erase_if_expired(d, k, t)
           l == ContainerAt(e.db, k, "list")
           gone == Erased(l, x, count)
           rest == Elements(l, DOMAIN l \ gone)
           r == list_remove(d, k, x, count, t)
           off == list_remove(d, k, x, count, Off)
<1>0. Erasure(d, e, erase_if_expired(d, k, Off)) BY ErasureIs
<1>1. e.expired = {} => off = r
  <2>1. e.expired = {} => erase_if_expired(d, k, Off) = e BY <1>0, Zenon DEF Erasure
  <2> QED BY <2>1, Zenon DEF list_remove
<1>2. IsList(l) /\ Len(l) \in Nat /\ DOMAIN l = 1 .. Len(l)
  BY <1>0, ContainersGood, ListIs, Zenon DEF Erasure
<1>3. CASE Mistyped(e.db, k, "list")
  <2>1. r = Result(e.db, Error("NotList"), e.expired) BY <1>3, Zenon DEF list_remove
  <2> HIDE DEF r, off
  <2> QED BY <1>1, <2>1, ListRefused DEF r, off
<1>4. CASE ~Mistyped(e.db, k, "list") /\ ~Has(e.db, k)
  <2>1. r = Result(e.db, Ok(0), e.expired) BY <1>4, Zenon DEF list_remove
  <2> HIDE DEF r, off
  <2> QED BY <1>1, <2>1, ListRefused DEF r, off
<1>5. CASE ~Mistyped(e.db, k, "list") /\ Has(e.db, k)
  <2>1. r = Result(StoreOrDel(e.db, k, <<"list", rest>>), Ok(Cardinality(gone)), e.expired)
    BY <1>5, Zenon DEF list_remove
  <2> HIDE DEF l, gone
  <2>2. IsFiniteSet(1 .. Len(l)) BY <1>2, FS_Interval
  <2>3. IsFiniteSet(DOMAIN l \ gone) BY <1>2, <2>2, FS_Difference
  <2>4. IsList(rest) BY <2>3, ElementsList
  <2> HIDE DEF r, off, rest
  <2> QED BY <1>1, <2>1, <2>4, ListCut DEF r, off
<1> QED BY <1>3, <1>4, <1>5

LEMMA ListDoIs ==
    ASSUME NEW d, NEW o \in ListWrites, NEW t \in Int, GoodDb(d)
    PROVE  ListProper(d, o.key, t, list_do(d, o, t), redo_list(d, o))
<1>0. Indices \subseteq Int BY ContainerAssumption
<1>1. CASE o \in [op : {"list_set"}, key : Keys, index : Indices, value : Items]
  <2>1. o.op = "list_set" /\ o.index \in Int BY <1>0, <1>1
  <2>2. /\ list_do(d, o, t) = list_set(d, o.key, o.index, o.value, t)
        /\ redo_list(d, o) = list_set(d, o.key, o.index, o.value, Off)
    BY <2>1 DEF list_do, redo_list
  <2> QED BY <2>1, <2>2, ListSetIs
<1>2. CASE o \in [op : {"list_push_left", "list_push_right"}, key : Keys, values : Lists(2)]
  <2>1. o.op \in {"list_push_left", "list_push_right"} /\ o.values \in Lists(2) BY <1>2
  <2>2. IsList(o.values) BY <2>1, SentList
  <2>3. CASE o.op = "list_push_left"
    <3>1. /\ list_do(d, o, t) = list_push_left(d, o.key, o.values, t)
          /\ redo_list(d, o) = list_push_left(d, o.key, o.values, Off)
      BY <2>3 DEF list_do, redo_list
    <3> QED BY <2>2, <3>1, ListPushLeftIs
  <2>4. CASE o.op = "list_push_right"
    <3>1. /\ list_do(d, o, t) = list_push_right(d, o.key, o.values, t)
          /\ redo_list(d, o) = list_push_right(d, o.key, o.values, Off)
      BY <2>4 DEF list_do, redo_list
    <3> QED BY <2>2, <3>1, ListPushRightIs
  <2> QED BY <2>1, <2>3, <2>4
<1>3. CASE o \in [op : {"list_pop_left", "list_pop_right"}, key : Keys, n : Indices]
  <2>1. o.op \in {"list_pop_left", "list_pop_right"} /\ o.n \in Int BY <1>0, <1>3
  <2>3. CASE o.op = "list_pop_left"
    <3>1. /\ list_do(d, o, t) = list_pop_left(d, o.key, o.n, t)
          /\ redo_list(d, o) = list_pop_left(d, o.key, o.n, Off)
      BY <2>3 DEF list_do, redo_list
    <3> QED BY <2>1, <3>1, ListPopLeftIs
  <2>4. CASE o.op = "list_pop_right"
    <3>1. /\ list_do(d, o, t) = list_pop_right(d, o.key, o.n, t)
          /\ redo_list(d, o) = list_pop_right(d, o.key, o.n, Off)
      BY <2>4 DEF list_do, redo_list
    <3> QED BY <2>1, <3>1, ListPopRightIs
  <2> QED BY <2>1, <2>3, <2>4
<1>4. CASE o \in [op : {"list_trim"}, key : Keys, start : Indices, end : Indices]
  <2>1. o.op = "list_trim" /\ o.start \in Int /\ o.end \in Int BY <1>0, <1>4
  <2>2. /\ list_do(d, o, t) = list_trim(d, o.key, o.start, o.end, t)
        /\ redo_list(d, o) = list_trim(d, o.key, o.start, o.end, Off)
    BY <2>1 DEF list_do, redo_list
  <2> QED BY <2>1, <2>2, ListTrimIs
<1>5. CASE o \in [op : {"list_remove"}, key : Keys, element : Items, count : Indices]
  <2>1. o.op = "list_remove" /\ o.count \in Int BY <1>0, <1>5
  <2>2. /\ list_do(d, o, t) = list_remove(d, o.key, o.element, o.count, t)
        /\ redo_list(d, o) = list_remove(d, o.key, o.element, o.count, Off)
    BY <2>1 DEF list_do, redo_list
  <2> QED BY <2>1, <2>2, ListRemoveIs
<1> QED BY <1>1, <1>2, <1>3, <1>4, <1>5, Zenon DEF ListWrites

-----------------------------------------------------------------------------
(* Lists and sets keep the invariant *)

LEMMA OffList ==
    ASSUME NEW d, NEW o \in ListWrites, GoodDb(d)
    PROVE  GoodDb(redo_list(d, o).db)
<1> DEFINE r == list_do(d, o, Off)
<1>1. Off \in Int /\ IsDb(d) BY DEF Off, GoodDb
<1>2. ListProper(d, o.key, Off, r, redo_list(d, o)) BY <1>1, ListDoIs
<1>3. erase_if_expired(d, o.key, Off).expired = {}
  <2>1. ~is_expired(d, o.key, Off) BY <1>1 DEF is_expired, Off, IsDb
  <2> QED BY <2>1 DEF erase_if_expired, Result
<1> HIDE DEF r
<1>4. redo_list(d, o) = r BY <1>2, <1>3, Zenon DEF ListProper
<1>5. GoodDb(r.db) BY <1>2, LeavesGood, Zenon DEF ListProper
<1> QED BY <1>4, <1>5, Zenon

LEMMA ListWriteKeeps ==
    ASSUME CInv, NEW i \in Databases, NEW o \in ListWrites, ListWrite(i, o)
    PROVE  CInv' /\ Leaves(live[i], live'[i], {})
<1> DEFINE done == list_do(live[i], o, now)
           redo == redo_list(redone[i], o)
<1>0. up /\ Together /\ Write(i, done, redo) /\ drawn' = drawn BY Zenon DEF ListWrite, Write
<1>1. GoodDb(live[i]) /\ GoodDb(redone[i]) /\ now \in Int BY Parts
<1>2. ListProper(live[i], o.key, now, done, redo_list(live[i], o)) BY <1>1, ListDoIs
<1>3. ~stuck /\ redone = live BY <1>0, Serving, Zenon
<1>4. GoodDb(redo.db) BY <1>1, OffList, Zenon
<1>4a. stuck' = (stuck \/ ListUndefined(redone[i], o, Off)) /\ ~ListUndefined(live[i], o, now)
  BY Zenon DEF ListWrite
<1>5. (stuck' <=> ListUndefined(redone[i], o, Off)) /\ ~ListUndefined(live[i], o, now)
  BY <1>3, <1>4a, Zenon
<1>6. stuck' \in BOOLEAN BY <1>4a
<1> HIDE DEF done
<1>7. GoodDb(done.db) /\ Leaves(live[i], done.db, {})
  BY <1>1, <1>2, LeavesGood, Zenon DEF ListProper
<1>8. ASSUME done.expired = {} PROVE ~stuck' /\ redo.db = done.db
  <2>1. erase_if_expired(live[i], o.key, now).expired = {} BY <1>2, <1>8, Zenon DEF ListProper
  <2>2. ~ListUndefined(live[i], o, Off) BY <1>1, <1>5, <2>1, SameUndefined, Zenon
  <2>3. ~stuck' BY <1>3, <1>5, <2>2, Zenon
  <2>4. redo_list(live[i], o) = done BY <1>2, <1>8, Zenon DEF ListProper
  <2> QED BY <1>3, <2>3, <2>4, Zenon
<1>9. drawn' \in BOOLEAN BY <1>0, Zenon DEF CInv
<1> HIDE DEF redo
<1>10. CInv' BY <1>0, <1>4, <1>6, <1>7, <1>8, <1>9, WriteKeeps, Zenon
<1>11. live'[i] = done.db BY <1>0, Zenon DEF Write, CInv, AreGood
<1> QED BY <1>7, <1>10, <1>11, Zenon

\* The entry of an operation that goes astray.
LEMMA ListWriteDiesKeeps ==
    ASSUME CInv, NEW i \in Databases, NEW o \in ListWrites, ListWriteDies(i, o)
    PROVE  CInv'
<1>1. GoodDb(redone[i]) BY Parts
<1> DEFINE r == redo_list(redone[i], o).db
<1>2. GoodDb(r) BY <1>1, OffList
<1>3. AreGood(live)' BY Zenon DEF CInv, ListWriteDies, AreGood
<1>4. AreGood(redone)'
  <2>1. AreGood(redone) /\ AreGood([redone EXCEPT ![i] = r]) BY <1>2, ChangeGood, Zenon DEF CInv
  <2>2. redone' = redone \/ redone' = [redone EXCEPT ![i] = r] BY Zenon DEF ListWriteDies
  <2> HIDE DEF r
  <2> QED BY <2>1, <2>2, Zenon DEF AreGood
<1>5. now' \in Nat /\ expiring' \in 0..NumDatabases /\ persisting' \in 0..(NumDatabases + 1)
  BY WalRedoAssumption DEF CInv, ListWriteDies
<1>6. reordered' \in BOOLEAN /\ up' \in BOOLEAN /\ drawn' \in BOOLEAN BY DEF CInv, ListWriteDies
<1>7. stuck' \in BOOLEAN
  <2>1. stuck' = (stuck \/ ListUndefined(redone[i], o, Off)) BY Zenon DEF ListWriteDies
  <2> QED BY <2>1
<1>8. ContainersRebuilt' BY Zenon DEF ListWriteDies, ContainersRebuilt
<1> QED BY <1>3, <1>4, <1>5, <1>6, <1>7, <1>8, Zenon DEF CInv

\* A set of one element at most.
LEMMA OnlyOne ==
    ASSUME NEW S, IsFiniteSet(S), ~(Cardinality(S) > 1), NEW x \in S, NEW y \in S
    PROVE  x = y
<1> SUFFICES ASSUME x # y PROVE FALSE OBVIOUS
<1>0. IsFiniteSet({x}) /\ Cardinality({x}) = 1 BY FS_Singleton
<1>1. Cardinality({x} \cup {y}) = 2 BY <1>0, FS_AddElement
<1>2. {x} \cup {y} \in SUBSET S OBVIOUS
<1>3. Cardinality({x} \cup {y}) <= Cardinality(S) BY <1>2, FS_Subset
<1>4. Cardinality(S) \in Nat BY FS_CardinalityType
<1> QED BY <1>1, <1>3, <1>4

LEMMA DrawsFinite ==
    ASSUME NEW d, NEW k, NEW count, NEW t \in Int, GoodDb(d)
    PROVE  IsFiniteSet(Draws(d, k, count, t))
<1> DEFINE e == erase_if_expired(d, k, t)
           s == ContainerAt(e.db, k, "set")
<1>1. GoodDb(e.db) BY ErasureIs, Zenon DEF Erasure
<1>2. s \subseteq Items BY <1>1, ContainersGood, Zenon
<1>3. IsFiniteSet(s) BY <1>2, ContainerAssumption, FS_Subset
<1>4. IsFiniteSet(SUBSET s) BY <1>3, FS_SUBSET
<1>5. Draws(d, k, count, t) \subseteq SUBSET s BY Zenon DEF Draws
<1> QED BY <1>4, <1>5, FS_Subset

\* The draws are the same in memory and in the redo, so if there is one only
\* they take the same.
LEMMA SetRemoveKeeps ==
    ASSUME CInv, NEW i \in Databases, NEW k, NEW count, SetRemove(i, k, count)
    PROVE  CInv' /\ Leaves(live[i], live'[i], {})
<1> DEFINE D(t) == Draws(live[i], k, count, t)
<1>1. GoodDb(live[i]) /\ now \in Int /\ Off \in Int BY Parts
<1>2. up /\ stuck' = stuck BY Zenon DEF SetRemove
<1>3. PICK here \in D(now), there \in Draws(redone[i], k, count, Off) :
         /\ drawn' = (drawn \/ Cardinality(Draws(redone[i], k, count, Off)) > 1)
         /\ Write(i, set_remove(live[i], k, here, now), set_remove(redone[i], k, there, Off))
  BY Zenon DEF SetRemove
<1> DEFINE done == set_remove(live[i], k, here, now)
           redo == set_remove(redone[i], k, there, Off)
<1>4. ~stuck /\ redone = live
  <2>1. Together BY <1>3, Zenon DEF Write
  <2> QED BY <1>2, <2>1, Serving, Zenon
<1>5. /\ SetProper(live[i], {}, done, set_remove(live[i], k, here, Off))
      /\ SetProper(live[i], {}, set_remove(live[i], k, there, Off), set_remove(live[i], k, there, Off))
  BY <1>1, SetRemoveIs
<1>6. GoodDb(done.db) /\ GoodDb(redo.db) /\ Leaves(live[i], done.db, {})
  BY <1>1, <1>4, <1>5, LeavesGood, Zenon DEF SetProper
<1>7. ASSUME done.expired = {}, ~drawn' PROVE redo.db = done.db
  <2>1. erase_if_expired(live[i], k, now).expired = {}
    <3>1. done.expired = erase_if_expired(live[i], k, now).expired
      BY Zenon DEF set_remove, Result
    <3> QED BY <1>7, <3>1, Zenon
  <2>2. erase_if_expired(live[i], k, Off) = erase_if_expired(live[i], k, now)
    BY <1>1, <2>1, ErasureIs, Zenon DEF Erasure
  <2>3. D(now) = D(Off) BY <2>2, Zenon DEF Draws
  <2>4. here \in D(Off) /\ there \in D(Off) BY <1>3, <1>4, <2>3, Zenon
  <2>5. ~(Cardinality(D(Off)) > 1) BY <1>3, <1>4, <1>7, Zenon
  <2>6. IsFiniteSet(D(Off)) BY <1>1, DrawsFinite
  <2> HIDE DEF D
  <2>7. here = there BY <2>4, <2>5, <2>6, OnlyOne
  <2>8. done = set_remove(live[i], k, here, Off) BY <1>5, <1>7, Zenon DEF SetProper
  <2> QED BY <1>4, <2>7, <2>8, Zenon
<1>8. Write(i, done, redo) BY <1>3, Zenon
<1>9. drawn' \in BOOLEAN BY <1>3
<1>10. stuck' \in BOOLEAN /\ ~stuck' BY <1>2, <1>4, Zenon DEF CInv
<1> HIDE DEF done, redo
<1>11. CInv' BY <1>2, <1>6, <1>7, <1>8, <1>9, <1>10, WriteKeeps, Zenon
<1>12. live'[i] = done.db BY <1>8, Zenon DEF Write, CInv, AreGood
<1> QED BY <1>6, <1>11, <1>12, Zenon

LEMMA ListStep ==
    ASSUME CInv, NEW i \in Databases, ListRequest(i)
    PROVE  CInv' /\ NoneEmptied
<1>1. GoodDb(live[i]) /\ now \in Int BY Parts
<1>2. ASSUME NEW o \in ListWrites, ListWrite(i, o) PROVE CInv' /\ NoneEmptied
  <2>1. CInv' /\ Leaves(live[i], live'[i], {}) BY <1>2, ListWriteKeeps, Zenon
  <2>2. \A j \in Databases \ {i} : live'[j] = live[j] BY <1>2, WriteElsewhere, Zenon DEF ListWrite
  <2> QED BY <2>1, <2>2, NoneByLeavingNone, Zenon
<1>3. ASSUME NEW o \in ListWrites, ListWriteDies(i, o) PROVE CInv' /\ NoneEmptied
  <2>1. live' = live BY <1>3, Zenon DEF ListWriteDies
  <2> QED BY <1>3, <2>1, ListWriteDiesKeeps, QuietStep, Zenon
<1>4. CASE ListRead(i)
  <2>1. PICK r : ReadStep(i, r) /\ ReadOnly(live[i], r) BY <1>1, <1>4, ListReads, Zenon DEF ListRead
  <2> QED BY <2>1, ReadStepKeeps, Zenon
<1>5. ASSUME NEW k, NEW start, NEW end, ListRange(i, k, start, end) PROVE CInv' /\ NoneEmptied
  BY <1>5, ListRangeKeeps, ReadStepKeeps, QuietStep, Zenon
<1> QED BY <1>2, <1>3, <1>4, <1>5, Zenon DEF ListRequest

LEMMA SetStep ==
    ASSUME CInv, NEW i \in Databases, SetRequest(i)
    PROVE  CInv' /\ NoneEmptied
<1>1. GoodDb(live[i]) /\ now \in Int BY Parts
<1>2. ASSUME NEW o \in SetWrites, SetWrite(i, o) PROVE CInv' /\ NoneEmptied
  BY <1>2, SetWriteKeeps, SetsNone, Zenon
<1>3. ASSUME NEW k, NEW count, SetRemove(i, k, count) PROVE CInv' /\ NoneEmptied
  <2>1. CInv' /\ Leaves(live[i], live'[i], {}) BY <1>3, SetRemoveKeeps, Zenon
  <2>2. \A j \in Databases \ {i} : live'[j] = live[j] BY <1>3, WriteElsewhere, Zenon DEF SetRemove
  <2> QED BY <2>1, <2>2, NoneByLeavingNone, Zenon
<1>4. CASE SetRead(i)
  <2>1. PICK r : ReadStep(i, r) /\ ReadOnly(live[i], r)
    BY <1>1, <1>4, SetReads, ManySetReads, Zenon DEF SetRead
  <2> QED BY <2>1, ReadStepKeeps, Zenon
<1> QED BY <1>2, <1>3, <1>4, Zenon DEF SetRequest

LEMMA CStepKeeps ==
    ASSUME CInv, CNext
    PROVE  CInv' /\ NoneEmptied
<1>1. ASSUME NEW i \in Databases, ListRequest(i) PROVE CInv' /\ NoneEmptied BY <1>1, ListStep, Zenon
<1>2. ASSUME NEW i \in Databases, SetRequest(i) PROVE CInv' /\ NoneEmptied BY <1>2, SetStep, Zenon
<1>3. ASSUME NEW i \in Databases, HashRequest(i) PROVE CInv' /\ NoneEmptied BY <1>3, HashStep, Zenon
<1>4. ASSUME NEW i \in Databases, Runs(Request(i)) PROVE CInv' /\ NoneEmptied
  BY <1>4, RequestStep
<1>5. CASE Restart BY <1>5, RestartStep, Zenon
<1>6. CASE RestartDies BY <1>6, RestartDiesStep, Zenon
<1>7. CASE Runs(Tick) BY <1>7, TickStep
<1> QED BY <1>1, <1>2, <1>3, <1>4, <1>5, <1>6, <1>7 DEF CNext

-----------------------------------------------------------------------------
(* The invariant *)

LEMMA CInductive == CSpec => []CInv
<1>1. CInv /\ [CNext]_cvars => CInv' BY CStepKeeps, StutterKeeps
<1> QED BY CInitially, <1>1, PTL DEF CSpec

\* As long as no logged request found an expired key and none had more than one
\* outcome, the log of a program that serves can be redone and gives the lists,
\* sets, hashes and other values in memory (wal_redo_db_op).
THEOREM ContainersAreRebuilt == CSpec => []ContainersRebuilt
<1>1. CInv => ContainersRebuilt BY Zenon DEF CInv
<1> QED BY CInductive, <1>1, PTL

\* No request that takes elements out leaves an empty container: only HASH_SET and
\* the SET_..._INTO requests store one, and copies, moves and restarts carry it on
\* (expiry_aware_del in the pops, removals and moves).
THEOREM EmptiedKeysGo == CSpec => EmptiedIsGone
<1>1. CInv /\ [CNext]_cvars => [NoneEmptied]_cvars BY CStepKeeps
<1> QED BY CInductive, <1>1, PTL DEF CSpec, EmptiedIsGone

-----------------------------------------------------------------------------
(* Requests that fail *)

LEMMA FailedIs ==
    ASSUME CInv
    PROVE  FailedChangesNothing
<1> SUFFICES ASSUME NEW i \in Databases
             PROVE  LET d == live[i] IN
                    /\ \A o \in ListWrites :
                          ~ListUndefined(d, o, now) /\ list_answer(list_do(d, o, now).out) # "OK" =>
                              list_do(d, o, now).db = erase_if_expired(d, o.key, now).db
                    /\ \A o \in SetWrites :
                          set_answer(set_do(d, o, now).out) # "OK" =>
                              LET r == set_do(d, o, now) IN r.db = wal_redo_expiry(d, r.expired)
                    /\ \A k \in Keys, values \in Hashes :
                          \A seen \in Reaches(d, k, values, now) :
                              LET r == hash_update(d, k, values, seen, now) IN
                              hash_answer(r.out) # "OK" /\ Has(d, k) /\ ~is_expired(d, k, now) => r.db = d
  BY Zenon DEF FailedChangesNothing
<1> DEFINE d == live[i]
<1>1. GoodDb(d) /\ now \in Int BY Parts
<1>2. ASSUME NEW o \in ListWrites, list_answer(list_do(d, o, now).out) # "OK"
      PROVE  list_do(d, o, now).db = erase_if_expired(d, o.key, now).db
  <2>1. ListProper(d, o.key, now, list_do(d, o, now), redo_list(d, o)) BY <1>1, ListDoIs
  <2>2. ASSUME NEW out, out[1] = "ok" PROVE list_answer(out) = "OK" BY <2>2 DEF list_answer, Error
  <2> QED BY <1>2, <2>1, <2>2, Zenon DEF ListProper
<1>3. ASSUME NEW o \in SetWrites, set_answer(set_do(d, o, now).out) # "OK"
      PROVE  set_do(d, o, now).db = wal_redo_expiry(d, set_do(d, o, now).expired)
  <2>1. SetProper(d, Stores(o), set_do(d, o, now), redo_set(d, o)) BY <1>1, SetDoIs
  <2> QED BY <1>3, <2>1, Zenon DEF SetProper, set_answer
<1>4. \A k, values, seen :
         LET r == hash_update(d, k, values, seen, now) IN
         hash_answer(r.out) # "OK" /\ Has(d, k) /\ ~is_expired(d, k, now) => r.db = d
  <2> TAKE k, values, seen
  <2> DEFINE r == hash_update(d, k, values, seen, now)
  <2>1. ASSUME Has(d, k), ~is_expired(d, k, now), hash_answer(r.out) # "OK" PROVE r.db = d
    <3> HIDE DEF d
    <3> QED BY <2>1, UpdateRefused
  <2> QED BY <2>1, Zenon
<1> QED BY <1>2, <1>3, <1>4, Zenon

\* A list, set or hash request that is not answered OK has left the database as it
\* was, but for the keys it found expired and for HASH_UPDATE of an absent key.
THEOREM FailuresChangeNothing == CSpec => []FailedChangesNothing
BY CInductive, FailedIs, PTL

-----------------------------------------------------------------------------
(* Slices *)

\* The elements of a range of places, in order.
LEMMA ElementsIs ==
    ASSUME NEW l, IsList(l), NEW a \in 0 .. Len(l), NEW b \in 0 .. Len(l)
    PROVE  Elements(l, (a + 1) .. b) = SubSeq(l, a + 1, b)
<1> DEFINE kept == (a + 1) .. b
           at(n) == CHOOSE i \in kept : Cardinality({j \in kept : j < i}) = n - 1
           f == Elements(l, kept)
<1>0. Len(l) \in Nat /\ DOMAIN l = 1 .. Len(l) BY ListIs
<1>1. f = [n \in 1 .. Cardinality(kept) |-> l[at(n)]] BY Zenon DEF Elements
<1>2. CASE b <= a
  <2>1. Cardinality(kept) = 0 BY <1>0, <1>2, FS_Interval
  <2>2. f = <<>>
    <3> HIDE DEF kept, at, f
    <3> QED BY <1>1, <2>1
  <2>3. SubSeq(l, a + 1, b) = <<>> BY <1>0, <1>2, NoPart
  <2> QED BY <2>2, <2>3
<1>3. CASE a < b
  <2>1. Cardinality(kept) = b - a BY <1>0, <1>3, FS_Interval
  <2>2. ASSUME NEW i \in kept PROVE Cardinality({j \in kept : j < i}) = i - 1 - a
    <3>1. {j \in kept : j < i} = (a + 1) .. (i - 1) BY <1>0
    <3>2. Cardinality((a + 1) .. (i - 1)) = IF a + 1 > i - 1 THEN 0 ELSE (i - 1) - (a + 1) + 1
      BY <1>0, FS_Interval
    <3>3. Cardinality((a + 1) .. (i - 1)) = i - 1 - a
      <4> DEFINE c == Cardinality((a + 1) .. (i - 1))
      <4>1. c = IF a + 1 > i - 1 THEN 0 ELSE (i - 1) - (a + 1) + 1 BY <3>2
      <4>2. a \in Int /\ i \in Int /\ i >= a + 1 BY <1>0
      <4> HIDE DEF c
      <4>3. c = i - 1 - a BY <4>1, <4>2
      <4> QED BY <4>3 DEF c
    <3> QED BY <3>1, <3>3, Zenon
  <2>3. ASSUME NEW n \in 1 .. (b - a) PROVE at(n) = a + n
    <3>1. a + n \in kept BY <1>0
    <3>2. Cardinality({j \in kept : j < a + n}) = n - 1
      <4>1. Cardinality({j \in kept : j < a + n}) = (a + n) - 1 - a BY <2>2, <3>1, Zenon
      <4> QED BY <1>0, <4>1
    <3>3. ASSUME NEW i \in kept, Cardinality({j \in kept : j < i}) = n - 1 PROVE i = a + n
      <4>1. i - 1 - a = n - 1 BY <2>2, <3>3, Zenon
      <4> QED BY <1>0, <4>1
    <3> HIDE DEF kept
    <3> QED BY <3>1, <3>2, <3>3, Zenon
  <2>4. f = [n \in 1 .. (b - a) |-> l[a + n]]
    <3> HIDE DEF kept, at, f
    <3> QED BY <1>1, <2>1, <2>3
  <2> DEFINE S == Range(l)
  <2>5. l \in Seq(S) BY DEF IsList
  <2>6. \A i \in (a + 1) .. b : l[i] \in S BY <1>0, <2>5
  <2> HIDE DEF S, f
  <2>7. /\ SubSeq(l, a + 1, b) \in Seq(S) /\ Len(SubSeq(l, a + 1, b)) = b - a
        /\ \A i \in 1 .. (b - a) : SubSeq(l, a + 1, b)[i] = l[a + i]
    BY <1>0, <1>3, <2>6, PartIs
  <2>8. f \in Seq(S) /\ Len(f) = b - a /\ \A i \in 1 .. (b - a) : f[i] = l[a + i]
    <3>1. b - a \in Nat BY <1>0, <1>3
    <3>2. \A i \in 1 .. (b - a) : l[a + i] \in S BY <1>0, <2>6
    <3>3. f \in [1 .. (b - a) -> S] BY <2>4, <3>2
    <3>4. f \in Seq(S) /\ Len(f) = b - a BY <3>1, <3>3
    <3> QED BY <2>4, <3>4
  <2>9. f = SubSeq(l, a + 1, b) BY <2>7, <2>8, SameList
  <2> QED BY <2>9 DEF f
<1> QED BY <1>0, <1>2, <1>3

\* The slice is what lies between the two ends of the range.
LEMMA SliceIs ==
    ASSUME NEW l, IsList(l), NEW start \in Int, NEW end \in Int
    PROVE  LET pair == iterator_pair_inclusive(Len(l), start, end) IN
           /\ Slice(l, start, end) = SubSeq(l, pair[1] + 1, pair[2])
           /\ is_invalid_range(start, end) => Slice(l, start, end) = <<>>
           /\ pair[1] > pair[2] => Slice(l, start, end) = <<>>
<1> DEFINE p == iterator_pair_inclusive(Len(l), start, end)
           A == FromFront(Len(l), start)
           B == FromFront(Len(l), end)
           kept == {i \in DOMAIN l : A < i /\ i <= B + 1}
<1>0. Len(l) \in Nat /\ DOMAIN l = 1 .. Len(l) BY ListIs
<1>1. /\ p[1] = IF start >= Len(l) THEN Len(l) ELSE IF start < -Len(l) THEN 0
                ELSE IF start < 0 THEN start + Len(l) ELSE start
      /\ p[2] = IF end >= Len(l) THEN Len(l) ELSE IF end < -Len(l) THEN 0
                ELSE IF end < 0 THEN end + Len(l) + 1 ELSE end + 1
      /\ p[1] \in 0 .. Len(l) /\ p[2] \in 0 .. Len(l)
  BY <1>0, PairIs
<1>2. A = IF start < 0 THEN start + Len(l) ELSE start BY DEF FromFront
<1>3. B = IF end < 0 THEN end + Len(l) ELSE end BY DEF FromFront
<1> HIDE DEF p, A, B
<1>4. kept = (p[1] + 1) .. p[2]
  <2>1. ASSUME NEW i \in 1 .. Len(l) PROVE A < i <=> p[1] + 1 <= i BY <1>0, <1>1, <1>2
  <2>2. ASSUME NEW i \in 1 .. Len(l) PROVE i <= B + 1 <=> i <= p[2] BY <1>0, <1>1, <1>3
  <2>3. \A i \in kept : i \in (p[1] + 1) .. p[2] BY <1>0, <1>1, <2>1, <2>2
  <2>4. \A i \in (p[1] + 1) .. p[2] : i \in 1 .. Len(l) BY <1>0, <1>1
  <2>5. \A i \in (p[1] + 1) .. p[2] : i \in kept BY <1>0, <1>1, <2>1, <2>2, <2>4
  <2> HIDE DEF kept
  <2> QED BY <2>3, <2>5
<1>5. Slice(l, start, end) = Elements(l, kept) BY Zenon DEF Slice, A, B
<1>6. Slice(l, start, end) = SubSeq(l, p[1] + 1, p[2])
  <2>1. Elements(l, (p[1] + 1) .. p[2]) = SubSeq(l, p[1] + 1, p[2]) BY <1>1, ElementsIs
  <2> QED BY <1>4, <1>5, <2>1, Zenon
<1>7. ASSUME p[1] >= p[2] PROVE SubSeq(l, p[1] + 1, p[2]) = <<>>
  <2>1. p[1] + 1 \in Int /\ p[2] \in Int /\ p[2] < p[1] + 1 BY <1>0, <1>1, <1>7
  <2> QED BY <2>1, NoPart, Zenon
<1>8. is_invalid_range(start, end) => p[1] >= p[2] BY <1>0, <1>1 DEF is_invalid_range
<1>9. p[1] > p[2] => p[1] >= p[2] BY <1>0, <1>1
<1> QED BY <1>6, <1>7, <1>8, <1>9, Zenon DEF p

LEMMA RangesIndex ==
    ASSUME NEW d, NEW k, GoodDb(d), Holds(d, k, "list"), NEW s \in Int, NEW x \in Int
    PROVE  RangeAt(d, k, s, x)
<1> DEFINE e == erase_if_expired(d, k, Off)
           l == d.data[k][2]
           p == iterator_pair_inclusive(Len(l), s, x)
           kept == SubSeq(l, p[1] + 1, p[2])
<1>1. /\ e.db = d /\ e.expired = {} /\ Has(d, k) /\ ~Mistyped(d, k, "list") /\ IsDb(d)
      /\ ContainerAt(d, k, "list") = l /\ IsList(l)
  BY ListHeld
<1>2. /\ Slice(l, s, x) = kept
      /\ is_invalid_range(s, x) => kept = <<>>
      /\ p[1] > p[2] => kept = <<>>
  BY <1>1, SliceIs, Zenon
<1>3. RangeCrosses(Len(l), s, x) => Slice(l, s, x) = <<>> BY <1>2, Zenon DEF RangeCrosses
<1>4. list_range(d, k, s, x, Off).out = Ok(Slice(l, s, x))
  <2>1. list_range(d, k, s, x, Off)
          = Result(d, IF is_invalid_range(s, x) THEN Ok(<<>>) ELSE Ok(kept), {})
    BY <1>1, Zenon DEF list_range
  <2> HIDE DEF kept
  <2>2. list_range(d, k, s, x, Off).out = IF is_invalid_range(s, x) THEN Ok(<<>>) ELSE Ok(kept)
    BY <2>1, ResultIs
  <2> QED BY <1>2, <2>2, Zenon
<1>5. ASSUME ~is_invalid_range(s, x)
      PROVE  ContainerAt(list_trim(d, k, s, x, Off).db, k, "list") = Slice(l, s, x)
  <2> DEFINE v == <<"list", kept>>
  <2>1. \E y : list_trim(d, k, s, x, Off) = Result(StoreOrDel(d, k, v), y, {})
    BY <1>1, <1>5, Zenon DEF list_trim
  <2> HIDE DEF kept
  <2>2. list_trim(d, k, s, x, Off).db = StoreOrDel(d, k, v)
    <3> HIDE DEF v
    <3> QED BY <2>1, ResultIs
  <2>3. CASE kept = <<>>
    <3>1. StoreOrDel(d, k, v) = do_expire(d, k) BY <2>3, EmptyIs DEF StoreOrDel, del, Result
    <3>2. do_expire(d, k).data = Without(d.data, k) BY <1>1, ExpireIs
    <3>3. k \notin DOMAIN Without(d.data, k) BY WithoutIs, Zenon
    <3>4. ContainerAt(do_expire(d, k), k, "list") = <<>> BY <3>2, <3>3 DEF ContainerAt, Holds, Has, EmptyOf
    <3> QED BY <1>2, <2>2, <2>3, <3>1, <3>4, Zenon
  <2>4. CASE kept # <<>>
    <3>1. StoreOrDel(d, k, v) = Store(d, k, v) BY <2>4, EmptyIs, Zenon DEF StoreOrDel
    <3>2. Store(d, k, v).data = Put(d.data, k, v) BY <1>1, StoreIs
    <3>3. k \in DOMAIN Put(d.data, k, v) /\ Put(d.data, k, v)[k] = v BY DEF Put
    <3>4. v[1] = "list" /\ v[2] = kept OBVIOUS
    <3> HIDE DEF v
    <3>5. ContainerAt(Store(d, k, v), k, "list") = kept
      BY <3>2, <3>3, <3>4, Zenon DEF ContainerAt, Holds, Has
    <3> QED BY <1>2, <2>2, <3>1, <3>5, Zenon
  <2> QED BY <2>3, <2>4
<1> QED BY <1>3, <1>4, <1>5, Zenon DEF RangeAt

LEMMA IndexingIs ==
    ASSUME CInv
    PROVE  ListIndexing
<1>1. AllIndices \subseteq Int BY ContainerAssumption DEF AllIndices
<1>2. ASSUME NEW i \in Databases, NEW k \in DOMAIN live[i].data, NEW s \in AllIndices,
             Holds(live[i], k, "list")
      PROVE  PopsAt(live[i], k, s) /\ \A e \in AllIndices : RangeAt(live[i], k, s, e)
  <2>1. GoodDb(live[i]) /\ s \in Int BY <1>1, Parts, Zenon
  <2> QED BY <1>1, <1>2, <2>1, PopsIndex, RangesIndex, Zenon
<1> QED BY <1>2, Zenon DEF ListIndexing

\* LIST_RANGE, LIST_TRIM, the pops and LIST_GET act on the elements that their
\* indices name, counted from the front or from the end, in range or not
\* (iterator_or_end, iterator_pair_inclusive and is_invalid_range).
THEOREM IndicesMeanSlices == CSpec => []ListIndexing
BY CInductive, IndexingIs, PTL

-----------------------------------------------------------------------------
(* What a request on an absent key answers *)

LEMMA AbsentIs ==
    ASSUME CInv
    PROVE  AbsentIsEmpty
<1>1. ASSUME NEW i \in Databases, NEW k \in Keys \ DOMAIN live[i].data
      PROVE  /\ AbsentList(live[i], k) /\ AbsentSet(live[i], k) /\ AbsentHash(live[i], k)
             /\ \A j \in Keys : ~Mistyped(live[i], j, "set") => AbsentAmongSets(live[i], k, j)
  <2>1. IsDb(live[i]) /\ k \notin DOMAIN live[i].data BY Parts, Zenon DEF GoodDb
  <2>2. NothingCounts BY FS_EmptySet DEF NothingCounts
  <2> QED BY <2>1, <2>2, AbsentListIs, AbsentSetIs, AbsentHashIs, AbsentAmongSetsIs, Zenon
<1> QED BY <1>1, Zenon DEF AbsentIsEmpty

\* An absent key answers as an empty list, set or hash would, to every request of
\* list_database.cpp, set_database.cpp and hash_database.cpp that looks at it, but
\* for the second key of SET_DIFFERENCE, HASH_UPDATE, and a SET_INTERSECT or
\* SET_DIFFERENCE with a key that holds no set.
THEOREM AbsentKeysAreEmpty == CSpec => []AbsentIsEmpty
BY CInductive, AbsentIs, PTL
=============================================================================
