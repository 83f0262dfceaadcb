------------------------------- MODULE WalRedo -------------------------------
(***************************************************************************)
(* The databases, the write-ahead log of what is done to them, and what    *)
(* redoing that log gives: vanity/db/db/locked_database.cpp, the servers   *)
(* under vanity/db/servers that call it, and recover of                    *)
(* vanity/db/wal/persist_journal_server.cpp.                               *)
(*                                                                         *)
(* LockedDatabase runs every operation under the database's mutex: it      *)
(* writes the operation to the log, then does it; a key found expired on   *)
(* the way is written as an `expire' entry by pre_expire, so after the     *)
(* entry of the operation that found it.  Redoing applies the entries in   *)
(* the order of the log, with expiry disabled.  The log is kept here as    *)
(* what it is for: `redone' is the state that the snapshot on disk and the *)
(* log would give if the program died now.  When the log and the snapshot  *)
(* change hands is the subject of PersistJournal; here a persist replaces  *)
(* both in one step.                                                       *)
(***************************************************************************)
EXTENDS Keyspace, FiniteSets

CONSTANTS
    Keys,
    Values,        \* what clients set: pairs <<type, payload>>
    NumDatabases,  \* M_NUM_DATABASES
    MaxTime,       \* bound: the clock stops here
    MaxInt         \* bound: no sum goes beyond it

ASSUME WalRedoAssumption ==
    /\ NumDatabases \in Nat \ {0}
    /\ MaxTime \in Nat
    /\ MaxInt \in Nat

VARIABLES
    live,       \* the databases in memory
    redone,     \* the databases that the snapshot and the log give
    now,        \* system_clock::now()
    expiring,   \* the next database event_expire purges, or 0
    persisting, \* the next database persist_no_check purges, or 0
    reordered   \* history: a logged operation has found an expired key

vars == <<live, redone, now, expiring, persisting, reordered>>

Databases == 1..NumDatabases

\* A time a client may ask for, which may be past already.
Times == 0..(MaxTime - 1)

Init ==
    /\ live = [i \in Databases |-> NewDatabase]
    /\ redone = live
    /\ now = 0
    /\ expiring = 0
    /\ persisting = 0
    /\ reordered = FALSE

-----------------------------------------------------------------------------
(* LockedDatabase: wal_log, the operation, pre_expire *)

\* Redoing the `expire' entries of these keys.
wal_redo_expiry(d, gone) ==
    [data |-> Restrict(d.data, DOMAIN d.data \ gone),
     expiry |-> Restrict(d.expiry, DOMAIN d.expiry \ gone)]

\* An operation of database i, which should_wal: done at the time now, and what
\* redoing its entry does, with expiry off.
Logged(i, done, redo) ==
    /\ live' = [live EXCEPT ![i] = done.db]
    /\ redone' = [redone EXCEPT ![i] = wal_redo_expiry(redo.db, done.expired)]
    /\ reordered' = (reordered \/ done.expired # {})
    /\ UNCHANGED <<now, expiring, persisting>>

\* One on database i with database j as its destination.
LoggedOn(i, j, done, redo) ==
    /\ live' = [live EXCEPT ![i] = done.db, ![j] = done.dst]
    /\ redone' = [redone EXCEPT ![i] = wal_redo_expiry(redo.db, done.expired), ![j] = redo.dst]
    /\ reordered' = (reordered \/ done.expired # {})
    /\ UNCHANGED <<now, expiring, persisting>>

\* What an operation that is not logged leaves of database i.
Unlogged(i, done) ==
    /\ live' = [live EXCEPT ![i] = done.db]
    /\ redone' = [redone EXCEPT ![i] = wal_redo_expiry(@, done.expired)]
    /\ UNCHANGED reordered

-----------------------------------------------------------------------------
(* The requests *)

Reset(i) == Logged(i, reset(live[i]), reset(redone[i]))

Del(i, k) == Logged(i, del(live[i], k), del(redone[i], k))

CopyTo(i, from, to) == Logged(i, copy_to(live[i], from, to, now), copy_to(redone[i], from, to, Off))

MoveTo(i, from, to) == Logged(i, move_to(live[i], from, to, now), move_to(redone[i], from, to, Off))

\* The servers answer at once when both databases are the same.
CopyToDb(i, j, k) ==
    /\ i # j
    /\ LoggedOn(i, j,
        copy_to_db(live[i], k, live[j], now),
        copy_to_db(redone[i], k, redone[j], Off))

MoveToDb(i, j, k) ==
    /\ i # j
    /\ LoggedOn(i, j,
        move_to_db(live[i], k, live[j], now),
        move_to_db(redone[i], k, redone[j], Off))

\* Mutant: set_expiry is missing from should_wal.
SetExpiryUnlogged(i, k, at) ==
    Unlogged(i, set_expiry(live[i], k, at)) /\ UNCHANGED <<now, expiring, persisting>>

SetExpiry(i, k, at) == Logged(i, set_expiry(live[i], k, at), set_expiry(redone[i], k, at))

ClearExpiry(i, k) == Logged(i, clear_expiry(live[i], k), clear_expiry(redone[i], k))

Set(i, k, v) == Logged(i, prim_set(live[i], k, v), prim_set(redone[i], k, v))

\* The bound looks at the sums both in memory and in the redo.
Incr(i, k, v) ==
    /\ v[1] # "str"
    /\ \A sum \in Range(incr(live[i], k, v, now).out) \cup Range(incr(redone[i], k, v, Off).out) :
          sum[2] <= MaxInt
    /\ Logged(i, incr(live[i], k, v, now), incr(redone[i], k, v, Off))

Read(i) ==
    /\ \/ \E k \in Keys :
            \/ Unlogged(i, has(live[i], k, now))
            \/ Unlogged(i, get(live[i], k, now))
            \/ Unlogged(i, type(live[i], k, now))
            \/ Unlogged(i, get_expiry(live[i], k, now))
            \/ Unlogged(i, str_len(live[i], k, now))
       \/ \E ks \in SUBSET Keys : Unlogged(i, many_get(live[i], ks, now))
       \/ Unlogged(i, keys(live[i], now))
    /\ UNCHANGED <<now, expiring, persisting>>

Request(i) ==
    \/ Reset(i)
    \/ Read(i)
    \/ \E k \in Keys :
          \/ Del(i, k)
          \/ ClearExpiry(i, k)
          \/ \E to \in Keys : CopyTo(i, k, to) \/ MoveTo(i, k, to)
          \/ \E j \in Databases : CopyToDb(i, j, k) \/ MoveToDb(i, j, k)
          \/ \E at \in Times : SetExpiry(i, k, at)
          \/ \E v \in Values : Set(i, k, v) \/ Incr(i, k, v)

-----------------------------------------------------------------------------
(* deep_purge_databases, one database at a time and each under its mutex *)

\* Mutant: all databases but the last one.
NextDatabaseShort(i) == IF i + 1 >= NumDatabases THEN 0 ELSE i + 1

NextDatabase(i) == IF i = NumDatabases THEN 0 ELSE i + 1

\* event_expire
ExpireEvent ==
    /\ expiring = 0
    /\ expiring' = 1
    /\ UNCHANGED <<live, redone, now, persisting, reordered>>

ExpirePurge ==
    /\ expiring # 0
    /\ Unlogged(expiring, deep_purge(live[expiring], now))
    /\ expiring' = NextDatabase(expiring)
    /\ UNCHANGED <<now, persisting>>

\* persist_no_check: it purges every database ...
Persist ==
    /\ persisting = 0
    /\ persisting' = 1
    /\ UNCHANGED <<live, redone, now, expiring, reordered>>

\* ... and writes the snapshot, with all databases locked, after the last one.
PersistPurge ==
    /\ persisting # 0
    /\ persisting <= NumDatabases
    /\ Unlogged(persisting, deep_purge(live[persisting], now))
    /\ persisting' = persisting + 1
    /\ UNCHANGED <<now, expiring>>

PersistSnapshot ==
    /\ persisting > NumDatabases
    /\ redone' = live
    /\ reordered' = FALSE
    /\ persisting' = 0
    /\ UNCHANGED <<live, now, expiring>>

\* The program dies and starts again: recover redoes the log with expiry
\* disabled and ends with deep_purge_databases, all before it serves anyone.
CrashAndRecover ==
    /\ live' = [i \in Databases |-> deep_purge(redone[i], now).db]
    /\ redone' = live'
    /\ expiring' = 0
    /\ persisting' = 0
    /\ reordered' = FALSE
    /\ UNCHANGED now

Tick ==
    /\ now < MaxTime
    /\ now' = now + 1
    /\ UNCHANGED <<live, redone, expiring, persisting, reordered>>

Next ==
    \/ \E i \in Databases : Request(i)
    \/ ExpireEvent \/ ExpirePurge
    \/ Persist \/ PersistPurge \/ PersistSnapshot
    \/ CrashAndRecover
    \/ Tick

Spec == Init /\ [][Next]_vars

\* The expire event is repeated for as long as the program runs.
FairSpec == Spec /\ WF_vars(ExpireEvent) /\ WF_vars(ExpirePurge)

-----------------------------------------------------------------------------
(* Properties *)

\* A value a client has set, or a sum.
IsValue(v) == v \in Values \/ (v[1] # "str" /\ v[2] \in 0..MaxInt)

IsDatabase(d) ==
    /\ DOMAIN d.data \subseteq Keys
    /\ \A k \in DOMAIN d.data : IsValue(d.data[k])
    /\ DOMAIN d.expiry \subseteq Keys
    /\ \A k \in DOMAIN d.expiry : d.expiry[k] \in Times

\* Every database holds keys with values and times, and the two purges name a
\* database that exists (persist_no_check goes on to the snapshot after the
\* last one).
TypeOK ==
    /\ \A i \in Databases : IsDatabase(live[i]) /\ IsDatabase(redone[i])
    /\ now \in 0..MaxTime
    /\ expiring \in 0..NumDatabases
    /\ persisting \in 0..(NumDatabases + 1)
    /\ reordered \in BOOLEAN

\* m_expiry_times holds no key that m_data does not hold, in memory and in the
\* redo: a time left behind by a key would expire the next value stored there.
ExpiryOnLiveKeys ==
    \A i \in Databases :
        /\ DOMAIN live[i].expiry \subseteq DOMAIN live[i].data
        /\ DOMAIN redone[i].expiry \subseteq DOMAIN redone[i].data

\* Redoing the log on the snapshot gives the databases in memory, as long as no
\* logged operation has found an expired key since the snapshot (wal_log before
\* the operation, pre_expire before the erasure, wal_redo_db_op in that order).
RedoRebuilds == reordered \/ redone = live

\* A key that has expired and is not purged yet cannot be seen: every read
\* answers as it would after a purge (erase_if_expired before each of them).
ExpiredUnseen ==
    \A i \in Databases :
        LET d == live[i]
            p == deep_purge(d, now).db IN
        /\ keys(d, now).out = DOMAIN p.data
        /\ \A ks \in SUBSET Keys : many_get(d, ks, now).out = many_get(p, ks, Off).out
        /\ \A k \in Keys :
              /\ has(d, k, now).out = Has(p, k)
              /\ get(d, k, now).out = get(p, k, Off).out
              /\ type(d, k, now).out = type(p, k, Off).out
              /\ get_expiry(d, k, now).out = get_expiry(p, k, Off).out
              /\ str_len(d, k, now).out = str_len(p, k, Off).out

\* An expired key does not stay in memory for ever, whether or not anyone reads
\* it: event_expire reaches every database.
ExpiredPurged ==
    \A i \in Databases, k \in Keys :
        is_expired(live[i], k, now) ~> ~is_expired(live[i], k, now)

\* "Continuous persistence to disk, including WAL guarantees": what a restart
\* recovers is what was served before it, less what has expired.  It is not:
\* an operation that finds a key expired is redone before that key's expiry.
RecoversWhatWasServed ==
    [][CrashAndRecover => \A i \in Databases : live'[i] = deep_purge(live[i], now).db]_vars

\* erase_if_expired "should be called before every operation on a key": DEL,
\* SET_EXPIRY and CLEAR_EXPIRY treat a key that has expired as one that does not
\* exist.  They do not look: until a purge comes by, DEL answers OK for it, and
\* the other two bring it back with its old value.
ExpiryCheckedFirst ==
    \A i \in Databases, k \in Keys :
        is_expired(live[i], k, now) =>
            /\ ~del(live[i], k).out
            /\ get(clear_expiry(live[i], k).db, k, now).out = None
            /\ \A at \in Times : get(set_expiry(live[i], k, at).db, k, now).out = None

\* The expiry time of a key is cleared "after every operation that sets or
\* resets the value for a key": a value moved onto a key has the expiry time it
\* came with.  If it came without one, move_to leaves it the time of the value
\* it replaces.
MovedKeepsItsExpiry ==
    [][\A i \in Databases, from, to \in Keys :
          /\ MoveTo(i, from, to)
          /\ from # to
          /\ Has(live[i], from)
          /\ ~is_expired(live[i], from, now)
          => (to \in DOMAIN live'[i].expiry <=> from \in DOMAIN live[i].expiry)]_vars
=============================================================================
