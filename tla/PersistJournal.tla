--------------------------- MODULE PersistJournal ---------------------------
(***************************************************************************)
(* Persistence and crash recovery of the server when a WAL file is given:  *)
(* vanity/db/wal/persist_journal_server.cpp, journalist.cpp, journal.cpp   *)
(* and write_ahead_logger.{h,cpp}, driven by persistent_server.cpp and     *)
(* server.cpp.                                                             *)
(*                                                                         *)
(* Data is abstracted to the identity of the write operations: a database  *)
(* (in memory, in a file, in the WAL) is the sequence of writes applied to *)
(* it, so a lost write is a missing element and a write redone twice is a  *)
(* duplicate.  Control is kept: every file operation of a persist is a     *)
(* step of its own, the process may be killed between any two of them, and *)
(* worker threads keep serving writes whenever the locks let them.         *)
(*                                                                         *)
(* A crash is the death of the process: what was handed to the file system *)
(* (flushed streams, renames, removals) survives it in order.              *)
(***************************************************************************)
EXTENDS Naturals, Sequences

CONSTANTS
    Threads,     \* event loop workers (and the main thread when stopping)
    Databases,   \* database indices
    NoThread,    \* the owner of a free mutex
    NoFile,      \* a path at which no file exists
    Torn,        \* a file whose writer has not closed it yet
    HasDbFile,   \* m_db_file is set (not --no_db_persist)
    MaxOps,      \* bound: number of writes issued
    MaxCrashes   \* bound: number of crashes

\* A write locks one database, or two for copy_to_db and move_to_db.
Scopes == {{a, b} : a, b \in Databases}

Op == Scopes \X Nat

ASSUME PersistJournalAssumption ==
    /\ NoThread \notin Threads
    /\ Databases # {}
    /\ HasDbFile \in BOOLEAN
    /\ MaxOps \in Nat
    /\ MaxCrashes \in Nat
    /\ NoFile # Torn
    /\ NoFile \notin Seq(Op)
    /\ Torn \notin Seq(Op)

VARIABLES
    db, old, tmp,  \* the database file and its "old." and "tmp." siblings
    wal,           \* the WAL file
    journal,       \* the journal file: the last JournalState written to it
    stream,        \* m_wal_file of the logger: closed, or open on a file that
                   \* is still at the WAL path (linked) or no longer (unlinked)
    mem,           \* the databases in memory: the writes applied, in order
    lock,          \* owner of each database's mutex
    pc,            \* what each thread is doing
    cur,           \* the write each thread is executing
    up,            \* phase of the process
    failure,       \* the exception that stopped the last start, or "none"
    nextId, crashes, \* bounded counters
    acked,         \* history: writes whose client was answered
    exposed        \* history: writes begun while nothing would redo them

files == <<db, old, tmp, wal, journal>>
threadVars == <<lock, pc, cur>>
history == <<nextId, crashes, acked, exposed>>
vars == <<files, stream, mem, threadVars, up, failure, history>>

-----------------------------------------------------------------------------
(* The journal file. *)

\* The states a journal goes through, each written after the one before it.
\* RecoveredJournal reads them back and throws CorruptJournal on any other.
JournalOrder ==
    {<<"empty", "no_exist">>, <<"empty", "exist">>, <<"exist", "moving">>,
     <<"moving", "moved_existing">>, <<"moved_existing", "moved_new">>}

\* RecoveredJournal on a journal to which s is appended.
AfterEntry(s) == IF <<journal, s>> \in JournalOrder THEN s ELSE "corrupt"

\* RecoveredJournal::get_state: a missing file is an empty journal.
RecoveredState == IF journal = "absent" THEN "empty" ELSE journal

-----------------------------------------------------------------------------
(* What a restart would make of the files. *)

Content(f) == IF f = NoFile THEN <<>> ELSE f

\* The next start deletes the WAL before reading it.
DropsWal ==
    /\ HasDbFile
    /\ \/ RecoveredState = "moved_new"
       \/ RecoveredState = "no_exist" /\ db # NoFile

\* The file that holds the snapshot a start would load.
SnapshotFile ==
    IF \/ RecoveredState = "moving" /\ db = NoFile
       \/ RecoveredState = "moved_existing" /\ old # NoFile
    THEN old ELSE db

\* The databases the files stand for.  When the start would refuse to run this
\* is what they hold once the journal is deleted by hand.
Recovery ==
    Content(SnapshotFile) \o (IF DropsWal THEN <<>> ELSE Content(wal))

Range(s) == {s[i] : i \in DOMAIN s}
Injective(s) == \A i, j \in DOMAIN s : s[i] = s[j] => i = j

-----------------------------------------------------------------------------
Init ==
    /\ db = NoFile /\ old = NoFile /\ tmp = NoFile
    /\ wal = NoFile /\ journal = "absent"
    /\ stream = "closed"
    /\ mem = <<>>
    /\ lock = [d \in Databases |-> NoThread]
    /\ pc = [t \in Threads |-> "idle"]
    /\ cur = [t \in Threads |-> <<>>]
    /\ up = "down" /\ failure = "none"
    /\ nextId = 0 /\ crashes = 0
    /\ acked = {} /\ exposed = {}

(* Worker threads: a write logs itself, changes the database, is answered. *)

\* Mutant: the write takes no mutex.
BeginWriteUnlocked(t, D) ==
    LET op == <<D, nextId>> IN
    /\ up = "running" /\ pc[t] = "idle" /\ nextId < MaxOps
    /\ pc' = [pc EXCEPT ![t] = "write"]
    /\ cur' = [cur EXCEPT ![t] = op]
    /\ wal' = IF stream = "linked" THEN Append(wal, op) ELSE wal
    /\ exposed' = IF stream = "linked" /\ ~DropsWal THEN exposed
                  ELSE exposed \cup {op}
    /\ nextId' = nextId + 1
    /\ UNCHANGED <<db, old, tmp, journal, stream, mem, lock, up, failure, crashes, acked>>

\* LockedDatabase: lock the databases, then wal_log.  WriteAheadLogger::wal
\* returns silently when its stream is closed.
BeginWrite(t, D) ==
    LET op == <<D, nextId>> IN
    /\ up = "running" /\ pc[t] = "idle" /\ nextId < MaxOps
    /\ \A d \in D : lock[d] = NoThread
    /\ lock' = [d \in Databases |-> IF d \in D THEN t ELSE lock[d]]
    /\ pc' = [pc EXCEPT ![t] = "write"]
    /\ cur' = [cur EXCEPT ![t] = op]
    /\ wal' = IF stream = "linked" THEN Append(wal, op) ELSE wal
    /\ exposed' = IF stream = "linked" /\ ~DropsWal THEN exposed
                  ELSE exposed \cup {op}
    /\ nextId' = nextId + 1
    /\ UNCHANGED <<db, old, tmp, journal, stream, mem, up, failure, crashes, acked>>

\* Database::<op>, release of the locks, send(client, ok()).
EndWrite(t) ==
    /\ pc[t] = "write"
    /\ mem' = Append(mem, cur[t])
    /\ acked' = acked \cup {cur[t]}
    /\ lock' = [d \in Databases |-> IF lock[d] = t THEN NoThread ELSE lock[d]]
    /\ pc' = [pc EXCEPT ![t] = "idle"]
    /\ cur' = [cur EXCEPT ![t] = <<>>]
    /\ UNCHANGED <<files, stream, up, failure, nextId, crashes, exposed>>

-----------------------------------------------------------------------------
(* persist_with_wal: one action per file operation.                        *)

Goto(t, from, to) == pc[t] = from /\ pc' = [pc EXCEPT ![t] = to]
Others == <<mem, cur, up, failure, history>>

\* persist(): a PERSIST request or a persist event on a worker.  It purges the
\* databases first; a purge takes one mutex at a time and logs what it expires,
\* so it is a number of BeginWrite and EndWrite steps of this thread (WalRedo
\* has its contents).  Then Closed::Closed closes the WAL.
PersistCloseWal(t) ==
    /\ HasDbFile
    /\ up = "running"
    /\ Goto(t, "idle", "closed")
    /\ stream' = "closed"
    /\ UNCHANGED <<files, lock, Others>>

\* Mutant: the mutexes are taken only while the WAL is still closed.
PersistLockAllIfClosed(t) ==
    /\ stream = "closed"
    /\ Goto(t, "closed", "locked")
    /\ \A d \in Databases : lock[d] = NoThread
    /\ lock' = [d \in Databases |-> t]
    /\ UNCHANGED <<files, stream, Others>>

PersistLockAll(t) ==
    /\ Goto(t, "closed", "locked")
    /\ \A d \in Databases : lock[d] = NoThread
    /\ lock' = [d \in Databases |-> t]
    /\ UNCHANGED <<files, stream, Others>>

\* The Journalist opens the journal, which truncates or creates it.
PersistNewJournal(t) ==
    /\ Goto(t, "locked", "journal")
    /\ journal' = "empty"
    /\ UNCHANGED <<db, old, tmp, wal, stream, lock, Others>>

\* do_persist opens the temporary file ...
PersistOpenTmp(t) ==
    /\ Goto(t, "journal", "writing")
    /\ tmp' = Torn
    /\ UNCHANGED <<db, old, wal, journal, stream, lock, Others>>

\* ... and closes it when every database has been written.
PersistCloseTmp(t) ==
    /\ Goto(t, "writing", "written")
    /\ tmp' = mem
    /\ UNCHANGED <<db, old, wal, journal, stream, lock, Others>>

JournalEntry(s) ==
    /\ journal' = AfterEntry(s)
    /\ UNCHANGED <<db, old, tmp, wal, stream, lock, Others>>

SwitchNoExist(t) ==
    /\ db = NoFile
    /\ Goto(t, "written", "no_exist")
    /\ JournalEntry("no_exist")

SwitchExist(t) ==
    /\ db # NoFile
    /\ Goto(t, "written", "exist")
    /\ JournalEntry("exist")

JournalMoving(t) == Goto(t, "exist", "moving") /\ JournalEntry("moving")

\* Mutant: the existing file is deleted instead of renamed.
DeleteDb(t) ==
    /\ Goto(t, "moving", "renamed_old")
    /\ db' = NoFile
    /\ UNCHANGED <<old, tmp, wal, journal, stream, lock, Others>>

RenameDbToOld(t) ==
    /\ Goto(t, "moving", "renamed_old")
    /\ old' = db
    /\ db' = NoFile
    /\ UNCHANGED <<tmp, wal, journal, stream, lock, Others>>

JournalMovedExisting(t) ==
    Goto(t, "renamed_old", "moved_existing") /\ JournalEntry("moved_existing")

RenameTmpToDb(t) ==
    /\ \/ Goto(t, "moved_existing", "renamed_new")
       \/ Goto(t, "no_exist", "switched_first")
    /\ db' = tmp
    /\ tmp' = NoFile
    /\ UNCHANGED <<old, wal, journal, stream, lock, Others>>

\* Mutant: the last journal entry is written before the new file is in place.
JournalMovedNewEarly(t) ==
    Goto(t, "moved_existing", "renamed_new") /\ JournalEntry("moved_new")

JournalMovedNew(t) ==
    Goto(t, "renamed_new", "switched") /\ JournalEntry("moved_new")

\* A stream that is still open on the file keeps writing to an unlinked file.
RemoveWal(t) ==
    /\ \/ Goto(t, "switched", "wal_removed")
       \/ Goto(t, "switched_first", "wal_removed_first")
    /\ wal' = NoFile
    /\ stream' = IF stream = "linked" THEN "unlinked" ELSE stream
    /\ UNCHANGED <<db, old, tmp, journal, lock, Others>>

WipeJournal(t) ==
    /\ \/ Goto(t, "wal_removed", "wiped")
       \/ Goto(t, "wal_removed_first", "cleaned")
    /\ journal' = "absent"
    /\ UNCHANGED <<db, old, tmp, wal, stream, lock, Others>>

RemoveOld(t) ==
    /\ Goto(t, "wiped", "cleaned")
    /\ old' = NoFile
    /\ UNCHANGED <<db, tmp, wal, journal, stream, lock, Others>>

\* The locals of persist_with_wal die in reverse order: first the locks ...
PersistUnlockAll(t) ==
    /\ Goto(t, "cleaned", "unlocked")
    /\ lock' = [d \in Databases |-> NoThread]
    /\ UNCHANGED <<files, stream, Others>>

\* ... and then Closed::~Closed reopens the WAL for appending.
PersistReopenWal(t) ==
    /\ Goto(t, "unlocked", "idle")
    /\ stream' = "linked"
    /\ wal' = Content(wal)
    /\ UNCHANGED <<db, old, tmp, journal, lock, Others>>

PersistStep(t) ==
    \/ PersistLockAll(t) \/ PersistNewJournal(t)
    \/ PersistOpenTmp(t) \/ PersistCloseTmp(t)
    \/ SwitchNoExist(t) \/ SwitchExist(t) \/ JournalMoving(t)
    \/ RenameDbToOld(t) \/ JournalMovedExisting(t) \/ RenameTmpToDb(t)
    \/ JournalMovedNew(t) \/ RemoveWal(t) \/ WipeJournal(t) \/ RemoveOld(t)
    \/ PersistUnlockAll(t) \/ PersistReopenWal(t)

-----------------------------------------------------------------------------
(* The life of the process. *)

NotRunning == up \in {"down", "failed"}
AllIdle == \A t \in Threads : pc[t] = "idle"

\* pre_database_load: bring the database file and the WAL in line with the
\* journal.  A WALError or a failed rename ends the process.
RefuseToStart(reason) ==
    /\ up' = "failed" /\ failure' = reason
    /\ UNCHANGED <<files, stream, mem, threadVars, history>>

FinishPreLoad == up' = "loading" /\ UNCHANGED <<stream, mem, threadVars, failure, history>>

PreLoadNothing ==
    /\ NotRunning
    /\ \/ ~HasDbFile
       \/ RecoveredState \in {"empty", "exist"}
       \/ RecoveredState = "no_exist" /\ db = NoFile
       \/ RecoveredState = "moving" /\ db # NoFile /\ old = NoFile
    /\ FinishPreLoad /\ UNCHANGED files

\* Mutant: the WAL of a finished switch is kept.
PreLoadKeepWal ==
    /\ NotRunning /\ HasDbFile
    /\ \/ RecoveredState = "moved_new"
       \/ RecoveredState = "no_exist" /\ db # NoFile
    /\ FinishPreLoad /\ UNCHANGED files

PreLoadRemoveWal ==
    /\ NotRunning /\ HasDbFile
    /\ \/ RecoveredState = "moved_new"
       \/ RecoveredState = "no_exist" /\ db # NoFile
    /\ wal' = NoFile
    /\ FinishPreLoad /\ UNCHANGED <<db, old, tmp, journal>>

PreLoadRestoreOld ==
    /\ NotRunning /\ HasDbFile
    /\ old # NoFile
    /\ \/ RecoveredState = "moving" /\ db = NoFile
       \/ RecoveredState = "moved_existing"
    /\ db' = old /\ old' = NoFile
    /\ FinishPreLoad /\ UNCHANGED <<tmp, wal, journal>>

PreLoadFail ==
    /\ NotRunning /\ HasDbFile
    /\ \/ /\ RecoveredState = "moving" /\ old # NoFile /\ db # NoFile
          /\ RefuseToStart("both_exist")
       \/ /\ RecoveredState = "moving" /\ old = NoFile /\ db = NoFile
          /\ RefuseToStart("none_exists")
       \/ /\ RecoveredState = "moved_existing" /\ old = NoFile
          /\ RefuseToStart("rename_failed")
       \/ /\ RecoveredState = "corrupt"
          /\ RefuseToStart("corrupt_journal")

PreDatabaseLoad ==
    PreLoadNothing \/ PreLoadRemoveWal \/ PreLoadRestoreOld \/ PreLoadFail

\* Mutant: the WAL is not redone.
LoadWithoutRedo ==
    /\ up = "loading"
    /\ mem' = (IF HasDbFile THEN Content(db) ELSE <<>>)
    /\ wal' = Content(wal)
    /\ stream' = "linked"
    /\ up' = "running"
    /\ UNCHANGED <<db, old, tmp, journal, threadVars, failure, history>>

\* load_databases, wal_to, then recover: the WAL is redone on top of the file,
\* reopened for appending and kept as it is; so is the journal.  The purge that
\* ends recover is logged and is again a number of writes.
LoadAndRecover ==
    /\ up = "loading"
    /\ mem' = (IF HasDbFile THEN Content(db) ELSE <<>>) \o Content(wal)
    /\ wal' = Content(wal)
    /\ stream' = "linked"
    /\ up' = "running"
    /\ UNCHANGED <<db, old, tmp, journal, threadVars, failure, history>>

\* Mutant: the server stops without the last persist.
StopWithoutPersist(t) ==
    /\ up = "running" /\ AllIdle
    /\ up' = "stopping"
    /\ UNCHANGED <<files, stream, mem, threadVars, failure, history>>

\* Server::stop, once EventServer::run has joined the workers: the main thread
\* runs the last persist.
Stop(t) ==
    /\ up = "running" /\ AllIdle
    /\ up' = "stopping"
    /\ IF HasDbFile THEN Goto(t, "idle", "closed") /\ stream' = "closed"
                    ELSE UNCHANGED <<pc, stream>>
    /\ UNCHANGED <<files, mem, lock, cur, failure, history>>

LoseMemory ==
    /\ stream' = "closed"
    /\ mem' = <<>>
    /\ lock' = [d \in Databases |-> NoThread]
    /\ pc' = [t \in Threads |-> "idle"]
    /\ cur' = [t \in Threads |-> <<>>]
    /\ up' = "down"
    /\ UNCHANGED <<files, failure, nextId, acked, exposed>>

Exit == up = "stopping" /\ AllIdle /\ LoseMemory /\ UNCHANGED crashes

Crash ==
    /\ up \in {"loading", "running", "stopping"} /\ crashes < MaxCrashes
    /\ LoseMemory /\ crashes' = crashes + 1

Next ==
    \/ \E t \in Threads :
        \/ \E D \in Scopes : BeginWrite(t, D)
        \/ EndWrite(t)
        \/ PersistCloseWal(t) \/ PersistStep(t) \/ Stop(t)
    \/ PreDatabaseLoad \/ LoadAndRecover \/ Exit \/ Crash

Spec == Init /\ [][Next]_vars

\* The scheduler runs every thread that can run, and a thread that waits for
\* the database mutexes gets them if they are free again and again.
FairSpec ==
    /\ Spec
    /\ \A t \in Threads : WF_vars(EndWrite(t)) /\ SF_vars(PersistStep(t))

-----------------------------------------------------------------------------
(* Properties. *)

PersistPC ==
    {"closed", "locked", "journal", "writing", "written", "no_exist", "exist",
     "moving", "renamed_old", "moved_existing", "renamed_new", "switched",
     "switched_first", "wal_removed", "wal_removed_first", "wiped", "cleaned",
     "unlocked"}

\* Every variable has its type.  Of the files, only the temporary one is ever
\* seen half written, so a start never loads a half-written database.
TypeOK ==
    /\ db \in Seq(Op) \cup {NoFile}
    /\ old \in Seq(Op) \cup {NoFile}
    /\ tmp \in Seq(Op) \cup {NoFile, Torn}
    /\ wal \in Seq(Op) \cup {NoFile}
    /\ journal \in {"absent", "empty", "no_exist", "exist", "moving",
                   "moved_existing", "moved_new"}
    /\ stream \in {"closed", "linked", "unlinked"}
    /\ mem \in Seq(Op)
    /\ lock \in [Databases -> Threads \cup {NoThread}]
    /\ pc \in [Threads -> PersistPC \cup {"idle", "write"}]
    /\ cur \in [Threads -> Op \cup {<<>>}]
    /\ up \in {"down", "loading", "running", "stopping", "failed"}
    /\ failure \in {"none", "both_exist", "none_exists", "rename_failed", "corrupt_journal"}
    /\ nextId \in Nat /\ crashes \in Nat
    /\ acked \subseteq Op /\ exposed \subseteq Op

\* No write is redone on top of a snapshot that already holds it, at whatever
\* point of persist_with_wal or of a start the process dies: what the journal,
\* the database file, its "old." sibling and the WAL stand for together holds
\* each write at most once, and so do the databases in memory.
NoDoubleApply == Injective(Recovery) /\ Injective(mem)

\* A write that was answered is recoverable at every moment from then on,
\* through any number of crashes and persists, unless it ran while nothing
\* logged it (the WAL was closed or already unlinked) or while a journal left
\* from an earlier crash told the next start to drop the WAL.
AckedDurable == acked \subseteq Range(Recovery) \cup exposed

\* A restored database keeps the order of writes: of two writes to one
\* database that a start would both restore, the one executed first comes first.
RecoveryInOrder ==
    \A i, j \in DOMAIN Recovery :
        /\ i < j
        /\ Recovery[i][1] \cap Recovery[j][1] # {}
        => Recovery[i][2] < Recovery[j][2]

\* The stages at which a thread holds every database mutex.
LockedPC == PersistPC \ {"closed", "unlocked"}

\* Mutexes: a persisting thread owns all of them, a writing thread those of the
\* databases it writes to.
MutexInv ==
    \A t \in Threads :
        /\ pc[t] \in LockedPC => \A d \in Databases : lock[d] = t
        /\ pc[t] = "write" => cur[t] \in Op /\ \A d \in cur[t][1] : lock[d] = t

\* The journal says exactly what has been done to the files, stage by stage.
StageInv ==
    \A t \in Threads :
        /\ pc[t] \in {"journal", "writing", "written"} => journal = "empty"
        /\ pc[t] \in {"written", "no_exist", "exist", "moving", "renamed_old", "moved_existing"}
            => tmp = mem
        /\ pc[t] \in {"renamed_new", "switched", "switched_first", "wal_removed",
                      "wal_removed_first", "wiped", "cleaned"} => db = mem
        /\ pc[t] \in {"no_exist", "switched_first", "wal_removed_first"}
            => journal = "no_exist"
        /\ pc[t] = "exist" => journal = "exist"
        /\ pc[t] \in {"moving", "renamed_old"} => journal = "moving"
        /\ pc[t] \in {"moved_existing", "renamed_new"}
            => journal = "moved_existing"
        /\ pc[t] \in {"switched", "wal_removed"}
            => journal = "moved_new"
        /\ pc[t] \in {"exist", "moving"} => db # NoFile
        /\ pc[t] \in {"no_exist", "renamed_old", "moved_existing"} => db = NoFile
        /\ pc[t] \in {"renamed_old", "moved_existing", "renamed_new"} => old # NoFile
        /\ pc[t] \in {"wiped", "cleaned"} => journal = "absent"

\* Outside a persist as well: while the journal says that the existing file is
\* being moved, the file is under its own name or under the "old." one.
SnapshotInv == RecoveredState = "moving" => db # NoFile \/ old # NoFile

\* Only a running process has threads at work and an open WAL, the path of an
\* open WAL exists, and only a server with a database file persists.
ProcessInv ==
    /\ \A t \in Threads : pc[t] \in PersistPC => HasDbFile
    /\ HasDbFile \/ (db = NoFile /\ old = NoFile)
    /\ up \notin {"running", "stopping"} => AllIdle /\ stream = "closed"
    /\ stream = "linked" => wal # NoFile

\* The journal always parses, and pre_database_load never finds the snapshot
\* gone: of the database file and its "old." sibling one exists whenever the
\* journal says that the existing file is being moved.
SnapshotNeverLost == failure \notin {"none_exists", "corrupt_journal"}

\* The file protocol of persist_with_wal and pre_database_load: at every moment
\* of a persist, whoever else runs and whatever crash came before, the journal
\* on disk describes what has happened to the database files.
JournalProtocol == MutexInv /\ StageInv /\ SnapshotInv /\ ProcessInv

Writing(t) == pc[t] = "write"

\* Every write the process or a file knows has been issued.
IssuedInv ==
    /\ nextId <= MaxOps
    /\ \A f \in {db, old, wal} : \A o \in Range(Content(f)) : o[2] < nextId
    /\ \A o \in Range(mem) : o[2] < nextId
    /\ \A t \in Threads : Writing(t) => cur[t][2] < nextId

\* The writes being executed are distinct and not applied yet.
InFlightInv ==
    \A t \in Threads : Writing(t) =>
        /\ cur[t] \notin Range(mem)
        /\ \A u \in Threads : Writing(u) /\ cur[u] = cur[t] => u = t

\* Past pre_database_load, the snapshot is the database file unless a persist is
\* just moving it, and a WAL that was to be dropped has been.
LoadedInv ==
    /\ \/ NotRunning
       \/ \E t \in Threads : pc[t] \in {"renamed_old", "moved_existing", "renamed_new"}
       \/ SnapshotFile = db
    /\ up = "loading" /\ DropsWal => wal = NoFile

\* A running process has applied every write its files know of, but for logged
\* writes being executed.
KnownInv ==
    up \in {"running", "stopping"} =>
        /\ Range(Content(SnapshotFile)) \subseteq Range(mem)
        /\ \A o \in Range(Content(wal)) :
            o \in Range(mem) \/ \E t \in Threads : Writing(t) /\ cur[t] = o

\* Snapshot and WAL overlap only between the switch to a new database file and
\* the removal of the WAL, when the journal tells a start to drop the WAL.
OverlapInv ==
    \/ Range(Content(SnapshotFile)) \cap Range(Content(wal)) = {}
    \/ DropsWal /\ (NotRunning \/ \E t \in Threads : pc[t] \in {"switched", "switched_first"})

\* Neither memory nor any file holds a write twice.
OnceInv ==
    Injective(mem) /\ \A f \in {db, old, wal} : Injective(Content(f))

\* The database file, the WAL and memory fit together: the snapshot and the WAL
\* share no write unless the WAL is about to be dropped, and hold only what the
\* running process has applied or is applying.
ContentInv ==
    /\ IssuedInv /\ InFlightInv /\ LoadedInv
    /\ KnownInv /\ OverlapInv /\ OnceInv

\* After a clean shutdown the files hold exactly the databases that were in
\* memory, whatever crashes and half-finished persists came before it.
CleanStopSavesAll == [][Exit => Recovery = mem]_vars

\* No answered write is deleted with the WAL unless the database file holds
\* it.  persist_journal_server.h says of pre_database_load that "it ensures
\* that the database file and the WAL are in a consistent state".
WalRemovedOnlyIfSaved ==
    [][wal # NoFile /\ wal' = NoFile
        => Range(wal) \cap acked \subseteq Range(Content(db'))]_vars

\* Every answered write survives a crash: README.md promises "Continuous
\* persistence to disk, including WAL guarantees".
AckedRecoverable == acked \subseteq Range(Recovery)

\* A start after a crash is never refused: persist_journal_server.h says of
\* pre_database_load that it is to "recover from a possible crash using the
\* journal".  It is refused when an "old." file that was renamed back is to be
\* renamed again, and when one that a crash left behind meets a later crash.
StartsAfterCrash == failure \notin {"rename_failed", "both_exist"}

\* A persist that has begun ends, or the process dies.
PersistEnds == \A t \in Threads : pc[t] = "closed" ~> pc[t] = "idle"

\* The store of writes that these files implement.
Store == INSTANCE DurableStore WITH
    Write <- Scopes \X (0 .. MaxOps),
    live <- Range(mem),
    durable <- Range(Recovery),
    running <- up \in {"running", "stopping"}

\* Whatever a start would restore, every later start restores: no step of a
\* persist, of a write, of a crash or of a start makes a durable write volatile,
\* and a start brings back exactly the durable writes.
DurabilityIsMonotonic == Store!Spec
=============================================================================
