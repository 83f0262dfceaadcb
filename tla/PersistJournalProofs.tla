------------------------ MODULE PersistJournalProofs ------------------------
(***************************************************************************)
(* Proofs about PersistJournal for any number of threads, databases,       *)
(* writes and crashes.  The journal describes the database files.  A write *)
(* is restored at most once.  What a start would restore only grows:       *)
(* PersistJournal implements DurableStore, and a logged write that was     *)
(* answered is never lost.  What is restored is in the order of execution, *)
(* and is all of memory after a clean shutdown.                            *)
(***************************************************************************)
EXTENDS PersistJournal, TLAPS

-----------------------------------------------------------------------------
(* The file protocol. *)

\* The inductive invariant of the file protocol.
IInv == TypeOK /\ JournalProtocol /\ SnapshotNeverLost

\* Opening a file for appending creates it if there is none.
LEMMA ContentType ==
    ASSUME NEW f \in Seq(Op) \cup {NoFile}
    PROVE  Content(f) \in Seq(Op) /\ Content(f) # NoFile
<1>1. <<>> \in Seq(Op)
  OBVIOUS
<1> QED BY <1>1, PersistJournalAssumption, Zenon DEF Content

\* lock_all excludes: while a thread owns every database mutex no other thread
\* does, and no thread is inside a write.
LEMMA PersistExcludes ==
    ASSUME MutexInv, NEW t \in Threads, pc[t] \in LockedPC,
           NEW u \in Threads, u # t
    PROVE  pc[u] \notin LockedPC /\ pc[u] # "write"
<1>1. PICK d \in Databases : lock[d] = t
  BY PersistJournalAssumption, Zenon DEF MutexInv
<1>2. pc[u] \notin LockedPC
  BY <1>1, Zenon DEF MutexInv
<1>3. ASSUME pc[u] = "write" PROVE FALSE
  <2>1. cur[u] \in Op /\ \A e \in cur[u][1] : lock[e] = u
    BY <1>3, Zenon DEF MutexInv
  <2>2. PICK e \in Databases : e \in cur[u][1]
    BY <2>1 DEF Op, Scopes
  <2>3. lock[e] = t
    BY Zenon DEF MutexInv
  <2> QED BY <2>1, <2>2, <2>3, Zenon
<1> QED BY <1>2, <1>3, Zenon

\* What every step between taking and releasing the mutexes leaves alone: the
\* mutex discipline, the stages of the other threads, and the process.
LockedFrame(t) ==
    /\ MutexInv' /\ SnapshotNeverLost'
    /\ pc' \in [Threads -> PersistPC \cup {"idle", "write"}]
    /\ \A u \in Threads : u # t => pc'[u] \notin LockedPC
    /\ up \in {"running", "stopping"}
    /\ UNCHANGED <<lock, mem, cur, up, failure, nextId, crashes, acked, exposed>>

LEMMA LockedStep ==
    ASSUME IInv, NEW t \in Threads, NEW a \in LockedPC, NEW b \in LockedPC,
           Goto(t, a, b), UNCHANGED <<lock, Others>>
    PROVE  LockedFrame(t)
<1> USE DEF IInv, JournalProtocol
<1>1. pc[t] = a /\ pc'[t] = b /\ pc' \in [Threads -> PersistPC \cup {"idle", "write"}]
  BY Zenon DEF Goto, TypeOK, LockedPC, PersistPC
<1>2. \A u \in Threads : u # t => pc[u] \notin LockedPC /\ pc'[u] = pc[u]
  BY <1>1, PersistExcludes, Zenon DEF Goto, TypeOK
<1>3. MutexInv'
  BY <1>1, <1>2 DEF TypeOK, MutexInv, Goto, LockedPC, PersistPC, Others
<1>4. up \in {"running", "stopping"}
  BY <1>1, Zenon DEF ProcessInv, AllIdle, LockedPC, PersistPC
<1> QED
  BY <1>1, <1>2, <1>3, <1>4, Zenon DEF LockedFrame, Others, history, SnapshotNeverLost

\* The steps of persist_with_wal that run under all the mutexes.
LockedPersistStep(t) ==
    \/ PersistNewJournal(t)
    \/ PersistOpenTmp(t)
    \/ PersistCloseTmp(t)
    \/ SwitchNoExist(t)
    \/ SwitchExist(t)
    \/ JournalMoving(t)
    \/ RenameDbToOld(t)
    \/ JournalMovedExisting(t)
    \/ RenameTmpToDb(t)
    \/ JournalMovedNew(t)
    \/ RemoveWal(t)
    \/ WipeJournal(t)
    \/ RemoveOld(t)

LEMMA LockedPersistStepKeepsIInv ==
    ASSUME IInv, NEW t \in Threads, LockedPersistStep(t)
    PROVE  IInv'
<1>0. TypeOK /\ MutexInv /\ StageInv /\ SnapshotInv /\ ProcessInv
  BY Zenon DEF IInv, JournalProtocol
<1>1. CASE PersistNewJournal(t)
  <2>1. LockedFrame(t)
    BY <1>1, LockedStep, Zenon DEF PersistNewJournal, LockedPC, PersistPC
  <2>2. TypeOK'
    BY <1>0, <1>1, <2>1 DEF LockedFrame, TypeOK, StageInv, PersistNewJournal, Goto
  <2>3. StageInv'
    BY <1>0, <1>1, <2>1 DEF LockedFrame, StageInv, TypeOK, PersistNewJournal, Goto, LockedPC, PersistPC
  <2>4. SnapshotInv' /\ ProcessInv'
    BY <1>0, <1>1, <2>1, Zenon DEF LockedFrame, SnapshotInv, ProcessInv, StageInv, TypeOK, RecoveredState, PersistNewJournal, Goto
  <2> QED BY <2>1, <2>2, <2>3, <2>4, Zenon DEF LockedFrame, IInv, JournalProtocol
<1>2. CASE PersistOpenTmp(t)
  <2>1. LockedFrame(t)
    BY <1>2, LockedStep, Zenon DEF PersistOpenTmp, LockedPC, PersistPC
  <2>2. TypeOK'
    BY <1>0, <1>2, <2>1 DEF LockedFrame, TypeOK, StageInv, PersistOpenTmp, Goto
  <2>3. StageInv'
    BY <1>0, <1>2, <2>1 DEF LockedFrame, StageInv, TypeOK, PersistOpenTmp, Goto, LockedPC, PersistPC
  <2>4. SnapshotInv' /\ ProcessInv'
    BY <1>0, <1>2, <2>1, Zenon DEF LockedFrame, SnapshotInv, ProcessInv, StageInv, TypeOK, RecoveredState, PersistOpenTmp, Goto
  <2> QED BY <2>1, <2>2, <2>3, <2>4, Zenon DEF LockedFrame, IInv, JournalProtocol
<1>3. CASE PersistCloseTmp(t)
  <2>1. LockedFrame(t)
    BY <1>3, LockedStep, Zenon DEF PersistCloseTmp, LockedPC, PersistPC
  <2>2. TypeOK'
    BY <1>0, <1>3, <2>1 DEF LockedFrame, TypeOK, StageInv, PersistCloseTmp, Goto
  <2>3. StageInv'
    BY <1>0, <1>3, <2>1 DEF LockedFrame, StageInv, TypeOK, PersistCloseTmp, Goto, LockedPC, PersistPC
  <2>4. SnapshotInv' /\ ProcessInv'
    BY <1>0, <1>3, <2>1, Zenon DEF LockedFrame, SnapshotInv, ProcessInv, StageInv, TypeOK, RecoveredState, PersistCloseTmp, Goto
  <2> QED BY <2>1, <2>2, <2>3, <2>4, Zenon DEF LockedFrame, IInv, JournalProtocol
<1>4. CASE SwitchNoExist(t)
  <2>1. LockedFrame(t)
    BY <1>4, LockedStep, Zenon DEF SwitchNoExist, JournalEntry, LockedPC, PersistPC
  <2>2. TypeOK'
    BY <1>0, <1>4, <2>1 DEF LockedFrame, TypeOK, StageInv, SwitchNoExist, JournalEntry, AfterEntry, JournalOrder, Goto
  <2>3. StageInv'
    BY <1>0, <1>4, <2>1 DEF LockedFrame, StageInv, TypeOK, SwitchNoExist, JournalEntry, AfterEntry, JournalOrder, Goto, LockedPC, PersistPC
  <2>4. SnapshotInv' /\ ProcessInv'
    BY <1>0, <1>4, <2>1, Zenon DEF LockedFrame, SnapshotInv, ProcessInv, StageInv, TypeOK, RecoveredState, SwitchNoExist, JournalEntry, AfterEntry, JournalOrder, Goto
  <2> QED BY <2>1, <2>2, <2>3, <2>4, Zenon DEF LockedFrame, IInv, JournalProtocol
<1>5. CASE SwitchExist(t)
  <2>1. LockedFrame(t)
    BY <1>5, LockedStep, Zenon DEF SwitchExist, JournalEntry, LockedPC, PersistPC
  <2>2. TypeOK'
    BY <1>0, <1>5, <2>1 DEF LockedFrame, TypeOK, StageInv, SwitchExist, JournalEntry, AfterEntry, JournalOrder, Goto
  <2>3. StageInv'
    BY <1>0, <1>5, <2>1 DEF LockedFrame, StageInv, TypeOK, SwitchExist, JournalEntry, AfterEntry, JournalOrder, Goto, LockedPC, PersistPC
  <2>4. SnapshotInv' /\ ProcessInv'
    BY <1>0, <1>5, <2>1, Zenon DEF LockedFrame, SnapshotInv, ProcessInv, StageInv, TypeOK, RecoveredState, SwitchExist, JournalEntry, AfterEntry, JournalOrder, Goto
  <2> QED BY <2>1, <2>2, <2>3, <2>4, Zenon DEF LockedFrame, IInv, JournalProtocol
<1>6. CASE JournalMoving(t)
  <2>1. LockedFrame(t)
    BY <1>6, LockedStep, Zenon DEF JournalMoving, JournalEntry, LockedPC, PersistPC
  <2>2. TypeOK'
    BY <1>0, <1>6, <2>1 DEF LockedFrame, TypeOK, StageInv, JournalMoving, JournalEntry, AfterEntry, JournalOrder, Goto
  <2>3. StageInv'
    BY <1>0, <1>6, <2>1 DEF LockedFrame, StageInv, TypeOK, JournalMoving, JournalEntry, AfterEntry, JournalOrder, Goto, LockedPC, PersistPC
  <2>4. SnapshotInv' /\ ProcessInv'
    BY <1>0, <1>6, <2>1, Zenon DEF LockedFrame, SnapshotInv, ProcessInv, StageInv, TypeOK, RecoveredState, JournalMoving, JournalEntry, AfterEntry, JournalOrder, Goto
  <2> QED BY <2>1, <2>2, <2>3, <2>4, Zenon DEF LockedFrame, IInv, JournalProtocol
<1>7. CASE RenameDbToOld(t)
  <2>1. LockedFrame(t)
    BY <1>7, LockedStep, Zenon DEF RenameDbToOld, LockedPC, PersistPC
  <2>2. TypeOK'
    BY <1>0, <1>7, <2>1, Zenon DEF LockedFrame, TypeOK, StageInv, RenameDbToOld, Goto
  <2>3. StageInv'
    BY <1>0, <1>7, <2>1 DEF LockedFrame, StageInv, TypeOK, RenameDbToOld, Goto, LockedPC, PersistPC
  <2>4. SnapshotInv'
    BY <1>0, <1>7, <2>1, <2>3, Zenon DEF LockedFrame, SnapshotInv, StageInv, RenameDbToOld, Goto, TypeOK
  <2>5. HasDbFile
    BY <1>0, <1>7, Zenon DEF ProcessInv, RenameDbToOld, Goto, PersistPC
  <2>6. ProcessInv'
    BY <1>0, <1>7, <2>1, <2>5, Zenon DEF LockedFrame, ProcessInv, RenameDbToOld
  <2> QED BY <2>1, <2>2, <2>3, <2>4, <2>6, Zenon DEF LockedFrame, IInv, JournalProtocol
<1>8. CASE JournalMovedExisting(t)
  <2>1. LockedFrame(t)
    BY <1>8, LockedStep, Zenon DEF JournalMovedExisting, JournalEntry, LockedPC, PersistPC
  <2>2. TypeOK'
    BY <1>0, <1>8, <2>1 DEF LockedFrame, TypeOK, StageInv, JournalMovedExisting, JournalEntry, AfterEntry, JournalOrder, Goto
  <2>3. StageInv'
    BY <1>0, <1>8, <2>1 DEF LockedFrame, StageInv, TypeOK, JournalMovedExisting, JournalEntry, AfterEntry, JournalOrder, Goto, LockedPC, PersistPC
  <2>4. SnapshotInv' /\ ProcessInv'
    BY <1>0, <1>8, <2>1, Zenon DEF LockedFrame, SnapshotInv, ProcessInv, StageInv, TypeOK, RecoveredState, JournalMovedExisting, JournalEntry, AfterEntry, JournalOrder, Goto
  <2> QED BY <2>1, <2>2, <2>3, <2>4, Zenon DEF LockedFrame, IInv, JournalProtocol
<1>9. CASE RenameTmpToDb(t)
  <2>1. LockedFrame(t)
    BY <1>9, LockedStep, Zenon DEF RenameTmpToDb, LockedPC, PersistPC
  <2>2. TypeOK'
    BY <1>0, <1>9, <2>1 DEF LockedFrame, TypeOK, StageInv, RenameTmpToDb, Goto
  <2>3. StageInv'
    BY <1>0, <1>9, <2>1 DEF LockedFrame, StageInv, TypeOK, RenameTmpToDb, Goto, LockedPC, PersistPC
  <2>4. SnapshotInv' /\ ProcessInv'
    BY <1>0, <1>9, <2>1, Zenon DEF LockedFrame, SnapshotInv, ProcessInv, StageInv, TypeOK, RecoveredState, RenameTmpToDb, Goto
  <2> QED BY <2>1, <2>2, <2>3, <2>4, Zenon DEF LockedFrame, IInv, JournalProtocol
<1>10. CASE JournalMovedNew(t)
  <2>1. LockedFrame(t)
    BY <1>10, LockedStep, Zenon DEF JournalMovedNew, JournalEntry, LockedPC, PersistPC
  <2>2. TypeOK'
    BY <1>0, <1>10, <2>1 DEF LockedFrame, TypeOK, StageInv, JournalMovedNew, JournalEntry, AfterEntry, JournalOrder, Goto
  <2>3. StageInv'
    BY <1>0, <1>10, <2>1, ZenonT(30) DEF LockedFrame, StageInv, TypeOK, JournalMovedNew, JournalEntry, AfterEntry, JournalOrder, Goto, LockedPC, PersistPC
  <2>4. SnapshotInv' /\ ProcessInv'
    BY <1>0, <1>10, <2>1, Zenon DEF LockedFrame, SnapshotInv, ProcessInv, StageInv, TypeOK, RecoveredState, JournalMovedNew, JournalEntry, AfterEntry, JournalOrder, Goto
  <2> QED BY <2>1, <2>2, <2>3, <2>4, Zenon DEF LockedFrame, IInv, JournalProtocol
<1>11. CASE RemoveWal(t)
  <2>1. LockedFrame(t)
    BY <1>11, LockedStep, Zenon DEF RemoveWal, LockedPC, PersistPC
  <2>2. TypeOK'
    BY <1>0, <1>11, <2>1 DEF LockedFrame, TypeOK, StageInv, RemoveWal, Goto
  <2>3. StageInv'
    BY <1>0, <1>11, <2>1 DEF LockedFrame, StageInv, TypeOK, RemoveWal, Goto, LockedPC, PersistPC
  <2>4. SnapshotInv' /\ ProcessInv'
    BY <1>0, <1>11, <2>1, Zenon DEF LockedFrame, SnapshotInv, ProcessInv, StageInv, TypeOK, RecoveredState, RemoveWal, Goto
  <2> QED BY <2>1, <2>2, <2>3, <2>4, Zenon DEF LockedFrame, IInv, JournalProtocol
<1>12. CASE WipeJournal(t)
  <2>1. LockedFrame(t)
    BY <1>12, LockedStep, Zenon DEF WipeJournal, LockedPC, PersistPC
  <2>2. TypeOK'
    BY <1>0, <1>12, <2>1 DEF LockedFrame, TypeOK, StageInv, WipeJournal, Goto
  <2>3. StageInv'
    <3>1. CASE Goto(t, "wal_removed", "wiped")
      BY <1>0, <1>12, <2>1, <3>1 DEF LockedFrame, StageInv, TypeOK, WipeJournal, Goto, LockedPC, PersistPC
    <3>2. CASE Goto(t, "wal_removed_first", "cleaned")
      BY <1>0, <1>12, <2>1, <3>2 DEF LockedFrame, StageInv, TypeOK, WipeJournal, Goto, LockedPC, PersistPC
    <3> QED BY <1>12, <3>1, <3>2, Zenon DEF WipeJournal
  <2>4. SnapshotInv' /\ ProcessInv'
    BY <1>0, <1>12, <2>1, Zenon DEF LockedFrame, SnapshotInv, ProcessInv, StageInv, TypeOK, RecoveredState, WipeJournal, Goto
  <2> QED BY <2>1, <2>2, <2>3, <2>4, Zenon DEF LockedFrame, IInv, JournalProtocol
<1>13. CASE RemoveOld(t)
  <2>1. LockedFrame(t)
    BY <1>13, LockedStep, Zenon DEF RemoveOld, LockedPC, PersistPC
  <2>2. TypeOK'
    BY <1>0, <1>13, <2>1 DEF LockedFrame, TypeOK, StageInv, RemoveOld, Goto
  <2>3. StageInv'
    BY <1>0, <1>13, <2>1 DEF LockedFrame, StageInv, TypeOK, RemoveOld, Goto, LockedPC, PersistPC
  <2>4. SnapshotInv' /\ ProcessInv'
    BY <1>0, <1>13, <2>1, Zenon DEF LockedFrame, SnapshotInv, ProcessInv, StageInv, TypeOK, RecoveredState, RemoveOld, Goto
  <2> QED BY <2>1, <2>2, <2>3, <2>4, Zenon DEF LockedFrame, IInv, JournalProtocol
<1> QED BY <1>1, <1>2, <1>3, <1>4, <1>5, <1>6, <1>7, <1>8, <1>9, <1>10, <1>11, <1>12, <1>13, Zenon DEF LockedPersistStep

-----------------------------------------------------------------------------
(* The other steps of the threads. *)

LEMMA BeginWriteKeepsIInv ==
    ASSUME IInv, NEW t \in Threads, NEW D \in Scopes, BeginWrite(t, D)
    PROVE  IInv'
<1>0. TypeOK /\ MutexInv /\ StageInv /\ SnapshotInv /\ ProcessInv /\ SnapshotNeverLost
  BY Zenon DEF IInv, JournalProtocol
<1>1. PICK op \in Op :
        /\ op[1] = D
        /\ cur' = [cur EXCEPT ![t] = op]
        /\ wal' = IF stream = "linked" THEN Append(wal, op) ELSE wal
        /\ exposed' \in {exposed, exposed \cup {op}}
  <2>1. <<D, nextId>> \in Op /\ <<D, nextId>>[1] = D
    BY <1>0, Zenon DEF Op, TypeOK
  <2> QED BY <2>1, Zenon DEF BeginWrite
<1>2. PICK d \in Databases : d \in D
  BY DEF Scopes
<1>3. \A u \in Threads : pc[u] \notin LockedPC
  BY <1>0, <1>2, PersistJournalAssumption DEF MutexInv, BeginWrite
<1>4. TypeOK'
  <2>1. wal' \in Seq(Op) \cup {NoFile}
    BY <1>0, <1>1 DEF TypeOK, ProcessInv
  <2>2. lock' \in [Databases -> Threads \cup {NoThread}]
    BY <1>0, Zenon DEF BeginWrite, TypeOK
  <2>3. cur' \in [Threads -> Op \cup {<<>>}] /\ exposed' \subseteq Op
    BY <1>0, <1>1, Zenon DEF TypeOK
  <2>4. /\ pc' \in [Threads -> PersistPC \cup {"idle", "write"}] /\ nextId' \in Nat
        /\ UNCHANGED <<db, old, tmp, journal, stream, mem, up, failure, crashes, acked>>
    BY <1>0 DEF TypeOK, BeginWrite
  <2> QED
    BY <1>0, <2>1, <2>2, <2>3, <2>4 DEF TypeOK
<1>5. MutexInv'
  <2> SUFFICES ASSUME NEW u \in Threads
               PROVE  /\ pc'[u] \in LockedPC => \A e \in Databases : lock'[e] = u
                      /\ pc'[u] = "write" => cur'[u] \in Op /\ \A e \in cur'[u][1] : lock'[e] = u
    BY Zenon DEF MutexInv
  <2>1. CASE u = t
    <3>1. pc'[u] = "write" /\ cur'[u] = op
      BY <1>0, <1>1, <2>1, Zenon DEF BeginWrite, TypeOK
    <3>2. D \subseteq Databases
      BY DEF Scopes
    <3> QED BY <1>1, <2>1, <3>1, <3>2, Zenon DEF BeginWrite, LockedPC, PersistPC
  <2>2. CASE u # t
    <3>1. pc'[u] = pc[u] /\ cur'[u] = cur[u]
      BY <1>0, <2>2, Zenon DEF BeginWrite, TypeOK
    <3>2. ASSUME pc[u] = "write" PROVE \A e \in cur[u][1] : lock'[e] = u
      <4>1. cur[u] \in Op /\ \A e \in cur[u][1] : lock[e] = u
        BY <1>0, <3>2, Zenon DEF MutexInv
      <4>2. cur[u][1] \subseteq Databases
        BY <4>1 DEF Op, Scopes
      <4> QED BY <1>0, <4>1, <4>2, PersistJournalAssumption, Zenon DEF BeginWrite, TypeOK
    <3> QED BY <1>0, <1>3, <3>1, <3>2, Zenon DEF MutexInv
  <2> QED BY <2>1, <2>2, Zenon
<1>6. StageInv'
  BY <1>0, <1>3 DEF StageInv, BeginWrite, TypeOK, LockedPC, PersistPC
<1>7. SnapshotInv' /\ SnapshotNeverLost'
  BY <1>0, Zenon DEF SnapshotInv, SnapshotNeverLost, RecoveredState, BeginWrite
<1>8. ProcessInv'
  <2>1. stream = "linked" => wal' \in Seq(Op)
    BY <1>0, <1>1 DEF TypeOK, ProcessInv
  <2>2. \A u \in Threads : pc'[u] \in {pc[u], "write"}
    BY <1>0, Zenon DEF TypeOK, BeginWrite
  <2>3. up = "running" /\ UNCHANGED <<up, stream, db, old>>
    BY Zenon DEF BeginWrite
  <2> QED BY <1>0, <1>1, <2>1, <2>2, <2>3, PersistJournalAssumption, Zenon DEF ProcessInv, PersistPC
<1> QED BY <1>8, <1>4, <1>5, <1>6, <1>7, Zenon DEF IInv, JournalProtocol

LEMMA EndWriteKeepsIInv ==
    ASSUME IInv, NEW t \in Threads, EndWrite(t)
    PROVE  IInv'
<1>0. TypeOK /\ MutexInv /\ StageInv /\ SnapshotInv /\ ProcessInv /\ SnapshotNeverLost
  BY Zenon DEF IInv, JournalProtocol
<1>1. cur[t] \in Op /\ pc[t] = "write"
  BY <1>0, Zenon DEF EndWrite, MutexInv
<1>2. \A u \in Threads : u # t => pc[u] \notin LockedPC
  BY <1>0, <1>1, PersistExcludes, Zenon
<1>3. TypeOK'
  <2>1. lock' \in [Databases -> Threads \cup {NoThread}]
    BY <1>0, Zenon DEF EndWrite, TypeOK
  <2> QED BY <1>0, <1>1, <2>1 DEF EndWrite, TypeOK, files
<1>4. MutexInv'
  <2> SUFFICES ASSUME NEW u \in Threads
               PROVE  /\ pc'[u] \in LockedPC => \A e \in Databases : lock'[e] = u
                      /\ pc'[u] = "write" => cur'[u] \in Op /\ \A e \in cur'[u][1] : lock'[e] = u
    BY Zenon DEF MutexInv
  <2>1. CASE u = t
    BY <1>0, <2>1, Zenon DEF EndWrite, TypeOK, LockedPC, PersistPC
  <2>2. CASE u # t
    <3>1. pc'[u] = pc[u] /\ cur'[u] = cur[u]
      BY <1>0, <2>2, Zenon DEF EndWrite, TypeOK
    <3>2. ASSUME pc[u] = "write" PROVE \A e \in cur[u][1] : lock'[e] = u
      <4>1. cur[u] \in Op /\ \A e \in cur[u][1] : lock[e] = u
        BY <1>0, <3>2, Zenon DEF MutexInv
      <4>2. cur[u][1] \subseteq Databases
        BY <4>1 DEF Op, Scopes
      <4> QED BY <1>0, <2>2, <4>1, <4>2, Zenon DEF EndWrite, TypeOK
    <3> QED BY <1>0, <1>2, <2>2, <3>1, <3>2, Zenon DEF MutexInv
  <2> QED BY <2>1, <2>2, Zenon
<1>5. StageInv'
  BY <1>0, <1>1, <1>2 DEF StageInv, EndWrite, files, TypeOK, LockedPC, PersistPC
<1>6. SnapshotInv' /\ ProcessInv' /\ SnapshotNeverLost'
  <2>1. \A u \in Threads : pc'[u] \in {pc[u], "idle"}
    BY <1>0, Zenon DEF TypeOK, EndWrite
  <2>2. ProcessInv'
    BY <1>0, <1>1, <2>1, Zenon DEF ProcessInv, EndWrite, files, PersistPC, AllIdle
  <2> QED BY <1>0, <2>2, Zenon DEF SnapshotInv, SnapshotNeverLost, RecoveredState, EndWrite, files
<1> QED BY <1>3, <1>4, <1>5, <1>6, Zenon DEF IInv, JournalProtocol

\* Taking and releasing the mutexes, and closing and reopening the WAL.
LEMMA OuterPersistStepKeepsIInv ==
    ASSUME IInv, NEW t \in Threads,
           \/ PersistCloseWal(t) \/ PersistLockAll(t)
           \/ PersistUnlockAll(t) \/ PersistReopenWal(t)
    PROVE  IInv'
<1>0. TypeOK /\ MutexInv /\ StageInv /\ SnapshotInv /\ ProcessInv /\ SnapshotNeverLost
  BY Zenon DEF IInv, JournalProtocol
<1>1. CASE PersistCloseWal(t)
  <2>1. TypeOK' /\ MutexInv'
    BY <1>0, <1>1 DEF TypeOK, MutexInv, PersistCloseWal, Goto, Others, history, files, LockedPC,
                      PersistPC
  <2>2. StageInv'
    BY <1>0, <1>1, Zenon DEF TypeOK, StageInv, PersistCloseWal, Goto, Others, files
  <2>3. SnapshotInv' /\ ProcessInv' /\ SnapshotNeverLost'
    BY <1>0, <1>1, Zenon DEF SnapshotInv, ProcessInv, SnapshotNeverLost, RecoveredState,
                      PersistCloseWal, Others, files
  <2> QED BY <2>1, <2>2, <2>3, Zenon DEF IInv, JournalProtocol
<1>2. CASE PersistLockAll(t)
  <2>1. \A u \in Threads : pc[u] \notin LockedPC /\ pc[u] # "write"
    <3> SUFFICES ASSUME NEW u \in Threads, pc[u] \in LockedPC \/ pc[u] = "write"
                 PROVE  FALSE
      BY Zenon
    <3>1. PICK d \in Databases : lock[d] = u
      BY <1>0, PersistJournalAssumption DEF MutexInv, Op, Scopes
    <3> QED BY <1>2, <3>1, PersistJournalAssumption, Zenon DEF PersistLockAll
  <2>2. TypeOK'
    BY <1>0, <1>2 DEF TypeOK, PersistLockAll, Goto, Others, history, files, PersistPC
  <2>3. MutexInv'
    BY <1>0, <1>2, <2>1 DEF TypeOK, MutexInv, PersistLockAll, Goto, Others, LockedPC, PersistPC
  <2>4. StageInv'
    BY <1>0, <1>2, <2>1 DEF TypeOK, StageInv, PersistLockAll, Goto, Others, files, LockedPC,
                            PersistPC
  <2>5. SnapshotInv' /\ ProcessInv' /\ SnapshotNeverLost'
    BY <1>0, <1>2, Zenon DEF TypeOK, SnapshotInv, ProcessInv, SnapshotNeverLost, RecoveredState,
                      PersistLockAll, Goto, Others, files, AllIdle
  <2> QED BY <2>2, <2>3, <2>4, <2>5, Zenon DEF IInv, JournalProtocol
<1>3. CASE PersistUnlockAll(t)
  <2>1. \A u \in Threads : u # t => pc[u] \notin LockedPC /\ pc[u] # "write"
    BY <1>0, <1>3, PersistExcludes, Zenon DEF PersistUnlockAll, Goto, LockedPC, PersistPC
  <2>2. TypeOK'
    BY <1>0, <1>3 DEF TypeOK, PersistUnlockAll, Goto, Others, history, files, PersistPC
  <2>3. MutexInv'
    BY <1>0, <1>3, <2>1 DEF TypeOK, MutexInv, PersistUnlockAll, Goto, Others, LockedPC, PersistPC
  <2>4. StageInv'
    BY <1>0, <1>3, <2>1 DEF TypeOK, StageInv, PersistUnlockAll, Goto, Others, files, LockedPC,
                            PersistPC
  <2>5. SnapshotInv' /\ ProcessInv' /\ SnapshotNeverLost'
    BY <1>0, <1>3, Zenon DEF TypeOK, SnapshotInv, ProcessInv, SnapshotNeverLost, RecoveredState,
                      PersistUnlockAll, Goto, Others, files, AllIdle
  <2> QED BY <2>2, <2>3, <2>4, <2>5, Zenon DEF IInv, JournalProtocol
<1>4. CASE PersistReopenWal(t)
  <2>0. wal' \in Seq(Op) /\ wal' # NoFile
    BY <1>0, <1>4, ContentType, Zenon DEF TypeOK, PersistReopenWal
  <2>1. TypeOK'
    BY <1>0, <1>4, <2>0 DEF TypeOK, PersistReopenWal, Goto, Others, history, PersistPC
  <2>2. MutexInv'
    BY <1>0, <1>4 DEF TypeOK, MutexInv, PersistReopenWal, Goto, Others, LockedPC, PersistPC
  <2>3. StageInv'
    BY <1>0, <1>4, Zenon DEF TypeOK, StageInv, PersistReopenWal, Goto, Others
  <2>4. SnapshotInv' /\ ProcessInv' /\ SnapshotNeverLost'
    BY <1>0, <1>4, <2>0, Zenon DEF TypeOK, SnapshotInv, ProcessInv, SnapshotNeverLost, RecoveredState,
                      PersistReopenWal, Goto, Others, AllIdle
  <2> QED BY <2>1, <2>2, <2>3, <2>4, Zenon DEF IInv, JournalProtocol
<1> QED BY <1>1, <1>2, <1>3, <1>4, Zenon

-----------------------------------------------------------------------------
(* The life of the process. *)

LEMMA ProcessStepKeepsIInv ==
    ASSUME IInv, PreDatabaseLoad \/ LoadAndRecover \/ Exit \/ Crash
    PROVE  IInv'
<1>0. TypeOK /\ MutexInv /\ StageInv /\ SnapshotInv /\ ProcessInv /\ SnapshotNeverLost
  BY Zenon DEF IInv, JournalProtocol
<1>1. CASE PreDatabaseLoad
  <2>1. AllIdle /\ stream = "closed" /\ UNCHANGED <<stream, threadVars, mem, history>>
    BY <1>0, <1>1, Zenon DEF ProcessInv, NotRunning, PreDatabaseLoad, PreLoadNothing, PreLoadRemoveWal,
        PreLoadRestoreOld, PreLoadFail, RefuseToStart, FinishPreLoad
  <2>2. /\ db' \in {db, old} /\ old' \in {old, NoFile} /\ wal' \in {wal, NoFile}
        /\ tmp' = tmp /\ journal' = journal
    BY <1>1, Zenon DEF PreDatabaseLoad, PreLoadNothing, PreLoadRemoveWal, PreLoadRestoreOld,
        PreLoadFail, RefuseToStart, FinishPreLoad, files
  <2>3. SnapshotInv'
    BY <1>0, <1>1, Zenon DEF PreDatabaseLoad, PreLoadNothing, PreLoadRemoveWal, PreLoadRestoreOld,
        PreLoadFail, RefuseToStart, FinishPreLoad, files, SnapshotInv, RecoveredState
  <2>4. up' \in {"loading", "failed"} /\ failure' \in {failure, "both_exist", "rename_failed"}
    BY <1>0, <1>1, Zenon DEF PreDatabaseLoad, PreLoadNothing, PreLoadRemoveWal, PreLoadRestoreOld,
        PreLoadFail, RefuseToStart, FinishPreLoad, SnapshotInv, RecoveredState, TypeOK
  <2>5. TypeOK'
    BY <1>0, <2>1, <2>2, <2>4 DEF TypeOK, threadVars, history
  <2>6. MutexInv'
    BY <1>0, <2>1, Zenon DEF MutexInv, threadVars
  <2>7. StageInv'
    BY <2>1, Zenon DEF StageInv, threadVars, AllIdle
  <2>8. ProcessInv' /\ SnapshotNeverLost'
    BY <1>0, <2>1, <2>2, <2>4, Zenon DEF ProcessInv, SnapshotNeverLost, AllIdle, threadVars
  <2> QED BY <2>3, <2>5, <2>6, <2>7, <2>8, Zenon DEF IInv, JournalProtocol
<1>2. CASE LoadAndRecover
  <2>1. AllIdle
    BY <1>0, <1>2, Zenon DEF ProcessInv, LoadAndRecover
  <2>2. wal' \in Seq(Op) /\ wal' # NoFile
    BY <1>0, <1>2, ContentType, Zenon DEF TypeOK, LoadAndRecover
  <2>3. mem' \in Seq(Op)
    <3>1. Content(db) \in Seq(Op) /\ Content(wal) \in Seq(Op) /\ <<>> \in Seq(Op)
      BY <1>0, ContentType DEF TypeOK
    <3> QED BY <1>2, <3>1 DEF LoadAndRecover
  <2>4. TypeOK'
    BY <1>0, <1>2, <2>2, <2>3 DEF TypeOK, LoadAndRecover, threadVars, history
  <2>5. MutexInv' /\ StageInv'
    BY <1>0, <1>2, <2>1, Zenon DEF MutexInv, StageInv, AllIdle, LoadAndRecover, threadVars
  <2>6. SnapshotInv' /\ ProcessInv' /\ SnapshotNeverLost'
    BY <1>0, <1>2, <2>2, Zenon DEF SnapshotInv, ProcessInv, SnapshotNeverLost, RecoveredState,
        LoadAndRecover, threadVars
  <2> QED BY <2>4, <2>5, <2>6, Zenon DEF IInv, JournalProtocol
<1>3. CASE Exit \/ Crash
  <2>1. LoseMemory /\ crashes' \in Nat
    BY <1>0, <1>3 DEF Exit, Crash, TypeOK
  <2>2. TypeOK'
    <3>1. <<>> \in Seq(Op)
      OBVIOUS
    <3> QED BY <1>0, <2>1, <3>1 DEF TypeOK, LoseMemory, files
  <2>3. MutexInv' /\ StageInv'
    BY <2>1, Zenon DEF MutexInv, StageInv, LoseMemory, LockedPC, PersistPC
  <2>4. SnapshotInv' /\ ProcessInv' /\ SnapshotNeverLost'
    BY <1>0, <2>1, Zenon DEF SnapshotInv, ProcessInv, SnapshotNeverLost, RecoveredState, AllIdle,
        LoseMemory, files, PersistPC
  <2> QED BY <2>2, <2>3, <2>4, Zenon DEF IInv, JournalProtocol
<1> QED BY <1>1, <1>2, <1>3, Zenon

\* Server::stop begins its persist as any thread does.
LEMMA StopKeepsIInv ==
    ASSUME IInv, NEW t \in Threads, Stop(t)
    PROVE  IInv'
<1>0. TypeOK /\ MutexInv /\ StageInv /\ SnapshotInv /\ ProcessInv /\ SnapshotNeverLost
  BY Zenon DEF IInv, JournalProtocol
<1>1. TypeOK'
  <2>1. /\ pc' \in [Threads -> PersistPC \cup {"idle", "write"}]
        /\ stream' \in {"closed", "linked", "unlinked"}
    <3>1. CASE HasDbFile
      BY <1>0, <3>1, Zenon DEF TypeOK, Stop, Goto, PersistPC
    <3>2. CASE ~HasDbFile
      BY <1>0, <3>2, Zenon DEF TypeOK, Stop
    <3> QED BY <3>1, <3>2, Zenon
  <2> QED BY <1>0, <2>1 DEF TypeOK, Stop, history, files
<1>2. \A u \in Threads : pc'[u] \in {"idle", "closed"}
  BY <1>0, Zenon DEF TypeOK, Stop, Goto, AllIdle
<1>4. MutexInv' /\ StageInv'
  BY <1>2, Zenon DEF MutexInv, StageInv, LockedPC, PersistPC
<1>3. SnapshotInv' /\ ProcessInv' /\ SnapshotNeverLost'
  BY <1>0, Zenon DEF SnapshotInv, ProcessInv, SnapshotNeverLost, RecoveredState, Stop, files
<1> QED BY <1>1, <1>3, <1>4, Zenon DEF IInv, JournalProtocol

-----------------------------------------------------------------------------
LEMMA InitIInv == Init => IInv
<1> SUFFICES ASSUME Init PROVE IInv
  BY Zenon
<1>1. <<>> \in Seq(Op)
  OBVIOUS
<1>2. TypeOK
  BY <1>1, Zenon DEF Init, TypeOK
<1>3. MutexInv /\ StageInv /\ SnapshotInv /\ ProcessInv /\ SnapshotNeverLost
  BY Zenon DEF Init, MutexInv, StageInv, SnapshotInv, ProcessInv, SnapshotNeverLost, RecoveredState,
         AllIdle, LockedPC, PersistPC
<1> QED BY <1>2, <1>3, Zenon DEF IInv, JournalProtocol

LEMMA NextIInv == IInv /\ [Next]_vars => IInv'
<1> SUFFICES ASSUME IInv, [Next]_vars PROVE IInv'
  BY Zenon
<1>1. ASSUME NEW t \in Threads, NEW D \in Scopes, BeginWrite(t, D) PROVE IInv'
  BY <1>1, BeginWriteKeepsIInv, Zenon
<1>2. ASSUME NEW t \in Threads, EndWrite(t) PROVE IInv'
  BY <1>2, EndWriteKeepsIInv, Zenon
<1>3. ASSUME NEW t \in Threads, PersistCloseWal(t) \/ PersistStep(t) PROVE IInv'
  BY <1>3, OuterPersistStepKeepsIInv, LockedPersistStepKeepsIInv, Zenon
     DEF PersistStep, LockedPersistStep
<1>4. ASSUME NEW t \in Threads, Stop(t) PROVE IInv'
  BY <1>4, StopKeepsIInv, Zenon
<1>5. ASSUME PreDatabaseLoad \/ LoadAndRecover \/ Exit \/ Crash PROVE IInv'
  BY <1>5, ProcessStepKeepsIInv, Zenon
<1>6. CASE UNCHANGED vars
  <2>1. /\ UNCHANGED <<db, old, tmp, wal, journal, stream, mem, lock, pc, cur>>
        /\ UNCHANGED <<up, failure, nextId, crashes, acked, exposed>>
    BY <1>6, Zenon DEF vars, files, threadVars, history
  <2>2. TypeOK'
    BY <2>1 DEF IInv, TypeOK
  <2>3. MutexInv' /\ StageInv'
    BY <2>1, Zenon DEF IInv, JournalProtocol, MutexInv, StageInv
  <2>4. SnapshotInv' /\ ProcessInv' /\ SnapshotNeverLost'
    BY <2>1, Zenon DEF IInv, JournalProtocol, SnapshotInv, ProcessInv, SnapshotNeverLost,
        RecoveredState, AllIdle
  <2> QED BY <2>2, <2>3, <2>4, Zenon DEF IInv, JournalProtocol
<1> QED BY <1>1, <1>2, <1>3, <1>4, <1>5, <1>6, Zenon DEF Next

\* At every moment the journal describes what has happened to the database
\* files, the journal parses, a start never finds the snapshot gone, and no file
\* but the temporary one is ever seen half written.
THEOREM ProtocolCorrect ==
    Spec => [](TypeOK /\ JournalProtocol /\ SnapshotNeverLost)
<1>1. Init => IInv
  BY InitIInv, Zenon
<1>2. IInv /\ [Next]_vars => IInv'
  BY NextIInv, Zenon
<1> QED BY <1>1, <1>2, PTL DEF Spec, IInv

\* No crash, at whatever file operation of a persist or of a start, leaves a
\* journal that does not parse or a journal whose snapshot is gone.
THEOREM SnapshotKept == Spec => []SnapshotNeverLost
  BY ProtocolCorrect, PTL

-----------------------------------------------------------------------------
(* Sequences of writes. *)

\* What a log holds after one more entry.
LEMMA RangeAppend ==
    ASSUME NEW s \in Seq(Op), NEW x \in Op
    PROVE  Append(s, x) \in Seq(Op) /\ Range(Append(s, x)) = Range(s) \cup {x}
<1>1. /\ Append(s, x) \in Seq(Op)
      /\ DOMAIN Append(s, x) = 1 .. Len(s) + 1
      /\ \A i \in 1 .. Len(s) : Append(s, x)[i] = s[i]
      /\ Append(s, x)[Len(s) + 1] = x
      /\ DOMAIN s = 1 .. Len(s) /\ Len(s) \in Nat
  OBVIOUS
<1>2. \A y : y \in Range(Append(s, x)) => y \in Range(s) \cup {x}
  BY <1>1 DEF Range
<1>3. \A y : y \in Range(s) => y \in Range(Append(s, x))
  BY <1>1 DEF Range
<1>4. x \in Range(Append(s, x))
  BY <1>1 DEF Range
<1> QED BY <1>1, <1>2, <1>3, <1>4, Zenon

LEMMA InjectiveAppend ==
    ASSUME NEW s \in Seq(Op), NEW x \in Op, Injective(s), x \notin Range(s)
    PROVE  Injective(Append(s, x))
<1>1. /\ DOMAIN Append(s, x) = 1 .. Len(s) + 1
      /\ \A i \in 1 .. Len(s) : Append(s, x)[i] = s[i]
      /\ Append(s, x)[Len(s) + 1] = x
      /\ DOMAIN s = 1 .. Len(s) /\ Len(s) \in Nat
  OBVIOUS
<1>2. \A i \in 1 .. Len(s) : s[i] # x
  BY <1>1, Zenon DEF Range
<1> QED BY <1>1, <1>2 DEF Injective

\* What a start restores: the snapshot and then the log.
LEMMA RangeConcat ==
    ASSUME NEW s \in Seq(Op), NEW r \in Seq(Op)
    PROVE  s \o r \in Seq(Op) /\ Range(s \o r) = Range(s) \cup Range(r)
<1>1. /\ s \o r \in Seq(Op)
      /\ DOMAIN (s \o r) = 1 .. Len(s) + Len(r)
      /\ \A i \in 1 .. Len(s) : (s \o r)[i] = s[i]
      /\ \A i \in 1 .. Len(s) + Len(r) : i > Len(s) => (s \o r)[i] = r[i - Len(s)]
      /\ DOMAIN s = 1 .. Len(s) /\ Len(s) \in Nat
      /\ DOMAIN r = 1 .. Len(r) /\ Len(r) \in Nat
  OBVIOUS
<1>2. ASSUME NEW y \in Range(s \o r) PROVE y \in Range(s) \cup Range(r)
  <2>1. PICK i \in 1 .. Len(s) + Len(r) : y = (s \o r)[i]
    BY <1>1, <1>2, Zenon DEF Range
  <2>2. CASE i \in 1 .. Len(s)
    BY <1>1, <2>1, <2>2, Zenon DEF Range
  <2>3. CASE i > Len(s)
    BY <1>1, <2>1, <2>3 DEF Range
  <2> QED BY <1>1, <2>2, <2>3
<1>3. ASSUME NEW y \in Range(s) PROVE y \in Range(s \o r)
  BY <1>1, <1>3 DEF Range
<1>4. ASSUME NEW y \in Range(r) PROVE y \in Range(s \o r)
  <2>1. PICK i \in 1 .. Len(r) : y = r[i]
    BY <1>1, <1>4, Zenon DEF Range
  <2>2. i + Len(s) \in 1 .. Len(s) + Len(r) /\ (s \o r)[i + Len(s)] = r[i]
    BY <1>1
  <2> QED BY <1>1, <2>1, <2>2, Zenon DEF Range
<1> QED BY <1>1, <1>2, <1>3, <1>4, Zenon

LEMMA InjectiveConcat ==
    ASSUME NEW s \in Seq(Op), NEW r \in Seq(Op),
           Injective(s), Injective(r), Range(s) \cap Range(r) = {}
    PROVE  Injective(s \o r)
<1>1. /\ DOMAIN (s \o r) = 1 .. Len(s) + Len(r)
      /\ \A i \in 1 .. Len(s) : (s \o r)[i] = s[i]
      /\ \A i \in 1 .. Len(s) + Len(r) : i > Len(s) => (s \o r)[i] = r[i - Len(s)]
      /\ DOMAIN s = 1 .. Len(s) /\ Len(s) \in Nat
      /\ DOMAIN r = 1 .. Len(r) /\ Len(r) \in Nat
  OBVIOUS
<1> SUFFICES ASSUME NEW i \in 1 .. Len(s) + Len(r), NEW j \in 1 .. Len(s) + Len(r),
                    (s \o r)[i] = (s \o r)[j]
             PROVE  i = j
  BY <1>1, Zenon DEF Injective
<1>2. CASE i <= Len(s) /\ j <= Len(s)
  BY <1>1, <1>2 DEF Injective
<1>3. CASE i > Len(s) /\ j > Len(s)
  <2>1. i - Len(s) \in 1 .. Len(r) /\ j - Len(s) \in 1 .. Len(r)
    BY <1>1, <1>3
  <2>2. r[i - Len(s)] = r[j - Len(s)]
    BY <1>1, <1>3, Zenon
  <2>3. i - Len(s) = j - Len(s)
    BY <1>1, <2>1, <2>2, Zenon DEF Injective
  <2> QED BY <1>1, <2>3
<1>4. CASE i <= Len(s) /\ j > Len(s)
  <2>1. i \in 1 .. Len(s) /\ j - Len(s) \in 1 .. Len(r)
    BY <1>1, <1>4
  <2>2. s[i] = r[j - Len(s)]
    BY <1>1, <1>4, <2>1, Zenon
  <2>3. s[i] \in Range(s) /\ r[j - Len(s)] \in Range(r)
    BY <1>1, <2>1, Zenon DEF Range
  <2> QED BY <2>2, <2>3, Zenon
<1>5. CASE i > Len(s) /\ j <= Len(s)
  <2>1. j \in 1 .. Len(s) /\ i - Len(s) \in 1 .. Len(r)
    BY <1>1, <1>5
  <2>2. s[j] = r[i - Len(s)]
    BY <1>1, <1>5, <2>1, Zenon
  <2>3. s[j] \in Range(s) /\ r[i - Len(s)] \in Range(r)
    BY <1>1, <2>1, Zenon DEF Range
  <2> QED BY <2>2, <2>3, Zenon
<1> QED BY <1>1, <1>2, <1>3, <1>4, <1>5

LEMMA EmptySeq ==
    /\ <<>> \in Seq(Op) /\ Range(<<>>) = {} /\ Injective(<<>>)
    /\ \A s \in Seq(Op) : s \o <<>> = s
  BY DEF Range, Injective

\* What a start would restore, as a set.
LEMMA RecoveryRange ==
    ASSUME TypeOK
    PROVE  /\ Content(SnapshotFile) \in Seq(Op) /\ Content(wal) \in Seq(Op)
           /\ Recovery \in Seq(Op)
           /\ DropsWal => Recovery = Content(SnapshotFile)
           /\ ~DropsWal => Range(Recovery) = Range(Content(SnapshotFile)) \cup Range(Content(wal))
<1>1. Content(SnapshotFile) \in Seq(Op) /\ Content(wal) \in Seq(Op)
  <2>1. SnapshotFile \in Seq(Op) \cup {NoFile}
    BY Zenon DEF SnapshotFile, TypeOK
  <2> QED BY <2>1, ContentType, Zenon DEF TypeOK
<1>2. CASE DropsWal
  BY <1>1, <1>2, EmptySeq, Zenon DEF Recovery
<1>3. CASE ~DropsWal
  <2>1. Recovery = Content(SnapshotFile) \o Content(wal)
    BY <1>3, Zenon DEF Recovery
  <2> QED BY <1>1, <1>3, <2>1, RangeConcat, Zenon
<1> QED BY <1>1, <1>2, <1>3, Zenon

-----------------------------------------------------------------------------
(* The content invariant. *)

\* A step that only moves files about, deletes the WAL, or puts the databases
\* in memory in the place of the snapshot keeps the content invariant, provided
\* its last two parts hold again.
LEMMA FileStepKeepsContent ==
    ASSUME IInv, ContentInv,
           UNCHANGED <<mem, cur, nextId>>,
           up \in {"running", "stopping"},
           \A u \in Threads : pc'[u] = "write" <=> pc[u] = "write",
           db' \in {db, old, mem, NoFile}, old' \in {db, old, NoFile},
           wal' \in {wal, NoFile, <<>>},
           Content(SnapshotFile)' \in {Content(SnapshotFile), mem},
           LoadedInv', OverlapInv'
    PROVE  ContentInv'
<1>1. /\ Content(NoFile) = <<>> /\ Content(<<>>) = <<>> /\ Content(mem) = mem
      /\ Content(wal)' \in {Content(wal), <<>>}
  BY PersistJournalAssumption, Zenon DEF Content, IInv, TypeOK
<1>2. IssuedInv'
  <2>1. \A f \in {db, old, wal, mem, NoFile, <<>>} : \A o \in Range(Content(f)) : o[2] < nextId
    BY <1>1, EmptySeq, Zenon DEF ContentInv, IssuedInv
  <2> QED BY <2>1, Zenon DEF ContentInv, IssuedInv, Writing
<1>3. InFlightInv'
  BY Zenon DEF ContentInv, InFlightInv, Writing
<1>4. KnownInv'
  BY <1>1, EmptySeq, Zenon DEF ContentInv, KnownInv, Writing
<1>5. OnceInv'
  <2>1. \A f \in {db, old, wal, mem, NoFile, <<>>} : Injective(Content(f))
    BY <1>1, EmptySeq, Zenon DEF ContentInv, OnceInv
  <2> QED BY <2>1, Zenon DEF ContentInv, OnceInv
<1> QED BY <1>2, <1>3, <1>4, <1>5, Zenon DEF ContentInv

\* The steps of persist_with_wal under the mutexes: each leaves the snapshot
\* where a start finds it, or puts the databases in memory in its place.
LEMMA LockedPersistStepKeepsContent ==
    ASSUME IInv, ContentInv, NEW t \in Threads, LockedPersistStep(t)
    PROVE  ContentInv'
<1>0. /\ TypeOK /\ MutexInv /\ StageInv /\ SnapshotInv /\ ProcessInv
      /\ LoadedInv /\ OverlapInv
  BY Zenon DEF IInv, JournalProtocol, ContentInv
<1>a. PICK a \in LockedPC, b \in LockedPC : Goto(t, a, b) /\ UNCHANGED <<lock, Others>>
  BY Zenon DEF LockedPersistStep, PersistNewJournal, PersistOpenTmp, PersistCloseTmp, SwitchNoExist, SwitchExist, JournalMoving, RenameDbToOld, JournalMovedExisting, RenameTmpToDb, JournalMovedNew, RemoveWal, WipeJournal, RemoveOld, JournalEntry,
         LockedPC, PersistPC
<1>b. /\ LockedFrame(t) /\ pc[t] = a /\ pc'[t] = b
      /\ \A u \in Threads : u # t => pc[u] \notin LockedPC
  BY <1>0, <1>a, LockedStep, PersistExcludes, Zenon DEF Goto, TypeOK
<1>c. HasDbFile /\ up \in {"running", "stopping"} /\ up' = up /\ ~NotRunning
      /\ UNCHANGED <<mem, cur, nextId>>
  BY <1>0, <1>b, Zenon DEF LockedFrame, ProcessInv, LockedPC, NotRunning
<1>d. \A u \in Threads : pc'[u] = "write" <=> pc[u] = "write"
  BY <1>0, <1>a, <1>b, Zenon DEF Goto, TypeOK, LockedPC, PersistPC
<1>e. \A u \in Threads : u # t =>
        pc[u] \notin {"renamed_old", "moved_existing", "renamed_new", "switched", "switched_first"}
  BY <1>b, Zenon DEF LockedPC, PersistPC
<1>f. Content(NoFile) = <<>> /\ Content(mem) = mem /\ Range(<<>>) = {}
  BY <1>0, EmptySeq, PersistJournalAssumption, Zenon DEF Content, TypeOK
<1>1. CASE PersistNewJournal(t)
  <2>0. /\ SnapshotFile = db /\ SnapshotFile' = db /\ wal' = wal /\ db' = db /\ old' = old
        /\ Range(Content(SnapshotFile)) \cap Range(Content(wal)) = {}
    BY <1>0, <1>c, <1>e, <1>1, Zenon DEF PersistNewJournal, Goto, LoadedInv, OverlapInv,
        SnapshotFile, RecoveredState
  <2>1. LoadedInv' /\ OverlapInv'
    BY <1>c, <2>0, Zenon DEF LoadedInv, OverlapInv
  <2> QED BY <1>b, <1>c, <1>d, <2>0, <2>1, FileStepKeepsContent, Zenon
<1>2. CASE PersistOpenTmp(t)
  <2>1. /\ db' \in {db, old, mem, NoFile} /\ old' \in {db, old, NoFile}
        /\ wal' \in {wal, NoFile, <<>>}
    BY <1>0, <1>2, Zenon DEF PersistOpenTmp, Goto, StageInv
  <2>2. Content(SnapshotFile)' \in {Content(SnapshotFile), mem} /\ LoadedInv'
    BY <1>0, <1>b, <1>c, <1>2, Zenon DEF PersistOpenTmp, Goto, StageInv, TypeOK, LoadedInv, SnapshotFile, RecoveredState, Content
  <2>3. OverlapInv'
    BY <1>0, <1>b, <1>c, <1>2, Zenon DEF PersistOpenTmp, Goto, StageInv, TypeOK, LoadedInv, OverlapInv, SnapshotFile, DropsWal, RecoveredState, Content
  <2> QED BY <1>b, <1>c, <1>d, <2>1, <2>2, <2>3, FileStepKeepsContent, Zenon DEF LockedFrame
<1>3. CASE PersistCloseTmp(t)
  <2>1. /\ db' \in {db, old, mem, NoFile} /\ old' \in {db, old, NoFile}
        /\ wal' \in {wal, NoFile, <<>>}
    BY <1>0, <1>3, Zenon DEF PersistCloseTmp, Goto, StageInv
  <2>2. Content(SnapshotFile)' \in {Content(SnapshotFile), mem} /\ LoadedInv'
    BY <1>0, <1>b, <1>c, <1>3, Zenon DEF PersistCloseTmp, Goto, StageInv, TypeOK, LoadedInv, SnapshotFile, RecoveredState, Content
  <2>3. OverlapInv'
    BY <1>0, <1>b, <1>c, <1>3, Zenon DEF PersistCloseTmp, Goto, StageInv, TypeOK, LoadedInv, OverlapInv, SnapshotFile, DropsWal, RecoveredState, Content
  <2> QED BY <1>b, <1>c, <1>d, <2>1, <2>2, <2>3, FileStepKeepsContent, Zenon DEF LockedFrame
<1>4. CASE SwitchNoExist(t)
  <2>1. /\ db' \in {db, old, mem, NoFile} /\ old' \in {db, old, NoFile}
        /\ wal' \in {wal, NoFile, <<>>}
    BY <1>0, <1>4, Zenon DEF SwitchNoExist, JournalEntry, AfterEntry, JournalOrder, Goto, StageInv
  <2>2. Content(SnapshotFile)' \in {Content(SnapshotFile), mem} /\ LoadedInv'
    BY <1>0, <1>b, <1>c, <1>4 DEF SwitchNoExist, JournalEntry, AfterEntry, JournalOrder, Goto, StageInv, TypeOK, LoadedInv, SnapshotFile, RecoveredState, Content
  <2>3. OverlapInv'
    BY <1>0, <1>b, <1>c, <1>4 DEF SwitchNoExist, JournalEntry, AfterEntry, JournalOrder, Goto, StageInv, TypeOK, LoadedInv, OverlapInv, SnapshotFile, DropsWal, RecoveredState, Content
  <2> QED BY <1>b, <1>c, <1>d, <2>1, <2>2, <2>3, FileStepKeepsContent, Zenon DEF LockedFrame
<1>5. CASE SwitchExist(t)
  <2>1. /\ db' \in {db, old, mem, NoFile} /\ old' \in {db, old, NoFile}
        /\ wal' \in {wal, NoFile, <<>>}
    BY <1>0, <1>5, Zenon DEF SwitchExist, JournalEntry, AfterEntry, JournalOrder, Goto, StageInv
  <2>2. Content(SnapshotFile)' \in {Content(SnapshotFile), mem} /\ LoadedInv'
    BY <1>0, <1>b, <1>c, <1>5, Zenon DEF SwitchExist, JournalEntry, AfterEntry, JournalOrder, Goto, StageInv, TypeOK, LoadedInv, SnapshotFile, RecoveredState, Content
  <2>3. OverlapInv'
    BY <1>0, <1>b, <1>c, <1>5, Zenon DEF SwitchExist, JournalEntry, AfterEntry, JournalOrder, Goto, StageInv, TypeOK, LoadedInv, OverlapInv, SnapshotFile, DropsWal, RecoveredState, Content
  <2> QED BY <1>b, <1>c, <1>d, <2>1, <2>2, <2>3, FileStepKeepsContent, Zenon DEF LockedFrame
<1>6. CASE JournalMoving(t)
  <2>1. /\ db' \in {db, old, mem, NoFile} /\ old' \in {db, old, NoFile}
        /\ wal' \in {wal, NoFile, <<>>}
    BY <1>0, <1>6, Zenon DEF JournalMoving, JournalEntry, AfterEntry, JournalOrder, Goto, StageInv
  <2>2. Content(SnapshotFile)' \in {Content(SnapshotFile), mem} /\ LoadedInv'
    BY <1>0, <1>b, <1>c, <1>6, Zenon DEF JournalMoving, JournalEntry, AfterEntry, JournalOrder, Goto, StageInv, TypeOK, LoadedInv, SnapshotFile, RecoveredState, Content
  <2>3. OverlapInv'
    BY <1>0, <1>b, <1>c, <1>6, Zenon DEF JournalMoving, JournalEntry, AfterEntry, JournalOrder, Goto, StageInv, TypeOK, LoadedInv, OverlapInv, SnapshotFile, DropsWal, RecoveredState, Content
  <2> QED BY <1>b, <1>c, <1>d, <2>1, <2>2, <2>3, FileStepKeepsContent, Zenon DEF LockedFrame
<1>7. CASE RenameDbToOld(t)
  <2>1. /\ db' \in {db, old, mem, NoFile} /\ old' \in {db, old, NoFile}
        /\ wal' \in {wal, NoFile, <<>>}
    BY <1>0, <1>7, Zenon DEF RenameDbToOld, Goto, StageInv
  <2>2. Content(SnapshotFile)' \in {Content(SnapshotFile), mem} /\ LoadedInv'
    BY <1>0, <1>b, <1>c, <1>7, Zenon DEF RenameDbToOld, Goto, StageInv, TypeOK, LoadedInv, SnapshotFile, RecoveredState, Content
  <2>3. OverlapInv'
    BY <1>0, <1>b, <1>c, <1>7, Zenon DEF RenameDbToOld, Goto, StageInv, TypeOK, LoadedInv, OverlapInv, SnapshotFile, DropsWal, RecoveredState, Content
  <2> QED BY <1>b, <1>c, <1>d, <2>1, <2>2, <2>3, FileStepKeepsContent, Zenon DEF LockedFrame
<1>8. CASE JournalMovedExisting(t)
  <2>1. /\ db' \in {db, old, mem, NoFile} /\ old' \in {db, old, NoFile}
        /\ wal' \in {wal, NoFile, <<>>}
    BY <1>0, <1>8, Zenon DEF JournalMovedExisting, JournalEntry, AfterEntry, JournalOrder, Goto, StageInv
  <2>2. Content(SnapshotFile)' \in {Content(SnapshotFile), mem} /\ LoadedInv'
    BY <1>0, <1>c, <1>e, <1>8, Zenon DEF JournalMovedExisting, JournalEntry, AfterEntry, JournalOrder, Goto, StageInv, TypeOK, LoadedInv, SnapshotFile, RecoveredState, Content
  <2>3. OverlapInv'
    BY <1>0, <1>c, <1>e, <1>8 DEF JournalMovedExisting, JournalEntry, AfterEntry, JournalOrder, Goto, StageInv, TypeOK, LoadedInv, OverlapInv, SnapshotFile, DropsWal, RecoveredState, Content
  <2> QED BY <1>b, <1>c, <1>d, <2>1, <2>2, <2>3, FileStepKeepsContent, Zenon DEF LockedFrame
<1>9. CASE RenameTmpToDb(t)
  <2>1. /\ db' \in {db, old, mem, NoFile} /\ old' \in {db, old, NoFile}
        /\ wal' \in {wal, NoFile, <<>>}
    BY <1>0, <1>9, Zenon DEF RenameTmpToDb, Goto, StageInv
  <2>2. Content(SnapshotFile)' \in {Content(SnapshotFile), mem} /\ LoadedInv'
    BY <1>0, <1>b, <1>c, <1>9, Zenon DEF RenameTmpToDb, Goto, StageInv, TypeOK, LoadedInv, SnapshotFile, RecoveredState, Content
  <2>3. OverlapInv'
    BY <1>0, <1>b, <1>c, <1>9, Zenon DEF RenameTmpToDb, Goto, StageInv, TypeOK, LoadedInv, OverlapInv, SnapshotFile, DropsWal, RecoveredState, Content
  <2> QED BY <1>b, <1>c, <1>d, <2>1, <2>2, <2>3, FileStepKeepsContent, Zenon DEF LockedFrame
<1>10. CASE JournalMovedNew(t)
  <2>1. /\ db' \in {db, old, mem, NoFile} /\ old' \in {db, old, NoFile}
        /\ wal' \in {wal, NoFile, <<>>}
    BY <1>0, <1>10, Zenon DEF JournalMovedNew, JournalEntry, AfterEntry, JournalOrder, Goto, StageInv
  <2>2. Content(SnapshotFile)' \in {Content(SnapshotFile), mem} /\ LoadedInv'
    BY <1>0, <1>b, <1>c, <1>f, <1>10, Zenon DEF JournalMovedNew, JournalEntry, AfterEntry, JournalOrder, Goto, StageInv, TypeOK, LoadedInv, SnapshotFile, RecoveredState, Content
  <2>3. OverlapInv'
    BY <1>0, <1>b, <1>c, <1>f, <1>10, Zenon DEF JournalMovedNew, JournalEntry, AfterEntry, JournalOrder, Goto, StageInv, TypeOK, LoadedInv, OverlapInv, SnapshotFile, DropsWal, RecoveredState, Content
  <2> QED BY <1>b, <1>c, <1>d, <2>1, <2>2, <2>3, FileStepKeepsContent, Zenon DEF LockedFrame
<1>11. CASE RemoveWal(t)
  <2>1. /\ db' \in {db, old, mem, NoFile} /\ old' \in {db, old, NoFile}
        /\ wal' \in {wal, NoFile, <<>>}
    BY <1>0, <1>11, Zenon DEF RemoveWal, Goto, StageInv
  <2>2. Content(SnapshotFile)' \in {Content(SnapshotFile), mem} /\ LoadedInv'
    BY <1>0, <1>b, <1>c, <1>11, Zenon DEF RemoveWal, Goto, StageInv, TypeOK, LoadedInv, SnapshotFile, RecoveredState, Content
  <2>3. OverlapInv'
    BY <1>f, <1>11, Zenon DEF RemoveWal, OverlapInv
  <2> QED BY <1>b, <1>c, <1>d, <2>1, <2>2, <2>3, FileStepKeepsContent, Zenon DEF LockedFrame
<1>12. CASE WipeJournal(t)
  <2>1. /\ db' \in {db, old, mem, NoFile} /\ old' \in {db, old, NoFile}
        /\ wal' \in {wal, NoFile, <<>>}
    BY <1>0, <1>12, Zenon DEF WipeJournal, Goto, StageInv
  <2>2. Content(SnapshotFile)' \in {Content(SnapshotFile), mem} /\ LoadedInv'
    BY <1>0, <1>b, <1>c, <1>12, Zenon DEF WipeJournal, Goto, StageInv, TypeOK, LoadedInv, SnapshotFile, RecoveredState, Content
  <2>3. OverlapInv'
    BY <1>0, <1>c, <1>e, <1>12, Zenon DEF WipeJournal, Goto, StageInv, TypeOK, LoadedInv, OverlapInv, SnapshotFile, DropsWal, RecoveredState, Content
  <2> QED BY <1>b, <1>c, <1>d, <2>1, <2>2, <2>3, FileStepKeepsContent, Zenon DEF LockedFrame
<1>13. CASE RemoveOld(t)
  <2>1. /\ db' \in {db, old, mem, NoFile} /\ old' \in {db, old, NoFile}
        /\ wal' \in {wal, NoFile, <<>>}
    BY <1>0, <1>13, Zenon DEF RemoveOld, Goto, StageInv
  <2>2. Content(SnapshotFile)' \in {Content(SnapshotFile), mem} /\ LoadedInv'
    BY <1>0, <1>b, <1>c, <1>13, Zenon DEF RemoveOld, Goto, StageInv, TypeOK, LoadedInv, SnapshotFile, RecoveredState, Content
  <2>3. OverlapInv'
    BY <1>0, <1>b, <1>c, <1>13, Zenon DEF RemoveOld, Goto, StageInv, TypeOK, LoadedInv, OverlapInv, SnapshotFile, DropsWal, RecoveredState, Content
  <2> QED BY <1>b, <1>c, <1>d, <2>1, <2>2, <2>3, FileStepKeepsContent, Zenon DEF LockedFrame
<1> QED BY <1>1, <1>2, <1>3, <1>4, <1>5, <1>6, <1>7, <1>8, <1>9, <1>10, <1>11, <1>12, <1>13, Zenon DEF LockedPersistStep

\* Closing and reopening the WAL, taking and releasing the mutexes, stopping.
LEMMA OuterStepKeepsContent ==
    ASSUME IInv, ContentInv, NEW t \in Threads,
           \/ PersistCloseWal(t) \/ PersistLockAll(t)
           \/ PersistUnlockAll(t) \/ PersistReopenWal(t) \/ Stop(t)
    PROVE  ContentInv'
<1>0. TypeOK /\ MutexInv /\ StageInv /\ ProcessInv /\ LoadedInv /\ OverlapInv
  BY Zenon DEF IInv, JournalProtocol, ContentInv
<1>1. /\ UNCHANGED <<db, old, journal, mem, cur, nextId>>
      /\ wal' \in {wal, Content(wal)}
      /\ up' \in {"running", "stopping"}
  BY <1>0, Zenon DEF PersistCloseWal, PersistLockAll, PersistUnlockAll, PersistReopenWal, Stop,
      Others, history, files, Goto, ProcessInv, AllIdle, TypeOK
<1>2. up \in {"running", "stopping"}
  BY <1>0, Zenon DEF PersistCloseWal, PersistLockAll, PersistUnlockAll, PersistReopenWal, Stop,
      Goto, ProcessInv, AllIdle
<1>3. \A u \in Threads :
        /\ pc'[u] = "write" <=> pc[u] = "write"
        /\ pc'[u] \in {"renamed_old", "moved_existing", "renamed_new"} <=>
             pc[u] \in {"renamed_old", "moved_existing", "renamed_new"}
        /\ pc'[u] \in {"switched", "switched_first"} <=> pc[u] \in {"switched", "switched_first"}
  <2>1. CASE \E a, b \in {"idle", "closed", "locked", "cleaned", "unlocked"} : Goto(t, a, b)
    BY <1>0, <2>1, Zenon DEF Goto, TypeOK
  <2>2. CASE UNCHANGED pc
    BY <2>2, Zenon
  <2> QED BY <2>1, <2>2, Zenon DEF PersistCloseWal, PersistLockAll, PersistUnlockAll,
              PersistReopenWal, Stop
<1>4. SnapshotFile' = SnapshotFile /\ DropsWal' = DropsWal /\ Content(wal)' = Content(wal)
  BY <1>1, PersistJournalAssumption, Zenon DEF SnapshotFile, DropsWal, RecoveredState, Content
<1>5. LoadedInv' /\ OverlapInv'
  BY <1>0, <1>1, <1>2, <1>3, <1>4, Zenon DEF LoadedInv, OverlapInv, NotRunning, Content
<1>6. wal' \in {wal, NoFile, <<>>}
  BY <1>1, Zenon DEF Content
<1> QED BY <1>1, <1>2, <1>3, <1>4, <1>5, <1>6, FileStepKeepsContent, Zenon DEF Content

LEMMA BeginWriteKeepsContent ==
    ASSUME IInv, ContentInv, NEW t \in Threads, NEW D \in Scopes, BeginWrite(t, D)
    PROVE  ContentInv'
<1>0. /\ TypeOK /\ ProcessInv /\ IssuedInv /\ InFlightInv /\ LoadedInv /\ KnownInv /\ OverlapInv
      /\ OnceInv
  BY Zenon DEF IInv, JournalProtocol, ContentInv
<1>1. PICK op \in Op :
        /\ op[2] = nextId
        /\ cur' = [cur EXCEPT ![t] = op]
        /\ wal' = IF stream = "linked" THEN Append(wal, op) ELSE wal
  <2>1. <<D, nextId>> \in Op /\ <<D, nextId>>[2] = nextId
    BY <1>0, Zenon DEF Op, TypeOK
  <2> QED BY <2>1, Zenon DEF BeginWrite
<1>2. /\ UNCHANGED <<db, old, journal, mem, up>> /\ nextId' = nextId + 1 /\ nextId < MaxOps
      /\ pc' = [pc EXCEPT ![t] = "write"] /\ pc[t] = "idle" /\ up = "running"
  BY Zenon DEF BeginWrite
<1>3. /\ \A u \in Threads : u # t => pc'[u] = pc[u] /\ cur'[u] = cur[u]
      /\ pc'[t] = "write" /\ cur'[t] = op
  BY <1>0, <1>1, <1>2, Zenon DEF TypeOK
<1>4. SnapshotFile' = SnapshotFile /\ DropsWal' = DropsWal
  BY <1>2, Zenon DEF SnapshotFile, DropsWal, RecoveredState
<1>5. \/ Content(wal)' = Content(wal)
      \/ Content(wal) = wal /\ wal \in Seq(Op) /\ Content(wal)' = Append(wal, op)
  <2>1. CASE stream = "linked"
    <3>1. wal \in Seq(Op) /\ Append(wal, op) \in Seq(Op)
      BY <1>0, <2>1, RangeAppend, Zenon DEF ProcessInv, TypeOK
    <3> QED BY <1>1, <2>1, <3>1, PersistJournalAssumption, Zenon DEF Content
  <2>2. CASE stream # "linked"
    BY <1>1, <2>2, Zenon DEF Content
  <2> QED BY <2>1, <2>2, Zenon
<1>6. Range(Content(wal)') \in {Range(Content(wal)), Range(Content(wal)) \cup {op}}
  BY <1>5, RangeAppend, Zenon
<1>7. /\ op \notin Range(Content(db)) /\ op \notin Range(Content(old))
      /\ op \notin Range(Content(wal)) /\ op \notin Range(mem)
      /\ \A u \in Threads : pc[u] = "write" => cur[u] # op
  BY <1>0, <1>1 DEF IssuedInv, Writing, TypeOK
<1>8. IssuedInv'
  <2>1. \A o \in Op : o[2] < nextId => o[2] < nextId'
    BY <1>0, <1>2 DEF TypeOK, Op
  <2>2. op[2] < nextId'
    BY <1>0, <1>1, <1>2 DEF TypeOK
  <2>3. /\ Range(Content(db)) \subseteq Op /\ Range(Content(old)) \subseteq Op
        /\ Range(Content(wal)) \subseteq Op /\ Range(mem) \subseteq Op
    <3>1. ASSUME NEW s \in Seq(Op) PROVE Range(s) \subseteq Op
      <4>1. \A i \in DOMAIN s : s[i] \in Op
        OBVIOUS
      <4> QED BY <4>1, Zenon DEF Range
    <3> QED BY <1>0, <3>1, ContentType, Zenon DEF TypeOK
  <2>4. \A u \in Threads : pc[u] = "write" => cur[u] \in Op
    BY Zenon DEF IInv, JournalProtocol, MutexInv
  <2>5. nextId' <= MaxOps
    BY <1>0, <1>2, PersistJournalAssumption DEF TypeOK
  <2>6. /\ \A o \in Range(Content(db)') \cup Range(Content(old)') \cup Range(Content(wal)') : o[2] < nextId'
        /\ \A o \in Range(mem') : o[2] < nextId'
    BY <1>0, <1>2, <1>6, <2>1, <2>2, <2>3, Zenon DEF IssuedInv, Content
  <2>7. \A u \in Threads : pc'[u] = "write" => cur'[u][2] < nextId'
    BY <1>0, <1>3, <2>1, <2>2, <2>4, Zenon DEF IssuedInv, Writing
  <2> QED BY <2>5, <2>6, <2>7, Zenon DEF IssuedInv, Writing
<1>9. InFlightInv'
  BY <1>0, <1>2, <1>3, <1>7 DEF InFlightInv, Writing
<1>10. LoadedInv'
  BY <1>0, <1>2, <1>3, <1>4, Zenon DEF LoadedInv, NotRunning
<1>11. KnownInv'
  <2>1. Range(Content(SnapshotFile)') = Range(Content(SnapshotFile))
    BY <1>4, Zenon DEF Content
  <2>2. ASSUME NEW o \in Range(Content(wal)')
        PROVE  o \in Range(mem) \/ \E u \in Threads : pc'[u] = "write" /\ cur'[u] = o
    <3>1. CASE o = op
      BY <1>3, <3>1, Zenon
    <3>2. CASE o \in Range(Content(wal))
      BY <1>0, <1>2, <1>3, <3>2 DEF KnownInv, Writing
    <3> QED BY <1>6, <2>2, <3>1, <3>2, Zenon
  <2> QED BY <1>0, <1>2, <2>1, <2>2, Zenon DEF KnownInv, Writing
<1>12. OverlapInv'
  <2>1. Content(SnapshotFile)' = Content(SnapshotFile) /\ op \notin Range(Content(SnapshotFile))
    <3>1. Content(SnapshotFile)' = Content(SnapshotFile)
      BY <1>4, Zenon DEF Content
    <3>2. SnapshotFile \in {db, old}
      BY Zenon DEF SnapshotFile
    <3> QED BY <1>7, <3>1, <3>2, Zenon
  <2>2. CASE Range(Content(SnapshotFile)) \cap Range(Content(wal)) = {}
    BY <1>6, <2>1, <2>2, Zenon DEF OverlapInv
  <2>3. CASE DropsWal /\ (NotRunning \/ \E u \in Threads : pc[u] \in {"switched", "switched_first"})
    BY <1>2, <1>3, <1>4, <2>3, Zenon DEF OverlapInv, NotRunning
  <2> QED BY <1>0, <2>2, <2>3, Zenon DEF OverlapInv
<1>13. OnceInv'
  <2>1. Injective(Content(wal)')
    BY <1>0, <1>5, <1>7, InjectiveAppend, Zenon DEF OnceInv
  <2> QED BY <1>0, <1>2, <2>1, Zenon DEF OnceInv, Content
<1> QED BY <1>8, <1>9, <1>10, <1>11, <1>12, <1>13, Zenon DEF ContentInv

LEMMA EndWriteKeepsContent ==
    ASSUME IInv, ContentInv, NEW t \in Threads, EndWrite(t)
    PROVE  ContentInv'
<1>0. /\ TypeOK /\ MutexInv /\ ProcessInv /\ IssuedInv /\ InFlightInv /\ LoadedInv /\ KnownInv
      /\ OverlapInv /\ OnceInv
  BY Zenon DEF IInv, JournalProtocol, ContentInv
<1>1. /\ UNCHANGED <<db, old, wal, journal, up, nextId>> /\ pc[t] = "write"
      /\ mem' = Append(mem, cur[t]) /\ cur[t] \in Op /\ mem \in Seq(Op)
  BY <1>0, Zenon DEF EndWrite, files, MutexInv, TypeOK
<1>2. /\ \A u \in Threads : u # t => pc'[u] = pc[u] /\ cur'[u] = cur[u]
      /\ pc'[t] = "idle"
  BY <1>0, Zenon DEF EndWrite, TypeOK
<1>3. /\ SnapshotFile' = SnapshotFile /\ DropsWal' = DropsWal
      /\ Content(SnapshotFile)' = Content(SnapshotFile) /\ Content(wal)' = Content(wal)
  BY <1>1, Zenon DEF SnapshotFile, DropsWal, RecoveredState, Content
<1>4. Range(mem') = Range(mem) \cup {cur[t]} /\ cur[t] \notin Range(mem)
  BY <1>0, <1>1, RangeAppend, Zenon DEF InFlightInv, Writing
<1>5. IssuedInv'
  BY <1>0, <1>1, <1>2, <1>4, Zenon DEF IssuedInv, Writing, Content
<1>6. InFlightInv'
  BY <1>0, <1>1, <1>2, <1>4 DEF InFlightInv, Writing
<1>7. LoadedInv'
  BY <1>0, <1>1, <1>2, <1>3, Zenon DEF LoadedInv, NotRunning
<1>8. KnownInv'
  BY <1>0, <1>1, <1>2, <1>3, <1>4 DEF KnownInv, Writing
<1>9. OverlapInv'
  BY <1>0, <1>1, <1>2, <1>3, Zenon DEF OverlapInv, NotRunning
<1>10. OnceInv'
  BY <1>0, <1>1, <1>4, InjectiveAppend, Zenon DEF OnceInv, Content
<1> QED BY <1>5, <1>6, <1>7, <1>8, <1>9, <1>10, Zenon DEF ContentInv

\* pre_database_load leaves a start the same snapshot under the database file's
\* own name, and deletes the WAL exactly when the snapshot holds it.
LEMMA PreLoadKeepsContent ==
    ASSUME IInv, ContentInv, PreDatabaseLoad
    PROVE  /\ ContentInv'
           /\ Content(SnapshotFile)' = Content(SnapshotFile) /\ DropsWal' = DropsWal
           /\ DropsWal \/ wal' = wal
<1>0. /\ TypeOK /\ ProcessInv /\ IssuedInv /\ InFlightInv /\ LoadedInv /\ KnownInv /\ OverlapInv
      /\ OnceInv
  BY Zenon DEF IInv, JournalProtocol, ContentInv
<1>1. /\ AllIdle /\ UNCHANGED <<journal, mem, pc, cur, nextId>>
      /\ NotRunning /\ up' \in {"loading", "failed"}
  BY <1>0, Zenon DEF ProcessInv, NotRunning, PreDatabaseLoad, PreLoadNothing, PreLoadRemoveWal,
      PreLoadRestoreOld, PreLoadFail, RefuseToStart, FinishPreLoad, threadVars, history, files
<1>2. \/ UNCHANGED <<db, old, wal>>
      \/ wal' = NoFile /\ UNCHANGED <<db, old>> /\ DropsWal
      \/ db' = old /\ old' = NoFile /\ wal' = wal /\ SnapshotFile = old /\ ~DropsWal
  BY Zenon DEF PreDatabaseLoad, PreLoadNothing, PreLoadRemoveWal, PreLoadRestoreOld, PreLoadFail,
      RefuseToStart, FinishPreLoad, files, SnapshotFile, DropsWal
<1>3. /\ Content(SnapshotFile)' = Content(SnapshotFile) /\ DropsWal' = DropsWal
      /\ DropsWal \/ wal' = wal
  <2>1. CASE PreLoadRestoreOld
    BY <2>1, Zenon DEF PreLoadRestoreOld, FinishPreLoad, SnapshotFile, DropsWal, RecoveredState, Content
  <2>2. CASE UNCHANGED <<db, old>>
    BY <1>1, <1>2, <2>2, Zenon DEF SnapshotFile, DropsWal, RecoveredState, Content
  <2> QED BY <2>1, <2>2, Zenon DEF PreDatabaseLoad, PreLoadNothing, PreLoadRemoveWal, PreLoadFail,
              RefuseToStart, files
<1>4. up' = "loading" => SnapshotFile' = db' /\ (DropsWal => wal' = NoFile)
  <2>1. CASE PreLoadNothing
    BY <1>0, <2>1, Zenon DEF PreLoadNothing, FinishPreLoad, files, SnapshotFile, DropsWal, RecoveredState,
        ProcessInv
  <2>2. CASE PreLoadRemoveWal
    BY <2>2, Zenon DEF PreLoadRemoveWal, SnapshotFile, RecoveredState
  <2>3. CASE PreLoadRestoreOld
    BY <2>3, Zenon DEF PreLoadRestoreOld, SnapshotFile, DropsWal, RecoveredState
  <2>4. CASE PreLoadFail
    BY <2>4, Zenon DEF PreLoadFail, RefuseToStart
  <2> QED BY <2>1, <2>2, <2>3, <2>4, Zenon DEF PreDatabaseLoad
<1>5. Content(NoFile) = <<>> /\ Range(<<>>) = {} /\ Injective(<<>>)
  BY EmptySeq, Zenon DEF Content
<1>6. IssuedInv' /\ OnceInv'
  <2>1. db' \in {db, old} /\ old' \in {old, NoFile} /\ wal' \in {wal, NoFile}
    BY <1>2, Zenon
  <2>2. \A f \in {db, old, wal, NoFile} :
          Injective(Content(f)) /\ \A o \in Range(Content(f)) : o[2] < nextId
    BY <1>0, <1>5, Zenon DEF IssuedInv, OnceInv
  <2> QED BY <1>0, <1>1, <2>1, <2>2, Zenon DEF IssuedInv, OnceInv, Writing
<1>7. InFlightInv' /\ KnownInv'
  BY <1>1, Zenon DEF InFlightInv, KnownInv, AllIdle, Writing
<1>8. LoadedInv'
  BY <1>1, <1>3, <1>4, Zenon DEF LoadedInv, NotRunning
<1>9. OverlapInv'
  <2>1. Range(Content(wal)') \in {Range(Content(wal)), {}}
    BY <1>2, <1>5, Zenon DEF Content
  <2>2. CASE Range(Content(SnapshotFile)) \cap Range(Content(wal)) = {}
    BY <1>3, <2>1, <2>2, Zenon DEF OverlapInv
  <2>3. CASE DropsWal
    <3>1. CASE up' = "loading"
      BY <1>4, <1>5, <2>3, <3>1, Zenon DEF OverlapInv
    <3>2. CASE up' = "failed"
      BY <1>3, <2>3, <3>2, Zenon DEF OverlapInv, NotRunning
    <3> QED BY <1>1, <3>1, <3>2, Zenon
  <2> QED BY <1>0, <2>2, <2>3, Zenon DEF OverlapInv
<1> QED BY <1>3, <1>6, <1>7, <1>8, <1>9, Zenon DEF ContentInv

\* The start loads exactly what the files stand for.
LEMMA LoadRestores ==
    ASSUME IInv, ContentInv, LoadAndRecover
    PROVE  /\ ContentInv'
           /\ Content(SnapshotFile)' = Content(SnapshotFile) /\ DropsWal' = DropsWal
           /\ Content(wal)' = Content(wal)
           /\ Range(mem') = Range(Recovery)
<1>0. /\ TypeOK /\ ProcessInv /\ IssuedInv /\ InFlightInv /\ LoadedInv /\ KnownInv /\ OverlapInv
      /\ OnceInv
  BY Zenon DEF IInv, JournalProtocol, ContentInv
<1>1. /\ AllIdle /\ UNCHANGED <<db, old, journal, pc, cur, nextId>>
      /\ up = "loading" /\ up' = "running" /\ wal' = Content(wal)
  BY <1>0, Zenon DEF ProcessInv, LoadAndRecover, threadVars, history
<1>2. /\ SnapshotFile' = SnapshotFile /\ DropsWal' = DropsWal
      /\ Content(SnapshotFile)' = Content(SnapshotFile) /\ Content(wal)' = Content(wal)
  BY <1>1, PersistJournalAssumption, Zenon DEF SnapshotFile, DropsWal, RecoveredState, Content
<1>3. SnapshotFile = db /\ Range(Content(SnapshotFile)) \cap Range(Content(wal)) = {}
  BY <1>0, <1>1, Zenon DEF LoadedInv, OverlapInv, NotRunning, AllIdle
<1>4. /\ Content(db) \in Seq(Op) /\ Content(wal) \in Seq(Op)
      /\ mem' = Content(db) \o Content(wal)
  <2>1. HasDbFile \/ Content(db) = <<>>
    BY <1>0, Zenon DEF ProcessInv, Content
  <2> QED BY <1>0, <2>1, ContentType, Zenon DEF LoadAndRecover, TypeOK
<1>5. /\ Range(mem') = Range(Content(db)) \cup Range(Content(wal)) /\ Injective(mem')
  BY <1>0, <1>3, <1>4, RangeConcat, InjectiveConcat, Zenon DEF OnceInv
<1>6. Range(mem') = Range(Recovery)
  <2>1. CASE DropsWal
    <3>1. Content(wal) = <<>>
      BY <1>0, <1>1, <2>1, Zenon DEF LoadedInv, Content
    <3> QED BY <1>0, <1>3, <1>5, <2>1, <3>1, RecoveryRange, EmptySeq, Zenon
  <2>2. CASE ~DropsWal
    BY <1>0, <1>3, <1>5, <2>2, RecoveryRange, Zenon
  <2> QED BY <2>1, <2>2, Zenon
<1>7. IssuedInv'
  <2>1. \A f \in {db, old, wal} : Content(f)' \in {Content(db), Content(old), Content(wal)}
    BY <1>1, <1>2, Zenon DEF Content
  <2>2. Content(db)' = Content(db) /\ Content(old)' = Content(old)
    BY <1>1, Zenon DEF Content
  <2> QED BY <1>0, <1>1, <1>2, <1>5, <2>2, Zenon DEF IssuedInv, Writing
<1>8. InFlightInv'
  BY <1>1, Zenon DEF InFlightInv, AllIdle, Writing
<1>9. LoadedInv'
  BY <1>1, <1>2, <1>3, Zenon DEF LoadedInv
<1>10. KnownInv'
  BY <1>2, <1>3, <1>5, Zenon DEF KnownInv
<1>11. OverlapInv'
  BY <1>2, <1>3, Zenon DEF OverlapInv
<1>12. OnceInv'
  <2>1. Content(db)' = Content(db) /\ Content(old)' = Content(old)
    BY <1>1, Zenon DEF Content
  <2> QED BY <1>0, <1>2, <1>5, <2>1, Zenon DEF OnceInv
<1> QED BY <1>2, <1>6, <1>7, <1>8, <1>9, <1>10, <1>11, <1>12, Zenon DEF ContentInv

LEMMA LoseMemoryKeepsContent ==
    ASSUME IInv, ContentInv, Exit \/ Crash
    PROVE  /\ ContentInv'
           /\ Content(SnapshotFile)' = Content(SnapshotFile) /\ DropsWal' = DropsWal
           /\ wal' = wal /\ mem' = <<>>
<1>0. IssuedInv /\ OverlapInv /\ OnceInv
  BY Zenon DEF ContentInv
<1>1. LoseMemory
  BY Zenon DEF Exit, Crash
<1>2. UNCHANGED <<db, old, wal, journal, nextId>> /\ mem' = <<>> /\ NotRunning' /\ up' = "down"
      /\ \A t \in Threads : pc'[t] = "idle"
  BY <1>1, Zenon DEF LoseMemory, files, NotRunning
<1>3. /\ Content(SnapshotFile)' = Content(SnapshotFile) /\ DropsWal' = DropsWal
      /\ Content(wal)' = Content(wal)
  BY <1>2, Zenon DEF SnapshotFile, DropsWal, RecoveredState, Content
<1>4. IssuedInv' /\ InFlightInv' /\ LoadedInv' /\ KnownInv'
  BY <1>0, <1>2, EmptySeq, Zenon DEF IssuedInv, InFlightInv, LoadedInv, KnownInv, Writing, Content
<1>5. OverlapInv' /\ OnceInv'
  BY <1>0, <1>2, <1>3, EmptySeq, Zenon DEF OverlapInv, OnceInv, Content
<1> QED BY <1>2, <1>3, <1>4, <1>5, Zenon DEF ContentInv

LEMMA InitContent == Init => ContentInv
<1> SUFFICES ASSUME Init PROVE ContentInv
  BY Zenon
<1>1. Content(NoFile) = <<>>
  BY Zenon DEF Content
<1>2. SnapshotFile = NoFile
  BY Zenon DEF Init, SnapshotFile
<1>3. IssuedInv /\ InFlightInv /\ OnceInv
  BY <1>1, EmptySeq, PersistJournalAssumption DEF Init, IssuedInv, InFlightInv, OnceInv, Writing
<1>4. LoadedInv /\ KnownInv /\ OverlapInv
  BY <1>1, <1>2, EmptySeq, Zenon DEF Init, LoadedInv, KnownInv, OverlapInv, NotRunning
<1> QED BY <1>3, <1>4, Zenon DEF ContentInv

LEMMA NextContent == IInv /\ ContentInv /\ [Next]_vars => ContentInv'
<1> SUFFICES ASSUME IInv, ContentInv, [Next]_vars PROVE ContentInv'
  BY Zenon
<1>1. ASSUME NEW t \in Threads, NEW D \in Scopes, BeginWrite(t, D) PROVE ContentInv'
  BY <1>1, BeginWriteKeepsContent, Zenon
<1>2. ASSUME NEW t \in Threads, EndWrite(t) PROVE ContentInv'
  BY <1>2, EndWriteKeepsContent, Zenon
<1>3. ASSUME NEW t \in Threads, PersistCloseWal(t) \/ PersistStep(t) \/ Stop(t) PROVE ContentInv'
  BY <1>3, OuterStepKeepsContent, LockedPersistStepKeepsContent, Zenon
     DEF PersistStep, LockedPersistStep
<1>4. ASSUME PreDatabaseLoad \/ LoadAndRecover \/ Exit \/ Crash PROVE ContentInv'
  BY <1>4, PreLoadKeepsContent, LoadRestores, LoseMemoryKeepsContent, Zenon
<1>5. CASE UNCHANGED vars
  <2>1. /\ SnapshotFile' = SnapshotFile /\ DropsWal' = DropsWal
        /\ UNCHANGED <<db, old, wal, mem, pc, cur, up, nextId>>
    BY <1>5, Zenon DEF vars, files, threadVars, history, SnapshotFile, DropsWal, RecoveredState
  <2>2. IssuedInv' /\ InFlightInv' /\ LoadedInv'
    BY <2>1, Zenon DEF ContentInv, IssuedInv, InFlightInv, LoadedInv, Writing, NotRunning, Content
  <2>3. KnownInv' /\ OverlapInv' /\ OnceInv'
    BY <2>1, Zenon DEF ContentInv, KnownInv, OverlapInv, OnceInv, Writing, NotRunning, Content
  <2> QED BY <2>2, <2>3, Zenon DEF ContentInv
<1> QED BY <1>1, <1>2, <1>3, <1>4, <1>5, Zenon DEF Next

\* The database file, its siblings, the WAL and the memory of the process fit
\* together at every moment.
THEOREM ContentCorrect == Spec => []ContentInv
<1>1. Init => IInv /\ ContentInv
  BY InitIInv, InitContent, Zenon
<1>2. (IInv /\ ContentInv) /\ [Next]_vars => (IInv /\ ContentInv)'
  BY NextIInv, NextContent, Zenon
<1> QED BY <1>1, <1>2, PTL DEF Spec

\* No write is ever redone on top of a snapshot that holds it, wherever the
\* process dies: what the files stand for holds each write at most once.
THEOREM NeverAppliedTwice == Spec => []NoDoubleApply
<1>1. TypeOK /\ ContentInv => NoDoubleApply
  <2> SUFFICES ASSUME TypeOK, ContentInv PROVE Injective(Recovery) /\ Injective(mem)
    BY Zenon DEF NoDoubleApply
  <2>1. Injective(mem) /\ Injective(Content(SnapshotFile)) /\ Injective(Content(wal))
    BY Zenon DEF ContentInv, OnceInv, SnapshotFile
  <2>2. CASE DropsWal
    BY <2>1, <2>2, RecoveryRange, Zenon
  <2>3. CASE ~DropsWal
    <3>1. Recovery = Content(SnapshotFile) \o Content(wal)
      BY <2>3, Zenon DEF Recovery
    <3>2. Range(Content(SnapshotFile)) \cap Range(Content(wal)) = {}
      BY <2>3, Zenon DEF ContentInv, OverlapInv
    <3> QED BY <2>1, <3>1, <3>2, RecoveryRange, InjectiveConcat, Zenon
  <2> QED BY <2>1, <2>2, <2>3, Zenon
<1> QED BY <1>1, ProtocolCorrect, ContentCorrect, PTL

-----------------------------------------------------------------------------
(* What a start would restore *)

\* A step that leaves the snapshot and the fate of the WAL alone leaves what a
\* start would restore alone.
LEMMA SameRecovery ==
    ASSUME Content(SnapshotFile)' = Content(SnapshotFile), DropsWal' = DropsWal,
           DropsWal \/ Content(wal)' = Content(wal)
    PROVE  Recovery' = Recovery
  BY Zenon DEF Recovery

\* A step of a persist under the mutexes forgets nothing a start would restore,
\* and adds only what is in memory.
LEMMA LockedPersistStepHardens ==
    ASSUME IInv, ContentInv, IInv', ContentInv', NEW t \in Threads, LockedPersistStep(t)
    PROVE  /\ Range(Recovery) \subseteq Range(Recovery)'
           /\ Range(Recovery)' \subseteq Range(mem)
           /\ UNCHANGED <<mem, cur, up, acked, exposed>> /\ up \in {"running", "stopping"}
           /\ \A u \in Threads : pc[u] # "write" /\ pc'[u] # "write"
<1>0. /\ TypeOK /\ MutexInv /\ StageInv /\ ProcessInv /\ LoadedInv /\ KnownInv /\ KnownInv'
      /\ TypeOK'
  BY Zenon DEF IInv, JournalProtocol, ContentInv
<1>1. PICK a \in LockedPC, b \in LockedPC : Goto(t, a, b) /\ UNCHANGED <<lock, Others>>
  BY Zenon DEF LockedPersistStep, PersistNewJournal, PersistOpenTmp, PersistCloseTmp, SwitchNoExist,
         SwitchExist, JournalMoving, RenameDbToOld, JournalMovedExisting, RenameTmpToDb,
         JournalMovedNew, RemoveWal, WipeJournal, RemoveOld, JournalEntry, LockedPC, PersistPC
<1>2. /\ LockedFrame(t) /\ pc[t] = a /\ pc'[t] = b
      /\ \A u \in Threads : u # t => pc[u] \notin LockedPC /\ pc[u] # "write" /\ pc'[u] = pc[u]
  BY <1>0, <1>1, LockedStep, PersistExcludes, Zenon DEF Goto, TypeOK
<1>3. \A u \in Threads : pc[u] # "write" /\ pc'[u] # "write"
  BY <1>1, <1>2, Zenon DEF LockedPC, PersistPC
<1>4. up \in {"running", "stopping"} /\ UNCHANGED <<mem, cur, up, acked, exposed>> /\ HasDbFile
  BY <1>0, <1>2, Zenon DEF LockedFrame, ProcessInv, LockedPC
<1>5. Range(Recovery) \subseteq Range(mem)
  BY <1>0, <1>3, <1>4, RecoveryRange, Zenon DEF KnownInv, Writing
<1>6. Range(Recovery)' \subseteq Range(mem)
  <2>1. /\ Range(Content(SnapshotFile))' \subseteq Range(mem)
        /\ Range(Content(wal))' \subseteq Range(mem)
    BY <1>0, <1>3, <1>4, Zenon DEF KnownInv, Writing
  <2>2. Recovery' = Content(SnapshotFile)' \o (IF DropsWal' THEN <<>> ELSE Content(wal)')
    BY Zenon DEF Recovery
  <2>3. Content(SnapshotFile)' \in Seq(Op) /\ Content(wal)' \in Seq(Op)
    <3>1. SnapshotFile' \in Seq(Op) \cup {NoFile} /\ wal' \in Seq(Op) \cup {NoFile}
      BY <1>0, Zenon DEF SnapshotFile, TypeOK
    <3> QED BY <3>1, ContentType, Zenon DEF Content
  <2>4. Range(Recovery') \in {Range(Content(SnapshotFile)'),
                              Range(Content(SnapshotFile)') \cup Range(Content(wal)')}
    BY <2>2, <2>3, RangeConcat, EmptySeq, Zenon
  <2> QED BY <2>1, <2>4, Zenon
<1>7. \/ Content(SnapshotFile)' = mem
      \/ /\ Content(SnapshotFile)' = Content(SnapshotFile)
         /\ ~DropsWal' /\ Content(wal)' = Content(wal)
  <2>e. \A u \in Threads : u # t => pc[u] \notin {"renamed_old", "moved_existing", "renamed_new"}
    BY <1>2, Zenon DEF LockedPC, PersistPC
  <2>f. Content(mem) = mem
    BY <1>0, PersistJournalAssumption, Zenon DEF Content, TypeOK
  <2>1. CASE PersistNewJournal(t)
    BY <1>0, <1>4, <2>e, <2>1, Zenon DEF PersistNewJournal, Goto, LoadedInv, NotRunning, SnapshotFile,
        DropsWal, RecoveredState, Content
  <2>2. CASE PersistOpenTmp(t) \/ PersistCloseTmp(t)
    BY <1>0, <2>2, Zenon DEF PersistOpenTmp, PersistCloseTmp, Goto, StageInv, SnapshotFile, DropsWal,
        RecoveredState, Content
  <2>3. CASE SwitchNoExist(t) \/ SwitchExist(t) \/ JournalMoving(t)
    BY <1>0, <2>3, Zenon DEF SwitchNoExist, SwitchExist, JournalMoving, JournalEntry, AfterEntry,
        JournalOrder, Goto, StageInv, SnapshotFile, DropsWal, RecoveredState, Content
  <2>4. CASE RenameDbToOld(t)
    BY <1>0, <2>4, Zenon DEF RenameDbToOld, Goto, StageInv, SnapshotFile, DropsWal, RecoveredState, Content
  <2>5. CASE JournalMovedExisting(t)
    BY <1>0, <2>5, Zenon DEF JournalMovedExisting, JournalEntry, AfterEntry, JournalOrder, Goto, StageInv,
        SnapshotFile, DropsWal, RecoveredState, Content
  <2>6. CASE RenameTmpToDb(t)
    BY <1>0, <2>f, <2>6, Zenon DEF RenameTmpToDb, Goto, StageInv, SnapshotFile, DropsWal, RecoveredState,
        Content
  <2>7. CASE JournalMovedNew(t)
    BY <1>0, <2>f, <2>7, Zenon DEF JournalMovedNew, JournalEntry, AfterEntry, JournalOrder, Goto, StageInv,
        SnapshotFile, RecoveredState, Content
  <2>8. CASE RemoveWal(t) \/ WipeJournal(t) \/ RemoveOld(t)
    BY <1>0, <2>f, <2>8, Zenon DEF RemoveWal, WipeJournal, RemoveOld, Goto, StageInv,
        SnapshotFile, RecoveredState, Content
  <2> QED BY <2>1, <2>2, <2>3, <2>4, <2>5, <2>6, <2>7, <2>8, Zenon DEF LockedPersistStep
<1>8. Range(Recovery) \subseteq Range(Recovery)'
  <2>1. Content(SnapshotFile) \in Seq(Op) /\ Content(wal) \in Seq(Op)
        /\ Content(SnapshotFile)' \in Seq(Op) /\ Content(wal)' \in Seq(Op)
    <3>1. /\ SnapshotFile \in Seq(Op) \cup {NoFile} /\ wal \in Seq(Op) \cup {NoFile}
          /\ SnapshotFile' \in Seq(Op) \cup {NoFile} /\ wal' \in Seq(Op) \cup {NoFile}
      BY <1>0, Zenon DEF SnapshotFile, TypeOK
    <3> QED BY <3>1, ContentType, Zenon DEF Content
  <2>2. Range(Content(SnapshotFile)') \subseteq Range(Recovery')
    <3>1. CASE DropsWal'
      BY <2>1, <3>1, EmptySeq, Zenon DEF Recovery
    <3>2. CASE ~DropsWal'
      <4>1. Recovery' = Content(SnapshotFile)' \o Content(wal)'
        BY <3>2, Zenon DEF Recovery
      <4> QED BY <2>1, <4>1, RangeConcat, Zenon
    <3> QED BY <3>1, <3>2, Zenon
  <2>3. CASE Content(SnapshotFile)' = mem
    BY <1>5, <2>2, <2>3, Zenon
  <2>4. CASE /\ Content(SnapshotFile)' = Content(SnapshotFile)
             /\ ~DropsWal' /\ Content(wal)' = Content(wal)
    <3>1. Recovery' = Content(SnapshotFile) \o Content(wal)
      BY <2>4, Zenon DEF Recovery
    <3>2. Range(Recovery') = Range(Content(SnapshotFile)) \cup Range(Content(wal))
      BY <2>1, <3>1, RangeConcat, Zenon
    <3> QED BY <1>0, <3>2, RecoveryRange, Zenon
  <2> QED BY <1>7, <2>3, <2>4, Zenon
<1> QED BY <1>3, <1>4, <1>6, <1>8, Zenon

\* Opening, closing, locking and unlocking change nothing a start would restore.
LEMMA OuterStepKeepsRecovery ==
    ASSUME IInv, NEW t \in Threads,
           \/ PersistCloseWal(t) \/ PersistLockAll(t) \/ PersistUnlockAll(t)
           \/ PersistReopenWal(t) \/ Stop(t)
    PROVE  /\ Recovery' = Recovery
           /\ UNCHANGED <<mem, cur, acked, exposed>>
           /\ up' = up \/ (up = "running" /\ up' = "stopping")
           /\ \A u \in Threads : Writing(u)' => Writing(u)
<1>1. /\ UNCHANGED <<db, old, journal, mem, cur, acked, exposed>>
      /\ Content(wal)' = Content(wal)
      /\ up' = up \/ (up = "running" /\ up' = "stopping")
  BY PersistJournalAssumption, EmptySeq, Zenon
     DEF PersistCloseWal, PersistLockAll, PersistUnlockAll, PersistReopenWal, Stop, Others, files,
         history, Content
<1>2. SnapshotFile' = SnapshotFile /\ DropsWal' = DropsWal
  BY <1>1, Zenon DEF SnapshotFile, DropsWal, RecoveredState
<1>3. Recovery' = Recovery
  BY <1>1, <1>2, Zenon DEF Recovery, Content
<1>4. \A u \in Threads : Writing(u)' => Writing(u)
  BY Zenon DEF PersistCloseWal, PersistLockAll, PersistUnlockAll, PersistReopenWal, Stop, Goto, Writing,
         IInv, TypeOK
<1> QED BY <1>1, <1>3, <1>4, Zenon

\* A write that begins is new; it is either logged where a start would find it
\* or noted as exposed.
LEMMA BeginWriteLogs ==
    ASSUME IInv, ContentInv, NEW t \in Threads, NEW D \in Scopes, BeginWrite(t, D)
    PROVE  \E op \in Scopes \X (0 .. MaxOps) :
              /\ op \notin Range(mem) \cup Range(Recovery)
              /\ cur' = [cur EXCEPT ![t] = op] /\ pc' = [pc EXCEPT ![t] = "write"]
              /\ \/ Recovery' = Recovery /\ exposed' = exposed \cup {op}
                 \/ /\ Range(Recovery)' = Range(Recovery) \cup {op}
                    /\ exposed' = exposed
              /\ UNCHANGED <<mem, up, acked>> /\ up = "running"
<1>0. TypeOK /\ IssuedInv /\ ProcessInv
  BY Zenon DEF IInv, JournalProtocol, ContentInv
<1>1. PICK op \in Op : op = <<D, nextId>>
  BY <1>0, Zenon DEF Op, TypeOK
<1>2. op \in Scopes \X (0 .. MaxOps) /\ op[2] = nextId
  BY <1>0, <1>1 DEF BeginWrite, IssuedInv, TypeOK
<1>3. /\ cur' = [cur EXCEPT ![t] = op] /\ pc' = [pc EXCEPT ![t] = "write"]
      /\ UNCHANGED <<db, old, journal, mem, up, acked>> /\ up = "running"
      /\ wal' = IF stream = "linked" THEN Append(wal, op) ELSE wal
      /\ exposed' = IF stream = "linked" /\ ~DropsWal THEN exposed ELSE exposed \cup {op}
  BY <1>1, Zenon DEF BeginWrite
<1>4. SnapshotFile' = SnapshotFile /\ DropsWal' = DropsWal
      /\ Content(SnapshotFile)' = Content(SnapshotFile)
  BY <1>3, Zenon DEF SnapshotFile, DropsWal, RecoveredState, Content
<1>5. op \notin Range(mem) \cup Range(Recovery)
  <2>1. \A o \in Range(Content(SnapshotFile)) \cup Range(Content(wal)) \cup Range(mem) : o[2] < nextId
    BY <1>0, Zenon DEF IssuedInv, SnapshotFile
  <2>2. Range(Recovery) \subseteq Range(Content(SnapshotFile)) \cup Range(Content(wal))
    BY <1>0, RecoveryRange, Zenon
  <2> QED BY <1>0, <1>2, <2>1, <2>2 DEF TypeOK
<1>6. CASE stream = "linked" /\ ~DropsWal
  <2>1. wal \in Seq(Op) /\ Content(wal) = wal /\ wal' = Append(wal, op) /\ Content(wal)' = wal'
    <3>1. wal \in Seq(Op) /\ Content(wal) = wal /\ wal' = Append(wal, op)
      BY <1>0, <1>3, <1>6, Zenon DEF ProcessInv, TypeOK, Content
    <3>2. wal' \in Seq(Op)
      BY <3>1
    <3> QED BY <3>1, <3>2, PersistJournalAssumption, Zenon DEF Content
  <2>2. Recovery' = Content(SnapshotFile) \o wal' /\ wal' \in Seq(Op)
    <3>1. ~DropsWal'
      BY <1>4, <1>6, Zenon
    <3>2. Recovery' = Content(SnapshotFile) \o wal'
      BY <1>4, <2>1, <3>1, SMTT(30) DEF Recovery
    <3> QED BY <2>1, <3>2, RangeAppend, Zenon
  <2>3. Range(Recovery') = Range(Content(SnapshotFile)) \cup Range(wal) \cup {op}
    <3>1. Content(SnapshotFile) \in Seq(Op)
      BY <1>0, RecoveryRange, Zenon
    <3>2. Range(Recovery') = Range(Content(SnapshotFile)) \cup Range(wal')
      BY <2>2, <3>1, RangeConcat, Zenon
    <3> QED BY <2>1, <3>2, RangeAppend
  <2>4. Range(Recovery) = Range(Content(SnapshotFile)) \cup Range(wal)
    BY <1>0, <1>6, <2>1, RecoveryRange, Zenon
  <2> QED BY <1>2, <1>3, <1>5, <1>6, <2>3, <2>4, Zenon
<1>7. CASE ~(stream = "linked" /\ ~DropsWal)
  <2>1. DropsWal \/ Content(wal)' = Content(wal)
    BY <1>3, <1>7, Zenon DEF Content
  <2>2. Recovery' = Recovery
    BY <1>4, <2>1, SameRecovery, Zenon
  <2> QED BY <1>2, <1>3, <1>5, <1>7, <2>2, Zenon
<1> QED BY <1>6, <1>7, Zenon

\* A write that ends was not applied before, and is answered.
LEMMA EndWriteApplies ==
    ASSUME IInv, ContentInv, NEW t \in Threads, EndWrite(t)
    PROVE  /\ cur[t] \in Scopes \X (0 .. MaxOps) /\ cur[t] \notin Range(mem)
           /\ Range(mem)' = Range(mem) \cup {cur[t]}
           /\ Recovery' = Recovery /\ acked' = acked \cup {cur[t]}
           /\ up \in {"running", "stopping"} /\ UNCHANGED <<up, exposed>>
           /\ Writing(t) /\ \A u \in Threads : Writing(u)' => Writing(u) /\ cur'[u] = cur[u]
<1>0. TypeOK /\ MutexInv /\ ProcessInv /\ IssuedInv /\ InFlightInv
  BY Zenon DEF IInv, JournalProtocol, ContentInv
<1>1. /\ UNCHANGED <<db, old, wal, journal, up, exposed>> /\ pc[t] = "write"
      /\ mem' = Append(mem, cur[t]) /\ cur[t] \in Op /\ mem \in Seq(Op)
      /\ acked' = acked \cup {cur[t]}
      /\ pc' = [pc EXCEPT ![t] = "idle"] /\ cur' = [cur EXCEPT ![t] = <<>>]
  BY <1>0, Zenon DEF EndWrite, files, MutexInv, TypeOK
<1>2. SnapshotFile' = SnapshotFile /\ DropsWal' = DropsWal
      /\ Content(SnapshotFile)' = Content(SnapshotFile) /\ Content(wal)' = Content(wal)
  BY <1>1, Zenon DEF SnapshotFile, DropsWal, RecoveredState, Content
<1>3. Recovery' = Recovery
  BY <1>2, SameRecovery, Zenon
<1>4. Writing(t) /\ up \in {"running", "stopping"}
  BY <1>0, <1>1, Zenon DEF Writing, ProcessInv, AllIdle
<1>5. cur[t] \in Scopes \X (0 .. MaxOps)
  <2>1. cur[t][2] < nextId /\ nextId <= MaxOps
    BY <1>0, <1>4, Zenon DEF IssuedInv
  <2> QED BY <1>0, <1>1, <2>1, PersistJournalAssumption DEF Op, TypeOK
<1>6. cur[t] \notin Range(mem)
  BY <1>0, <1>4, Zenon DEF InFlightInv
<1>7. Range(mem') = Range(mem) \cup {cur[t]}
  BY <1>1, RangeAppend, Zenon
<1>8. \A u \in Threads : Writing(u)' => Writing(u) /\ cur'[u] = cur[u]
  BY <1>0, <1>1, Zenon DEF Writing, TypeOK
<1> QED BY <1>1, <1>3, <1>4, <1>5, <1>6, <1>7, <1>8, Zenon

\* pre_database_load keeps what the files stand for, and so does the load, which
\* brings it into memory.
LEMMA StartKeepsRecovery ==
    ASSUME IInv, ContentInv, PreDatabaseLoad \/ LoadAndRecover
    PROVE  /\ Recovery' = Recovery /\ UNCHANGED <<acked, exposed>>
           /\ up \notin {"running", "stopping"} /\ \A u \in Threads : ~Writing(u)'
           /\ \/ mem' = mem /\ up' \notin {"running", "stopping"}
              \/ Range(mem)' = Range(Recovery) /\ up' = "running"
<1>0. ProcessInv
  BY Zenon DEF IInv, JournalProtocol
<1>1. CASE PreDatabaseLoad
  <2>1. /\ UNCHANGED <<mem, pc, acked, exposed>> /\ NotRunning /\ up' \in {"loading", "failed"}
    BY <1>1, Zenon DEF PreDatabaseLoad, PreLoadNothing, PreLoadRemoveWal, PreLoadRestoreOld, PreLoadFail,
        RefuseToStart, FinishPreLoad, threadVars, history
  <2>2. Content(wal)' = Content(wal) \/ DropsWal
    BY <1>1, PreLoadKeepsContent, Zenon DEF Content
  <2>3. Recovery' = Recovery
    BY <1>1, <2>2, PreLoadKeepsContent, SameRecovery, Zenon
  <2> QED BY <1>0, <2>1, <2>3, Zenon DEF ProcessInv, AllIdle, Writing, NotRunning
<1>2. CASE LoadAndRecover
  <2>1. UNCHANGED <<pc, acked, exposed>> /\ up = "loading" /\ up' = "running"
    BY <1>2, Zenon DEF LoadAndRecover, threadVars, history
  <2>2. Recovery' = Recovery /\ Range(mem)' = Range(Recovery)
    BY <1>2, LoadRestores, SameRecovery, Zenon
  <2> QED BY <1>0, <2>1, <2>2, Zenon DEF ProcessInv, AllIdle, Writing
<1> QED BY <1>1, <1>2, Zenon

\* The death of the process takes memory and nothing else.
LEMMA DeathKeepsRecovery ==
    ASSUME IInv, ContentInv, Exit \/ Crash
    PROVE  /\ Recovery' = Recovery /\ UNCHANGED <<acked, exposed>>
           /\ up' = "down" /\ Range(mem)' = {} /\ \A u \in Threads : ~Writing(u)'
<1>1. Content(wal)' = Content(wal) /\ mem' = <<>>
  BY LoseMemoryKeepsContent, Zenon DEF Content
<1>2. Recovery' = Recovery
  BY <1>1, LoseMemoryKeepsContent, SameRecovery, Zenon
<1>3. Range(mem)' = {}
  BY <1>1, EmptySeq, Zenon
<1>4. UNCHANGED <<acked, exposed>> /\ up' = "down" /\ \A u \in Threads : ~Writing(u)'
  BY Zenon DEF Exit, Crash, LoseMemory, Writing
<1> QED BY <1>2, <1>3, <1>4, Zenon

LEMMA StutterKeepsRecovery ==
    ASSUME UNCHANGED vars
    PROVE  /\ Recovery' = Recovery /\ UNCHANGED <<mem, up, acked, exposed, pc, cur>>
  BY Zenon DEF vars, files, threadVars, history, Recovery, SnapshotFile, DropsWal, RecoveredState, Content

-----------------------------------------------------------------------------
\* AckedDurable is not inductive: the write a thread is about to answer must be
\* known to be logged, or noted as exposed, when it is answered.
DurInv ==
    /\ AckedDurable
    /\ \A t \in Threads : Writing(t) => cur[t] \in Range(Recovery) \cup exposed

LEMMA NextDurInv ==
    ASSUME IInv, ContentInv, IInv', ContentInv', DurInv, [Next]_vars
    PROVE  DurInv'
<1>0. acked \subseteq Range(Recovery) \cup exposed
  BY Zenon DEF DurInv, AckedDurable
<1>a. TypeOK
  BY Zenon DEF IInv
<1>1. ASSUME NEW t \in Threads, NEW D \in Scopes, BeginWrite(t, D) PROVE DurInv'
  <2>1. PICK op \in Scopes \X (0 .. MaxOps) :
          /\ cur' = [cur EXCEPT ![t] = op] /\ pc' = [pc EXCEPT ![t] = "write"]
          /\ \/ Recovery' = Recovery /\ exposed' = exposed \cup {op}
             \/ Range(Recovery)' = Range(Recovery) \cup {op} /\ exposed' = exposed
          /\ acked' = acked
    BY <1>1, BeginWriteLogs, Zenon
  <2>2. Range(Recovery') \cup exposed' = Range(Recovery) \cup exposed \cup {op}
    BY <2>1, Zenon
  <2>3. \A u \in Threads : Writing(u)' => \/ Writing(u) /\ cur'[u] = cur[u]
                                          \/ cur'[u] = op
    BY <1>a, <2>1, Zenon DEF Writing, TypeOK
  <2> QED BY <1>0, <2>1, <2>2, <2>3, Zenon DEF DurInv, AckedDurable
<1>2. ASSUME NEW t \in Threads, EndWrite(t) PROVE DurInv'
  <2>1. /\ Writing(t) /\ Recovery' = Recovery /\ acked' = acked \cup {cur[t]} /\ exposed' = exposed
        /\ \A u \in Threads : Writing(u)' => Writing(u) /\ cur'[u] = cur[u]
    BY <1>2, EndWriteApplies, Zenon
  <2>2. \A u \in Threads : Writing(u) => cur[u] \in Range(Recovery) \cup exposed
    BY Zenon DEF DurInv
  <2>3. AckedDurable'
    BY <1>0, <2>1, <2>2, Zenon DEF AckedDurable
  <2>4. \A u \in Threads : Writing(u)' => cur'[u] \in Range(Recovery') \cup exposed'
    BY <2>1, <2>2, Zenon
  <2> QED BY <2>3, <2>4, Zenon DEF DurInv
<1>3. ASSUME NEW t \in Threads,
             \/ PersistCloseWal(t) \/ PersistLockAll(t) \/ PersistUnlockAll(t)
             \/ PersistReopenWal(t) \/ Stop(t)
      PROVE  DurInv'
  BY <1>3, OuterStepKeepsRecovery, Zenon DEF DurInv, AckedDurable
<1>4. ASSUME NEW t \in Threads, LockedPersistStep(t) PROVE DurInv'
  <2>1. /\ Range(Recovery) \subseteq Range(Recovery') /\ UNCHANGED <<acked, exposed>>
        /\ \A u \in Threads : ~Writing(u)'
    BY <1>4, LockedPersistStepHardens, Zenon DEF Writing
  <2> QED BY <1>0, <2>1, Zenon DEF DurInv, AckedDurable
<1>5. CASE PreDatabaseLoad \/ LoadAndRecover
  BY <1>0, <1>5, StartKeepsRecovery, Zenon DEF DurInv, AckedDurable
<1>6. CASE Exit \/ Crash
  BY <1>0, <1>6, DeathKeepsRecovery, Zenon DEF DurInv, AckedDurable
<1>7. CASE UNCHANGED vars
  BY <1>0, <1>7, StutterKeepsRecovery, Zenon DEF DurInv, AckedDurable, Writing
<1>8. ASSUME NEW t \in Threads, PersistStep(t)
      PROVE  \/ PersistLockAll(t) \/ PersistUnlockAll(t) \/ PersistReopenWal(t)
             \/ LockedPersistStep(t)
  BY <1>8, Zenon DEF PersistStep, LockedPersistStep
<1> QED BY <1>1, <1>2, <1>3, <1>4, <1>5, <1>6, <1>7, <1>8, Zenon DEF Next

\* An answered write is never lost, through any number of persists, crashes and
\* starts, unless it ran while the WAL was closed or about to be dropped.
THEOREM AckedWritesDurable == Spec => []AckedDurable
<1>1. Init => IInv /\ ContentInv /\ DurInv
  <2>1. Init => DurInv
    BY Zenon DEF Init, DurInv, AckedDurable, Writing
  <2> QED BY <2>1, InitIInv, InitContent, Zenon
<1>2. (IInv /\ ContentInv /\ DurInv) /\ [Next]_vars => (IInv /\ ContentInv /\ DurInv)'
  BY NextIInv, NextContent, NextDurInv, Zenon
<1>3. DurInv => AckedDurable
  BY Zenon DEF DurInv
<1> QED BY <1>1, <1>2, <1>3, PTL DEF Spec

-----------------------------------------------------------------------------
\* One step of the files is one step of the abstract store, or none.
LEMMA StepRefines ==
    ASSUME IInv, ContentInv, IInv', ContentInv', [Next]_vars
    PROVE  [Store!Next]_(Store!vars)
<1> USE DEF Store!vars
<1>1. ASSUME NEW t \in Threads, NEW D \in Scopes, BeginWrite(t, D)
      PROVE  Store!Next \/ UNCHANGED Store!vars
  <2>1. PICK op \in Scopes \X (0 .. MaxOps) :
          /\ op \notin Range(mem) \cup Range(Recovery)
          /\ \/ Recovery' = Recovery
             \/ Range(Recovery)' = Range(Recovery) \cup {op}
          /\ UNCHANGED <<mem, up>> /\ up = "running"
    BY <1>1, BeginWriteLogs, Zenon
  <2> QED BY <2>1, Zenon DEF Store!Next, Store!Log
<1>2. ASSUME NEW t \in Threads, EndWrite(t) PROVE Store!Next
  BY <1>2, EndWriteApplies, Zenon DEF Store!Next, Store!Apply
<1>3. ASSUME NEW t \in Threads,
             \/ PersistCloseWal(t) \/ PersistLockAll(t) \/ PersistUnlockAll(t)
             \/ PersistReopenWal(t) \/ Stop(t)
      PROVE  UNCHANGED Store!vars
  BY <1>3, OuterStepKeepsRecovery
<1>4. ASSUME NEW t \in Threads, LockedPersistStep(t) PROVE Store!Next
  <2>1. /\ Range(Recovery) \subseteq Range(Recovery') /\ Range(Recovery') \subseteq Range(mem)
        /\ UNCHANGED <<mem, up>> /\ up \in {"running", "stopping"}
    BY <1>4, LockedPersistStepHardens, Zenon
  <2>2. Range(Recovery') = Range(Recovery) \cup Range(Recovery')
        /\ Range(Recovery') \in SUBSET Range(mem)
    BY <2>1, Zenon
  <2>3. Store!Harden
    BY <2>1, <2>2, Zenon DEF Store!Harden
  <2> QED BY <2>3, Zenon DEF Store!Next
<1>5. CASE PreDatabaseLoad \/ LoadAndRecover
  BY <1>5, StartKeepsRecovery DEF Store!Next, Store!Start
<1>6. CASE Exit \/ Crash
  BY <1>6, DeathKeepsRecovery DEF Store!Next, Store!Fail
<1>7. CASE UNCHANGED vars
  BY <1>7, StutterKeepsRecovery, Zenon
<1>8. ASSUME NEW t \in Threads, PersistStep(t)
      PROVE  \/ PersistLockAll(t) \/ PersistUnlockAll(t) \/ PersistReopenWal(t)
             \/ LockedPersistStep(t)
  BY <1>8, Zenon DEF PersistStep, LockedPersistStep
<1> QED BY <1>1, <1>2, <1>3, <1>4, <1>5, <1>6, <1>7, <1>8, Zenon DEF Next

\* The files, the WAL and the journal together implement a store whose durable
\* part never shrinks and is what every start restores.
THEOREM ImplementsDurableStore == Spec => DurabilityIsMonotonic
<1>1. Init => IInv /\ ContentInv /\ Store!Init
  <2>1. ASSUME Init PROVE Store!Init
    <3>1. mem = <<>> /\ Recovery = <<>> /\ up = "down"
      <4>1. Content(SnapshotFile) = <<>> /\ Content(wal) = <<>>
        BY <2>1, Zenon DEF Init, SnapshotFile, Content
      <4> QED BY <2>1, <4>1, EmptySeq, Zenon DEF Init, Recovery
    <3> QED BY <3>1, EmptySeq DEF Store!Init
  <2> QED BY <2>1, InitIInv, InitContent, Zenon
<1>2. (IInv /\ ContentInv) /\ [Next]_vars
        => (IInv /\ ContentInv)' /\ [Store!Next]_(Store!vars)
  BY NextIInv, NextContent, StepRefines, Zenon
<1> QED BY <1>1, <1>2, PTL DEF Spec, DurabilityIsMonotonic, Store!Spec

-----------------------------------------------------------------------------
(* The order in which writes are restored. *)

\* Of two writes of s to one database, the one executed first comes first.
InOrder(s) ==
    \A i, j \in DOMAIN s : i < j /\ s[i][1] \cap s[j][1] # {} => s[i][2] < s[j][2]

\* A write of S to a database was executed before any write of R to it.
Precedes(S, R) == \A o \in S, p \in R : o[1] \cap p[1] # {} => o[2] < p[2]

\* The snapshot holds older writes than the WAL, but for the moment of OverlapInv.
CrossInv ==
    \/ Precedes(Range(Content(SnapshotFile)), Range(Content(wal)))
    \/ DropsWal /\ (NotRunning \/ \E t \in Threads : pc[t] \in {"switched", "switched_first"})

\* RecoveryInOrder is not inductive: memory, each file and the step from the
\* snapshot to the WAL must be in order, and a write being executed be younger
\* than what memory holds of its databases.
OrderInv ==
    /\ InOrder(mem)
    /\ \A f \in {db, old, wal} : InOrder(Content(f))
    /\ \A t \in Threads : Writing(t) => Precedes(Range(mem), {cur[t]})
    /\ CrossInv

LEMMA InOrderAppend ==
    ASSUME NEW s \in Seq(Op), NEW x \in Op, InOrder(s), Precedes(Range(s), {x})
    PROVE  InOrder(Append(s, x))
<1>1. /\ DOMAIN Append(s, x) = 1 .. Len(s) + 1
      /\ \A i \in 1 .. Len(s) : Append(s, x)[i] = s[i]
      /\ Append(s, x)[Len(s) + 1] = x
      /\ DOMAIN s = 1 .. Len(s) /\ Len(s) \in Nat
  OBVIOUS
<1>2. \A i \in 1 .. Len(s) : s[i][1] \cap x[1] # {} => s[i][2] < x[2]
  BY <1>1, Zenon DEF Range, Precedes
<1> SUFFICES ASSUME NEW i \in 1 .. Len(s) + 1, NEW j \in 1 .. Len(s) + 1, i < j,
                    Append(s, x)[i][1] \cap Append(s, x)[j][1] # {}
             PROVE  Append(s, x)[i][2] < Append(s, x)[j][2]
  BY <1>1, Zenon DEF InOrder
<1>3. i \in 1 .. Len(s) /\ (j \in 1 .. Len(s) \/ j = Len(s) + 1)
  BY <1>1
<1>4. CASE j \in 1 .. Len(s)
  <2>1. Append(s, x)[i] = s[i] /\ Append(s, x)[j] = s[j] /\ i \in DOMAIN s /\ j \in DOMAIN s
    BY <1>1, <1>3, <1>4, Zenon
  <2> QED BY <2>1, Zenon DEF InOrder
<1>5. CASE j = Len(s) + 1
  BY <1>1, <1>2, <1>3, <1>5, Zenon
<1> QED BY <1>3, <1>4, <1>5, Zenon

LEMMA InOrderConcat ==
    ASSUME NEW s \in Seq(Op), NEW r \in Seq(Op),
           InOrder(s), InOrder(r), Precedes(Range(s), Range(r))
    PROVE  InOrder(s \o r)
<1>1. /\ DOMAIN (s \o r) = 1 .. Len(s) + Len(r)
      /\ \A i \in 1 .. Len(s) : (s \o r)[i] = s[i]
      /\ \A i \in 1 .. Len(s) + Len(r) : i > Len(s) => (s \o r)[i] = r[i - Len(s)]
      /\ DOMAIN s = 1 .. Len(s) /\ Len(s) \in Nat
      /\ DOMAIN r = 1 .. Len(r) /\ Len(r) \in Nat
  OBVIOUS
<1> SUFFICES ASSUME NEW i \in 1 .. Len(s) + Len(r), NEW j \in 1 .. Len(s) + Len(r), i < j,
                    (s \o r)[i][1] \cap (s \o r)[j][1] # {}
             PROVE  (s \o r)[i][2] < (s \o r)[j][2]
  BY <1>1, Zenon DEF InOrder
<1>2. CASE j <= Len(s)
  <2>1. i \in DOMAIN s /\ j \in DOMAIN s /\ (s \o r)[i] = s[i] /\ (s \o r)[j] = s[j]
    BY <1>1, <1>2
  <2> QED BY <2>1, Zenon DEF InOrder
<1>3. CASE i > Len(s)
  <2>1. /\ i - Len(s) \in DOMAIN r /\ j - Len(s) \in DOMAIN r /\ i - Len(s) < j - Len(s)
        /\ (s \o r)[i] = r[i - Len(s)] /\ (s \o r)[j] = r[j - Len(s)]
    BY <1>1, <1>3
  <2> QED BY <2>1, Zenon DEF InOrder
<1>4. CASE i <= Len(s) /\ j > Len(s)
  <2>1. /\ i \in DOMAIN s /\ j - Len(s) \in DOMAIN r
        /\ (s \o r)[i] = s[i] /\ (s \o r)[j] = r[j - Len(s)]
    BY <1>1, <1>4
  <2>2. (s \o r)[i] \in Range(s) /\ (s \o r)[j] \in Range(r)
    BY <2>1, Zenon DEF Range
  <2> QED BY <2>2, Zenon DEF Precedes
<1> QED BY <1>1, <1>2, <1>3, <1>4

LEMMA EmptyInOrder ==
    InOrder(<<>>) /\ \A S : Precedes({}, S) /\ Precedes(S, {})
  BY DEF InOrder, Precedes

\* A step that moves files about, deletes the WAL or saves memory, and leaves the
\* writes alone.
LEMMA FileStepKeepsOrder ==
    ASSUME IInv, OrderInv, UNCHANGED <<mem, cur>>,
           \A u \in Threads : Writing(u)' => Writing(u),
           db' \in {db, old, mem, NoFile}, old' \in {db, old, NoFile},
           wal' \in {wal, NoFile, Content(wal)},
           CrossInv'
    PROVE  OrderInv'
<1>1. /\ Content(NoFile) = <<>> /\ Content(mem) = mem
      /\ Content(Content(wal)) = Content(wal)
  BY PersistJournalAssumption, Zenon DEF Content, IInv, TypeOK
<1>2. \A f \in {db, old, wal, mem, NoFile, Content(wal)} : InOrder(Content(f))
  BY <1>1, EmptyInOrder, Zenon DEF OrderInv
<1>3. \A f \in {db', old', wal'} : InOrder(Content(f))
  BY <1>2, Zenon
<1>4. \A u \in Threads : Writing(u)' => Precedes(Range(mem'), {cur'[u]})
  BY Zenon DEF OrderInv
<1> QED BY <1>3, <1>4, Zenon DEF OrderInv, Content

\* A step of a persist under the mutexes keeps snapshot and WAL, or empties the
\* WAL, or ends the switch to a snapshot that makes a start drop the WAL.
LEMMA LockedStepSplits ==
    ASSUME IInv, ContentInv, NEW t \in Threads, LockedPersistStep(t)
    PROVE  /\ \/ /\ Content(SnapshotFile)' = Content(SnapshotFile)
                 /\ Content(wal)' = Content(wal)
                 /\ pc[t] \notin {"switched", "switched_first"}
              \/ Content(wal)' = <<>>
              \/ DropsWal' /\ pc'[t] \in {"switched", "switched_first"}
           /\ db' \in {db, old, mem, NoFile} /\ old' \in {db, old, NoFile}
           /\ wal' \in {wal, NoFile} /\ UNCHANGED <<mem, cur, up>>
           /\ ~NotRunning /\ HasDbFile
           /\ \A u \in Threads : ~Writing(u) /\ ~Writing(u)'
           /\ \A u \in Threads : u # t => pc[u] \notin LockedPC /\ pc'[u] = pc[u]
           /\ pc[t] \in LockedPC /\ pc'[t] \in LockedPC
<1>0. /\ TypeOK /\ MutexInv /\ StageInv /\ ProcessInv /\ LoadedInv
  BY Zenon DEF IInv, JournalProtocol, ContentInv
<1>1. PICK a \in LockedPC, b \in LockedPC : Goto(t, a, b) /\ UNCHANGED <<lock, Others>>
  BY Zenon DEF LockedPersistStep, PersistNewJournal, PersistOpenTmp, PersistCloseTmp, SwitchNoExist,
         SwitchExist, JournalMoving, RenameDbToOld, JournalMovedExisting, RenameTmpToDb,
         JournalMovedNew, RemoveWal, WipeJournal, RemoveOld, JournalEntry, LockedPC, PersistPC
<1>2. /\ LockedFrame(t) /\ pc[t] = a /\ pc'[t] = b
      /\ \A u \in Threads : u # t => pc[u] \notin LockedPC /\ pc[u] # "write" /\ pc'[u] = pc[u]
  BY <1>0, <1>1, LockedStep, PersistExcludes, Zenon DEF Goto, TypeOK
<1>3. \A u \in Threads : ~Writing(u) /\ ~Writing(u)'
  BY <1>1, <1>2, Zenon DEF LockedPC, PersistPC, Writing
<1>4. UNCHANGED <<mem, cur, up>> /\ HasDbFile /\ ~NotRunning
  BY <1>0, <1>2, Zenon DEF LockedFrame, ProcessInv, LockedPC, NotRunning
<1>5. /\ db' \in {db, old, mem, NoFile} /\ old' \in {db, old, NoFile} /\ wal' \in {wal, NoFile}
  BY <1>0, Zenon DEF LockedPersistStep, PersistNewJournal, PersistOpenTmp, PersistCloseTmp, SwitchNoExist,
         SwitchExist, JournalMoving, RenameDbToOld, JournalMovedExisting, RenameTmpToDb,
         JournalMovedNew, RemoveWal, WipeJournal, RemoveOld, JournalEntry, Goto, StageInv
<1>6. \/ /\ Content(SnapshotFile)' = Content(SnapshotFile)
         /\ Content(wal)' = Content(wal)
         /\ pc[t] \notin {"switched", "switched_first"}
      \/ Content(wal)' = <<>>
      \/ DropsWal' /\ pc'[t] \in {"switched", "switched_first"}
  <2>e. \A u \in Threads : u # t => pc[u] \notin {"renamed_old", "moved_existing", "renamed_new"}
    BY <1>2, Zenon DEF LockedPC, PersistPC
  <2>1. CASE PersistNewJournal(t)
    BY <1>0, <1>4, <2>e, <2>1, Zenon DEF PersistNewJournal, Goto, LoadedInv, NotRunning, SnapshotFile,
        RecoveredState, Content
  <2>2. CASE PersistOpenTmp(t) \/ PersistCloseTmp(t)
    BY <1>0, <2>2, Zenon DEF PersistOpenTmp, PersistCloseTmp, Goto, StageInv, SnapshotFile,
        RecoveredState, Content
  <2>3. CASE SwitchNoExist(t) \/ SwitchExist(t) \/ JournalMoving(t)
    BY <1>0, <2>3, Zenon DEF SwitchNoExist, SwitchExist, JournalMoving, JournalEntry, AfterEntry,
        JournalOrder, Goto, StageInv, SnapshotFile, RecoveredState, Content
  <2>4. CASE RenameDbToOld(t)
    BY <1>0, <2>4, Zenon DEF RenameDbToOld, Goto, StageInv, SnapshotFile, RecoveredState, Content
  <2>5. CASE JournalMovedExisting(t)
    BY <1>0, <2>5, Zenon DEF JournalMovedExisting, JournalEntry, AfterEntry, JournalOrder, Goto, StageInv,
        SnapshotFile, RecoveredState, Content
  <2>6. CASE RenameTmpToDb(t)
    <3>1. mem # NoFile
      BY <1>0, PersistJournalAssumption, Zenon DEF TypeOK
    <3>2. CASE pc[t] = "moved_existing"
      BY <1>0, <2>6, <3>2, Zenon DEF RenameTmpToDb, Goto, StageInv, SnapshotFile, RecoveredState, Content
    <3>3. CASE pc[t] = "no_exist"
      BY <1>0, <1>2, <1>4, <2>6, <3>1, <3>3 DEF RenameTmpToDb, Goto, StageInv, DropsWal,
          RecoveredState, TypeOK
    <3> QED BY <2>6, <3>2, <3>3, Zenon DEF RenameTmpToDb, Goto
  <2>7. CASE JournalMovedNew(t)
    BY <1>0, <1>4, <2>7, Zenon DEF JournalMovedNew, JournalEntry, AfterEntry, JournalOrder, Goto, StageInv,
        DropsWal, RecoveredState, TypeOK
  <2>8. CASE RemoveWal(t)
    BY <2>8, Zenon DEF RemoveWal, Content
  <2>9. CASE WipeJournal(t) \/ RemoveOld(t)
    BY <1>0, <2>9, Zenon DEF WipeJournal, RemoveOld, Goto, StageInv, SnapshotFile, RecoveredState, Content
  <2> QED BY <2>1, <2>2, <2>3, <2>4, <2>5, <2>6, <2>7, <2>8, <2>9, Zenon DEF LockedPersistStep
<1> QED BY <1>1, <1>2, <1>3, <1>4, <1>5, <1>6, Zenon

LEMMA NextOrder ==
    ASSUME IInv, ContentInv, OrderInv, [Next]_vars
    PROVE  OrderInv'
<1>0. /\ TypeOK /\ MutexInv /\ ProcessInv /\ IssuedInv /\ LoadedInv
  BY Zenon DEF IInv, JournalProtocol, ContentInv
<1>a. CrossInv /\ InOrder(mem) /\ \A f \in {db, old, wal} : InOrder(Content(f))
  BY Zenon DEF OrderInv
<1>b. \A u \in Threads : Writing(u) => Precedes(Range(mem), {cur[u]})
  BY Zenon DEF OrderInv
<1>c. ASSUME NEW s \in Seq(Op) PROVE Range(s) \subseteq Op
  <2>1. \A i \in DOMAIN s : s[i] \in Op
    OBVIOUS
  <2> QED BY <2>1, Zenon DEF Range
<1>1. ASSUME NEW t \in Threads, NEW D \in Scopes, BeginWrite(t, D) PROVE OrderInv'
  <2>1. PICK op \in Op :
          /\ op[2] = nextId
          /\ cur' = [cur EXCEPT ![t] = op]
          /\ wal' = IF stream = "linked" THEN Append(wal, op) ELSE wal
    <3>1. <<D, nextId>> \in Op /\ <<D, nextId>>[2] = nextId
      BY <1>0, Zenon DEF Op, TypeOK
    <3> QED BY <1>1, <3>1, Zenon DEF BeginWrite
  <2>2. /\ UNCHANGED <<db, old, journal, mem, up>>
        /\ pc' = [pc EXCEPT ![t] = "write"] /\ pc[t] = "idle" /\ up = "running"
    BY <1>1, Zenon DEF BeginWrite
  <2>3. \A u \in Threads : Writing(u)' => u = t \/ (Writing(u) /\ cur'[u] = cur[u])
    BY <1>0, <2>1, <2>2, Zenon DEF TypeOK, Writing
  <2>4. \A S : (\A o \in S : o[2] < nextId) => Precedes(S, {op})
    BY <2>1, Zenon DEF Precedes
  <2>5. Precedes(Range(mem), {op}) /\ \A f \in {db, old, wal} : Precedes(Range(Content(f)), {op})
    BY <1>0, <2>4, Zenon DEF IssuedInv
  <2>6. /\ Content(db)' = Content(db) /\ Content(old)' = Content(old) /\ DropsWal' = DropsWal
        /\ Content(SnapshotFile)' = Content(SnapshotFile) /\ SnapshotFile \in {db, old}
    BY <2>2, Zenon DEF SnapshotFile, DropsWal, RecoveredState, Content
  <2>7. \/ Content(wal)' = Content(wal)
        \/ Content(wal) = wal /\ wal \in Seq(Op) /\ Content(wal)' = Append(wal, op)
    <3>1. CASE stream = "linked"
      <4>1. wal \in Seq(Op) /\ Append(wal, op) \in Seq(Op)
        BY <1>0, <3>1, RangeAppend, Zenon DEF ProcessInv, TypeOK
      <4> QED BY <2>1, <3>1, <4>1, PersistJournalAssumption, Zenon DEF Content
    <3>2. CASE stream # "linked"
      BY <2>1, <3>2, Zenon DEF Content
    <3> QED BY <3>1, <3>2, Zenon
  <2>8. InOrder(Content(wal)')
    BY <1>a, <2>5, <2>7, InOrderAppend, Zenon
  <2>9. \A u \in Threads : Writing(u)' => Precedes(Range(mem)', {cur'[u]})
    <3>1. cur'[t] = op /\ Range(mem)' = Range(mem)
      BY <1>0, <2>1, <2>2, Zenon DEF TypeOK, Range
    <3> QED BY <1>b, <2>3, <2>5, <3>1, Zenon
  <2>10. CrossInv'
    <3>1. Range(Content(wal)') \in {Range(Content(wal)), Range(Content(wal)) \cup {op}}
      BY <2>7, RangeAppend, Zenon
    <3>2. CASE Precedes(Range(Content(SnapshotFile)), Range(Content(wal)))
      <4>1. Precedes(Range(Content(SnapshotFile)), {op})
        BY <2>5, <2>6, Zenon
      <4> QED BY <2>6, <3>1, <3>2, <4>1, Zenon DEF CrossInv, Precedes
    <3>3. CASE DropsWal /\ (NotRunning \/ \E u \in Threads : pc[u] \in {"switched", "switched_first"})
      <4>1. \A u \in Threads : pc[u] \in {"switched", "switched_first"} => pc'[u] = pc[u]
        BY <1>0, <2>2, Zenon DEF TypeOK
      <4> QED BY <2>2, <2>6, <3>3, <4>1, Zenon DEF CrossInv, NotRunning
    <3> QED BY <1>a, <3>2, <3>3, Zenon DEF CrossInv
  <2>11. InOrder(mem)'
    BY <1>a, <2>2, Zenon DEF InOrder
  <2> QED BY <1>a, <2>6, <2>8, <2>9, <2>10, <2>11, Zenon DEF OrderInv
<1>2. ASSUME NEW t \in Threads, EndWrite(t) PROVE OrderInv'
  <2>1. /\ UNCHANGED <<db, old, wal, journal, up>> /\ pc[t] = "write"
        /\ mem' = Append(mem, cur[t]) /\ cur[t] \in Op /\ mem \in Seq(Op)
        /\ pc' = [pc EXCEPT ![t] = "idle"] /\ cur' = [cur EXCEPT ![t] = <<>>]
    BY <1>0, <1>2, Zenon DEF EndWrite, files, MutexInv, TypeOK
  <2>2. \A u \in Threads : Writing(u)' => u # t /\ Writing(u) /\ cur'[u] = cur[u]
    BY <1>0, <2>1, Zenon DEF Writing, TypeOK
  <2>3. Range(mem') = Range(mem) \cup {cur[t]}
    BY <2>1, RangeAppend, Zenon
  <2>4. InOrder(mem')
    BY <1>a, <1>b, <2>1, InOrderAppend, Zenon DEF Writing
  <2>5. \A u \in Threads : Writing(u)' => Precedes(Range(mem'), {cur'[u]})
    <3> SUFFICES ASSUME NEW u \in Threads, Writing(u)' PROVE Precedes(Range(mem'), {cur'[u]})
      BY Zenon
    <3>1. u # t /\ pc[u] = "write" /\ cur'[u] = cur[u] /\ Precedes(Range(mem), {cur[u]})
      BY <1>b, <2>2, Zenon DEF Writing
    <3>2. cur[u][1] \cap cur[t][1] = {}
      <4>1. ASSUME NEW d \in cur[u][1] \cap cur[t][1] PROVE FALSE
        <5>1. lock[d] = u /\ lock[d] = t
          BY <1>0, <2>1, <3>1, <4>1, Zenon DEF MutexInv
        <5> QED BY <3>1, <5>1, Zenon
      <4> QED BY <4>1, Zenon
    <3> QED BY <2>3, <3>1, <3>2, Zenon DEF Precedes
  <2>6. CrossInv'
    <3>1. /\ DropsWal' = DropsWal
          /\ Content(SnapshotFile)' = Content(SnapshotFile) /\ Content(wal)' = Content(wal)
      BY <2>1, Zenon DEF SnapshotFile, DropsWal, RecoveredState, Content
    <3>2. \A u \in Threads : pc[u] \in {"switched", "switched_first"} => pc'[u] = pc[u]
      BY <1>0, <2>1, Zenon DEF TypeOK
    <3> QED BY <1>a, <2>1, <3>1, <3>2, Zenon DEF CrossInv, NotRunning
  <2>7. \A f \in {db, old, wal}' : InOrder(Content(f))
    BY <1>a, <2>1, Zenon
  <2> QED BY <2>4, <2>5, <2>6, <2>7, Zenon DEF OrderInv, Content
<1>3. ASSUME NEW t \in Threads,
             \/ PersistCloseWal(t) \/ PersistLockAll(t) \/ PersistUnlockAll(t)
             \/ PersistReopenWal(t) \/ Stop(t)
      PROVE  OrderInv'
  <2>1. /\ UNCHANGED <<db, old, journal, mem, cur>> /\ wal' \in {wal, Content(wal)}
        /\ up' = up \/ (up = "running" /\ up' = "stopping")
    BY <1>3, Zenon DEF PersistCloseWal, PersistLockAll, PersistUnlockAll, PersistReopenWal, Stop, Others,
        files, history
  <2>2. /\ DropsWal' = DropsWal
        /\ Content(SnapshotFile)' = Content(SnapshotFile) /\ Content(wal)' = Content(wal)
    BY <2>1, PersistJournalAssumption, Zenon DEF SnapshotFile, DropsWal, RecoveredState, Content
  <2>3. \A u \in Threads : /\ pc[u] \in {"switched", "switched_first"} => pc'[u] = pc[u]
                           /\ Writing(u)' => Writing(u)
    <3>1. CASE \E a, b \in {"idle", "closed", "locked", "cleaned", "unlocked"} : Goto(t, a, b)
      BY <1>0, <3>1, Zenon DEF Goto, TypeOK, Writing
    <3>2. CASE UNCHANGED pc
      BY <3>2, Zenon DEF Writing
    <3> QED BY <1>3, <3>1, <3>2, Zenon DEF PersistCloseWal, PersistLockAll, PersistUnlockAll,
                PersistReopenWal, Stop
  <2>4. ~NotRunning
    BY <1>0, <1>3, Zenon DEF PersistCloseWal, PersistLockAll, PersistUnlockAll, PersistReopenWal, Stop,
        Goto, ProcessInv, AllIdle, NotRunning
  <2>5. CrossInv'
    BY <1>a, <2>2, <2>3, <2>4, Zenon DEF CrossInv
  <2> QED BY <2>1, <2>3, <2>5, FileStepKeepsOrder, Zenon
<1>4. ASSUME NEW t \in Threads, LockedPersistStep(t) PROVE OrderInv'
  <2>1. CrossInv'
    <3>1. CASE /\ Content(SnapshotFile)' = Content(SnapshotFile)
               /\ Content(wal)' = Content(wal)
               /\ pc[t] \notin {"switched", "switched_first"}
      <4>1. \A u \in Threads : pc[u] \notin {"switched", "switched_first"}
        BY <1>4, <3>1, LockedStepSplits, Zenon DEF LockedPC, PersistPC
      <4>2. ~NotRunning
        BY <1>4, LockedStepSplits, Zenon
      <4> QED BY <1>a, <3>1, <4>1, <4>2, Zenon DEF CrossInv
    <3>2. CASE Content(wal)' = <<>>
      BY <3>2, EmptySeq, EmptyInOrder, Zenon DEF CrossInv
    <3>3. CASE DropsWal' /\ pc'[t] \in {"switched", "switched_first"}
      BY <3>3, Zenon DEF CrossInv
    <3> QED BY <1>4, <3>1, <3>2, <3>3, LockedStepSplits, Zenon
  <2> QED BY <1>4, <2>1, LockedStepSplits, FileStepKeepsOrder, Zenon
<1>5. CASE PreDatabaseLoad
  <2>1. /\ UNCHANGED <<mem, cur, pc>> /\ NotRunning /\ up' \in {"loading", "failed"}
        /\ db' \in {db, old, mem, NoFile} /\ old' \in {db, old, NoFile} /\ wal' \in {wal, NoFile}
    BY <1>5, Zenon DEF PreDatabaseLoad, PreLoadNothing, PreLoadRemoveWal, PreLoadRestoreOld, PreLoadFail,
        RefuseToStart, FinishPreLoad, threadVars, files
  <2>2. /\ ContentInv'
        /\ Content(SnapshotFile)' = Content(SnapshotFile) /\ DropsWal' = DropsWal
    BY <1>5, PreLoadKeepsContent, Zenon
  <2>3. \A u \in Threads : Writing(u)' => Writing(u)
    BY <2>1, Zenon DEF Writing
  <2>4. CrossInv'
    <3>1. Content(wal)' = Content(wal) \/ Content(wal)' = <<>>
      BY <2>1, Zenon DEF Content
    <3>2. CASE Content(wal)' = <<>>
      BY <3>2, EmptySeq, EmptyInOrder, Zenon DEF CrossInv
    <3>3. CASE Content(wal)' = Content(wal) /\ Precedes(Range(Content(SnapshotFile)), Range(Content(wal)))
      BY <2>2, <3>3, Zenon DEF CrossInv
    <3>4. CASE DropsWal
      <4>1. CASE up' = "failed"
        BY <2>2, <3>4, <4>1, Zenon DEF CrossInv, NotRunning
      <4>2. CASE up' = "loading"
        <5>1. wal' = NoFile
          BY <2>2, <3>4, <4>2, Zenon DEF ContentInv, LoadedInv
        <5>2. Content(wal)' = <<>>
          BY <5>1, Zenon DEF Content
        <5> QED BY <3>2, <5>2, Zenon
      <4> QED BY <2>1, <4>1, <4>2, Zenon
    <3> QED BY <1>a, <3>1, <3>2, <3>3, <3>4, Zenon DEF CrossInv
  <2> QED BY <2>1, <2>3, <2>4, FileStepKeepsOrder, Zenon
<1>6. CASE LoadAndRecover
  <2>1. /\ AllIdle /\ UNCHANGED <<db, old, pc>> /\ up = "loading" /\ wal' = Content(wal)
    BY <1>0, <1>6, Zenon DEF ProcessInv, LoadAndRecover, threadVars
  <2>2. SnapshotFile = db /\ Precedes(Range(Content(db)), Range(Content(wal)))
    <3>1. SnapshotFile = db
      BY <1>0, <2>1, Zenon DEF LoadedInv, NotRunning, AllIdle
    <3> QED BY <1>a, <2>1, <3>1, Zenon DEF CrossInv, NotRunning, AllIdle
  <2>3. /\ Content(db) \in Seq(Op) /\ Content(wal) \in Seq(Op)
        /\ mem' = Content(db) \o Content(wal)
    <3>1. HasDbFile \/ Content(db) = <<>>
      BY <1>0, Zenon DEF ProcessInv, Content
    <3> QED BY <1>0, <1>6, <3>1, ContentType, Zenon DEF LoadAndRecover, TypeOK
  <2>4. InOrder(mem')
    BY <1>a, <2>2, <2>3, InOrderConcat, Zenon
  <2>5. CrossInv'
    BY <1>6, <2>2, LoadRestores, Zenon DEF CrossInv
  <2>6. \A u \in Threads : ~Writing(u)'
    BY <2>1, Zenon DEF AllIdle, Writing
  <2>7. InOrder(Content(wal)') /\ InOrder(Content(db)') /\ InOrder(Content(old)')
    <3>1. Content(wal)' = Content(wal) /\ Content(db)' = Content(db) /\ Content(old)' = Content(old)
      BY <1>6, <2>1, LoadRestores, Zenon DEF Content
    <3> QED BY <1>a, <3>1, Zenon
  <2> QED BY <2>4, <2>5, <2>6, <2>7, Zenon DEF OrderInv
<1>7. CASE Exit \/ Crash
  <2>1. /\ Content(SnapshotFile)' = Content(SnapshotFile) /\ DropsWal' = DropsWal
        /\ wal' = wal /\ mem' = <<>>
    BY <1>7, LoseMemoryKeepsContent, Zenon
  <2>2. UNCHANGED <<db, old>> /\ up' = "down" /\ \A u \in Threads : ~Writing(u)'
    BY <1>7, Zenon DEF Exit, Crash, LoseMemory, files, Writing
  <2>3. CrossInv'
    BY <1>a, <2>1, <2>2, Zenon DEF CrossInv, NotRunning
  <2>4. InOrder(mem')
    BY <2>1, EmptyInOrder, Zenon
  <2> QED BY <1>a, <2>1, <2>2, <2>3, <2>4, Zenon DEF OrderInv, Content
<1>8. CASE UNCHANGED vars
  <2>1. /\ UNCHANGED <<db, old, wal, mem, cur, pc>> /\ DropsWal' = DropsWal /\ NotRunning' = NotRunning
        /\ Content(SnapshotFile)' = Content(SnapshotFile)
    BY <1>8, Zenon DEF vars, files, threadVars, history, SnapshotFile, DropsWal, RecoveredState, Content,
        NotRunning
  <2>2. CrossInv'
    BY <1>a, <2>1, Zenon DEF CrossInv
  <2> QED BY <2>1, <2>2, FileStepKeepsOrder, Zenon DEF Writing
<1>9. ASSUME NEW t \in Threads, PersistStep(t)
      PROVE  \/ PersistLockAll(t) \/ PersistUnlockAll(t) \/ PersistReopenWal(t)
             \/ LockedPersistStep(t)
  BY <1>9, Zenon DEF PersistStep, LockedPersistStep
<1> QED BY <1>1, <1>2, <1>3, <1>4, <1>5, <1>6, <1>7, <1>8, <1>9, Zenon DEF Next

\* Of two writes to one database that a start would restore, the one executed
\* first comes first: recover never lets an older write overwrite a younger one.
THEOREM RestoredInOrder == Spec => []RecoveryInOrder
<1>1. Init => IInv /\ ContentInv /\ OrderInv
  <2>1. ASSUME Init PROVE OrderInv
    <3>1. /\ Content(db) = <<>> /\ Content(old) = <<>> /\ Content(wal) = <<>> /\ mem = <<>>
          /\ up = "down" /\ \A t \in Threads : ~Writing(t)
      BY <2>1, Zenon DEF Init, Content, Writing
    <3>2. CrossInv
      BY <3>1, EmptySeq, EmptyInOrder, Zenon DEF CrossInv
    <3> QED BY <3>1, <3>2, EmptyInOrder, Zenon DEF OrderInv
  <2> QED BY <2>1, InitIInv, InitContent, Zenon
<1>2. (IInv /\ ContentInv /\ OrderInv) /\ [Next]_vars => (IInv /\ ContentInv /\ OrderInv)'
  BY NextIInv, NextContent, NextOrder, Zenon
<1>3. IInv /\ OrderInv => RecoveryInOrder
  <2> SUFFICES ASSUME IInv, OrderInv PROVE InOrder(Recovery)
    BY Zenon DEF InOrder, RecoveryInOrder
  <2>1. TypeOK /\ InOrder(Content(SnapshotFile)) /\ InOrder(Content(wal))
    BY Zenon DEF IInv, OrderInv, SnapshotFile
  <2>2. CASE DropsWal
    BY <2>1, <2>2, RecoveryRange, Zenon
  <2>3. CASE ~DropsWal
    <3>1. Recovery = Content(SnapshotFile) \o Content(wal)
      BY <2>3, Zenon DEF Recovery
    <3>2. Precedes(Range(Content(SnapshotFile)), Range(Content(wal)))
      BY <2>3, Zenon DEF OrderInv, CrossInv
    <3> QED BY <2>1, <3>1, <3>2, RecoveryRange, InOrderConcat, Zenon
  <2> QED BY <2>2, <2>3, Zenon
<1> QED BY <1>1, <1>2, <1>3, PTL DEF Spec

-----------------------------------------------------------------------------
(* The last persist. *)

\* The stages of a persist at which it has removed the WAL and still holds the
\* mutexes, so that nobody logs.
WalRemovedPC == {"wal_removed", "wal_removed_first", "wiped", "cleaned"}

\* No write runs once the server stops, no write reaches the WAL between its
\* removal and the release of the mutexes, and a server that is stopping and no
\* longer holds the mutexes has saved everything.
StopInv ==
    /\ up = "stopping" => \A t \in Threads : ~Writing(t)
    /\ \A t \in Threads : pc[t] \in WalRemovedPC => Content(wal) = <<>>
    /\ /\ up = "stopping" /\ HasDbFile
       /\ \A t \in Threads : pc[t] \in {"idle", "unlocked"}
       => Recovery = mem

LEMMA NextStop ==
    ASSUME IInv, ContentInv, StopInv, [Next]_vars
    PROVE  StopInv'
<1>0. /\ TypeOK /\ MutexInv /\ StageInv /\ ProcessInv
  BY Zenon DEF IInv, JournalProtocol
<1>a. \A u \in Threads : pc[u] \in WalRemovedPC => Content(wal) = <<>>
  BY Zenon DEF StopInv
<1>1. ASSUME NEW t \in Threads, NEW D \in Scopes, BeginWrite(t, D) PROVE StopInv'
  <2>1. up' = "running" /\ pc' = [pc EXCEPT ![t] = "write"]
        /\ \A d \in D : lock[d] = NoThread
    BY <1>1, Zenon DEF BeginWrite
  <2>2. PICK d \in D : d \in Databases
    BY DEF Scopes
  <2>3. \A u \in Threads : pc[u] \notin LockedPC
    BY <1>0, <2>1, <2>2, PersistJournalAssumption DEF MutexInv
  <2>4. \A u \in Threads : pc'[u] \notin WalRemovedPC
    BY <1>0, <2>1, <2>3, Zenon DEF TypeOK, LockedPC, PersistPC, WalRemovedPC
  <2> QED BY <2>1, <2>4, Zenon DEF StopInv
<1>2. ASSUME NEW t \in Threads, EndWrite(t) PROVE StopInv'
  <2>1. pc[t] = "write" /\ pc' = [pc EXCEPT ![t] = "idle"] /\ UNCHANGED <<wal, up>>
    BY <1>2, Zenon DEF EndWrite, files
  <2>2. up # "stopping"
    BY <2>1, Zenon DEF StopInv, Writing
  <2>3. \A u \in Threads : pc'[u] \in WalRemovedPC => pc[u] \in WalRemovedPC
    BY <1>0, <2>1, Zenon DEF TypeOK, WalRemovedPC
  <2> QED BY <1>a, <2>1, <2>2, <2>3, Zenon DEF StopInv, Content
<1>3. ASSUME NEW t \in Threads, PersistCloseWal(t) \/ PersistLockAll(t) PROVE StopInv'
  <2>1. pc'[t] \in {"closed", "locked"} /\ UNCHANGED <<wal, up>>
        /\ \A u \in Threads : u # t => pc'[u] = pc[u]
    BY <1>0, <1>3, Zenon DEF PersistCloseWal, PersistLockAll, Others, files, Goto, TypeOK
  <2>2. \A u \in Threads : /\ pc'[u] \in WalRemovedPC => pc[u] \in WalRemovedPC
                           /\ Writing(u)' => Writing(u)
    BY <2>1, Zenon DEF WalRemovedPC, Writing
  <2> QED BY <1>a, <2>1, <2>2, Zenon DEF StopInv, Content
<1>4. ASSUME NEW t \in Threads, Stop(t) PROVE StopInv'
  <2>1. AllIdle /\ wal' = wal /\ (IF HasDbFile THEN Goto(t, "idle", "closed") ELSE UNCHANGED pc)
    BY <1>4, Zenon DEF Stop, files
  <2>2. /\ HasDbFile => pc'[t] = "closed"
        /\ \A u \in Threads : pc'[u] \in {"idle", "closed"}
    BY <1>0, <2>1, Zenon DEF Goto, AllIdle, TypeOK
  <2>3. \A u \in Threads : pc'[u] \notin WalRemovedPC /\ ~Writing(u)'
    BY <2>2, Zenon DEF WalRemovedPC, Writing
  <2> QED BY <2>2, <2>3, Zenon DEF StopInv
<1>5. ASSUME NEW t \in Threads, PersistUnlockAll(t) PROVE StopInv'
  <2>1. pc[t] = "cleaned" /\ UNCHANGED <<db, old, wal, journal, mem, up>>
        /\ pc'[t] = "unlocked" /\ \A u \in Threads : u # t => pc'[u] = pc[u]
    BY <1>0, <1>5, Zenon DEF PersistUnlockAll, Others, files, Goto, TypeOK
  <2>2. \A u \in Threads : /\ pc'[u] \in WalRemovedPC => pc[u] \in WalRemovedPC
                           /\ Writing(u)' => Writing(u)
    BY <2>1, Zenon DEF WalRemovedPC, Writing
  <2>3. Recovery' = mem
    <3>1. db = mem /\ journal = "absent" /\ Content(wal) = <<>>
      BY <1>0, <1>a, <2>1, Zenon DEF StageInv, WalRemovedPC
    <3>2. Content(SnapshotFile)' = mem /\ Content(wal)' = <<>>
      BY <1>0, <2>1, <3>1, PersistJournalAssumption, Zenon DEF SnapshotFile, RecoveredState, Content, TypeOK
    <3>3. mem \in Seq(Op)
      BY <1>0, Zenon DEF TypeOK
    <3> QED BY <3>2, <3>3, EmptySeq, Zenon DEF Recovery
  <2> QED BY <1>a, <2>1, <2>2, <2>3, Zenon DEF StopInv, Content
<1>6. ASSUME NEW t \in Threads, PersistReopenWal(t) PROVE StopInv'
  <2>1. pc[t] = "unlocked" /\ UNCHANGED <<mem, up>> /\ wal' = Content(wal)
        /\ pc'[t] = "idle" /\ \A u \in Threads : u # t => pc'[u] = pc[u]
    BY <1>0, <1>6, Zenon DEF PersistReopenWal, Others, Goto, TypeOK
  <2>2. \A u \in Threads : /\ pc'[u] \in WalRemovedPC => pc[u] \in WalRemovedPC
                           /\ Writing(u)' => Writing(u)
                           /\ pc'[u] \in {"idle", "unlocked"} => pc[u] \in {"idle", "unlocked"}
    BY <2>1, Zenon DEF WalRemovedPC, Writing
  <2>3. Recovery' = Recovery
    BY <1>6, OuterStepKeepsRecovery, Zenon
  <2>4. Content(wal)' = Content(wal)
    BY <2>1, PersistJournalAssumption, Zenon DEF Content
  <2> QED BY <1>a, <2>1, <2>2, <2>3, <2>4, Zenon DEF StopInv
<1>7. ASSUME NEW t \in Threads, LockedPersistStep(t) PROVE StopInv'
  <2>1. /\ \A u \in Threads : ~Writing(u)'
        /\ pc'[t] \in LockedPC
        /\ \A u \in Threads : u # t => pc[u] \notin LockedPC /\ pc'[u] = pc[u]
    BY <1>7, LockedStepSplits, Zenon
  <2>2. pc'[t] \in WalRemovedPC => Content(wal)' = <<>>
    <3>1. CASE RemoveWal(t)
      BY <3>1, Zenon DEF RemoveWal, Content
    <3>2. CASE WipeJournal(t) \/ RemoveOld(t)
      <4>1. pc[t] \in WalRemovedPC /\ wal' = wal
        BY <3>2, Zenon DEF WipeJournal, RemoveOld, Goto, WalRemovedPC
      <4> QED BY <1>a, <4>1, Zenon DEF Content
    <3>3. CASE ~(RemoveWal(t) \/ WipeJournal(t) \/ RemoveOld(t))
      BY <1>0, <1>7, <3>3, Zenon DEF LockedPersistStep, PersistNewJournal, PersistOpenTmp, PersistCloseTmp,
          SwitchNoExist, SwitchExist, JournalMoving, RenameDbToOld, JournalMovedExisting,
          RenameTmpToDb, JournalMovedNew, Goto, WalRemovedPC, TypeOK
    <3> QED BY <3>1, <3>2, <3>3, Zenon
  <2>3. \A u \in Threads : pc'[u] \in WalRemovedPC => u = t
    BY <2>1, Zenon DEF WalRemovedPC, LockedPC, PersistPC
  <2>4. pc'[t] \notin {"idle", "unlocked"}
    BY <2>1, Zenon DEF LockedPC, PersistPC
  <2> QED BY <2>1, <2>2, <2>3, <2>4, Zenon DEF StopInv
<1>8. CASE PreDatabaseLoad \/ LoadAndRecover \/ Exit \/ Crash
  <2>1. up' # "stopping" /\ \A u \in Threads : pc'[u] = "idle"
    <3>1. CASE PreDatabaseLoad \/ LoadAndRecover
      <4>1. up \notin {"running", "stopping"} /\ pc' = pc /\ up' # "stopping"
        BY <3>1, Zenon DEF PreDatabaseLoad, PreLoadNothing, PreLoadRemoveWal, PreLoadRestoreOld,
            PreLoadFail, RefuseToStart, FinishPreLoad, LoadAndRecover, threadVars, NotRunning
      <4> QED BY <1>0, <4>1, Zenon DEF ProcessInv, AllIdle
    <3>2. CASE Exit \/ Crash
      BY <3>2, Zenon DEF Exit, Crash, LoseMemory
    <3> QED BY <1>8, <3>1, <3>2, Zenon
  <2> QED BY <2>1, Zenon DEF StopInv, WalRemovedPC
<1>9. CASE UNCHANGED vars
  <2>1. UNCHANGED <<pc, wal, up>>
    BY <1>9, Zenon DEF vars, files, threadVars
  <2> QED BY <1>9, <2>1, StutterKeepsRecovery, Zenon DEF StopInv, Content, Writing
<1>10. ASSUME NEW t \in Threads, PersistStep(t)
      PROVE  \/ PersistLockAll(t) \/ PersistUnlockAll(t) \/ PersistReopenWal(t)
             \/ LockedPersistStep(t)
  BY <1>10, Zenon DEF PersistStep, LockedPersistStep
<1> QED BY <1>1, <1>2, <1>3, <1>4, <1>5, <1>6, <1>7, <1>8, <1>9, <1>10, Zenon DEF Next

LEMMA InitStop == Init => StopInv
  BY Zenon DEF Init, StopInv, WalRemovedPC

\* A server with a database file that stops cleanly leaves files from which a
\* start restores exactly the databases that were in memory, whatever crashes
\* and unfinished persists came before.
THEOREM CleanStopSaves == HasDbFile => (Spec => CleanStopSavesAll)
<1> SUFFICES ASSUME HasDbFile PROVE Spec => CleanStopSavesAll
  BY Zenon
<1>1. Init => IInv /\ ContentInv /\ StopInv
  BY InitIInv, InitContent, InitStop, Zenon
<1>2. (IInv /\ ContentInv /\ StopInv) /\ [Next]_vars => (IInv /\ ContentInv /\ StopInv)'
  BY NextIInv, NextContent, NextStop, Zenon
<1>3. StopInv /\ [Next]_vars => [Exit => Recovery = mem]_vars
  BY Zenon DEF StopInv, Exit, AllIdle
<1> QED BY <1>1, <1>2, <1>3, PTL DEF Spec, CleanStopSavesAll

\* Without a database file the WAL of a process that runs is never closed, and
\* holds every write applied or being executed.
LogInv ==
    ~HasDbFile /\ up \in {"running", "stopping"} =>
        /\ stream = "linked"
        /\ Range(mem) \subseteq Range(Content(wal))
        /\ \A t \in Threads : Writing(t) => cur[t] \in Range(Content(wal))

LEMMA NextLog ==
    ASSUME IInv, ContentInv, LogInv, [Next]_vars
    PROVE  LogInv'
<1>0. /\ TypeOK /\ ProcessInv /\ MutexInv
  BY Zenon DEF IInv, JournalProtocol
<1> SUFFICES ASSUME ~HasDbFile, up' \in {"running", "stopping"}
             PROVE  /\ stream' = "linked"
                    /\ Range(mem)' \subseteq Range(Content(wal))'
                    /\ \A t \in Threads : Writing(t)' => cur'[t] \in Range(Content(wal))'
  BY Zenon DEF LogInv
<1>a. up \in {"running", "stopping"} =>
        /\ stream = "linked"
        /\ Range(mem) \subseteq Range(Content(wal))
        /\ \A t \in Threads : Writing(t) => cur[t] \in Range(Content(wal))
  BY Zenon DEF LogInv
<1>1. ASSUME NEW t \in Threads, NEW D \in Scopes, BeginWrite(t, D)
      PROVE  /\ stream' = "linked" /\ Range(mem)' \subseteq Range(Content(wal))'
             /\ \A u \in Threads : Writing(u)' => cur'[u] \in Range(Content(wal))'
  <2>1. PICK op \in Op : op = <<D, nextId>>
    BY <1>0, Zenon DEF Op, TypeOK
  <2>2. /\ up = "running" /\ UNCHANGED <<mem, stream>> /\ stream = "linked" /\ wal \in Seq(Op)
        /\ Content(wal) = wal /\ wal' = Append(wal, op)
        /\ pc' = [pc EXCEPT ![t] = "write"] /\ cur' = [cur EXCEPT ![t] = op]
    BY <1>0, <1>a, <1>1, <2>1, Zenon DEF BeginWrite, ProcessInv, TypeOK, Content
  <2>3. Range(Content(wal)') = Range(Content(wal)) \cup {op}
    <3>1. wal' \in Seq(Op) /\ Range(wal') = Range(wal) \cup {op}
      BY <2>2, RangeAppend, Zenon
    <3>2. Content(wal)' = wal'
      BY <3>1, PersistJournalAssumption, Zenon DEF Content
    <3> QED BY <2>2, <3>1, <3>2, Zenon
  <2>4. \A u \in Threads : Writing(u)' => cur'[u] = op \/ (Writing(u) /\ cur'[u] = cur[u])
    BY <1>0, <2>2, Zenon DEF TypeOK, Writing
  <2> QED BY <1>a, <2>2, <2>3, <2>4, Zenon
<1>2. ASSUME NEW t \in Threads, EndWrite(t)
      PROVE  /\ stream' = "linked" /\ Range(mem)' \subseteq Range(Content(wal))'
             /\ \A u \in Threads : Writing(u)' => cur'[u] \in Range(Content(wal))'
  <2>1. UNCHANGED <<wal, stream, up>> /\ Content(wal)' = Content(wal)
    BY <1>2, Zenon DEF EndWrite, files, Content
  <2>2. /\ Range(mem)' = Range(mem) \cup {cur[t]} /\ Writing(t)
        /\ \A u \in Threads : Writing(u)' => Writing(u) /\ cur'[u] = cur[u]
    BY <1>2, EndWriteApplies, Zenon
  <2> QED BY <1>a, <2>1, <2>2, Zenon
<1>3. ASSUME NEW t \in Threads, Stop(t)
      PROVE  /\ stream' = "linked" /\ Range(mem)' \subseteq Range(Content(wal))'
             /\ \A u \in Threads : Writing(u)' => cur'[u] \in Range(Content(wal))'
  <2>1. UNCHANGED <<wal, stream, mem, pc, cur>> /\ up = "running"
    BY <1>3, Zenon DEF Stop, files
  <2> QED BY <1>a, <2>1, Zenon DEF Content, Writing
<1>4. ASSUME NEW t \in Threads PROVE ~PersistCloseWal(t) /\ ~PersistStep(t)
  <2>1. pc[t] \notin PersistPC
    BY <1>0, Zenon DEF ProcessInv
  <2> QED BY <2>1, Zenon DEF PersistCloseWal, PersistStep, PersistLockAll, PersistNewJournal, PersistOpenTmp,
          PersistCloseTmp, SwitchNoExist, SwitchExist, JournalMoving, RenameDbToOld,
          JournalMovedExisting, RenameTmpToDb, JournalMovedNew, RemoveWal, WipeJournal, RemoveOld,
          PersistUnlockAll, PersistReopenWal, Goto, PersistPC
<1>5. CASE LoadAndRecover
  <2>1. stream' = "linked" /\ mem' = <<>> \o Content(wal) /\ pc' = pc /\ up = "loading"
    BY <1>5, Zenon DEF LoadAndRecover, threadVars
  <2>2. mem' = Content(wal) /\ Content(wal)' = Content(wal)
    <3>1. Content(wal) \in Seq(Op)
      BY <1>0, ContentType, Zenon DEF TypeOK
    <3>2. <<>> \o Content(wal) = Content(wal)
      BY <3>1
    <3> QED BY <1>5, <2>1, <3>2, LoadRestores, Zenon
  <2>3. \A u \in Threads : ~Writing(u)'
    BY <1>0, <2>1, Zenon DEF ProcessInv, AllIdle, Writing
  <2> QED BY <2>1, <2>2, <2>3, Zenon
<1>6. CASE PreDatabaseLoad \/ Exit \/ Crash
  BY <1>6, Zenon DEF PreDatabaseLoad, PreLoadNothing, PreLoadRemoveWal, PreLoadRestoreOld, PreLoadFail,
      RefuseToStart, FinishPreLoad, Exit, Crash, LoseMemory
<1>7. CASE UNCHANGED vars
  BY <1>a, <1>7, Zenon DEF vars, files, threadVars, Content, Writing
<1> QED BY <1>1, <1>2, <1>3, <1>4, <1>5, <1>6, <1>7, Zenon DEF Next

\* A clean shutdown leaves files that hold exactly the writes that were in memory.
CleanStopKeepsWrites == [][Exit => Range(Recovery) = Range(mem)]_vars

\* With or without a database file, a clean shutdown keeps every write and adds
\* none.  Without one the WAL is all there is, and it may hold two concurrent
\* writes to different databases in the other order.
THEOREM CleanStopKeeps == Spec => CleanStopKeepsWrites
<1>1. Init => IInv /\ ContentInv /\ StopInv /\ LogInv
  <2>1. Init => LogInv
    BY Zenon DEF Init, LogInv
  <2> QED BY <2>1, InitIInv, InitContent, InitStop, Zenon
<1>2. (IInv /\ ContentInv /\ StopInv /\ LogInv) /\ [Next]_vars
        => (IInv /\ ContentInv /\ StopInv /\ LogInv)'
  BY NextIInv, NextContent, NextStop, NextLog, Zenon
<1>3. IInv /\ ContentInv /\ StopInv /\ LogInv => [Exit => Range(Recovery) = Range(mem)]_vars
  <2> SUFFICES ASSUME IInv, ContentInv, StopInv, LogInv, Exit
               PROVE  Range(Recovery) = Range(mem)
    BY Zenon
  <2>1. up = "stopping" /\ \A t \in Threads : pc[t] = "idle"
    BY Zenon DEF Exit, AllIdle
  <2>2. CASE HasDbFile
    BY <2>1, <2>2, Zenon DEF StopInv
  <2>3. CASE ~HasDbFile
    <3>1. ~DropsWal
      BY <2>3, Zenon DEF DropsWal
    <3>2. Range(Recovery) = Range(Content(SnapshotFile)) \cup Range(Content(wal))
      BY <3>1, RecoveryRange, Zenon DEF IInv
    <3>3. Range(Content(SnapshotFile)) \subseteq Range(mem) /\ Range(Content(wal)) \subseteq Range(mem)
      BY <2>1, Zenon DEF ContentInv, KnownInv, Writing
    <3>4. Range(mem) \subseteq Range(Content(wal))
      BY <2>1, <2>3, Zenon DEF LogInv
    <3> QED BY <3>2, <3>3, <3>4, Zenon
  <2> QED BY <2>2, <2>3, Zenon
<1> QED BY <1>1, <1>2, <1>3, PTL DEF Spec, CleanStopKeepsWrites
=============================================================================
