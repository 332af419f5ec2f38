---------------------------- MODULE BackupThreads ----------------------------
(***************************************************************************)
(* The backup table at the grain of SQL statements.  The dashboard opens   *)
(* one SQLite connection and uses it from two threads: the watcher thread  *)
(* (handleWatcherEvents) and the UI thread (recoverFile, which takes a     *)
(* manual snapshot).  Both do the same: insert a row for each file that    *)
(* changed, and then enforce retention, which reads the table, decides,    *)
(* and only then opens the transaction it deletes in.  A `d2rsave backups` *)
(* process may hold the database's write lock; no busy timeout is set, so  *)
(* that a statement that needs the lock fails at once.                     *)
(*                                                                         *)
(* SQLite serialises the statements of a connection; each is one step.     *)
(* Which rows retention condemns is BackupRows' subject: here a row is     *)
(* born condemned or not (a save whose header time is older than the       *)
(* retention window is).                                                   *)
(*                                                                         *)
(* Modelled from src/backup_db.cpp and src/backup_scheduler.cpp.           *)
(***************************************************************************)
EXTENDS Integers, FiniteSets

CONSTANTS
    Threads,       \* threads that share the connection
    Nobody,        \* no thread
    OldInserts,    \* rows that retention condemns may be inserted
    OtherProcess,  \* another process writes to the database
    MaxSerial      \* bound: rows ever written

ASSUME ThreadsAssumption ==
    /\ Nobody \notin Threads
    /\ OldInserts \in BOOLEAN
    /\ OtherProcess \in BOOLEAN
    /\ MaxSerial \in Nat \ {0}

VARIABLES
    tbl,       \* the table, as the connection sees it
    base,      \* the table when the transaction began: what ROLLBACK restores
    owner,     \* thread whose BEGIN is open
    lock,      \* who holds the write lock
    pc,        \* where each thread is
    loaded,    \* rows the thread's enforceRetention has still to delete
    serial,    \* number of rows the threads have tried to insert
    reported,  \* ghost: rows whose insert was reported (onInsert)
    condemned  \* ghost: rows that fail the retention rules

threadVars == <<tbl, base, owner, lock, pc, loaded, serial, reported, condemned>>

\* id is the rowid; `row` tells rows apart that got the same rowid.
TableRow == [id: Nat, row: 1..MaxSerial]

ThreadsTypeOK ==
    /\ tbl \subseteq TableRow
    /\ base \subseteq TableRow
    /\ owner \in Threads \cup {Nobody}
    /\ lock \in {"free", "connection", "other"}
    /\ pc \in [Threads -> {"files", "load", "begin", "delete", "rollback"}]
    /\ loaded \in [Threads -> SUBSET TableRow]
    /\ serial \in 1..MaxSerial
    /\ reported \subseteq 1..MaxSerial
    /\ condemned \subseteq 1..MaxSerial

\* Rows of earlier runs, some of them due to be deleted.
ThreadsInit ==
    /\ serial \in 1..MaxSerial
    /\ condemned \in SUBSET (1..serial)
    /\ OldInserts \/ serial \notin condemned
    /\ reported = 1..serial
    /\ tbl = {[id |-> n, row |-> n] : n \in 1..serial}
    /\ base = tbl
    /\ owner = Nobody
    /\ lock = "free"
    /\ pc = [t \in Threads |-> "files"]
    /\ loaded = [t \in Threads |-> {}]

-----------------------------------------------------------------------------
Goto(t, label) == pc' = [pc EXCEPT ![t] = label]

\* rowid of the next row: one more than the largest in use.
IsNextId(i) ==
    /\ \A r \in tbl : r.id < i
    /\ i = 1 \/ \E r \in tbl : r.id = i - 1

\* A statement that writes: within a transaction the connection keeps the lock.
LockAfterWrite == IF owner # Nobody THEN "connection" ELSE lock

\* The loop over the files of a burst or snapshot: writeFileAsState inserts a row
\* and reports it, or the insert fails, which is logged and swallowed ...
InsertRow(t) ==
    /\ pc[t] = "files"
    /\ serial < MaxSerial
    /\ lock # "other"
    /\ serial' = serial + 1
    /\ \E i \in 1..MaxSerial :
          /\ IsNextId(i)
          /\ tbl' = tbl \cup {[id |-> i, row |-> serial']}
    /\ condemned' \in {condemned} \cup (IF OldInserts THEN {condemned \cup {serial'}} ELSE {})
    /\ reported' = reported \cup {serial'}
    /\ lock' = LockAfterWrite
    /\ UNCHANGED <<base, owner, pc, loaded>>

InsertBusy(t) ==
    /\ pc[t] = "files"
    /\ serial < MaxSerial
    /\ lock = "other"
    /\ serial' = serial + 1
    /\ UNCHANGED <<tbl, base, owner, lock, pc, loaded, reported, condemned>>

\* ... until there are no more files that changed.
EndFiles(t) ==
    /\ pc[t] = "files"
    /\ Goto(t, "load")
    /\ UNCHANGED <<tbl, base, owner, lock, loaded, serial, reported, condemned>>

\* enforceRetention: SELECT every row and decide which to keep.
Load(t) ==
    /\ pc[t] = "load"
    /\ loaded' = [loaded EXCEPT ![t] = {r \in tbl : r.row \in condemned}]
    /\ Goto(t, IF tbl = {} THEN "files" ELSE "begin")
    /\ UNCHANGED <<tbl, base, owner, lock, serial, reported, condemned>>

\* Fault: BEGIN inside the try block, so that a nested BEGIN rolls back.
FaultBegin(t) ==
    /\ pc[t] = "begin"
    /\ IF owner # Nobody
       THEN /\ Goto(t, "rollback")
            /\ UNCHANGED <<base, owner>>
       ELSE /\ owner' = t
            /\ base' = tbl
            /\ Goto(t, "delete")
    /\ UNCHANGED <<tbl, lock, loaded, serial, reported, condemned>>

\* BEGIN fails when the other thread's transaction is open on the connection:
\* the exception leaves enforceRetention and runRetention swallows it.
Begin(t) ==
    /\ pc[t] = "begin"
    /\ IF owner # Nobody
       THEN /\ Goto(t, "files")
            /\ UNCHANGED <<base, owner>>
       ELSE /\ owner' = t
            /\ base' = tbl
            /\ Goto(t, "delete")
    /\ UNCHANGED <<tbl, lock, loaded, serial, reported, condemned>>

\* Fault: a failed DELETE leaves without the ROLLBACK.
FaultDeleteBusy(t) ==
    /\ pc[t] = "delete"
    /\ loaded[t] # {}
    /\ lock = "other"
    /\ Goto(t, "files")
    /\ UNCHANGED <<tbl, base, owner, lock, loaded, serial, reported, condemned>>

\* DELETE FROM backup WHERE rowid = ?
Delete(t) ==
    /\ pc[t] = "delete"
    /\ lock # "other"
    /\ \E gone \in loaded[t] :
          /\ tbl' = {r \in tbl : r.id # gone.id}
          /\ loaded' = [loaded EXCEPT ![t] = @ \ {gone}]
    /\ lock' = LockAfterWrite
    /\ UNCHANGED <<base, owner, pc, serial, reported, condemned>>

DeleteBusy(t) ==
    /\ pc[t] = "delete"
    /\ loaded[t] # {}
    /\ lock = "other"
    /\ Goto(t, "rollback")
    /\ UNCHANGED <<tbl, base, owner, lock, loaded, serial, reported, condemned>>

Release == lock' = IF lock = "connection" THEN "free" ELSE lock

\* COMMIT; without an open transaction it fails.
Commit(t) ==
    /\ pc[t] = "delete"
    /\ loaded[t] = {}
    /\ Goto(t, IF owner = Nobody THEN "rollback" ELSE "files")
    /\ owner' = Nobody
    /\ Release
    /\ UNCHANGED <<tbl, base, loaded, serial, reported, condemned>>

\* ROLLBACK undoes what either thread wrote since BEGIN.
Rollback(t) ==
    /\ pc[t] = "rollback"
    /\ tbl' = IF owner = Nobody THEN tbl ELSE base
    /\ owner' = Nobody
    /\ Release
    /\ loaded' = [loaded EXCEPT ![t] = {}]
    /\ Goto(t, "files")
    /\ UNCHANGED <<base, serial, reported, condemned>>

\* `d2rsave backups prune`, `snapshot` or `recover` writes, or checkpoints.
TakeLock ==
    /\ OtherProcess
    /\ lock = "free"
    /\ lock' = "other"
    /\ UNCHANGED <<tbl, base, owner, pc, loaded, serial, reported, condemned>>

DropLock ==
    /\ lock = "other"
    /\ lock' = "free"
    /\ UNCHANGED <<tbl, base, owner, pc, loaded, serial, reported, condemned>>

ThreadsNext ==
    \/ \E t \in Threads :
          \/ InsertRow(t) \/ InsertBusy(t) \/ EndFiles(t)
          \/ Load(t) \/ Begin(t) \/ Delete(t) \/ DeleteBusy(t) \/ Commit(t) \/ Rollback(t)
    \/ TakeLock
    \/ DropLock

ThreadsSpec == ThreadsInit /\ [][ThreadsNext]_threadVars

-----------------------------------------------------------------------------
(***************************************************************************)
(* Properties                                                              *)
(***************************************************************************)

Stored(n) == \E r \in tbl : r.row = n

\* "Delete rows that fail both the date rule ... and the session rule"
\* (BackupDb.hpp): retention deletes no row that passes them, although a thread
\* deletes by the rowids it read before its transaction began, the other thread
\* inserts and deletes in between, and SQLite uses the largest rowid again.
DeletesOnlyCondemned ==
    \A n \in reported \ condemned : Stored(n)

\* A connection on which no thread is in enforceRetention is in no transaction:
\* a transaction left open would take in all later inserts, and a crash would
\* lose them.
TransactionEnds ==
    (\A t \in Threads : pc[t] \notin {"delete", "rollback"})
        => owner = Nobody /\ lock # "connection"

-----------------------------------------------------------------------------
(***************************************************************************)
(* Why DeletesOnlyCondemned holds as long as nothing condemned is inserted *)
(* and no other process writes                                             *)
(***************************************************************************)

\* The transaction belongs to the thread that deletes; nothing fails.
Exclusive ==
    /\ lock # "other"
    /\ \A t \in Threads : pc[t] # "rollback" /\ (pc[t] = "delete" <=> owner = t)

RowidsUnique == \A r, s \in tbl : r.id = s.id => r = s

\* What a thread is going to delete is condemned, and its rowid is not used again.
LoadedIsCondemned ==
    \A t \in Threads : \A gone \in loaded[t] :
        /\ gone.row \in condemned
        /\ \A r \in tbl : r.id = gone.id => r = gone

\* Because a row that is not condemned keeps the largest rowid.
NewestStays ==
    \E newest \in tbl :
        /\ newest.row \notin condemned
        /\ \A r \in tbl : r.id <= newest.id
        /\ \A t \in Threads : \A gone \in loaded[t] : gone.id < newest.id

\* The inductive invariant.
Inv ==
    /\ ThreadsTypeOK
    /\ condemned \cup reported \subseteq 1..serial
    /\ Exclusive
    /\ RowidsUnique
    /\ LoadedIsCondemned
    /\ NewestStays
    /\ DeletesOnlyCondemned
=============================================================================
