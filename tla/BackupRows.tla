----------------------------- MODULE BackupRows -----------------------------
(***************************************************************************)
(* The `backup` table and the queries the program runs on it.              *)
(*                                                                         *)
(* A row is one moment in one file's history.  The table is a set of rows; *)
(* `rank` stands for SQLite's rowid: the only order of rowids a query can  *)
(* observe is the order among rows of one file that carry the same date,   *)
(* because the index (filename, date DESC) breaks its ties by rowid.       *)
(* Retention decides by (file, date) alone, so it removes all the rows of  *)
(* one file and date or none, and the ranks of a group stay gap-free.      *)
(*                                                                         *)
(* Modelled from src/backup_db.cpp.                                        *)
(***************************************************************************)
EXTENDS Integers, FiniteSets

CONSTANTS
    CharFiles,      \* names ending in .d2s
    StashFiles,     \* names ending in .d2i
    NoData,         \* the NULL of the data and checksum columns (tombstones)
    NoRow,          \* the empty std::optional<Row>
    SecondsPerDay   \* 86400 in the code

Files == CharFiles \cup StashFiles

ASSUME FilesAssumption ==
    /\ CharFiles \cap StashFiles = {}
    /\ SecondsPerDay \in Nat \ {0}

\* BackupDb::State
State == {"Deleted", "SaveAndExit", "Autosave", "Startup", "Other"}

\* The rows over a set of file contents.  Dates are unix seconds.
Row(Contents) ==
    [file: Files, rank: Nat, date: Nat, state: State,
     data: Contents \cup {NoData}]

\* A retention policy: RetentionConfig.
Retention == [days: Nat, sessions: Nat]

-----------------------------------------------------------------------------
(***************************************************************************)
(* Queries                                                                 *)
(***************************************************************************)

RowsOf(rows, f) == {r \in rows : r.file = f}

\* The order in which `ORDER BY date DESC` yields the rows of one file.
Precedes(r, s) ==
    \/ r.date > s.date
    \/ r.date = s.date /\ r.rank < s.rank

\* r is what `WHERE filename = f AND date <= ask ORDER BY date DESC LIMIT 1`
\* returns.
IsAt(rows, f, ask, r) ==
    /\ r \in RowsOf(rows, f)
    /\ r.date <= ask
    /\ \A s \in RowsOf(rows, f) : s.date <= ask => s = r \/ Precedes(r, s)

At(rows, f, ask) ==
    IF \E r \in rows : IsAt(rows, f, ask, r)
    THEN CHOOSE r \in rows : IsAt(rows, f, ask, r)
    ELSE NoRow

\* The newest row of f: newest by date, which need not be the one inserted last.
NewestRow(rows, f) ==
    IF \E r \in rows : IsAt(rows, f, r.date, r) /\ \A s \in RowsOf(rows, f) : s.date <= r.date
    THEN CHOOSE r \in rows :
            IsAt(rows, f, r.date, r) /\ \A s \in RowsOf(rows, f) : s.date <= r.date
    ELSE NoRow

-----------------------------------------------------------------------------
(***************************************************************************)
(* Writes                                                                  *)
(***************************************************************************)

\* Fault: a tombstone whose data column is not NULL.
FaultTombstone(rows, f, d) ==
    [file |-> f, date |-> d, state |-> "Deleted", data |-> NoRow,
     rank |-> Cardinality({r \in rows : r.file = f /\ r.date = d})]

\* The row INSERT adds: its rowid is larger than those already there.
NewRow(rows, f, d, st, c) ==
    [file |-> f, date |-> d, state |-> st, data |-> c,
     rank |-> Cardinality({r \in rows : r.file = f /\ r.date = d})]

Tombstone(rows, f, d) == NewRow(rows, f, d, "Deleted", NoData)

-----------------------------------------------------------------------------
(***************************************************************************)
(* Retention: the keep-set of enforceRetention                             *)
(***************************************************************************)

\* Faults for the runs' mutants: the comparison of rule (a) turned around; rule
\* (b) keeping the cutoff row itself; a count of 0 read as "unlimited"; rule (c)
\* with the range of every character row instead of the kept ones.
FaultOlderThanDays(r, days, now) ==
    days > 0 /\ r.date <= now - days * SecondsPerDay

FaultExitsAfter(rows, r) ==
    {s \in rows : s.file = r.file /\ s.state = "SaveAndExit" /\ s.date > r.date}

FaultZeroIsUnlimited(rows, r, sessions) ==
    /\ r.file \in CharFiles
    /\ \/ sessions = 0
       \/ Cardinality({s \in rows : /\ s.file = r.file
                                   /\ s.state = "SaveAndExit"
                                   /\ s.date >= r.date}) <= sessions

FaultAnyCharRange(rows, r, sessions) ==
    /\ r.file \in StashFiles
    /\ sessions > 0
    /\ \E lo, hi \in rows :
          /\ lo.file \in CharFiles
          /\ lo.file = hi.file
          /\ lo.date <= r.date
          /\ r.date <= hi.date

\* Rule (a): rows within `days` of now; no row at all when days = 0, because
\* the cutoff is then the largest int64.
WithinDays(r, days, now) ==
    days > 0 /\ r.date >= now - days * SecondsPerDay

\* The save-and-exit rows of r's file that are not older than r.
ExitsSince(rows, r) ==
    {s \in rows : s.file = r.file /\ s.state = "SaveAndExit" /\ s.date >= r.date}

\* Rule (b): r.date lies after the (sessions+1)-th newest save-and-exit date of
\* its file, i.e. at most `sessions` of them are not older than r.
WithinSessions(rows, r, sessions) ==
    /\ r.file \in CharFiles
    /\ sessions > 0
    /\ Cardinality(ExitsSince(rows, r)) <= sessions

\* Rule (c): a stash row inside the date range of some character's rule-(b) rows.
WithinCharRange(rows, r, sessions) ==
    /\ r.file \in StashFiles
    /\ \E lo, hi \in rows :
          /\ lo.file = hi.file
          /\ WithinSessions(rows, lo, sessions)
          /\ WithinSessions(rows, hi, sessions)
          /\ lo.date <= r.date
          /\ r.date <= hi.date

Kept(rows, r, days, sessions, now) ==
    \/ WithinDays(r, days, now)
    \/ WithinSessions(rows, r, sessions)
    \/ WithinCharRange(rows, r, sessions)

Retained(rows, days, sessions, now) ==
    {r \in rows : Kept(rows, r, days, sessions, now)}
=============================================================================
