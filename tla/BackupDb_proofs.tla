--------------------------- MODULE BackupDb_proofs ---------------------------
(***************************************************************************)
(* Theorems about the backup table, for every set of files, contents,      *)
(* policies and threads and every bound: first about its rows, what        *)
(* retention keeps of them (BackupDb), then about the statements by which  *)
(* several threads write it on one connection (BackupThreads).             *)
(***************************************************************************)
EXTENDS BackupDb, BackupThreads, FiniteSetTheorems, TLAPS

-----------------------------------------------------------------------------
(***************************************************************************)
(* Rows                                                                    *)
(***************************************************************************)

\* A row that INSERT adds to a finite table is a row: the number of rows before
\* it with its file and date is a natural number.
LEMMA NewRowType ==
    ASSUME NEW table, IsFiniteSet(table),
           NEW f \in Files, NEW d \in Nat, NEW st \in State,
           NEW c \in Contents \cup {NoData}
    PROVE  NewRow(table, f, d, st, c) \in Row(Contents)
<1>1. IsFiniteSet({r \in table : r.file = f /\ r.date = d})
    BY FS_Subset
<1>2. Cardinality({r \in table : r.file = f /\ r.date = d}) \in Nat
    BY <1>1, FS_CardinalityType
<1> QED
    BY <1>2 DEF NewRow, Row

\* The table stays a finite set of rows, whatever is inserted and pruned.
THEOREM TypeCorrect == Spec => []TypeOK
<1> USE DbAssumption, FilesAssumption
<1>1. Init => TypeOK
    BY FS_EmptySet DEF Init, TypeOK
<1>2. TypeOK /\ [Next]_vars => TypeOK'
    <2> SUFFICES ASSUME TypeOK, [Next]_vars
                 PROVE  TypeOK'
        OBVIOUS
    <2> USE DEF TypeOK
    <2>1. CASE Tick
        BY <2>1 DEF Tick
    <2>2. ASSUME NEW f \in Files, NEW d \in 0..now, NEW st \in Tags, NEW c \in Contents,
                 Insert(f, d, st, c)
          PROVE  TypeOK'
        <3>1. NewRow(rows, f, d, st, c) \in Row(Contents)
            BY NewRowType
        <3> QED
            BY <2>2, <3>1, FS_AddElement DEF Insert
    <2>3. ASSUME NEW f \in Files, NEW d \in 0..now, InsertTombstone(f, d)
          PROVE  TypeOK'
        <3>1. Tombstone(rows, f, d) \in Row(Contents)
            BY NewRowType DEF Tombstone, State
        <3> QED
            BY <2>3, <3>1, FS_AddElement DEF InsertTombstone
    <2>4. ASSUME NEW p \in Policies, EnforceRetention(p)
          PROVE  TypeOK'
        <3>1. rows' \subseteq rows
            BY <2>4 DEF EnforceRetention, Retained
        <3> QED
            BY <2>4, <3>1, FS_Subset DEF EnforceRetention
    <2>5. CASE UNCHANGED vars
        BY <2>5 DEF vars
    <2> QED
        BY <2>1, <2>2, <2>3, <2>4, <2>5 DEF Next
<1> QED
    BY <1>1, <1>2, PTL DEF Spec

-----------------------------------------------------------------------------
(***************************************************************************)
(* Point-in-time queries                                                   *)
(***************************************************************************)

\* The row a query returns is unique, so that At is that row.
LEMMA AtIsThatRow ==
    ASSUME NEW table, table \subseteq Row(Contents), NEW f, NEW ask \in Nat,
           NEW r, IsAt(table, f, ask, r)
    PROVE  At(table, f, ask) = r
<1>1. r \in table
    BY DEF IsAt, RowsOf
<1>2. ASSUME NEW s \in table, IsAt(table, f, ask, s)
      PROVE  s = r
    <2>1. r.date \in Nat /\ s.date \in Nat /\ r.rank \in Nat /\ s.rank \in Nat
        BY <1>1 DEF Row
    <2>2. (s = r \/ Precedes(r, s)) /\ (r = s \/ Precedes(s, r))
        BY <1>2 DEF IsAt, RowsOf
    <2> QED
        BY <2>1, <2>2 DEF Precedes
<1> QED
    BY <1>1, <1>2 DEF At

\* No character row is kept without every later row of the same file: rules (a)
\* and (b) agree on what "older" means.
LEMMA KeptIsUpwardClosed ==
    ASSUME NEW table, table \subseteq Row(Contents), IsFiniteSet(table),
           NEW days \in Nat, NEW sessions \in Nat, NEW t \in Nat,
           NEW r \in table, NEW s \in table,
           r.file \in CharFiles, s.file = r.file, s.date >= r.date,
           Kept(table, r, days, sessions, t)
    PROVE  Kept(table, s, days, sessions, t)
<1> USE FilesAssumption
<1>1. r.date \in Nat /\ s.date \in Nat
    BY DEF Row
<1>2. CASE WithinDays(r, days, t)
    <2>1. PICK c \in Int : c = t - days * SecondsPerDay
        OBVIOUS
    <2>2. WithinDays(s, days, t)
        BY <1>1, <1>2, <2>1 DEF WithinDays
    <2> QED
        BY <2>2 DEF Kept
<1>3. CASE WithinSessions(table, r, sessions)
    <2>1. \A e \in table : e.date \in Nat
        BY DEF Row
    <2>2. ExitsSince(table, s) \subseteq ExitsSince(table, r)
        BY <1>1, <2>1 DEF ExitsSince
    <2>3. IsFiniteSet(ExitsSince(table, r))
        BY FS_Subset DEF ExitsSince
    <2>4. /\ Cardinality(ExitsSince(table, s)) <= Cardinality(ExitsSince(table, r))
          /\ Cardinality(ExitsSince(table, s)) \in Nat
          /\ Cardinality(ExitsSince(table, r)) \in Nat
        BY <2>2, <2>3, FS_Subset, FS_CardinalityType
    <2> QED
        BY <1>3, <2>4 DEF Kept, WithinSessions
<1>4. CASE WithinCharRange(table, r, sessions)
    BY <1>4 DEF WithinCharRange
<1> QED
    BY <1>2, <1>3, <1>4 DEF Kept

\* So pruning does not change which row answers a query about a character, as
\* long as some row at or before the asked time is left.
LEMMA SameRowAnswers ==
    ASSUME NEW table, table \subseteq Row(Contents), IsFiniteSet(table),
           NEW days \in Nat, NEW sessions \in Nat, NEW t \in Nat,
           NEW f \in CharFiles, NEW ask \in Nat,
           NEW left \in Retained(table, days, sessions, t),
           left.file = f, left.date <= ask,
           NEW r
    PROVE  IsAt(table, f, ask, r) <=> IsAt(Retained(table, days, sessions, t), f, ask, r)
<1> DEFINE kept == Retained(table, days, sessions, t)
<1>1. /\ kept \subseteq table
      /\ \A s \in table : s \in kept <=> Kept(table, s, days, sessions, t)
    BY DEF Retained
<1>2. \A s \in table : s.date \in Nat
    BY DEF Row
<1>3. ASSUME IsAt(table, f, ask, r)
      PROVE  IsAt(kept, f, ask, r)
    <2>1. r \in table /\ r.file = f /\ r.date <= ask
        BY <1>3 DEF IsAt, RowsOf
    <2>2. left = r \/ Precedes(r, left)
        BY <1>1, <1>3 DEF IsAt, RowsOf
    <2>3. r.date >= left.date
        BY <1>1, <1>2, <2>1, <2>2 DEF Precedes
    <2>4. r \in kept
        BY <1>1, <2>1, <2>3, KeptIsUpwardClosed
    <2> QED
        BY <1>1, <1>3, <2>1, <2>4 DEF IsAt, RowsOf
<1>4. ASSUME IsAt(kept, f, ask, r)
      PROVE  IsAt(table, f, ask, r)
    <2>1. r \in kept /\ r \in table /\ r.file = f /\ r.date <= ask
        BY <1>1, <1>4 DEF IsAt, RowsOf
    <2>2. ASSUME NEW s \in table, s.file = f, s.date <= ask
          PROVE  s = r \/ Precedes(r, s)
        <3>1. CASE s \in kept
            BY <1>4, <2>2, <3>1 DEF IsAt, RowsOf
        <3>2. CASE s \notin kept
            <4>1. ~ (s.date >= r.date)
                BY <1>1, <2>1, <2>2, <3>2, KeptIsUpwardClosed
            <4> QED
                BY <1>2, <2>1, <4>1 DEF Precedes
        <3> QED
            BY <3>1, <3>2
    <2> QED
        BY <2>1, <2>2 DEF IsAt, RowsOf
<1> QED
    BY <1>3, <1>4

\* Retention never changes the answer of a point-in-time query about a character
\* at a moment the surviving history covers.
THEOREM RetentionKeepsAnswers == Spec => RetentionKeepsCharAnswers
<1> USE DbAssumption
<1>1. TypeOK /\ [Next]_vars =>
        [(\E p \in Policies : EnforceRetention(p)) => PointInTimeKept(CharFiles)]_vars
    <2> SUFFICES ASSUME TypeOK,
                        NEW p \in Policies, EnforceRetention(p),
                        NEW f \in CharFiles, NEW ask \in 0..now,
                        NEW left \in rows', left.file = f, left.date <= ask
                 PROVE  At(rows', f, ask) = At(rows, f, ask)
        BY DEF PointInTimeKept
    <2>1. /\ rows \subseteq Row(Contents)
          /\ IsFiniteSet(rows)
          /\ now \in Nat
          /\ ask \in Nat
          /\ p.days \in Nat
          /\ p.sessions \in Nat
        BY DEF TypeOK, Retention
    <2>2. rows' = Retained(rows, p.days, p.sessions, now)
        BY DEF EnforceRetention
    <2>3. rows' \subseteq Row(Contents)
        BY <2>1, <2>2 DEF Retained
    <2>4. \A r : IsAt(rows, f, ask, r) <=> IsAt(rows', f, ask, r)
        BY <2>1, <2>2, SameRowAnswers
    <2>5. CASE \E r : IsAt(rows, f, ask, r)
        <3>1. PICK r : IsAt(rows, f, ask, r)
            BY <2>5
        <3> QED
            BY <2>1, <2>3, <2>4, <3>1, AtIsThatRow
    <2>6. CASE ~ \E r : IsAt(rows, f, ask, r)
        BY <2>4, <2>6 DEF At
    <2> QED
        BY <2>5, <2>6
<1> QED
    BY <1>1, TypeCorrect, PTL DEF Spec, RetentionKeepsCharAnswers

-----------------------------------------------------------------------------
(***************************************************************************)
(* Two retention passes                                                    *)
(***************************************************************************)

\* The save-and-exit rows that rule (b) counts are finitely many, and fewer in a
\* smaller table or since a later date.
LEMMA FewerExits ==
    ASSUME NEW table, table \subseteq Row(Contents), IsFiniteSet(table),
           NEW less, less \subseteq table,
           NEW r \in table, NEW s \in table, s.file = r.file, r.date <= s.date
    PROVE  /\ Cardinality(ExitsSince(less, s)) \in Nat
           /\ Cardinality(ExitsSince(table, r)) \in Nat
           /\ Cardinality(ExitsSince(less, s)) <= Cardinality(ExitsSince(table, r))
<1>1. \A e \in table : e.date \in Nat
    BY DEF Row
<1>2. ExitsSince(less, s) \subseteq ExitsSince(table, r)
    BY <1>1 DEF ExitsSince
<1>3. IsFiniteSet(ExitsSince(table, r))
    BY FS_Subset DEF ExitsSince
<1> QED
    BY <1>2, <1>3, FS_Subset, FS_CardinalityType

\* What a pass keeps it would keep again: the sessions it counts do not grow, and
\* the rows that span a character's range are kept themselves.
LEMMA KeptTwice ==
    ASSUME NEW table, table \subseteq Row(Contents), IsFiniteSet(table),
           NEW days \in Nat, NEW sessions \in Nat, NEW t \in Nat,
           NEW r \in Retained(table, days, sessions, t)
    PROVE  Kept(Retained(table, days, sessions, t), r, days, sessions, t)
<1> DEFINE once == Retained(table, days, sessions, t)
<1>1. once \subseteq table /\ r \in table /\ Kept(table, r, days, sessions, t)
    BY DEF Retained
<1>2. ASSUME NEW s \in table, WithinSessions(table, s, sessions)
      PROVE  s \in once /\ WithinSessions(once, s, sessions)
    <2>1. s \in once
        BY <1>2 DEF Retained, Kept
    <2>2. s.date \in Nat
        BY DEF Row
    <2>3. /\ Cardinality(ExitsSince(once, s)) \in Nat
          /\ Cardinality(ExitsSince(table, s)) \in Nat
          /\ Cardinality(ExitsSince(once, s)) <= Cardinality(ExitsSince(table, s))
        BY <1>1, <2>2, FewerExits
    <2> QED
        BY <1>2, <2>1, <2>3 DEF WithinSessions
<1>3. CASE WithinDays(r, days, t)
    BY <1>3 DEF Kept
<1>4. CASE WithinSessions(table, r, sessions)
    BY <1>1, <1>2, <1>4 DEF Kept
<1>5. CASE WithinCharRange(table, r, sessions)
    BY <1>2, <1>5 DEF Kept, WithinCharRange
<1> QED
    BY <1>1, <1>3, <1>4, <1>5 DEF Kept

\* Enforcing a policy twice in one second deletes nothing the second time.
THEOREM RetentionTwice == Spec => []RetentionIsStable
<1> USE DbAssumption
<1>1. TypeOK => RetentionIsStable
    <2> SUFFICES ASSUME TypeOK, NEW p \in Policies,
                        NEW r \in Retained(rows, p.days, p.sessions, now)
                 PROVE  r \in Retained(Retained(rows, p.days, p.sessions, now),
                                       p.days, p.sessions, now)
        BY DEF RetentionIsStable, Retained
    <2>1. p.days \in Nat /\ p.sessions \in Nat
        BY DEF Retention
    <2>2. Kept(Retained(rows, p.days, p.sessions, now), r, p.days, p.sessions, now)
        BY <2>1, KeptTwice DEF TypeOK
    <2> QED
        BY <2>2 DEF Retained
<1> QED
    BY <1>1, TypeCorrect, PTL

\* More days and more sessions keep at least as much, row by row.
LEMMA KeptByMore ==
    ASSUME NEW table, table \subseteq Row(Contents), IsFiniteSet(table),
           NEW p \in Retention, NEW q \in Retention, NEW t \in Nat,
           p.days <= q.days, p.sessions <= q.sessions,
           NEW r \in table, Kept(table, r, p.days, p.sessions, t)
    PROVE  Kept(table, r, q.days, q.sessions, t)
<1> USE FilesAssumption
<1>1. /\ p.days \in Nat /\ q.days \in Nat /\ p.sessions \in Nat /\ q.sessions \in Nat
      /\ r.date \in Nat
    BY DEF Retention, Row
<1>2. ASSUME NEW s \in table, WithinSessions(table, s, p.sessions)
      PROVE  WithinSessions(table, s, q.sessions)
    <2>1. s.date \in Nat
        BY DEF Row
    <2>2. Cardinality(ExitsSince(table, s)) \in Nat
        BY <2>1, FewerExits
    <2> QED
        BY <1>1, <1>2, <2>2 DEF WithinSessions
<1>3. CASE WithinDays(r, p.days, t)
    <2> DEFINE more == q.days - p.days
    <2>1. more \in Nat /\ q.days = p.days + more
        BY <1>1
    <2> HIDE DEF more
    <2>2. q.days * SecondsPerDay = p.days * SecondsPerDay + more * SecondsPerDay
        BY <1>1, <2>1
    <2>3. p.days * SecondsPerDay \in Nat /\ more * SecondsPerDay \in Nat
        BY <1>1, <2>1
    <2>4. q.days > 0 /\ r.date >= t - q.days * SecondsPerDay
        BY <1>1, <1>3, <2>2, <2>3 DEF WithinDays
    <2> QED
        BY <2>4 DEF Kept, WithinDays
<1>4. CASE WithinSessions(table, r, p.sessions)
    BY <1>2, <1>4 DEF Kept
<1>5. CASE WithinCharRange(table, r, p.sessions)
    BY <1>2, <1>5 DEF Kept, WithinCharRange
<1> QED
    BY <1>3, <1>4, <1>5 DEF Kept

\* A policy that is more generous in both numbers deletes nothing the stricter one
\* keeps, the stash rows that only a character's range protects included.
THEOREM MoreKeepsMore == Spec => []RetentionIsMonotone
<1> USE DbAssumption
<1>1. TypeOK => RetentionIsMonotone
    <2> SUFFICES ASSUME TypeOK, NEW p \in Policies, NEW q \in Policies,
                        p.days <= q.days, p.sessions <= q.sessions,
                        NEW r \in rows, Kept(rows, r, p.days, p.sessions, now)
                 PROVE  Kept(rows, r, q.days, q.sessions, now)
        BY DEF RetentionIsMonotone, Retained
    <2> QED
        BY KeptByMore DEF TypeOK
<1> QED
    BY <1>1, TypeCorrect, PTL

-----------------------------------------------------------------------------
(***************************************************************************)
(* Sessions                                                                *)
(***************************************************************************)

\* Rows that no save-and-exit separates have the same ones after them, so rule (b)
\* keeps both or neither.
LEMMA SameSession ==
    ASSUME NEW table, table \subseteq Row(Contents),
           NEW sessions,
           NEW r \in table, NEW s \in table, s.file = r.file, s.date <= r.date,
           ~ \E e \in table : /\ e.file = r.file
                            /\ e.state = "SaveAndExit"
                            /\ s.date <= e.date
                            /\ e.date < r.date,
           WithinSessions(table, r, sessions)
    PROVE  WithinSessions(table, s, sessions)
<1>1. \A e \in table : e.date \in Nat
    BY DEF Row
<1>2. ExitsSince(table, s) = ExitsSince(table, r)
    BY <1>1 DEF ExitsSince
<1> QED
    BY <1>2 DEF WithinSessions

\* Retention cuts a character's history between sessions, never inside one.
THEOREM SessionsAreWhole == Spec => SessionsKeptWhole
<1> USE DbAssumption, FilesAssumption
<1>1. TypeOK /\ [Next]_vars =>
        [\A p \in Policies : EnforceRetention(p) /\ p.sessions > 0 =>
            \A r, s \in rows :
               (/\ r.file \in CharFiles
                /\ r.file = s.file
                /\ r \in rows'
                /\ s.date <= r.date
                /\ ~ \E e \in rows : /\ e.file = r.file
                                    /\ e.state = "SaveAndExit"
                                    /\ s.date <= e.date
                                    /\ e.date < r.date
                /\ ~ WithinDays(r, p.days, now))
               => s \in rows']_vars
    <2> SUFFICES ASSUME TypeOK, NEW p \in Policies, EnforceRetention(p),
                        NEW r \in rows, NEW s \in rows,
                        r.file \in CharFiles, r.file = s.file, r \in rows', s.date <= r.date,
                        ~ \E e \in rows : /\ e.file = r.file
                                          /\ e.state = "SaveAndExit"
                                          /\ s.date <= e.date
                                          /\ e.date < r.date,
                        ~ WithinDays(r, p.days, now)
                 PROVE  s \in rows'
        OBVIOUS
    <2>1. rows' = Retained(rows, p.days, p.sessions, now)
        BY DEF EnforceRetention
    <2>2. WithinSessions(rows, r, p.sessions)
        BY <2>1 DEF Retained, Kept, WithinCharRange
    <2>3. WithinSessions(rows, s, p.sessions)
        BY <2>2, SameSession DEF TypeOK
    <2> QED
        BY <2>1, <2>3 DEF Retained, Kept
<1> QED
    BY <1>1, TypeCorrect, PTL DEF Spec, SessionsKeptWhole

-----------------------------------------------------------------------------
(***************************************************************************)
(* Threads on one connection.  Retention deletes only condemned rows,      *)
(* however many threads share the connection and however many rows there   *)
(* are, as long as the row that is inserted is never a condemned one and   *)
(* no other process writes.                                                *)
(***************************************************************************)
\* The invariant holds of the tables that earlier runs leave.
LEMMA InitInv ==
    ASSUME ~ OldInserts, ThreadsInit
    PROVE  Inv
<1> USE ThreadsAssumption
<1>1. serial \in 1..MaxSerial /\ serial \notin condemned /\ condemned \subseteq 1..serial
    BY DEF ThreadsInit
<1>2. tbl = {[id |-> n, row |-> n] : n \in 1..serial}
    BY DEF ThreadsInit
<1>3. [id |-> serial, row |-> serial] \in tbl
    BY <1>1, <1>2
<1>4. tbl \subseteq TableRow
    BY <1>1, <1>2 DEF TableRow
<1>5. ThreadsTypeOK
    BY <1>1, <1>4 DEF ThreadsInit, ThreadsTypeOK
<1>6. RowidsUnique
    BY <1>2 DEF RowidsUnique
<1>7. NewestStays
    <2>1. \A r \in tbl : r.id <= serial
        BY <1>1, <1>2
    <2> QED
        BY <1>1, <1>3, <2>1 DEF NewestStays, ThreadsInit
<1>8. DeletesOnlyCondemned
    <2> SUFFICES ASSUME NEW n \in 1..serial
                 PROVE  \E r \in tbl : r.row = n
        BY DEF DeletesOnlyCondemned, Stored, ThreadsInit
    <2>1. [id |-> n, row |-> n] \in tbl
        BY <1>2
    <2> QED
        BY <2>1
<1>9. Exclusive /\ LoadedIsCondemned
    BY DEF ThreadsInit, Exclusive, LoadedIsCondemned
<1> QED
    BY <1>1, <1>5, <1>6, <1>7, <1>8, <1>9 DEF Inv, ThreadsInit

\* A new row gets a rowid above all those in use and those still to be deleted.
LEMMA InsertKeepsInv ==
    ASSUME ~ OldInserts, Inv, NEW t \in Threads, InsertRow(t)
    PROVE  Inv'
<1> USE ThreadsAssumption
<1>1. PICK i \in 1..MaxSerial : /\ IsNextId(i)
                               /\ tbl' = tbl \cup {[id |-> i, row |-> serial']}
    BY DEF InsertRow
<1> DEFINE new == [id |-> i, row |-> serial']
<1>2. /\ serial' = serial + 1 /\ serial \in 1..MaxSerial /\ serial' \in 1..MaxSerial
      /\ condemned' = condemned
      /\ reported' = reported \cup {serial'}
      /\ UNCHANGED <<base, owner, pc, loaded>>
    BY DEF InsertRow, Inv, ThreadsTypeOK
<1>3. new \in TableRow /\ tbl \subseteq TableRow /\ (\A s \in Threads : loaded[s] \subseteq TableRow)
    BY <1>2 DEF TableRow, Inv, ThreadsTypeOK
<1>4. serial' \notin condemned
    BY <1>2 DEF Inv
<1>5. \A r \in tbl : r.id < i
    BY <1>1 DEF IsNextId
<1>6. \A s \in Threads : \A gone \in loaded[s] : gone.id < i
    <2>1. PICK newest \in tbl : \A s \in Threads : \A gone \in loaded[s] : gone.id < newest.id
        BY DEF Inv, NewestStays
    <2>2. newest.id < i /\ newest.id \in Nat
        BY <1>3, <1>5, <2>1 DEF TableRow
    <2> SUFFICES ASSUME NEW s \in Threads, NEW gone \in loaded[s]
                 PROVE  gone.id < i
        OBVIOUS
    <2>3. gone.id < newest.id /\ gone.id \in Nat
        BY <1>3, <2>1 DEF TableRow
    <2> QED
        BY <2>2, <2>3
<1>7. ThreadsTypeOK'
    <2>1. lock' \in {"free", "connection", "other"}
        BY DEF InsertRow, LockAfterWrite, Inv, ThreadsTypeOK
    <2> QED
        BY <1>1, <1>2, <1>3, <2>1 DEF Inv, ThreadsTypeOK
<1>8. Exclusive'
    BY <1>2 DEF InsertRow, LockAfterWrite, Inv, Exclusive
<1>9. RowidsUnique'
    <2>1. \A r \in tbl : r.id # i
        BY <1>3, <1>5 DEF TableRow
    <2> QED
        BY <1>1, <2>1 DEF Inv, RowidsUnique
<1>10. LoadedIsCondemned'
    <2>1. \A s \in Threads : \A gone \in loaded[s] : gone.id # i
        BY <1>3, <1>6 DEF TableRow
    <2> QED
        BY <1>1, <1>2, <2>1 DEF Inv, LoadedIsCondemned
<1>11. NewestStays'
    <2>1. new \in tbl' /\ new.row \notin condemned'
        BY <1>1, <1>2, <1>4
    <2>2. \A r \in tbl' : r.id <= new.id
        BY <1>1, <1>3, <1>5 DEF TableRow
    <2> QED
        BY <1>2, <1>6, <2>1, <2>2 DEF NewestStays
<1>12. DeletesOnlyCondemned'
    <2> SUFFICES ASSUME NEW n \in (reported \cup {serial'}) \ condemned
                 PROVE  \E r \in tbl' : r.row = n
        BY <1>2 DEF DeletesOnlyCondemned, Stored
    <2>1. CASE n = serial'
        <3>1. new \in tbl' /\ new.row = n
            BY <1>1, <2>1
        <3> QED
            BY <3>1
    <2>2. CASE n \in reported
        BY <1>1, <2>2 DEF Inv, DeletesOnlyCondemned, Stored
    <2> QED
        BY <2>1, <2>2
<1>13. (condemned \cup reported)' \subseteq 1..serial'
    BY <1>2 DEF Inv
<1> QED
    BY <1>7, <1>8, <1>9, <1>10, <1>11, <1>12, <1>13 DEF Inv

\* What a thread loads is condemned, so its rowid is below that of the newest row.
LEMMA LoadKeepsInv ==
    ASSUME Inv, NEW t \in Threads, Load(t)
    PROVE  Inv'
<1> USE ThreadsAssumption
<1> DEFINE doomed == {r \in tbl : r.row \in condemned}
<1>1. /\ loaded' = [loaded EXCEPT ![t] = doomed]
      /\ loaded \in [Threads -> SUBSET TableRow]
      /\ tbl \subseteq TableRow
      /\ UNCHANGED <<tbl, base, owner, lock, serial, reported, condemned>>
    BY DEF Load, Inv, ThreadsTypeOK
<1>2. \A s \in Threads : loaded'[s] = IF s = t THEN doomed ELSE loaded[s]
    BY <1>1
<1>3. /\ pc \in [Threads -> {"files", "load", "begin", "delete", "rollback"}]
      /\ pc' \in [Threads -> {"files", "load", "begin", "delete", "rollback"}]
      /\ pc[t] = "load" /\ pc'[t] \in {"files", "begin"}
      /\ \A s \in Threads : s # t => pc'[s] = pc[s]
    BY DEF Load, Goto, Inv, ThreadsTypeOK
<1>4. ThreadsTypeOK'
    BY <1>1, <1>3 DEF Inv, ThreadsTypeOK
<1>5. Exclusive'
    BY <1>1, <1>3 DEF Inv, Exclusive
<1>6. LoadedIsCondemned'
    BY <1>1, <1>2 DEF Inv, LoadedIsCondemned, RowidsUnique
<1>7. NewestStays'
    <2>1. PICK newest \in tbl :
              /\ newest.row \notin condemned
              /\ \A r \in tbl : r.id <= newest.id
              /\ \A s \in Threads : \A gone \in loaded[s] : gone.id < newest.id
        BY DEF Inv, NewestStays
    <2>2. ASSUME NEW r \in doomed
          PROVE  r.id < newest.id
        <3>1. r.id <= newest.id /\ r # newest
            BY <2>1, <2>2
        <3>2. r.id # newest.id
            BY <2>1, <2>2, <3>1 DEF Inv, RowidsUnique
        <3>3. r.id \in Nat /\ newest.id \in Nat
            BY <1>1, <2>1, <2>2 DEF TableRow
        <3> QED
            BY <3>1, <3>2, <3>3
    <2> QED
        BY <1>1, <1>2, <2>1, <2>2 DEF NewestStays
<1>8. RowidsUnique' /\ DeletesOnlyCondemned'
    BY <1>1 DEF Inv, RowidsUnique, DeletesOnlyCondemned, Stored
<1> QED
    BY <1>1, <1>4, <1>5, <1>6, <1>7, <1>8 DEF Inv

\* The row with the deleted rowid is the one that was loaded.
LEMMA DeleteKeepsInv ==
    ASSUME Inv, NEW t \in Threads, Delete(t)
    PROVE  Inv'
<1> USE ThreadsAssumption
<1>1. PICK gone \in loaded[t] : /\ tbl' = {r \in tbl : r.id # gone.id}
                               /\ loaded' = [loaded EXCEPT ![t] = @ \ {gone}]
    BY DEF Delete
<1>2. /\ loaded \in [Threads -> SUBSET TableRow]
      /\ tbl \subseteq TableRow /\ tbl' \subseteq tbl
      /\ UNCHANGED <<base, owner, pc, serial, reported, condemned>>
    BY <1>1 DEF Delete, Inv, ThreadsTypeOK
<1>3. \A s \in Threads : loaded'[s] \subseteq loaded[s]
    BY <1>1, <1>2
<1>4. ThreadsTypeOK'
    <2>1. lock' \in {"free", "connection", "other"}
        BY DEF Delete, LockAfterWrite, Inv, ThreadsTypeOK
    <2>2. loaded' \in [Threads -> SUBSET TableRow]
        BY <1>1, <1>2
    <2> QED
        BY <1>2, <2>1, <2>2 DEF Inv, ThreadsTypeOK
<1>5. Exclusive'
    BY <1>2 DEF Delete, LockAfterWrite, Inv, Exclusive
<1>6. RowidsUnique'
    BY <1>2 DEF Inv, RowidsUnique
<1>7. LoadedIsCondemned'
    BY <1>2, <1>3 DEF Inv, LoadedIsCondemned
<1>8. NewestStays'
    <2>1. PICK newest \in tbl :
              /\ newest.row \notin condemned
              /\ \A r \in tbl : r.id <= newest.id
              /\ \A s \in Threads : \A g \in loaded[s] : g.id < newest.id
        BY DEF Inv, NewestStays
    <2>2. newest \in tbl'
        <3>1. gone.id < newest.id /\ gone.id \in Nat /\ newest.id \in Nat
            BY <1>1, <1>2, <2>1 DEF TableRow
        <3> QED
            BY <1>1, <3>1
    <2> QED
        BY <1>2, <1>3, <2>1, <2>2 DEF NewestStays
<1>9. DeletesOnlyCondemned'
    <2> SUFFICES ASSUME NEW n \in reported \ condemned
                 PROVE  \E r \in tbl' : r.row = n
        BY <1>2 DEF DeletesOnlyCondemned, Stored
    <2>1. PICK r \in tbl : r.row = n
        BY DEF Inv, DeletesOnlyCondemned, Stored
    <2>2. r.id # gone.id
        BY <1>1, <2>1 DEF Inv, LoadedIsCondemned
    <2> QED
        BY <1>1, <2>1, <2>2
<1> QED
    BY <1>2, <1>4, <1>5, <1>6, <1>7, <1>8, <1>9 DEF Inv

\* The other statements leave the table alone.
LEMMA ControlKeepsInv ==
    ASSUME Inv, NEW t \in Threads, EndFiles(t) \/ Begin(t) \/ Commit(t)
    PROVE  Inv'
<1> USE ThreadsAssumption
<1>1. UNCHANGED <<tbl, loaded, serial, reported, condemned>>
    BY DEF EndFiles, Begin, Commit
<1>2. RowidsUnique' /\ LoadedIsCondemned' /\ NewestStays' /\ DeletesOnlyCondemned'
    BY <1>1 DEF Inv, RowidsUnique, LoadedIsCondemned, NewestStays, DeletesOnlyCondemned, Stored
<1>3. pc \in [Threads -> {"files", "load", "begin", "delete", "rollback"}]
    BY DEF Inv, ThreadsTypeOK
<1>4. CASE EndFiles(t)
    <2>1. ThreadsTypeOK' /\ Exclusive'
        BY <1>3, <1>4 DEF EndFiles, Goto, Inv, ThreadsTypeOK, Exclusive
    <2> QED
        BY <1>1, <1>2, <2>1 DEF Inv
<1>5. CASE Begin(t)
    <2>1. ThreadsTypeOK' /\ Exclusive'
        BY <1>3, <1>5 DEF Begin, Goto, Inv, ThreadsTypeOK, Exclusive
    <2> QED
        BY <1>1, <1>2, <2>1 DEF Inv
<1>6. CASE Commit(t)
    <2>1. owner = t
        BY <1>6 DEF Commit, Inv, Exclusive
    <2>2. ThreadsTypeOK' /\ Exclusive'
        BY <1>3, <1>6, <2>1 DEF Commit, Release, Goto, Inv, ThreadsTypeOK, Exclusive
    <2> QED
        BY <1>1, <1>2, <2>2 DEF Inv
<1> QED
    BY <1>4, <1>5, <1>6

\* Every step keeps the invariant; nothing fails and nothing is rolled back.
LEMMA NextKeepsInv ==
    ASSUME ~ OldInserts, ~ OtherProcess, Inv, [ThreadsNext]_threadVars
    PROVE  Inv'
<1>1. ASSUME NEW t \in Threads
      PROVE  ~ InsertBusy(t) /\ ~ DeleteBusy(t) /\ ~ Rollback(t)
    BY DEF InsertBusy, DeleteBusy, Rollback, Inv, Exclusive
<1>2. ~ TakeLock /\ ~ DropLock
    BY DEF TakeLock, DropLock, Inv, Exclusive
<1>3. CASE UNCHANGED threadVars
    BY <1>3 DEF threadVars, Inv, ThreadsTypeOK, Exclusive, RowidsUnique, LoadedIsCondemned, NewestStays,
                DeletesOnlyCondemned, Stored
<1> QED
    BY <1>1, <1>2, <1>3, InsertKeepsInv, LoadKeepsInv, DeleteKeepsInv, ControlKeepsInv DEF ThreadsNext

\* The threads exclude each other, what retention has read of the table stays true until
\* it has acted on it, and the largest rowid is never one it is about to free: that is why
\* the threads may share one connection.
THEOREM InvariantHolds ==
    ASSUME ~ OldInserts, ~ OtherProcess
    PROVE  ThreadsSpec => []Inv
<1>1. ThreadsInit => Inv
    BY InitInv
<1>2. Inv /\ [ThreadsNext]_threadVars => Inv'
    BY NextKeepsInv
<1> QED
    BY <1>1, <1>2, PTL DEF ThreadsSpec

\* Whatever the interleaving of the threads' statements, retention deletes only
\* rows that fail its rules: the rowids it read are still theirs.
THEOREM RetentionIsExact ==
    ASSUME ~ OldInserts, ~ OtherProcess
    PROVE  ThreadsSpec => []DeletesOnlyCondemned
<1>1. Inv => DeletesOnlyCondemned
    BY DEF Inv
<1> QED
    BY <1>1, InvariantHolds, PTL

-----------------------------------------------------------------------------
(***************************************************************************)
(* Transactions, whoever else writes and whatever is inserted.  A thread   *)
(* is in its transaction from BEGIN to COMMIT or ROLLBACK, so that no      *)
(* other can begin one, and the connection's lock lasts no longer.         *)
(***************************************************************************)
OwnerOnly ==
    /\ pc \in [Threads -> {"files", "load", "begin", "delete", "rollback"}]
    /\ owner \in Threads \cup {Nobody}
    /\ \A t \in Threads : pc[t] \in {"delete", "rollback"} <=> owner = t
    /\ lock = "connection" => owner # Nobody

LEMMA StepKeepsOwnerOnly ==
    ASSUME OwnerOnly, [ThreadsNext]_threadVars
    PROVE  OwnerOnly'
<1> USE ThreadsAssumption
<1>1. ASSUME NEW t \in Threads, InsertRow(t) \/ Delete(t)
      PROVE  OwnerOnly'
    BY <1>1 DEF InsertRow, Delete, LockAfterWrite, OwnerOnly
<1>2. ASSUME NEW t \in Threads, InsertBusy(t)
      PROVE  OwnerOnly'
    BY <1>2 DEF InsertBusy, OwnerOnly
<1>3. ASSUME NEW t \in Threads, EndFiles(t) \/ Load(t) \/ DeleteBusy(t)
      PROVE  OwnerOnly'
    BY <1>3 DEF EndFiles, Load, DeleteBusy, Goto, OwnerOnly
<1>4. ASSUME NEW t \in Threads, Begin(t)
      PROVE  OwnerOnly'
    BY <1>4 DEF Begin, Goto, OwnerOnly
<1>5. ASSUME NEW t \in Threads, Commit(t) \/ Rollback(t)
      PROVE  OwnerOnly'
    <2>1. owner = t
        BY <1>5 DEF Commit, Rollback, OwnerOnly
    <2>2. owner' = Nobody /\ pc' = [pc EXCEPT ![t] = "files"]
        BY <1>5, <2>1 DEF Commit, Rollback, Goto
    <2>3. lock' # "connection"
        BY <1>5 DEF Commit, Rollback, Release
    <2> QED
        BY <2>1, <2>2, <2>3 DEF OwnerOnly
<1>6. CASE TakeLock \/ DropLock
    BY <1>6 DEF TakeLock, DropLock, OwnerOnly
<1>7. CASE UNCHANGED threadVars
    BY <1>7 DEF threadVars, OwnerOnly
<1> QED
    BY <1>1, <1>2, <1>3, <1>4, <1>5, <1>6, <1>7 DEF ThreadsNext

\* Every way out of enforceRetention, the failed BEGIN, the failed DELETE and the
\* failed COMMIT among them, leaves the connection without a transaction and without
\* the write lock.
THEOREM NoTransactionIsLeft == ThreadsSpec => []TransactionEnds
<1> USE ThreadsAssumption
<1>1. ThreadsInit => OwnerOnly
    BY DEF ThreadsInit, OwnerOnly
<1>2. OwnerOnly /\ [ThreadsNext]_threadVars => OwnerOnly'
    BY StepKeepsOwnerOnly
<1>3. OwnerOnly => TransactionEnds
    BY DEF OwnerOnly, TransactionEnds
<1> QED
    BY <1>1, <1>2, <1>3, PTL DEF ThreadsSpec
=============================================================================
