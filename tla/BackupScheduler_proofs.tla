----------------------- MODULE BackupScheduler_proofs ------------------------
(***************************************************************************)
(* What the automatic-backup service keeps, for every set of files, every  *)
(* pair of retention policies, every environment and every bound, with     *)
(* inserts and retention passes that may fail and bursts that may be lost: *)
(*                                                                         *)
(*   TypeCorrect    the table stays a finite table of rows                 *)
(*   BytesKept      a recovery leaves what its snapshot found in the table *)
(*   ContentKept    a dashboard that has caught up has captured every file *)
(*   DeletionKept   ... and has recorded every deletion it was told of     *)
(***************************************************************************)
EXTENDS BackupScheduler, FiniteSetTheorems, TLAPS

-----------------------------------------------------------------------------
(***************************************************************************)
(* The inductive invariant                                                 *)
(***************************************************************************)

\* The policies a retention pass may use.
Policies == {Policy} \cup (IF "cli" \in Env THEN {CliPolicy} ELSE {})

\* The rows of f that hold c, as far as a checksum tells.
Same(tbl, f, c) ==
    {r \in tbl : r.file = f /\ r.data # NoData /\ Checksum(f, r.data) = Checksum(f, c)}

\* A content whose rows are dated by its header.
Timed(f, c) == f \in CharFiles /\ c.ts > 0

\* Contents are versions written so far, with header times of the past; only a .d2s with
\* a header has a checksum field that may not fit.
Known(f, c) ==
    /\ c.ver <= lastVer /\ c.ts <= now
    /\ f \in CharFiles /\ ~ c.summed => c.ts > 0

RowKnown(r) ==
    /\ r.date <= now
    /\ r.state # "Deleted" => r.data # NoData
    /\ r.data # NoData => Known(r.file, r.data)
    /\ r.data # NoData /\ Timed(r.file, r.data) => r.date = r.data.ts

\* While a save is being written the file is torn, and no row holds what it will be.
SaveKnown(f) ==
    saving[f] \in Content =>
        /\ Known(f, saving[f]) /\ saving[f].whole
        /\ disk[f] # Absent /\ ~ disk[f].whole
        /\ Same(rows, f, saving[f]) = {}

\* If a content without a header time is in the table at all, it is there with a date
\* at which the file had it already: change detection may skip it.
Dated(tbl, f, c, t) ==
    c # Absent /\ ~ Timed(f, c) /\ InWindow(t) /\ Same(tbl, f, c) # {}
        => \E r \in Same(tbl, f, c) : r.date >= t

\* The content of f is in the table, with a date that retention judges no worse than
\* the moment of f.
HeldAt(tbl, f, c, t) == \E r \in Same(tbl, f, c) : r.date >= DateOf(f, c, t)

\* What a pre-recovery snapshot has found is not what the game is writing.  It stays in
\* the table, for as long as the retention window lets it, until something else lands on
\* the file.
KeptKnown(tbl, f, c) ==
    /\ Known(f, c) /\ c # saving[f]
    /\ (Timed(f, c) \/ disk[f] = c) /\ InWindow(DateOf(f, c, changedAt[f]))
           => HeldAt(tbl, f, c, changedAt[f])

\* The row a recovery is about is one of the table's, unless it has been pruned.
SlotKnown(tbl, s) ==
    s # Idle =>
        /\ RowKnown(s.row)
        /\ InWindow(s.row.date) => s.row \in tbl
        /\ s.kept # Absent => KeptKnown(tbl, s.row.file, s.kept)

Contents ==
    /\ \A r \in rows : RowKnown(r)
    /\ \A f \in Files :
          /\ disk[f] # Absent => Known(f, disk[f])
          /\ changedAt[f] <= now
          /\ SaveKnown(f)
          /\ Dated(rows, f, disk[f], changedAt[f])
    /\ \A p \in Process : SlotKnown(rows, recovery[p])

\* A burst is there only to be handled; only an Env with a command line recovers in one.
Kernel ==
    /\ dash # "burst" => burst = NoEvents
    /\ "cli" \notin Env => recovery["cli"] = Idle

Base == TypeOK /\ Contents /\ Kernel

Caught(f) ==
    /\ dash # "down" /\ saving[f] \notin Content /\ ~ Pending(f) /\ f \notin missed
    /\ disk[f] # Absent
    /\ InWindow(DateOf(f, disk[f], changedAt[f]))
    => HeldAt(rows, f, disk[f], changedAt[f])

\* Nobody deletes a save.
NoDeletion ==
    /\ \A r \in rows : r.state # "Deleted"
    /\ \A p \in Process : recovery[p] # Idle => recovery[p].row.state # "Deleted"
    /\ \A f \in Files : "DELETE" \notin events[f] \cup burst[f]

CaughtInv == Base /\ NoDeletion /\ \A f \in Files : Caught(f)

\* A file that is gone was deleted with a watch on it: the event is under way, or the
\* tombstone is there, or the deletion is among those the service knows nothing of.
Recorded(f) ==
    /\ Watched /\ disk[f] = Absent /\ changedAt[f] > 0 /\ InWindow(changedAt[f])
    /\ "DELETE" \notin events[f] \cup burst[f]
    /\ f \notin missed
    => \E r \in rows : r.file = f /\ r.state = "Deleted" /\ r.date >= changedAt[f]

\* A dashboard without a watch has heard of nothing, and of no file that is gone.
Unwatched ==
    /\ ~ Watched => events = NoEvents
    /\ dash = "starting" => \A f \in Files : disk[f] = Absent => f \in missed

RecordedInv == Base /\ Unwatched /\ \A f \in Files : Recorded(f)

-----------------------------------------------------------------------------
(***************************************************************************)
(* Tables                                                                  *)
(***************************************************************************)

\* What Base says of the table alone, with the directory as it is.
TableKnown(tbl) ==
    /\ tbl \subseteq Row(Content) /\ IsFiniteSet(tbl)
    /\ \A r \in tbl : RowKnown(r)
    /\ \A f \in Files :
          /\ saving[f] \in Content => Same(tbl, f, saving[f]) = {}
          /\ Dated(tbl, f, disk[f], changedAt[f])
    /\ \A p \in Process : SlotKnown(tbl, recovery[p])

\* A row that a pass over the directory inserts.
IsNew(r) ==
    /\ r \in Row(Content)
    /\ \/ r.state = "Deleted" /\ r.data = NoData /\ r.date = now
       \/ /\ r.state # "Deleted" /\ disk[r.file] # Absent /\ r.data = disk[r.file]
          /\ r.date = DateOf(r.file, disk[r.file], now)

LEMMA BaseTable == Base => TableKnown(rows)
BY DEF Base, TypeOK, Contents, SaveKnown, TableKnown

\* Checksums tell versions and header times apart, and torn files from whole ones.
LEMMA SameContent ==
    ASSUME NEW f \in Files, NEW c \in Content, NEW d \in Content,
           Checksum(f, c) = Checksum(f, d)
    PROVE  c.ver = d.ver /\ c.ts = d.ts /\ c.whole = d.whole
BY DEF Checksum, Content

LEMMA NewRowIs ==
    ASSUME NEW tbl, IsFiniteSet(tbl), NEW f \in Files, NEW d \in Nat, NEW st \in State,
           NEW c \in Content \cup {NoData}
    PROVE  /\ NewRow(tbl, f, d, st, c) \in Row(Content)
           /\ NewRow(tbl, f, d, st, c).file = f /\ NewRow(tbl, f, d, st, c).date = d
           /\ NewRow(tbl, f, d, st, c).state = st /\ NewRow(tbl, f, d, st, c).data = c
<1>1. IsFiniteSet({r \in tbl : r.file = f /\ r.date = d})
    BY FS_Subset
<1>2. Cardinality({r \in tbl : r.file = f /\ r.date = d}) \in Nat
    BY <1>1, FS_CardinalityType
<1> QED
    BY <1>2 DEF NewRow, Row

\* The rows of a set of files are as finite as the directory.
LEMMA FiniteRows ==
    ASSUME NEW fs \in SUBSET Files, NEW row, row = [f \in fs |-> row[f]]
    PROVE  IsFiniteSet({row[f] : f \in fs})
<1> DEFINE T == {row[f] : f \in fs}
<1>1. IsFiniteSet(fs)
    BY SchedulerAssumption, FS_Subset
<1>2. row \in Surjection(fs, T)
    BY DEF Surjection
<1> QED
    BY <1>1, <1>2, FS_Surjection

LEMMA FileRowsAreNew ==
    ASSUME Base, NEW fs \in SUBSET Files, NEW st \in State \ {"Deleted"}
    PROVE  /\ IsFiniteSet(FileRows(rows, fs, st, now))
           /\ \A r \in FileRows(rows, fs, st, now) : IsNew(r)
<1> DEFINE row == [f \in Due(rows, fs) |-> NewRow(rows, f, DateOf(f, disk[f], now), st, disk[f])]
<1>1. FileRows(rows, fs, st, now) = {row[f] : f \in Due(rows, fs)}
    BY DEF FileRows
<1>2. IsFiniteSet({row[f] : f \in Due(rows, fs)})
    <2>1. row = [f \in Due(rows, fs) |-> row[f]] /\ Due(rows, fs) \in SUBSET Files
        BY DEF Due
    <2> HIDE DEF row
    <2> QED
        BY <2>1, FiniteRows
<1>3. ASSUME NEW f \in Due(rows, fs)
      PROVE  IsNew(row[f])
    <2>1. f \in Files /\ disk[f] \in Content /\ disk[f] # Absent /\ now \in Nat
        BY DEF Base, TypeOK, Due
    <2>2. DateOf(f, disk[f], now) \in Nat
        BY <2>1 DEF DateOf, Content
    <2>3. /\ row[f] \in Row(Content) /\ row[f].file = f /\ row[f].state = st
          /\ row[f].date = DateOf(f, disk[f], now) /\ row[f].data = disk[f]
        BY <2>1, <2>2, NewRowIs DEF Base, TypeOK
    <2> QED
        BY <2>1, <2>3 DEF IsNew
<1> QED
    BY <1>1, <1>2, <1>3

LEMMA TombstonesAreNew ==
    ASSUME Base, NEW fs \in SUBSET Files
    PROVE  /\ IsFiniteSet({Tombstone(rows, f, now) : f \in fs})
           /\ \A f \in fs : /\ IsNew(Tombstone(rows, f, now))
                            /\ Tombstone(rows, f, now).file = f
                            /\ Tombstone(rows, f, now).date = now
                            /\ Tombstone(rows, f, now).state = "Deleted"
<1> DEFINE row == [f \in fs |-> Tombstone(rows, f, now)]
<1>1. IsFiniteSet({row[f] : f \in fs})
    <2>1. row = [f \in fs |-> row[f]]
        OBVIOUS
    <2> HIDE DEF row
    <2> QED
        BY <2>1, FiniteRows
<1>2. {Tombstone(rows, f, now) : f \in fs} = {row[f] : f \in fs}
    OBVIOUS
<1>3. ASSUME NEW f \in fs
      PROVE  /\ Tombstone(rows, f, now) \in Row(Content)
             /\ Tombstone(rows, f, now).file = f
             /\ Tombstone(rows, f, now).date = now /\ Tombstone(rows, f, now).data = NoData
             /\ Tombstone(rows, f, now).state = "Deleted"
    BY NewRowIs DEF Tombstone, Base, TypeOK, State
<1> QED
    BY <1>1, <1>2, <1>3 DEF IsNew

-----------------------------------------------------------------------------
(***************************************************************************)
(* Retention                                                               *)
(***************************************************************************)

LEMMA PolicyType == \A p \in Policies : p \in Retention
BY SchedulerAssumption DEF Policies

\* A row dated no earlier than a moment in the window survives every pass.
LEMMA WindowSurvives ==
    ASSUME NEW tbl, NEW r \in tbl, r.date \in Nat, NEW t \in Nat, r.date >= t, now \in Nat,
           NEW p \in Policies, InWindow(t)
    PROVE  r \in Retained(tbl, p.days, p.sessions, now)
<1> DEFINE span == p.days * SecondsPerDay
<1>1. span \in Int
    BY PolicyType, FilesAssumption DEF Retention
<1>2. p.days > 0 /\ t >= now - span
    BY DEF InWindow, Policies
<1> HIDE DEF span
<1>3. r.date >= now - span
    BY <1>1, <1>2
<1>4. WithinDays(r, p.days, now)
    BY <1>2, <1>3 DEF WithinDays, span
<1> QED
    BY <1>4 DEF Retained, Kept

\* What was in the table with a date in the window still is.
\* A pass that fails deletes nothing; one that does not, nothing of the window.
LEMMA PassedIs ==
    ASSUME NEW tbl, NEW p, NEW kept \in Passed(tbl, p, now)
    PROVE  kept \subseteq tbl /\ Retained(tbl, p.days, p.sessions, now) \subseteq kept
BY DEF Passed, Retained

\* What was in the table with a date in the window still is.
LEMMA HeldSurvives ==
    ASSUME Base, NEW new, \A r \in new : IsNew(r), NEW p \in Policies,
           NEW tbl \in Passed(rows \cup new, p, now),
           NEW f \in Files, NEW c, NEW t \in Nat, InWindow(t),
           \E r \in Same(rows \cup new, f, c) : r.date >= t
    PROVE  \E r \in Same(tbl, f, c) : r.date >= t
<1>1. PICK r \in Same(rows \cup new, f, c) : r.date >= t
    OBVIOUS
<1>2. r \in rows \cup new /\ r \in Row(Content)
    BY <1>1 DEF Same, Base, TypeOK, IsNew
<1>3. r.date \in Nat /\ now \in Nat
    BY <1>2 DEF Row, Base, TypeOK
<1>4. r \in tbl
    BY <1>1, <1>2, <1>3, WindowSurvives, PassedIs
<1> QED
    BY <1>1, <1>4 DEF Same

-----------------------------------------------------------------------------
(***************************************************************************)
(* A pass over the directory                                               *)
(***************************************************************************)

\* Whatever a pass inserts and prunes, the table stays in order.
LEMMA TableGrows ==
    ASSUME Base, NEW new, IsFiniteSet(new), \A r \in new : IsNew(r), NEW p \in Policies,
           NEW tbl \in Passed(rows \cup new, p, now)
    PROVE  TableKnown(tbl)
<1>1. tbl \subseteq rows \cup new
    BY PassedIs
<1>2. rows \cup new \subseteq Row(Content) /\ IsFiniteSet(rows \cup new)
    BY FS_Union DEF Base, TypeOK, IsNew
<1>3. tbl \subseteq Row(Content) /\ IsFiniteSet(tbl)
    BY <1>1, <1>2, FS_Subset
<1>4. now \in Nat /\ \A f \in Files : disk[f] \in Content \cup {Absent} /\ changedAt[f] \in Nat
                                      /\ changedAt[f] <= now
    BY DEF Base, TypeOK, Contents
<1>5. ASSUME NEW r \in new
      PROVE  RowKnown(r)
    <2>1. IsNew(r) /\ r.file \in Files
        BY DEF IsNew, Row
    <2>2. CASE r.state = "Deleted" /\ r.data = NoData /\ r.date = now
        BY <1>4, <2>2 DEF RowKnown
    <2>3. CASE /\ r.state # "Deleted" /\ disk[r.file] # Absent /\ r.data = disk[r.file]
               /\ r.date = DateOf(r.file, disk[r.file], now)
        <3>1. Known(r.file, disk[r.file]) /\ disk[r.file] \in Content
            BY <1>4, <2>1, <2>3 DEF Base, Contents
        <3>2. disk[r.file] # NoData
            BY <3>1, MarksAssumption
        <3> QED
            BY <1>4, <2>3, <3>1, <3>2 DEF RowKnown, Known, DateOf, Timed, Content
    <2> QED
        BY <2>1, <2>2, <2>3 DEF IsNew
<1>6. \A r \in tbl : RowKnown(r)
    BY <1>1, <1>5 DEF Base, Contents
<1>7. ASSUME NEW f \in Files, saving[f] \in Content
      PROVE  Same(tbl, f, saving[f]) = {}
    <2> SUFFICES ASSUME NEW r \in Same(tbl, f, saving[f]) PROVE FALSE
        OBVIOUS
    <2>1. r \in rows \cup new /\ r.file = f /\ r.data # NoData
          /\ Checksum(f, r.data) = Checksum(f, saving[f])
        BY <1>1 DEF Same
    <2>2. saving[f].whole /\ ~ disk[f].whole /\ disk[f] # Absent /\ Same(rows, f, saving[f]) = {}
        BY <1>7 DEF Base, Contents, SaveKnown
    <2>3. r \notin rows
        BY <2>1, <2>2 DEF Same
    <2>4. r.data = disk[f]
        BY <2>1, <2>3 DEF IsNew
    <2>5. disk[f] \in Content
        BY <1>4, <2>2
    <2> QED
        BY <1>7, <2>1, <2>2, <2>4, <2>5, SameContent
<1>8. ASSUME NEW f \in Files
      PROVE  Dated(tbl, f, disk[f], changedAt[f])
    <2> SUFFICES ASSUME disk[f] # Absent, ~ Timed(f, disk[f]), InWindow(changedAt[f]),
                        Same(tbl, f, disk[f]) # {}
                 PROVE  \E r \in Same(tbl, f, disk[f]) : r.date >= changedAt[f]
        BY DEF Dated
    <2>1. \E r \in Same(rows \cup new, f, disk[f]) : r.date >= changedAt[f]
        <3>1. PICK r \in Same(tbl, f, disk[f]) : TRUE
            OBVIOUS
        <3>2. CASE r \in rows
            <4>1. Dated(rows, f, disk[f], changedAt[f]) /\ Same(rows, f, disk[f]) # {}
                BY <3>1, <3>2 DEF Base, Contents, Same
            <4>2. \E q \in Same(rows, f, disk[f]) : q.date >= changedAt[f]
                BY <4>1 DEF Dated
            <4> QED
                BY <4>2 DEF Same
        <3>3. CASE r \in new
            <4>1. IsNew(r) /\ r.file = f /\ r.data # NoData
                BY <3>1, <3>3 DEF Same
            <4>2. r.data = disk[f] /\ r.date = DateOf(f, disk[f], now)
                BY <4>1 DEF IsNew
            <4>3. r.date = now
                BY <4>2 DEF DateOf, Timed
            <4> QED
                BY <1>4, <3>1, <3>3, <4>3 DEF Same
        <3> QED
            BY <1>1, <3>1, <3>2, <3>3 DEF Same
    <2> QED
        BY <1>4, <2>1, HeldSurvives
<1>9. ASSUME NEW q \in Process, recovery[q] # Idle
      PROVE  SlotKnown(tbl, recovery[q])
    <2>1. PICK s \in Recovering : s = recovery[q]
        BY <1>9 DEF Base, TypeOK
    <2>2. SlotKnown(rows, s) /\ s # Idle /\ s.row \in Row(Content)
        BY <1>9, <2>1 DEF Base, Contents, Recovering
    <2>3. s.row.date \in Nat /\ s.row.file \in Files /\ s.kept \in Content \cup {Absent}
        BY <2>1, <2>2 DEF Row, Recovering
    <2>4. ASSUME InWindow(s.row.date)
          PROVE  s.row \in tbl
        <3>1. s.row \in rows \cup new
            BY <2>2, <2>4 DEF SlotKnown
        <3>2. s.row \in Retained(rows \cup new, p.days, p.sessions, now)
            <4>1. PICK r \in rows \cup new, t \in Nat : r = s.row /\ t = s.row.date
                BY <2>3, <3>1
            <4>2. r.date \in Nat /\ r.date >= t /\ InWindow(t)
                BY <2>4, <4>1
            <4> QED
                BY <1>4, <4>1, <4>2, WindowSurvives
        <3> QED
            BY <3>2, PassedIs
    <2>5. ASSUME s.kept # Absent
          PROVE  KeptKnown(tbl, s.row.file, s.kept)
        <3> DEFINE f == s.row.file
                   c == s.kept
        <3>1. KeptKnown(rows, f, c)
            BY <2>2, <2>5 DEF SlotKnown
        <3> SUFFICES ASSUME Timed(f, c) \/ disk[f] = c, InWindow(DateOf(f, c, changedAt[f]))
                     PROVE  HeldAt(tbl, f, c, changedAt[f])
            BY <3>1 DEF KeptKnown
        <3>2. \E r \in Same(rows, f, c) : r.date >= DateOf(f, c, changedAt[f])
            BY <3>1 DEF KeptKnown, HeldAt
        <3>3. \E r \in Same(rows \cup new, f, c) : r.date >= DateOf(f, c, changedAt[f])
            BY <3>2 DEF Same
        <3>4. DateOf(f, c, changedAt[f]) \in Nat
            BY <1>4, <2>3, <2>5 DEF DateOf, Content
        <3> QED
            BY <2>3, <3>3, <3>4, HeldSurvives DEF HeldAt
    <2> QED
        BY <2>1, <2>2, <2>4, <2>5 DEF SlotKnown
<1>10. \A q \in Process : SlotKnown(tbl, recovery[q])
    BY <1>9 DEF SlotKnown
<1> QED
    BY <1>3, <1>6, <1>7, <1>8, <1>10 DEF TableKnown

\* Change detection skips a file only if a row with its bytes, dated no earlier than
\* the file, is there.
LEMMA SkippedIsHeld ==
    ASSUME Base, NEW f \in Files, disk[f] # Absent, Unchanged(rows, f, disk[f]),
           InWindow(DateOf(f, disk[f], changedAt[f]))
    PROVE  HeldAt(rows, f, disk[f], changedAt[f])
<1> DEFINE last == NewestRow(rows, f)
<1>1. /\ last # NoRow /\ last.data # NoData
      /\ Checksum(f, last.data) = Checksum(f, disk[f])
    BY DEF Unchanged
<1>2. last \in rows /\ last.file = f
    BY <1>1 DEF NewestRow, IsAt, RowsOf
<1>3. last \in Same(rows, f, disk[f])
    BY <1>1, <1>2 DEF Same
<1>4. RowKnown(last) /\ last \in Row(Content) /\ disk[f] \in Content
    BY <1>2 DEF Base, TypeOK, Contents
<1>5. CASE Timed(f, disk[f])
    <2>1. last.data \in Content
        BY <1>1, <1>4 DEF Row
    <2>2. last.data.ts = disk[f].ts
        BY <1>1, <1>4, <2>1, SameContent
    <2>3. last.date = disk[f].ts
        BY <1>1, <1>2, <1>4, <1>5, <2>2 DEF RowKnown, Timed
    <2> QED
        BY <1>3, <1>4, <1>5, <2>3 DEF HeldAt, DateOf, Timed, Content
<1>6. CASE ~ Timed(f, disk[f])
    <2>1. DateOf(f, disk[f], changedAt[f]) = changedAt[f]
        BY <1>6 DEF DateOf, Timed
    <2> QED
        BY <1>3, <1>6, <2>1 DEF Base, Contents, Dated, HeldAt
<1> QED
    BY <1>5, <1>6

\* A file the pass looks at is held afterwards.
LEMMA PassHolds ==
    ASSUME Base, NEW fs \in SUBSET Files, NEW st \in State \ {"Deleted"}, NEW new,
           \A r \in new : IsNew(r), FileRows(rows, fs, st, now) \subseteq new,
           NEW p \in Policies, NEW tbl \in Passed(rows \cup new, p, now),
           NEW f \in fs, disk[f] # Absent,
           InWindow(DateOf(f, disk[f], changedAt[f]))
    PROVE  HeldAt(tbl, f, disk[f], changedAt[f])
<1> DEFINE t == DateOf(f, disk[f], changedAt[f])
<1>1. /\ disk[f] \in Content /\ now \in Nat /\ changedAt[f] \in Nat /\ changedAt[f] <= now
      /\ IsFiniteSet(rows)
    BY DEF Base, TypeOK, Contents
<1>2. t \in Nat /\ DateOf(f, disk[f], now) \in Nat /\ DateOf(f, disk[f], now) >= t
    BY <1>1 DEF DateOf, Content
<1>3. \E r \in Same(rows \cup new, f, disk[f]) : r.date >= t
    <2>1. CASE Unchanged(rows, f, disk[f])
        <3>1. \E r \in Same(rows, f, disk[f]) : r.date >= t
            BY <2>1, SkippedIsHeld DEF HeldAt
        <3> QED
            BY <3>1 DEF Same
    <2>2. CASE ~ Unchanged(rows, f, disk[f])
        <3> DEFINE r == NewRow(rows, f, DateOf(f, disk[f], now), st, disk[f])
        <3>1. r \in FileRows(rows, fs, st, now)
            BY <2>2 DEF FileRows, Due
        <3>2. r.file = f /\ r.data = disk[f] /\ r.date = DateOf(f, disk[f], now)
            BY <1>1, <1>2, NewRowIs
        <3>3. r.data # NoData
            BY <1>1, <3>2, MarksAssumption
        <3> HIDE DEF r
        <3> QED
            BY <1>2, <3>1, <3>2, <3>3 DEF Same
    <2> QED
        BY <2>1, <2>2
<1> QED
    BY <1>2, <1>3, HeldSurvives DEF HeldAt

-----------------------------------------------------------------------------
(***************************************************************************)
(* The table stays in order: steps on the directory                        *)
(***************************************************************************)

FileTypes ==
    /\ disk \in [Files -> Content \cup {Absent}]
    /\ saving \in [Files -> Content \cup {NoSave, Unlinked}]
    /\ lastVer \in Nat /\ now \in Nat
    /\ rows \subseteq Row(Content) /\ IsFiniteSet(rows)
    /\ changedAt \in [Files -> Nat]
OtherTypes ==
    /\ commands \in Nat
    /\ events \in [Names -> SUBSET Bits] /\ burst \in [Names -> SUBSET Bits]
    /\ dash \in DashState /\ missed \subseteq Files
    /\ recovery \in [Process -> Recovering \cup {Idle}]

LEMMA TypesSplit == TypeOK <=> FileTypes /\ OtherTypes
BY DEF TypeOK, FileTypes, OtherTypes

LEMMA PutIs ==
    ASSUME FileTypes, NEW f \in Files, NEW c, NEW t, Put(f, c, t)
    PROVE  /\ disk'[f] = c /\ \A g \in Files : g # f => disk'[g] = disk[g]
           /\ disk[f] = c => changedAt' = changedAt
           /\ disk[f] # c => changedAt'[f] = t
           /\ \A g \in Files : g # f => changedAt'[g] = changedAt[g]
           /\ c \in Content \cup {Absent} => disk' \in [Files -> Content \cup {Absent}]
           /\ t \in Nat => changedAt' \in [Files -> Nat]
BY DEF Put, FileTypes

LEMMA NotifyTypes ==
    ASSUME OtherTypes, NEW f \in Files, NEW bits \in SUBSET Bits, Notify(f, bits)
    PROVE  events' \in [Names -> SUBSET Bits] /\ missed' \subseteq Files
BY DEF Notify, OtherTypes, Names

LEMMA KnownGrows ==
    ASSUME Base, NEW f \in Files, NEW c \in Content, Known(f, c),
           lastVer' \in Nat, lastVer <= lastVer', now' \in Nat, now <= now'
    PROVE  Known(f, c)'
BY DEF Base, TypeOK, Known, Content

LEMMA RowKnownGrows ==
    ASSUME Base, NEW r \in Row(Content), RowKnown(r),
           lastVer' \in Nat, lastVer <= lastVer', now' \in Nat, now <= now'
    PROVE  RowKnown(r)'
BY KnownGrows DEF Base, TypeOK, RowKnown, Row

\* A version that was never written before is in no row.
LEMMA FreshIsNowhere ==
    ASSUME Base, NEW f \in Files, NEW c \in Content, c.ver > lastVer
    PROVE  Same(rows, f, c) = {}
<1> SUFFICES ASSUME NEW r \in Same(rows, f, c) PROVE FALSE
    OBVIOUS
<1>1. r \in rows /\ r.file = f /\ r.data \in Content /\ RowKnown(r)
      /\ Checksum(f, r.data) = Checksum(f, c) /\ r.data # NoData
    BY DEF Same, Base, TypeOK, Row, Contents
<1>2. r.data.ver = c.ver /\ r.data.ver <= lastVer
    BY <1>1, SameContent DEF RowKnown, Known
<1> QED
    BY <1>2 DEF Content, Base, TypeOK

\* What may land on f: a version of its own, what the game was writing, a content that
\* its header dates, or one that the table has with the date it is put back to.
Brings(f, c, t) ==
    c # Absent /\ ~ Timed(f, c) /\ disk[f] # c =>
        \/ c.ver > lastVer
        \/ c = saving[f]
        \/ InWindow(t) => \E r \in Same(rows, f, c) : r.date >= t

\* A step that writes or deletes f alone.
LEMMA WriteKeeps ==
    ASSUME Base, NEW f \in Files, NEW c \in Content \cup {Absent}, NEW t \in Nat, t <= now,
           Put(f, c, t), Brings(f, c, t), rows' = rows, now' = now,
           lastVer' \in Nat, lastVer <= lastVer',
           saving' \in [Files -> Content \cup {NoSave, Unlinked}],
           \A g \in Files : g # f => saving'[g] = saving[g],
           saving'[f] \in Content => saving'[f].ver > lastVer,
           \A p \in Process : recovery'[p] \in {recovery[p], Idle},
           c # Absent => Known(f, c)',
           SaveKnown(f)'
    PROVE  FileTypes' /\ Contents'
<1>1. FileTypes
    BY TypesSplit DEF Base
<1>2. /\ disk'[f] = c /\ \A g \in Files : g # f => disk'[g] = disk[g]
      /\ \A g \in Files : g # f => changedAt'[g] = changedAt[g]
      /\ disk[f] = c => changedAt'[f] = changedAt[f]
      /\ disk[f] # c => changedAt'[f] = t
      /\ disk' \in [Files -> Content \cup {Absent}] /\ changedAt' \in [Files -> Nat]
    BY <1>1, PutIs
<1>3. FileTypes'
    BY <1>1, <1>2 DEF FileTypes
<1>4. now' \in Nat /\ now <= now' /\ lastVer \in Nat
    BY <1>1 DEF FileTypes
<1>5. \A r \in rows' : RowKnown(r)'
    BY <1>1, <1>4, RowKnownGrows DEF Base, Contents, FileTypes
<1>6. \A g \in Files : (disk[g] # Absent => Known(g, disk[g]))'
    BY <1>1, <1>2, <1>4, KnownGrows DEF Base, Contents, FileTypes
<1>7. \A g \in Files : changedAt'[g] <= now'
    BY <1>1, <1>2 DEF Base, Contents, FileTypes
<1>8. \A g \in Files : SaveKnown(g)'
    <2> SUFFICES ASSUME NEW g \in Files, g # f PROVE SaveKnown(g)'
        OBVIOUS
    <2>1. SaveKnown(g) /\ saving'[g] = saving[g] /\ disk'[g] = disk[g]
        BY <1>2 DEF Base, Contents
    <2> QED
        BY <1>4, <2>1, KnownGrows DEF SaveKnown, Same
<1>9. \A g \in Files : Dated(rows, g, disk[g], changedAt[g])'
    <2>1. ASSUME NEW g \in Files, g # f
          PROVE  Dated(rows, g, disk[g], changedAt[g])'
        <3>1. Dated(rows, g, disk[g], changedAt[g])
            BY DEF Base, Contents
        <3> QED
            BY <1>2, <2>1, <3>1 DEF Dated, Same, InWindow
    <2>2. CASE disk[f] = c
        <3>1. Dated(rows, f, disk[f], changedAt[f])
            BY DEF Base, Contents
        <3> QED
            BY <1>2, <2>1, <2>2, <3>1 DEF Dated, Same, InWindow
    <2>3. CASE disk[f] # c
        <3> SUFFICES ASSUME c # Absent, ~ Timed(f, c), InWindow(t), Same(rows, f, c) # {}
                     PROVE  \E r \in Same(rows, f, c) : r.date >= t
            BY <1>2, <2>1, <2>3 DEF Dated, Same, InWindow
        <3>1. c \in Content
            OBVIOUS
        <3>2. ~ c.ver > lastVer
            BY <3>1, FreshIsNowhere
        <3>3. c # saving[f]
            BY <3>1 DEF Base, Contents, SaveKnown
        <3> QED
            BY <2>3, <3>2, <3>3 DEF Brings
    <2> QED
        BY <2>2, <2>3
<1>10. ASSUME NEW p \in Process, recovery'[p] # Idle
       PROVE  SlotKnown(rows, recovery[p])'
    <2>1. PICK s \in Recovering : s = recovery[p] /\ s = recovery'[p]
        BY <1>10 DEF Base, TypeOK
    <2>2. SlotKnown(rows, s) /\ s # Idle
        BY <1>10, <2>1 DEF Base, Contents
    <2> DEFINE g == s.row.file
               k == s.kept
    <2>3. s.row \in Row(Content) /\ g \in Files /\ k \in Content \cup {Absent}
        BY <2>1 DEF Recovering, Row
    <2>4. RowKnown(s.row)' /\ (InWindow(s.row.date)' => s.row \in rows')
        BY <1>4, <2>2, <2>3, RowKnownGrows DEF SlotKnown, InWindow
    <2>5. ASSUME k # Absent
          PROVE  KeptKnown(rows, g, k)'
        <3> HIDE DEF g, k
        <3>1. KeptKnown(rows, g, k) /\ k \in Content
            BY <2>2, <2>3, <2>5 DEF SlotKnown, g, k
        <3>2. Known(g, k)'
            BY <1>4, <2>3, <3>1, KnownGrows DEF KeptKnown
        <3>3. k # saving'[g]
            <4>1. k.ver <= lastVer
                BY <3>1 DEF KeptKnown, Known
            <4>2. ~ k.ver > lastVer
                BY <1>4, <3>1, <4>1 DEF Content
            <4> QED
                BY <2>3, <3>1, <4>2 DEF KeptKnown
        <3>4. ASSUME Timed(g, k) \/ disk'[g] = k, InWindow(DateOf(g, k, changedAt'[g]))
              PROVE  HeldAt(rows, g, k, changedAt'[g])
            <4>1. CASE Timed(g, k)
                <5>1. DateOf(g, k, changedAt'[g]) = DateOf(g, k, changedAt[g])
                    BY <4>1 DEF Timed, DateOf
                <5> QED
                    BY <3>1, <3>4, <4>1, <5>1 DEF KeptKnown, HeldAt
            <4>2. CASE disk'[g] = disk[g] /\ changedAt'[g] = changedAt[g]
                BY <3>1, <3>4, <4>2 DEF KeptKnown
            <4>3. CASE ~ Timed(g, k) /\ g = f /\ disk[f] # c
                <5>1. k = c /\ changedAt'[g] = t /\ c # Absent
                    BY <1>2, <2>5, <3>4, <4>3
                <5>2. DateOf(g, k, changedAt'[g]) = t
                    BY <4>3, <5>1 DEF DateOf, Timed
                <5>3. ~ c.ver > lastVer /\ c # saving[f]
                    <6>1. k.ver <= lastVer /\ k # saving[g]
                        BY <3>1 DEF KeptKnown, Known
                    <6> QED
                        BY <1>4, <3>1, <4>3, <5>1, <6>1 DEF Content
                <5>4. \E r \in Same(rows, f, c) : r.date >= t
                    BY <3>4, <4>3, <5>1, <5>2, <5>3 DEF Brings
                <5> QED
                    BY <4>3, <5>1, <5>2, <5>4 DEF HeldAt
            <4> QED
                BY <1>2, <2>3, <4>1, <4>2, <4>3
        <3> QED
            BY <3>2, <3>3, <3>4 DEF KeptKnown, HeldAt, Same, InWindow, Timed, DateOf
    <2> QED
        BY <2>1, <2>4, <2>5 DEF SlotKnown
<1>11. \A p \in Process : SlotKnown(rows, recovery[p])'
    BY <1>10 DEF SlotKnown
<1> QED
    BY <1>3, <1>5, <1>6, <1>7, <1>8, <1>9, <1>11 DEF Contents

\* A step that inserts and prunes alone, and may take a recovery forward.
LEMMA TableKeeps ==
    ASSUME Base, TableKnown(rows'), UNCHANGED <<fileVars, now>>,
           \A p \in Process : recovery'[p] \in {recovery[p], Idle} \/ SlotKnown(rows', recovery'[p])
    PROVE  FileTypes' /\ Contents'
<1>1. /\ disk' = disk /\ saving' = saving /\ lastVer' = lastVer /\ changedAt' = changedAt
      /\ now' = now /\ FileTypes
    BY TypesSplit DEF fileVars, Base
<1>2. FileTypes'
    BY <1>1 DEF FileTypes, TableKnown
<1>3. \A r \in rows' : RowKnown(r)'
    BY <1>1 DEF TableKnown, RowKnown, Known
<1>4. \A f \in Files : (disk[f] # Absent => Known(f, disk[f]))' /\ changedAt'[f] <= now'
    BY <1>1 DEF Base, Contents, Known
<1>5. \A f \in Files : SaveKnown(f)'
    BY <1>1 DEF Base, Contents, TableKnown, SaveKnown, Known, Same
<1>6. \A f \in Files : Dated(rows, f, disk[f], changedAt[f])'
    BY <1>1 DEF TableKnown, Dated, Same, InWindow
<1>7. ASSUME NEW p \in Process
      PROVE  SlotKnown(rows, recovery[p])'
    <2>1. SlotKnown(rows', recovery'[p])
        BY DEF TableKnown, SlotKnown
    <2> QED
        BY <2>1, <1>1 DEF SlotKnown, RowKnown, KeptKnown, Known, HeldAt, Same, InWindow, Timed,
                          DateOf
<1> QED
    BY <1>2, <1>3, <1>4, <1>5, <1>6, <1>7 DEF Contents

\* A content torn.
LEMMA TornIs ==
    ASSUME NEW c \in Content, NEW ts \in Nat, NEW torn,
           torn = [c EXCEPT !.ts = ts, !.whole = FALSE, !.summed = (ts = 0)]
    PROVE  /\ torn \in Content /\ torn.ver = c.ver /\ torn.ts = ts
           /\ ~ torn.whole /\ (torn.summed <=> ts = 0)
BY DEF Content

LEMMA BeginSaveKeeps ==
    ASSUME Base, NEW f \in Files, BeginSave(f)
    PROVE  FileTypes' /\ Contents'
<1>1. /\ lastVer \in Nat /\ now \in Nat /\ lastVer' = lastVer + 1 /\ now' = now /\ rows' = rows
      /\ saving \in [Files -> Content \cup {NoSave, Unlinked}] /\ FileTypes
      /\ recovery' = recovery
    BY TypesSplit DEF BeginSave, Base, TypeOK
<1>2. \E c, torn \in Content :
         /\ saving' = [saving EXCEPT ![f] = c] /\ Put(f, torn, now)
         /\ c.ver = lastVer + 1 /\ c.ts <= now /\ c.whole /\ c.summed
         /\ torn.ver = lastVer + 1 /\ torn.ts <= now /\ ~ torn.whole
         /\ ~ torn.summed => torn.ts > 0
    <2> DEFINE c == [ver |-> lastVer', ts |-> HeaderTime(f, now), whole |-> TRUE, summed |-> TRUE]
               torn(ts) == [c EXCEPT !.ts = ts, !.whole = FALSE, !.summed = (ts = 0)]
    <2>1. PICK ts \in {0, c.ts} : Put(f, torn(ts), now)
        BY DEF BeginSave
    <2>2. saving' = [saving EXCEPT ![f] = c]
        BY DEF BeginSave
    <2>3. HeaderTime(f, now) \in 0..now /\ c.ts = HeaderTime(f, now)
        BY <1>1 DEF HeaderTime
    <2>4. /\ c \in Content /\ c.ver = lastVer + 1 /\ c.ts <= now /\ c.whole /\ c.summed
        BY <1>1, <2>3 DEF Content
    <2> HIDE DEF c
    <2>5. ts \in Nat /\ ts <= now
        BY <1>1, <2>1, <2>4 DEF Content
    <2>6. PICK d : d = torn(ts) /\ d = [c EXCEPT !.ts = ts, !.whole = FALSE, !.summed = (ts = 0)]
        OBVIOUS
    <2> HIDE DEF torn
    <2>7. /\ d \in Content /\ d.ver = lastVer + 1 /\ d.ts = ts
          /\ ~ d.whole /\ (d.summed <=> ts = 0)
        <3>1. /\ d \in Content /\ d.ver = c.ver /\ d.ts = ts
              /\ ~ d.whole /\ (d.summed <=> ts = 0)
            BY <2>4, <2>5, <2>6, TornIs
        <3> QED
            BY <2>4, <3>1
    <2>8. d.ts <= now /\ (~ d.summed => d.ts > 0)
        BY <2>5, <2>7
    <2> QED
        BY <2>1, <2>2, <2>4, <2>6, <2>7, <2>8
<1>3. PICK c \in Content, torn \in Content :
         /\ saving' = [saving EXCEPT ![f] = c] /\ Put(f, torn, now)
         /\ c.ver = lastVer + 1 /\ c.ts <= now /\ c.whole /\ c.summed
         /\ torn.ver = lastVer + 1 /\ torn.ts <= now /\ ~ torn.whole
         /\ ~ torn.summed => torn.ts > 0
    BY <1>2
<1>4. Same(rows, f, c) = {}
    BY <1>1, <1>3, FreshIsNowhere DEF Content
<1>5. saving' \in [Files -> Content \cup {NoSave, Unlinked}] /\ saving'[f] = c
      /\ \A g \in Files : g # f => saving'[g] = saving[g]
    BY <1>1, <1>3
<1>6. disk'[f] = torn /\ torn # Absent
    BY <1>1, <1>3, PutIs, MarksAssumption
<1>7. Known(f, torn)' /\ Known(f, c)'
    BY <1>1, <1>3 DEF Known
<1>8. SaveKnown(f)'
    BY <1>1, <1>3, <1>4, <1>5, <1>6, <1>7 DEF SaveKnown, Same
<1>9. Brings(f, torn, now) /\ saving'[f].ver > lastVer
    BY <1>1, <1>3, <1>5 DEF Brings
<1> QED
    BY <1>1, <1>3, <1>5, <1>7, <1>8, <1>9, WriteKeeps

\* A write to a file without a name changes no file.
LEMMA EndSaveKeeps ==
    ASSUME Base, NEW f \in Files, EndSave(f)
    PROVE  FileTypes' /\ Contents'
<1>1. /\ saving' = [saving EXCEPT ![f] = NoSave]
      /\ lastVer' = lastVer /\ now' = now /\ rows' = rows /\ recovery' = recovery
    BY DEF EndSave
<1>2. /\ FileTypes /\ now \in Nat /\ lastVer \in Nat
      /\ saving \in [Files -> Content \cup {NoSave, Unlinked}]
    BY TypesSplit DEF Base, TypeOK
<1>3. /\ saving' \in [Files -> Content \cup {NoSave, Unlinked}]
      /\ saving'[f] = NoSave /\ NoSave \notin Content
      /\ \A g \in Files : g # f => saving'[g] = saving[g]
    BY <1>1, <1>2, MarksAssumption
<1>4. SaveKnown(f)'
    BY <1>3 DEF SaveKnown
<1>5. CASE saving[f] \in Content
    <2>1. PICK c \in Content : c = saving[f]
        BY <1>5
    <2>2. c # Unlinked
        BY MarksAssumption
    <2>3. Put(f, c, now)
        BY <2>1, <2>2 DEF EndSave
    <2>4. Known(f, c)' /\ Brings(f, c, now)
        BY <1>1, <1>5, <2>1 DEF Base, Contents, SaveKnown, Known, Brings
    <2> QED
        BY <1>1, <1>2, <1>3, <1>4, <2>3, <2>4, WriteKeeps
<1>6. CASE saving[f] \notin Content
    <2>1. saving[f] = Unlinked
        BY <1>2, <1>6 DEF EndSave
    <2>2. disk' = disk /\ changedAt' = changedAt
        BY <2>1 DEF EndSave
    <2>3. PICK c \in Content \cup {Absent} : c = disk[f]
        BY <1>2 DEF FileTypes
    <2>4. Put(f, c, now)
        BY <1>2, <2>2, <2>3 DEF Put, FileTypes
    <2>5. (c # Absent => Known(f, c)') /\ Brings(f, c, now)
        BY <1>1, <2>3 DEF Base, Contents, Known, Brings
    <2> QED
        BY <1>1, <1>2, <1>3, <1>4, <2>4, <2>5, WriteKeeps
<1> QED
    BY <1>5, <1>6

\* A file whose name goes to something else, or to nothing, is not written any more.
LEMMA ReplaceKeeps ==
    ASSUME Base, NEW f \in Files, NEW c \in Content \cup {Absent}, NEW t \in Nat, t <= now,
           NEW bits, Replace(f, c, t, bits), Brings(f, c, t), rows' = rows, now' = now,
           lastVer' \in Nat, lastVer <= lastVer',
           \A p \in Process : recovery'[p] \in {recovery[p], Idle},
           c # Absent => Known(f, c)'
    PROVE  FileTypes' /\ Contents'
<1>1. /\ Put(f, c, t)
      /\ saving' = [saving EXCEPT ![f] = IF saving[f] = NoSave THEN NoSave ELSE Unlinked]
      /\ saving \in [Files -> Content \cup {NoSave, Unlinked}]
    BY DEF Replace, Base, TypeOK
<1>2. /\ saving' \in [Files -> Content \cup {NoSave, Unlinked}] /\ saving'[f] \notin Content
      /\ \A g \in Files : g # f => saving'[g] = saving[g]
    BY <1>1, MarksAssumption
<1>3. SaveKnown(f)'
    BY <1>2 DEF SaveKnown
<1> QED
    BY <1>1, <1>2, <1>3, WriteKeeps

LEMMA DeleteKeeps ==
    ASSUME Base, NEW f \in Files, DeleteSave(f)
    PROVE  FileTypes' /\ Contents'
<1>1. /\ now \in Nat /\ lastVer \in Nat /\ Replace(f, Absent, now, {"DELETE"})
      /\ lastVer' = lastVer /\ now' = now /\ rows' = rows /\ recovery' = recovery
    BY DEF DeleteSave, Base, TypeOK
<1>2. Brings(f, Absent, now)
    BY DEF Brings
<1> QED
    BY <1>1, <1>2, ReplaceKeeps

\* A rename brings a version of its own, or one that its header dates.
LEMMA RenameKeeps ==
    ASSUME Base, NEW f \in Files, NEW c \in Content, RenameOnto(f, c),
           lastVer' \in Nat, lastVer <= lastVer', c.ver <= lastVer', c.ts <= now,
           f \in CharFiles /\ ~ c.summed => c.ts > 0,
           Timed(f, c) \/ c.ver > lastVer
    PROVE  FileTypes' /\ Contents'
<1>1. /\ now \in Nat /\ Replace(f, c, now, {"MOVED_TO"})
      /\ now' = now /\ rows' = rows /\ recovery' = recovery
    BY DEF RenameOnto, Base, TypeOK
<1>2. Brings(f, c, now)
    BY DEF Brings
<1>3. Known(f, c)'
    BY <1>1 DEF Known
<1> QED
    BY <1>1, <1>2, <1>3, ReplaceKeeps

LEMMA ImportKeeps ==
    ASSUME Base, NEW f \in Files, Import(f)
    PROVE  FileTypes' /\ Contents'
<1>1. PICK t \in 1..now, ok \in BOOLEAN :
         RenameOnto(f, [ver |-> lastVer', ts |-> HeaderTime(f, t), whole |-> TRUE, summed |-> ok])
    BY DEF Import
<1> DEFINE c == [ver |-> lastVer', ts |-> HeaderTime(f, t), whole |-> TRUE, summed |-> ok]
<1>2. lastVer \in Nat /\ lastVer' = lastVer + 1 /\ now \in Nat
    BY DEF Import, Base, TypeOK
<1>3. c \in Content /\ c.ver = lastVer + 1 /\ c.ts <= now /\ (f \in CharFiles => c.ts > 0)
    BY <1>2 DEF Content, HeaderTime
<1>4. RenameOnto(f, c)
    BY <1>1
<1> HIDE DEF c
<1> QED
    BY <1>2, <1>3, <1>4, RenameKeeps

LEMMA EditKeeps ==
    ASSUME Base, NEW f \in Files, EditSave(f)
    PROVE  FileTypes' /\ Contents'
<1> DEFINE c == [disk[f] EXCEPT !.ver = lastVer', !.summed = TRUE]
<1>1. /\ lastVer \in Nat /\ lastVer' = lastVer + 1 /\ now \in Nat
      /\ disk[f] \in Content /\ Known(f, disk[f]) /\ RenameOnto(f, c)
    BY DEF EditSave, HasHeader, Base, TypeOK, Contents
<1>2. c \in Content /\ c.ver = lastVer + 1 /\ c.ts <= now /\ c.summed
    <2>1. lastVer' \in Nat
        BY <1>1
    <2>2. PICK d \in Content, v \in Nat : d = disk[f] /\ v = lastVer'
        BY <1>1, <2>1
    <2>3. c = [d EXCEPT !.ver = v, !.summed = TRUE]
        BY <2>2
    <2> HIDE DEF c
    <2>4. c \in Content /\ c.ver = v /\ c.ts = d.ts /\ c.summed
        BY <2>3 DEF Content
    <2> QED
        BY <1>1, <2>2, <2>4 DEF Known
<1> HIDE DEF c
<1> QED
    BY <1>1, <1>2, RenameKeeps

LEMMA RepairKeeps ==
    ASSUME Base, NEW f \in Files, RepairSave(f)
    PROVE  FileTypes' /\ Contents'
<1> DEFINE c == [disk[f] EXCEPT !.summed = TRUE]
<1>1. /\ lastVer \in Nat /\ lastVer' = lastVer /\ now \in Nat
      /\ disk[f] \in Content /\ Known(f, disk[f]) /\ RenameOnto(f, c)
      /\ f \in CharFiles /\ disk[f].ts > 0
    BY DEF RepairSave, HasHeader, Base, TypeOK, Contents
<1>2. c \in Content /\ c.ver <= lastVer /\ c.ts <= now /\ c.ts > 0 /\ c.summed
    BY <1>1 DEF Content, Known
<1> HIDE DEF c
<1>3. Timed(f, c)
    BY <1>1, <1>2 DEF Timed
<1> QED
    BY <1>1, <1>2, <1>3, RenameKeeps

-----------------------------------------------------------------------------
(***************************************************************************)
(* The table stays in order: passes and recoveries                         *)
(***************************************************************************)

LEMMA SnapshotKeeps ==
    ASSUME Base, NEW fs \in SUBSET Files, NEW lost, NEW st \in State \ {"Deleted"},
           NEW p \in Policies, NEW tbl \in Snapshots(rows, fs, lost, st, now, p)
    PROVE  TableKnown(tbl)
<1>1. fs \ lost \in SUBSET Files
    OBVIOUS
<1> QED
    BY <1>1, FileRowsAreNew, TableGrows DEF Snapshots

\* A file that the snapshot looked at, and did not fail to insert, is held.
LEMMA SnapshotHolds ==
    ASSUME Base, NEW fs \in SUBSET Files, NEW lost, NEW st \in State \ {"Deleted"},
           NEW p \in Policies, NEW tbl \in Snapshots(rows, fs, lost, st, now, p),
           NEW f \in fs \ lost, disk[f] # Absent, InWindow(DateOf(f, disk[f], changedAt[f]))
    PROVE  HeldAt(tbl, f, disk[f], changedAt[f])
<1> DEFINE new == FileRows(rows, fs \ lost, st, now)
<1>1. fs \ lost \in SUBSET Files
    OBVIOUS
<1>2. \A r \in new : IsNew(r)
    BY <1>1, FileRowsAreNew
<1>3. tbl \in Passed(rows \cup new, p, now)
    BY DEF Snapshots
<1> QED
    BY <1>1, <1>2, <1>3, PassHolds

\* A process that recovers has a policy.
LEMMA PolicyKnown ==
    ASSUME Base, NEW p \in Process, recovery[p] # Idle
    PROVE  PolicyOf(p) \in Policies
BY DEF Base, Kernel, Process, PolicyOf, Policies

LEMMA LookUpKeeps ==
    ASSUME Base, NEW p \in Process, NEW f \in Files, NEW ask, NEW pre, LookUp(p, f, ask, pre)
    PROVE  FileTypes' /\ Contents'
<1>1. PICK row : row = At(rows, f, ask)
    OBVIOUS
<1>2. row \in rows
    BY <1>1 DEF LookUp, At
<1>3. SlotKnown(rows, recovery'[p]) /\ \A q \in Process : q # p => recovery'[q] = recovery[q]
    <2>1. recovery \in [Process -> Recovering \cup {Idle}]
        BY DEF Base, TypeOK
    <2>2. \E st : recovery'[p] = [step |-> st, row |-> row, kept |-> Absent]
        BY <1>1, <2>1 DEF LookUp
    <2> QED
        BY <1>2, <2>1, <2>2 DEF LookUp, SlotKnown, Base, Contents
<1>4. UNCHANGED <<fileVars, now>> /\ rows' = rows
    BY DEF LookUp
<1> QED
    BY <1>3, <1>4, BaseTable, TableKeeps

LEMMA PreSnapshotKeeps ==
    ASSUME Base, NEW p \in Process, recovery[p] # Idle, PreSnapshot(p)
    PROVE  FileTypes' /\ Contents'
<1>1. PICK s \in Recovering : s = recovery[p]
    BY DEF Base, TypeOK
<1>2. PICK f \in Files : f = s.row.file
    BY <1>1 DEF Recovering, Row
<1>3. PICK lost \in Lost(Due(rows, {f})) :
         /\ rows' \in IF disk[f] = Absent THEN {rows}
                     ELSE Snapshots(rows, {f}, lost, "Autosave", now, PolicyOf(p))
         /\ recovery' = [recovery EXCEPT
                            ![p].step = "apply",
                            ![p].kept = IF f \in lost THEN Absent ELSE disk[f]]
    BY <1>1, <1>2 DEF PreSnapshot
<1>4. UNCHANGED <<fileVars, now>> /\ PolicyOf(p) \in Policies
    BY PolicyKnown DEF PreSnapshot
<1>5. "Autosave" \in State \ {"Deleted"} /\ {f} \in SUBSET Files
    BY DEF State
<1>6. TableKnown(rows')
    BY <1>3, <1>4, <1>5, BaseTable, SnapshotKeeps
<1>7. SlotKnown(rows', recovery'[p])
    <2>1. recovery'[p] = [s EXCEPT !.step = "apply", !.kept = IF f \in lost THEN Absent ELSE disk[f]]
        BY <1>1, <1>3 DEF Base, TypeOK
    <2>2. recovery'[p].row = s.row /\ recovery'[p].kept = IF f \in lost THEN Absent ELSE disk[f]
        BY <2>1 DEF Recovering
    <2>3. SlotKnown(rows', s)
        BY <1>1, <1>6 DEF TableKnown
    <2>4. ASSUME disk[f] # Absent, f \notin lost
          PROVE  KeptKnown(rows', f, disk[f])
        <3>1. Known(f, disk[f]) /\ disk[f] # saving[f]
            BY <2>4, MarksAssumption DEF Base, TypeOK, Contents, SaveKnown
        <3>2. ASSUME InWindow(DateOf(f, disk[f], changedAt[f]))
              PROVE  HeldAt(rows', f, disk[f], changedAt[f])
            BY <1>3, <1>4, <1>5, <2>4, <3>2, SnapshotHolds
        <3> QED
            BY <3>1, <3>2 DEF KeptKnown
    <2>5. s # Idle
        BY <1>1
    <2> QED
        BY <1>2, <2>2, <2>3, <2>4, <2>5 DEF SlotKnown
<1>8. \A q \in Process : q # p => recovery'[q] = recovery[q]
    BY <1>3 DEF Base, TypeOK
<1> QED
    BY <1>4, <1>6, <1>7, <1>8, TableKeeps

\* A restored file is as old as the row it comes from, which is still there unless it has
\* left the window.
LEMMA ApplyKeeps ==
    ASSUME Base, NEW p \in Process, recovery[p] # Idle, Apply(p)
    PROVE  FileTypes' /\ Contents'
<1>1. PICK s \in Recovering : s = recovery[p]
    BY DEF Base, TypeOK
<1>2. PICK row \in Row(Content), f \in Files : row = s.row /\ f = row.file
    BY DEF Recovering, Row
<1>3. RowKnown(row) /\ (InWindow(row.date) => row \in rows)
    BY <1>1, <1>2 DEF Base, Contents, SlotKnown
<1>4. /\ lastVer' = lastVer /\ now' = now /\ rows' = rows /\ lastVer \in Nat /\ now \in Nat
      /\ \A q \in Process : recovery'[q] \in {recovery[q], Idle}
    BY DEF Apply, Base, TypeOK
<1>5. CASE row.state = "Deleted" /\ disk[f] = Absent
    <2>1. UNCHANGED <<fileVars, now>>
        BY <1>1, <1>2, <1>4, <1>5 DEF Apply, fileVars
    <2> QED
        BY <1>4, <2>1, BaseTable, TableKeeps
<1>6. CASE row.state = "Deleted" /\ disk[f] # Absent
    <2>1. Replace(f, Absent, now, {"DELETE"})
        BY <1>1, <1>2, <1>6 DEF Apply
    <2> QED
        BY <1>4, <2>1, ReplaceKeeps DEF Brings
<1>7. CASE row.state # "Deleted"
    <2>1. PICK c \in Content, t \in Nat : c = row.data /\ t = row.date
        BY <1>3, <1>7 DEF Row, RowKnown
    <2>2. Replace(f, c, t, {"MOVED_TO"}) /\ t <= now /\ c # NoData
        BY <1>1, <1>2, <1>3, <1>7, <2>1 DEF Apply, RowKnown
    <2>3. Known(f, c)'
        BY <1>2, <1>3, <1>4, <2>1, <2>2 DEF RowKnown, Known
    <2>4. Brings(f, c, t)
        <3>1. row \in rows => row \in Same(rows, f, c) /\ row.date >= t
            BY <1>2, <2>1, <2>2 DEF Same, Row
        <3> QED
            BY <1>3, <2>1, <3>1 DEF Brings
    <2> QED
        BY <1>4, <2>2, <2>3, <2>4, ReplaceKeeps
<1> QED
    BY <1>5, <1>6, <1>7

\* What a burst leads to, where the inserts for `lost` fail.
BurstRows(b, lost) ==
    {Tombstone(rows, f, now) : f \in Deleted(b) \ lost}
        \cup FileRows(rows, Written(b) \ lost, ClassifyBurst(b), now)

LEMMA BurstRowsAreNew ==
    ASSUME Base, NEW b, NEW lost
    PROVE  /\ IsFiniteSet(BurstRows(b, lost)) /\ \A r \in BurstRows(b, lost) : IsNew(r)
           /\ Deleted(b) \in SUBSET Files /\ Written(b) \in SUBSET Files
           /\ ClassifyBurst(b) \in State \ {"Deleted"}
<1>1. /\ Deleted(b) \in SUBSET Files /\ Written(b) \in SUBSET Files
      /\ Deleted(b) \ lost \in SUBSET Files /\ Written(b) \ lost \in SUBSET Files
      /\ ClassifyBurst(b) \in State \ {"Deleted"}
    BY DEF Deleted, Written, ClassifyBurst, State
<1> DEFINE tombs == {Tombstone(rows, f, now) : f \in Deleted(b) \ lost}
           files == FileRows(rows, Written(b) \ lost, ClassifyBurst(b), now)
<1>2. IsFiniteSet(tombs) /\ \A r \in tombs : IsNew(r)
    BY <1>1, TombstonesAreNew
<1>3. IsFiniteSet(files) /\ \A r \in files : IsNew(r)
    BY <1>1, FileRowsAreNew
<1>4. BurstRows(b, lost) = tombs \cup files
    BY DEF BurstRows
<1> HIDE DEF tombs, files
<1> QED
    BY <1>1, <1>2, <1>3, <1>4, FS_Union

\* A burst that is not taken for a launch.
Handles(lost) ==
    /\ rows' \in Passed(rows \cup BurstRows(burst, lost), Policy, now)
    /\ missed' = (missed \ Looked(burst)) \cup lost

LEMMA BurstIs ==
    ASSUME HandleBurst, ~ IsLaunchBurst(burst)
    PROVE  \E lost \in Lost(Deleted(burst) \cup Due(rows, Written(burst))) : Handles(lost)
<1>1. PICK lost \in Lost(Deleted(burst) \cup Due(rows, Written(burst))) :
         /\ rows' \in Passed(rows \cup {Tombstone(rows, f, now) : f \in Deleted(burst) \ lost}
                                 \cup FileRows(rows, Written(burst) \ lost,
                                               ClassifyBurst(burst), now),
                             Policy, now)
         /\ missed' = (missed \ Looked(burst)) \cup lost
    BY DEF HandleBurst
<1>2. rows \cup {Tombstone(rows, f, now) : f \in Deleted(burst) \ lost}
           \cup FileRows(rows, Written(burst) \ lost, ClassifyBurst(burst), now)
      = rows \cup BurstRows(burst, lost)
    BY DEF BurstRows
<1> QED
    BY <1>1, <1>2 DEF Handles

LEMMA BurstKeeps ==
    ASSUME Base, HandleBurst
    PROVE  FileTypes' /\ Contents'
<1>1. UNCHANGED <<fileVars, now>> /\ recovery' = recovery /\ Policy \in Policies
    BY DEF HandleBurst, Policies
<1>2. CASE IsLaunchBurst(burst)
    BY <1>1, <1>2, BaseTable, TableKeeps DEF HandleBurst
<1>3. CASE ~ IsLaunchBurst(burst)
    <2>1. PICK lost : Handles(lost)
        BY <1>3, BurstIs
    <2>2. TableKnown(rows')
        BY <1>1, <2>1, BurstRowsAreNew, TableGrows DEF Handles
    <2> QED
        BY <1>1, <2>2, TableKeeps
<1> QED
    BY <1>2, <1>3

LEMMA PruneKeeps ==
    ASSUME Base, NEW p \in Policies, NEW tbl \in Passed(rows, p, now)
    PROVE  TableKnown(tbl)
<1>1. rows \cup {} = rows /\ IsFiniteSet({})
    BY FS_EmptySet
<1> QED
    BY <1>1, TableGrows

-----------------------------------------------------------------------------
(***************************************************************************)
(* Base is inductive                                                       *)
(***************************************************************************)

\* The window only closes.
LEMMA WindowCloses ==
    ASSUME now \in Nat, now' = now + 1, NEW t \in Nat, InWindow(t)'
    PROVE  InWindow(t)
<1> SUFFICES ASSUME NEW p \in Policies PROVE p.days > 0 /\ t >= now - p.days * SecondsPerDay
    BY DEF InWindow, Policies
<1> DEFINE span == p.days * SecondsPerDay
<1>1. span \in Int
    BY PolicyType, FilesAssumption DEF Retention
<1>2. p.days > 0 /\ t >= now' - span
    BY DEF InWindow, Policies
<1> HIDE DEF span
<1>3. t >= now - span
    BY <1>1, <1>2
<1> QED
    BY <1>2, <1>3 DEF span

LEMMA TickKeeps ==
    ASSUME Base, Tick
    PROVE  FileTypes' /\ Contents'
<1>1. /\ now \in Nat /\ now' = now + 1 /\ FileTypes
      /\ disk' = disk /\ saving' = saving /\ lastVer' = lastVer /\ changedAt' = changedAt
      /\ rows' = rows /\ recovery' = recovery
    BY TypesSplit DEF Tick, fileVars, Base, TypeOK
<1>2. FileTypes'
    BY <1>1 DEF FileTypes
<1>3. now' \in Nat /\ now <= now' /\ lastVer' \in Nat /\ lastVer <= lastVer'
    BY <1>1 DEF FileTypes
<1>4. \A r \in rows : RowKnown(r)'
    BY <1>1, <1>3, RowKnownGrows DEF Base, Contents, FileTypes
<1>5. \A f \in Files : (disk[f] # Absent => Known(f, disk[f]))' /\ changedAt'[f] <= now'
    BY <1>1, <1>3, KnownGrows DEF Base, Contents, FileTypes
<1>6. \A f \in Files : SaveKnown(f)'
    BY <1>1, <1>3, KnownGrows DEF Base, Contents, SaveKnown, Same, FileTypes
<1>7. \A f \in Files : Dated(rows, f, disk[f], changedAt[f])'
    BY <1>1, WindowCloses DEF Base, Contents, Dated, Same, FileTypes
<1>8. ASSUME NEW p \in Process, recovery[p] # Idle
      PROVE  SlotKnown(rows, recovery[p])'
    <2>1. PICK s \in Recovering : s = recovery[p]
        BY <1>8 DEF Base, TypeOK
    <2>2. SlotKnown(rows, s) /\ s # Idle /\ s.row \in Row(Content)
        BY <1>8, <2>1 DEF Base, Contents, Recovering
    <2>3. s.row.date \in Nat /\ s.row.file \in Files /\ s.kept \in Content \cup {Absent}
        BY <2>1, <2>2 DEF Row, Recovering
    <2>4. RowKnown(s.row)' /\ (InWindow(s.row.date)' => s.row \in rows')
        BY <1>1, <1>3, <2>2, <2>3, RowKnownGrows, WindowCloses DEF SlotKnown
    <2>5. ASSUME s.kept # Absent
          PROVE  KeptKnown(rows, s.row.file, s.kept)'
        <3>1. PICK f \in Files, c \in Content : f = s.row.file /\ c = s.kept
            BY <2>3, <2>5
        <3>2. KeptKnown(rows, f, c)
            BY <2>2, <2>5, <3>1 DEF SlotKnown
        <3>3. Known(f, c)' /\ c # saving'[f]
            BY <1>1, <1>3, <3>2, KnownGrows DEF KeptKnown
        <3>4. PICK t \in Nat : t = DateOf(f, c, changedAt[f])
            BY <1>1 DEF DateOf, Content, FileTypes
        <3>5. DateOf(f, c, changedAt[f])' = t
            BY <1>1, <3>4 DEF DateOf
        <3>6. InWindow(t)' => InWindow(t)
            BY <1>1, WindowCloses
        <3>7. KeptKnown(rows, f, c)'
            BY <1>1, <3>2, <3>3, <3>4, <3>5, <3>6 DEF KeptKnown, HeldAt, Same, Timed
        <3> QED
            BY <3>1, <3>7
    <2> QED
        BY <1>1, <2>1, <2>4, <2>5 DEF SlotKnown
<1>9. \A p \in Process : SlotKnown(rows, recovery[p])'
    BY <1>1, <1>8 DEF SlotKnown
<1> QED
    BY <1>1, <1>2, <1>4, <1>5, <1>6, <1>7, <1>9 DEF Contents

LEMMA DirectoryTypes ==
    ASSUME OtherTypes, Kernel, Directory
    PROVE  OtherTypes' /\ Kernel'
<1> USE DEF OtherTypes, Kernel
<1>1. commands' \in Nat /\ UNCHANGED <<burst, dash, recovery>>
    <2>1. ASSUME NEW f \in Files,
                 \/ BeginSave(f) \/ EndSave(f) \/ DeleteSave(f)
                 \/ Import(f) \/ EditSave(f) \/ RepairSave(f)
          PROVE  UNCHANGED <<commands, burst, dash, recovery>>
        <3>1. CASE BeginSave(f) \/ EndSave(f) \/ DeleteSave(f)
            BY <3>1 DEF BeginSave, EndSave, DeleteSave
        <3>2. CASE Import(f) \/ EditSave(f) \/ RepairSave(f)
            BY <3>2 DEF Import, EditSave, RepairSave, RenameOnto
        <3> QED
            BY <2>1, <3>1, <3>2
    <2>2. ASSUME WriteCompanions \/ LaunchGame
          PROVE  commands' \in Nat /\ UNCHANGED <<burst, dash, recovery>>
        BY <2>2 DEF WriteCompanions, LaunchGame, Command
    <2> QED
        BY <2>1, <2>2 DEF Directory
<1>2. events' \in [Names -> SUBSET Bits] /\ missed' \subseteq Files
    <2>1. ASSUME NEW f \in Files,
                 \/ BeginSave(f) \/ EndSave(f) \/ DeleteSave(f)
                 \/ Import(f) \/ EditSave(f) \/ RepairSave(f)
          PROVE  \E bits \in SUBSET Bits : Notify(f, bits)
        BY <2>1 DEF BeginSave, EndSave, DeleteSave, Import, EditSave, RepairSave, RenameOnto,
                    Replace, Bits
    <2>2. ASSUME WriteCompanions \/ LaunchGame
          PROVE  events' \in [Names -> SUBSET Bits] /\ missed' \subseteq Files
        BY <2>2 DEF WriteCompanions, LaunchGame, Bits
    <2> QED
        BY <2>1, <2>2, NotifyTypes DEF Directory
<1> QED
    BY <1>1, <1>2

\* What a look-up finds is a row of the table.
LEMMA LookUpIs ==
    ASSUME Base, NEW p \in Process, NEW f \in Files, NEW ask, NEW pre \in BOOLEAN,
           LookUp(p, f, ask, pre)
    PROVE  \E s \in Recovering : /\ recovery' = [recovery EXCEPT ![p] = s]
                                 /\ s.row \in rows /\ s.kept = Absent
<1> DEFINE s == [step |-> IF pre THEN "snapshot" ELSE "apply", row |-> At(rows, f, ask),
                 kept |-> Absent]
<1>1. At(rows, f, ask) \in rows
    BY DEF LookUp, At
<1>2. At(rows, f, ask) \in Row(Content)
    BY <1>1 DEF Base, TypeOK
<1>3. s \in Recovering
    BY <1>2 DEF Recovering
<1> QED
    BY <1>1, <1>3 DEF LookUp

LEMMA RecoveryTypes ==
    ASSUME Base, NEW p \in Process, PreSnapshot(p) \/ Apply(p) \/ GiveUp(p)
    PROVE  /\ recovery[p] # Idle
           /\ OtherTypes' /\ Kernel'
<1>1. recovery \in [Process -> Recovering \cup {Idle}] /\ OtherTypes /\ Kernel
    BY TypesSplit DEF Base, OtherTypes
<1>2. recovery[p] # Idle
    BY DEF PreSnapshot, Apply, GiveUp, Idle
<1>3. PICK s \in Recovering : s = recovery[p]
    BY <1>1, <1>2
<1>4. PICK f \in Files : f = s.row.file
    BY <1>3 DEF Recovering, Row
<1>5. \E t \in Recovering \cup {Idle} : recovery' = [recovery EXCEPT ![p] = t]
    <2>1. CASE PreSnapshot(p)
        <3>1. PICK lost : recovery' = [recovery EXCEPT
                             ![p].step = "apply",
                             ![p].kept = IF f \in lost THEN Absent ELSE disk[f]]
            BY <1>3, <1>4, <2>1 DEF PreSnapshot
        <3>2. PICK k \in Content \cup {Absent} : k = IF f \in lost THEN Absent ELSE disk[f]
            BY DEF Base, TypeOK
        <3>3. recovery' = [recovery EXCEPT ![p] = [s EXCEPT !.step = "apply", !.kept = k]]
            BY <1>1, <1>3, <3>1, <3>2
        <3>4. [s EXCEPT !.step = "apply", !.kept = k] \in Recovering
            BY DEF Recovering
        <3> QED
            BY <3>3, <3>4
    <2>2. CASE Apply(p) \/ GiveUp(p)
        BY <2>2 DEF Apply, GiveUp
    <2> QED
        BY <2>1, <2>2
<1>6. /\ recovery' \in [Process -> Recovering \cup {Idle}]
      /\ \A q \in Process : q # p => recovery'[q] = recovery[q]
    BY <1>1, <1>5
<1>7. UNCHANGED <<commands, burst, dash>>
    BY DEF PreSnapshot, Apply, GiveUp
<1>8. events' \in [Names -> SUBSET Bits] /\ missed' \subseteq Files
    <2>1. {"DELETE"} \in SUBSET Bits /\ {"MOVED_TO"} \in SUBSET Bits
        BY DEF Bits
    <2>2. \/ Notify(f, {"DELETE"}) \/ Notify(f, {"MOVED_TO"}) \/ UNCHANGED <<events, missed>>
        BY <1>3, <1>4 DEF PreSnapshot, Apply, GiveUp, Replace
    <2> QED
        BY <1>1, <2>1, <2>2, NotifyTypes DEF OtherTypes
<1>9. "cli" \notin Env => recovery'["cli"] = Idle
    BY <1>1, <1>2, <1>6 DEF Kernel, Process
<1> QED
    BY <1>1, <1>2, <1>6, <1>7, <1>8, <1>9 DEF OtherTypes, Kernel

LEMMA OthersKeep ==
    ASSUME Base, [Next]_vars
    PROVE  OtherTypes' /\ Kernel'
<1>1. OtherTypes /\ Kernel
    BY TypesSplit DEF Base
<1>2. CASE Tick \/ CliSnapshot \/ CliPrune \/ UNCHANGED vars
    BY <1>1, <1>2 DEF Tick, CliSnapshot, CliPrune, Command, vars, OtherTypes, Kernel
<1>3. CASE Directory
    BY <1>1, <1>3, DirectoryTypes
<1>4. ASSUME NEW p \in Process, NEW f \in Files, NEW ask, NEW pre \in BOOLEAN,
             LookUp(p, f, ask, pre), p = "cli" => "cli" \in Env
      PROVE  OtherTypes' /\ Kernel'
    <2>1. recovery' \in [Process -> Recovering \cup {Idle}]
          /\ ("cli" \notin Env => recovery'["cli"] = Idle)
        <3>1. PICK s \in Recovering : recovery' = [recovery EXCEPT ![p] = s]
            BY <1>4, LookUpIs
        <3> QED
            BY <1>1, <1>4, <3>1 DEF OtherTypes, Kernel, Process
    <2> QED
        BY <1>1, <1>4, <2>1 DEF LookUp, Command, OtherTypes, Kernel
<1>5. CASE StartDashboard \/ WatchDirectory
    <2>1. missed' \subseteq Files
        <3>1. \A fs \in SUBSET Files : \A lost \in Lost(fs) : lost \subseteq Files
            BY DEF Lost
        <3> QED
            BY <1>1, <1>5, <3>1 DEF StartDashboard, WatchDirectory, OtherTypes, Due
    <2> QED
        BY <1>1, <1>5, <2>1 DEF StartDashboard, WatchDirectory, Command, OtherTypes, Kernel, DashState
<1>6. CASE TakeBurst \/ LoseBurst
    BY <1>1, <1>6 DEF TakeBurst, LoseBurst, OtherTypes, Kernel, DashState, NoEvents
<1>7. CASE HandleBurst
    <2>1. /\ dash' = "watching" /\ burst' = NoEvents
          /\ UNCHANGED <<commands, events, recovery>>
        BY <1>7 DEF HandleBurst
    <2>2. missed' \subseteq Files
        <3>1. \A fs \in SUBSET Files : \A lost \in Lost(fs) : lost \subseteq Files
            BY DEF Lost
        <3>2. Deleted(burst) \in SUBSET Files
              /\ Deleted(burst) \cup Due(rows, Written(burst)) \in SUBSET Files
            BY DEF Deleted, Written, Due
        <3> QED
            BY <1>1, <1>7, <3>1, <3>2 DEF HandleBurst, OtherTypes
    <2> QED
        BY <1>1, <2>1, <2>2 DEF OtherTypes, Kernel, DashState, NoEvents
<1>8. CASE StopDashboard
    <2>1. recovery' \in [Process -> Recovering \cup {Idle}] /\ recovery'["cli"] = recovery["cli"]
        BY <1>1, <1>8 DEF StopDashboard, OtherTypes, Process
    <2> QED
        BY <1>1, <1>8, <2>1 DEF StopDashboard, OtherTypes, Kernel, DashState, NoEvents
<1>9. "dashboard" \in Process /\ "cli" \in Process
    BY DEF Process
<1>10. CASE Recovery
    BY <1>10, RecoveryTypes DEF Recovery
<1> QED
    BY <1>2, <1>3, <1>4, <1>5, <1>6, <1>7, <1>8, <1>9, <1>10
       DEF Next, Dashboard, CommandLine, Recover, CliRecover

LEMMA FilesKeep ==
    ASSUME Base, [Next]_vars
    PROVE  FileTypes' /\ Contents'
<1>1. CASE Tick
    BY <1>1, TickKeeps
<1>2. CASE Directory
    <2>1. CASE WriteCompanions \/ LaunchGame
        BY <2>1, BaseTable, TableKeeps DEF WriteCompanions, LaunchGame
    <2> QED
        BY <1>2, <2>1, BeginSaveKeeps, EndSaveKeeps, DeleteKeeps, ImportKeeps, EditKeeps, RepairKeeps
           DEF Directory
<1>3. Policy \in Policies /\ ("cli" \in Env => CliPolicy \in Policies)
    BY DEF Policies
<1>4. "Startup" \in State \ {"Deleted"} /\ Files \in SUBSET Files
      /\ "dashboard" \in Process /\ "cli" \in Process
    BY DEF State, Process
<1>5. CASE Dashboard
    <2>1. CASE WatchDirectory \/ TakeBurst \/ LoseBurst
        BY <2>1, BaseTable, TableKeeps DEF WatchDirectory, TakeBurst, LoseBurst
    <2>2. CASE StartDashboard
        BY <1>3, <1>4, <2>2, SnapshotKeeps, TableKeeps DEF StartDashboard
    <2>3. CASE HandleBurst
        BY <2>3, BurstKeeps
    <2>4. CASE StopDashboard
        <3>1. \A p \in Process : recovery'[p] \in {recovery[p], Idle}
            BY <2>4 DEF StopDashboard, Base, TypeOK
        <3> QED
            BY <2>4, <3>1, BaseTable, TableKeeps DEF StopDashboard
    <2>5. ASSUME NEW f \in Files, NEW ask, Recover(f, ask)
          PROVE  FileTypes' /\ Contents'
        BY <1>4, <2>5, LookUpKeeps DEF Recover
    <2> QED
        BY <1>5, <2>1, <2>2, <2>3, <2>4, <2>5 DEF Dashboard
<1>6. CASE CommandLine
    <2>1. ASSUME NEW f \in Files, NEW ask, NEW pre \in BOOLEAN, CliRecover(f, ask, pre)
          PROVE  FileTypes' /\ Contents'
        BY <1>4, <2>1, LookUpKeeps DEF CliRecover
    <2>2. CASE CliSnapshot
        BY <1>3, <1>4, <2>2, SnapshotKeeps, TableKeeps DEF CliSnapshot
    <2>3. CASE CliPrune
        BY <1>3, <2>3, PruneKeeps, TableKeeps DEF CliPrune
    <2> QED
        BY <1>6, <2>1, <2>2, <2>3 DEF CommandLine
<1>7. CASE Recovery
    <2>1. ASSUME NEW p \in Process, GiveUp(p)
          PROVE  FileTypes' /\ Contents'
        <3>1. \A q \in Process : recovery'[q] \in {recovery[q], Idle}
            BY <2>1 DEF GiveUp, Base, TypeOK
        <3> QED
            BY <2>1, <3>1, BaseTable, TableKeeps DEF GiveUp
    <2> QED
        BY <1>7, <2>1, RecoveryTypes, PreSnapshotKeeps, ApplyKeeps DEF Recovery
<1>8. CASE UNCHANGED vars
    BY <1>8, BaseTable, TableKeeps DEF vars, fileVars
<1> QED
    BY <1>1, <1>2, <1>5, <1>6, <1>7, <1>8 DEF Next

LEMMA InitBase == Init => Base
<1> SUFFICES ASSUME Init PROVE Base
    OBVIOUS
<1>1. TypeOK
    BY FS_EmptySet DEF Init, TypeOK, NoEvents, DashState
<1>2. Contents
    BY MarksAssumption DEF Init, Contents, SaveKnown, Dated, SlotKnown
<1>3. Kernel
    BY DEF Init, Kernel, Process
<1> QED
    BY <1>1, <1>2, <1>3 DEF Base

LEMMA BaseIsInductive == Base /\ [Next]_vars => Base'
BY OthersKeep, FilesKeep, TypesSplit, PTL DEF Base

\* The types, with a table that stays finite: the part of Base that stands alone.
THEOREM TypeCorrect == Spec => []TypeOK
<1>1. Base => TypeOK
    BY DEF Base
<1> QED
    BY <1>1, InitBase, BaseIsInductive, PTL DEF Spec

\* What the snapshot before a recovery has found, and did not fail to insert, is in the
\* table when the recovery replaces it, whatever passes have run in between: change
\* detection, header dates and the retention passes never lose those bytes.
THEOREM BytesKept == Spec => RecoveryKeepsBytes
<1>1. ASSUME Base, NEW p \in Process, NEW f, f = recovery[p].row.file, Apply(p), disk[f] # Absent,
             disk[f] = recovery[p].kept, InWindow(DateOf(f, disk[f], changedAt[f]))
      PROVE  BackedUp(rows', f, disk[f])
    <2>1. recovery[p] # Idle /\ rows' = rows
        BY <1>1, RecoveryTypes DEF Apply
    <2>2. SlotKnown(rows, recovery[p])
        BY <1>1 DEF Base, Contents
    <2>3. HeldAt(rows, f, disk[f], changedAt[f])
        BY <1>1, <2>1, <2>2 DEF SlotKnown, KeptKnown
    <2> QED
        BY <2>1, <2>3 DEF HeldAt, Same, BackedUp
<1> DEFINE Step ==
        \A p \in Process :
          LET f == recovery[p].row.file
          IN  /\ Apply(p)
              /\ disk[f] # Absent
              /\ disk[f] = recovery[p].kept
              /\ InWindow(DateOf(f, disk[f], changedAt[f]))
              => BackedUp(rows', f, disk[f])
<1>2. Base => Step
    BY <1>1
<1>3. Spec => []Base
    BY InitBase, BaseIsInductive, PTL DEF Spec
<1>4. (Spec => [][Step]_vars) <=> (Spec => RecoveryKeepsBytes)
    BY DEF RecoveryKeepsBytes
<1> HIDE DEF Step
<1>5. Spec => [][Step]_vars
    BY <1>2, <1>3, PTL
<1> QED
    BY <1>4, <1>5

-----------------------------------------------------------------------------
(***************************************************************************)
(* Nothing is forgotten between a change and its burst                     *)
(***************************************************************************)

\* A step that leaves what the table holds in the window.
Holds ==
    \A g \in Files, t \in Nat : \A c :
       InWindow(t) /\ (\E r \in Same(rows, g, c) : r.date >= t)
          => \E r \in Same(rows', g, c) : r.date >= t

LEMMA PassHoldsOn ==
    ASSUME Base, NEW new, \A r \in new : IsNew(r), NEW p \in Policies,
           rows' \in Passed(rows \cup new, p, now)
    PROVE  Holds
<1> SUFFICES ASSUME NEW g \in Files, NEW t \in Nat, NEW c, InWindow(t),
                    \E r \in Same(rows, g, c) : r.date >= t
             PROVE  \E r \in Same(rows', g, c) : r.date >= t
    BY DEF Holds
<1>1. \E r \in Same(rows \cup new, g, c) : r.date >= t
    BY DEF Same
<1> QED
    BY <1>1, HeldSurvives

LEMMA SnapshotHoldsOn ==
    ASSUME Base, NEW fs \in SUBSET Files, NEW lost, NEW st \in State \ {"Deleted"},
           NEW p \in Policies, rows' \in Snapshots(rows, fs, lost, st, now, p)
    PROVE  Holds
<1>1. fs \ lost \in SUBSET Files
    OBVIOUS
<1> QED
    BY <1>1, FileRowsAreNew, PassHoldsOn DEF Snapshots

LEMMA PruneHoldsOn ==
    ASSUME Base, NEW p \in Policies, rows' \in Passed(rows, p, now)
    PROVE  Holds
<1>1. rows \cup {} = rows
    OBVIOUS
<1> QED
    BY <1>1, PassHoldsOn

\* A step that does not touch f, and after which f is as settled as before.
LEMMA CaughtStays ==
    ASSUME Base, NEW f \in Files, Caught(f), Holds,
           disk'[f] = disk[f], changedAt'[f] = changedAt[f], saving'[f] = saving[f], now' = now,
           dash' # "down" => dash # "down",
           Pending(f) => Pending(f)' \/ f \in missed', f \in missed => f \in missed' \/ Pending(f)'
    PROVE  Caught(f)'
<1> SUFFICES ASSUME dash' # "down", saving'[f] \notin Content, ~ Pending(f)', f \notin missed',
                    disk'[f] # Absent, InWindow(DateOf(f, disk[f], changedAt[f]))'
             PROVE  HeldAt(rows, f, disk[f], changedAt[f])'
    BY DEF Caught
<1> DEFINE t == DateOf(f, disk[f], changedAt[f])
<1>1. t \in Nat /\ DateOf(f, disk[f], changedAt[f])' = t
    BY DEF Base, TypeOK, DateOf, Content
<1>2. InWindow(t)
    BY <1>1 DEF InWindow
<1>3. HeldAt(rows, f, disk[f], changedAt[f])
    BY <1>2 DEF Caught
<1> QED
    BY <1>1, <1>2, <1>3 DEF HeldAt, Holds, Same

\* A change of f is either reported or remembered as unreported.
LEMMA NotifyTells ==
    ASSUME Base, NEW f \in Files, NEW bits, Notify(f, bits), dash' = dash, burst' = burst
    PROVE  /\ bits \cap {"CLOSE_WRITE", "MOVED_TO", "DELETE"} # {} => Pending(f)' \/ f \in missed'
           /\ \A g \in Files : Pending(g) => Pending(g)'
           /\ \A g \in Files : g \in missed => g \in missed'
           /\ \A g \in Names : events'[g] = events[g] \/ (g = f /\ events'[g] = events[g] \cup bits)
<1>1. events \in [Names -> SUBSET Bits] /\ f \in Names /\ Files \subseteq Names
    BY DEF Base, TypeOK, Names
<1>2. CASE Watched
    <2>1. events' = [events EXCEPT ![f] = events[f] \cup bits] /\ missed' = missed
        BY <1>2 DEF Notify
    <2>2. events'[f] = events[f] \cup bits /\ \A g \in Names : g # f => events'[g] = events[g]
        BY <1>1, <2>1
    <2> QED
        BY <1>1, <2>1, <2>2 DEF Pending
<1>3. CASE ~ Watched
    <2>1. events' = events /\ missed' = missed \cup {f}
        BY <1>3 DEF Notify
    <2> QED
        BY <1>1, <2>1 DEF Pending
<1> QED
    BY <1>2, <1>3

\* A step that touches f alone and tells of it.
LEMMA CaughtAfterWrite ==
    ASSUME Base, NEW f \in Files, \A g \in Files : Caught(g), rows' = rows,
           \A g \in Files : g # f => /\ disk'[g] = disk[g] /\ changedAt'[g] = changedAt[g]
                                     /\ saving'[g] = saving[g],
           NEW bits, Notify(f, bits), dash' = dash, burst' = burst, now' = now,
           saving'[f] \in Content \/ bits \cap {"CLOSE_WRITE", "MOVED_TO", "DELETE"} # {}
    PROVE  \A g \in Files : Caught(g)'
<1>1. Caught(f)'
    BY NotifyTells DEF Caught
<1>2. Holds
    BY DEF Holds
<1>3. ASSUME NEW g \in Files, g # f
      PROVE  Caught(g)'
    BY <1>2, <1>3, NotifyTells, CaughtStays
<1> QED
    BY <1>1, <1>3

LEMMA ReplaceCaught ==
    ASSUME Base, NEW f \in Files, \A g \in Files : Caught(g), rows' = rows,
           NEW c, NEW t, NEW bits, Replace(f, c, t, bits), dash' = dash, burst' = burst, now' = now,
           bits \cap {"CLOSE_WRITE", "MOVED_TO", "DELETE"} # {}
    PROVE  \A g \in Files : Caught(g)'
<1>1. FileTypes
    BY TypesSplit DEF Base
<1>2. Put(f, c, t) /\ Notify(f, bits)
    BY DEF Replace
<1>3. \A g \in Files : g # f => /\ disk'[g] = disk[g] /\ changedAt'[g] = changedAt[g]
                                /\ saving'[g] = saving[g]
    BY <1>1, <1>2, PutIs DEF Replace, FileTypes
<1> QED
    BY <1>2, <1>3, CaughtAfterWrite

LEMMA TableStill ==
    ASSUME rows' = rows
    PROVE  Holds
BY DEF Holds

\* The saves directory when nobody deletes: a save begins or ends, or a file is replaced.
LEMMA DirectoryCaught ==
    ASSUME CaughtInv, "delete" \notin Env, Directory
    PROVE  \A g \in Files : Caught(g)'
<1> USE DEF CaughtInv
<1>1. ASSUME NEW f \in Files, BeginSave(f) \/ EndSave(f)
      PROVE  \A g \in Files : Caught(g)'
    <2>1. FileTypes /\ UNCHANGED <<now, burst, dash, rows>>
        BY <1>1, TypesSplit DEF BeginSave, EndSave, Base
    <2>2. \A g \in Files : g # f => /\ disk'[g] = disk[g] /\ changedAt'[g] = changedAt[g]
                                    /\ saving'[g] = saving[g]
        <3>1. (\E c, t : Put(f, c, t)) \/ UNCHANGED <<disk, changedAt>>
            BY <1>1 DEF BeginSave, EndSave
        <3>2. \E c : saving' = [saving EXCEPT ![f] = c]
            BY <1>1 DEF BeginSave, EndSave
        <3> QED
            BY <2>1, <3>1, <3>2, PutIs DEF FileTypes
    <2>3. CASE BeginSave(f)
        <3> DEFINE c == [ver |-> lastVer', ts |-> HeaderTime(f, now), whole |-> TRUE, summed |-> TRUE]
        <3>1. lastVer' \in Nat /\ HeaderTime(f, now) \in Nat
            BY <2>3 DEF BeginSave, Base, TypeOK, HeaderTime
        <3>2. c \in Content
            BY <3>1 DEF Content
        <3>3. saving' = [saving EXCEPT ![f] = c] /\ Notify(f, {"MODIFY"})
            BY <2>3 DEF BeginSave
        <3> HIDE DEF c
        <3>4. saving'[f] \in Content
            BY <2>1, <3>2, <3>3 DEF FileTypes
        <3> QED
            BY <2>1, <2>2, <3>3, <3>4, CaughtAfterWrite
    <2>4. CASE EndSave(f)
        <3>1. Notify(f, {"CLOSE_WRITE"})
              /\ {"CLOSE_WRITE"} \cap {"CLOSE_WRITE", "MOVED_TO", "DELETE"} # {}
            BY <2>4 DEF EndSave
        <3> QED
            BY <2>1, <2>2, <3>1, CaughtAfterWrite
    <2> QED
        BY <1>1, <2>3, <2>4
<1>2. ASSUME NEW f \in Files, NEW c, RenameOnto(f, c)
      PROVE  \A g \in Files : Caught(g)'
    <2>1. Replace(f, c, now, {"MOVED_TO"}) /\ UNCHANGED <<now, burst, dash, rows>>
          /\ {"MOVED_TO"} \cap {"CLOSE_WRITE", "MOVED_TO", "DELETE"} # {}
        BY <1>2 DEF RenameOnto
    <2> QED
        BY <2>1, ReplaceCaught
<1>3. ASSUME NEW f \in Files, Import(f) \/ EditSave(f) \/ RepairSave(f)
      PROVE  \E c : RenameOnto(f, c)
    BY <1>3 DEF Import, EditSave, RepairSave
<1>4. CASE WriteCompanions \/ LaunchGame
    <2>1. UNCHANGED <<disk, saving, changedAt, now, burst, dash, rows, missed>>
          /\ \A g \in Files : events'[g] = events[g]
        BY <1>4, NamesAssumption DEF WriteCompanions, LaunchGame, fileVars, Base, TypeOK, Names
    <2>2. ASSUME NEW g \in Files
          PROVE  Pending(g) => Pending(g)'
        BY <2>1 DEF Pending
    <2> QED
        BY <2>1, <2>2, TableStill, CaughtStays
<1> QED
    BY <1>1, <1>2, <1>3, <1>4 DEF Directory, DeleteSave

LEMMA BurstCaught ==
    ASSUME CaughtInv, HandleBurst
    PROVE  \A f \in Files : Caught(f)'
<1> USE DEF CaughtInv
<1>1. /\ UNCHANGED <<disk, saving, changedAt, now, events>> /\ dash # "down"
      /\ burst' = NoEvents /\ Policy \in Policies
    BY DEF HandleBurst, fileVars, Policies
<1>2. Deleted(burst) = {}
    BY DEF NoDeletion, Deleted
<1>3. CASE IsLaunchBurst(burst)
    <2>1. rows' = rows /\ missed \subseteq missed'
        BY <1>3 DEF HandleBurst
    <2>2. ASSUME NEW f \in Files
          PROVE  Pending(f) => Pending(f)'
        <3>1. burst[f] \cap WriteBits = {} /\ "DELETE" \notin burst[f]
            BY <1>3 DEF IsLaunchBurst, Names, NoDeletion
        <3> QED
            BY <1>1, <3>1 DEF Pending, WriteBits
    <2> QED
        BY <1>1, <2>1, <2>2, TableStill, CaughtStays
<1>4. CASE ~ IsLaunchBurst(burst)
    <2>1. PICK lost : Handles(lost)
        BY <1>4, BurstIs
    <2> DEFINE new == BurstRows(burst, lost)
    <2>2. rows' \in Passed(rows \cup new, Policy, now)
          /\ missed' = (missed \ Looked(burst)) \cup lost
        BY <2>1 DEF Handles
    <2>3. /\ \A r \in new : IsNew(r)
          /\ Written(burst) \ lost \in SUBSET Files /\ ClassifyBurst(burst) \in State \ {"Deleted"}
        BY BurstRowsAreNew
    <2>4. FileRows(rows, Written(burst) \ lost, ClassifyBurst(burst), now) \subseteq new
        BY DEF BurstRows
    <2> HIDE DEF new
    <2>5. Holds
        BY <1>1, <2>2, <2>3, PassHoldsOn
    <2>6. ASSUME NEW f \in Written(burst) \ lost
          PROVE  Caught(f)'
        <3> SUFFICES ASSUME disk'[f] # Absent, InWindow(DateOf(f, disk[f], changedAt[f]))'
                     PROVE  HeldAt(rows, f, disk[f], changedAt[f])'
            BY DEF Caught
        <3>1. InWindow(DateOf(f, disk[f], changedAt[f]))
            BY <1>1 DEF InWindow, DateOf
        <3>2. HeldAt(rows', f, disk[f], changedAt[f])
            BY <1>1, <2>2, <2>3, <2>4, <3>1, PassHolds
        <3> QED
            BY <1>1, <3>2 DEF HeldAt, Same, DateOf
    <2>7. ASSUME NEW f \in Files, f \notin Written(burst), f \notin lost
          PROVE  Caught(f)'
        <3>1. burst[f] \cap {"CLOSE_WRITE", "MOVED_TO", "DELETE"} = {}
            BY <1>2, <2>7 DEF Written, Deleted
        <3>2. Pending(f) => Pending(f)'
            BY <1>1, <3>1 DEF Pending
        <3>3. f \in missed => f \in missed'
            BY <1>2, <2>2, <2>7 DEF Looked
        <3> QED
            BY <1>1, <2>5, <3>2, <3>3, CaughtStays
    <2>8. ASSUME NEW f \in Files, f \in lost
          PROVE  Caught(f)'
        BY <2>2, <2>8 DEF Caught
    <2> QED
        BY <2>6, <2>7, <2>8
<1> QED
    BY <1>3, <1>4

LEMMA DashboardCaught ==
    ASSUME CaughtInv, StartDashboard \/ WatchDirectory \/ TakeBurst \/ LoseBurst \/ StopDashboard
    PROVE  \A f \in Files : Caught(f)'
<1> USE DEF CaughtInv
<1>1. CASE StartDashboard
    <2>1. PICK lost : /\ rows' \in Snapshots(rows, Files, lost, "Startup", now, Policy)
                      /\ missed' = {f \in Files : disk[f] = Absent} \cup lost
        BY <1>1 DEF StartDashboard
    <2> SUFFICES ASSUME NEW f \in Files, f \notin missed', disk'[f] # Absent,
                        InWindow(DateOf(f, disk[f], changedAt[f]))'
                 PROVE  HeldAt(rows, f, disk[f], changedAt[f])'
        BY DEF Caught
    <2>2. /\ disk' = disk /\ changedAt' = changedAt /\ now' = now
          /\ f \in Files \ lost /\ Policy \in Policies
        BY <1>1, <2>1 DEF StartDashboard, fileVars, Policies
    <2>3. "Startup" \in State \ {"Deleted"} /\ Files \in SUBSET Files
        BY DEF State
    <2>4. InWindow(DateOf(f, disk[f], changedAt[f]))
        BY <2>2 DEF InWindow, DateOf
    <2>5. HeldAt(rows', f, disk[f], changedAt[f])
        BY <2>1, <2>2, <2>3, <2>4, SnapshotHolds
    <2> QED
        BY <2>2, <2>5 DEF HeldAt, Same, DateOf
<1>2. CASE WatchDirectory
    <2>1. UNCHANGED <<disk, saving, changedAt, now, burst, events, rows, missed>> /\ dash # "down"
        BY <1>2 DEF WatchDirectory, fileVars
    <2> QED
        BY <2>1, TableStill, CaughtStays DEF Pending
<1>3. CASE TakeBurst
    <2>1. /\ UNCHANGED <<disk, saving, changedAt, now, rows, missed>> /\ dash # "down"
          /\ burst' = events /\ burst = NoEvents
        BY <1>3 DEF TakeBurst, fileVars, Base, Kernel
    <2>2. ASSUME NEW f \in Files
          PROVE  Pending(f) => Pending(f)'
        BY <2>1 DEF Pending, NoEvents, Names
    <2> QED
        BY <2>1, <2>2, TableStill, CaughtStays
<1>4. CASE LoseBurst
    <2>1. /\ UNCHANGED <<disk, saving, changedAt, now, rows, dash>>
          /\ missed' = missed \cup {f \in Files : Pending(f)}
        BY <1>4 DEF LoseBurst, fileVars
    <2> QED
        BY <2>1, TableStill, CaughtStays
<1>5. CASE StopDashboard
    BY <1>5 DEF StopDashboard, Caught
<1> QED
    BY <1>1, <1>2, <1>3, <1>4, <1>5

LEMMA CommandLineCaught ==
    ASSUME CaughtInv, CliSnapshot \/ CliPrune
    PROVE  \A f \in Files : Caught(f)'
<1> USE DEF CaughtInv
<1>1. CliPolicy \in Policies /\ Files \in SUBSET Files /\ "Startup" \in State \ {"Deleted"}
    BY DEF Policies, CliSnapshot, CliPrune, State
<1>2. UNCHANGED <<disk, saving, changedAt, now, events, burst, dash, missed>>
    BY DEF CliSnapshot, CliPrune, fileVars
<1>3. Holds
    BY <1>1, SnapshotHoldsOn, PruneHoldsOn DEF CliSnapshot, CliPrune
<1> QED
    BY <1>2, <1>3, CaughtStays DEF Pending

LEMMA RecoveryCaught ==
    ASSUME CaughtInv, NEW p \in Process, PreSnapshot(p) \/ Apply(p) \/ GiveUp(p)
    PROVE  \A g \in Files : Caught(g)'
<1> USE DEF CaughtInv
<1>1. PICK s \in Recovering : s = recovery[p] /\ s.row.state # "Deleted"
    BY RecoveryTypes DEF Base, TypeOK, NoDeletion
<1>2. PICK f \in Files : f = s.row.file
    BY <1>1 DEF Recovering, Row
<1>3. CASE PreSnapshot(p)
    <2>1. UNCHANGED <<disk, saving, changedAt, now, events, burst, dash, missed>>
        BY <1>3 DEF PreSnapshot, fileVars
    <2>2. PolicyOf(p) \in Policies /\ {f} \in SUBSET Files /\ "Autosave" \in State \ {"Deleted"}
        BY <1>3, RecoveryTypes, PolicyKnown DEF State
    <2>3. rows' = rows \/ \E lost : rows' \in Snapshots(rows, {f}, lost, "Autosave", now, PolicyOf(p))
        BY <1>1, <1>2, <1>3 DEF PreSnapshot
    <2>4. Holds
        BY <2>2, <2>3, SnapshotHoldsOn, TableStill
    <2> QED
        BY <2>1, <2>4, CaughtStays DEF Pending
<1>4. CASE Apply(p)
    <2>1. Replace(f, s.row.data, s.row.date, {"MOVED_TO"}) /\ UNCHANGED <<now, burst, dash, rows>>
          /\ {"MOVED_TO"} \cap {"CLOSE_WRITE", "MOVED_TO", "DELETE"} # {}
        BY <1>1, <1>2, <1>4 DEF Apply
    <2> QED
        BY <2>1, ReplaceCaught
<1>5. CASE GiveUp(p)
    <2>1. UNCHANGED <<disk, saving, changedAt, now, events, burst, dash, rows, missed>>
        BY <1>5 DEF GiveUp, fileVars
    <2> QED
        BY <2>1, TableStill, CaughtStays DEF Pending
<1> QED
    BY <1>3, <1>4, <1>5

LEMMA LookUpCaught ==
    ASSUME CaughtInv, NEW p, NEW f, NEW ask, NEW pre, LookUp(p, f, ask, pre)
    PROVE  \A g \in Files : Caught(g)'
<1> USE DEF CaughtInv
<1>1. UNCHANGED <<disk, saving, changedAt, now, events, burst, dash, rows, missed>>
    BY DEF LookUp, fileVars
<1> QED
    BY <1>1, TableStill, CaughtStays DEF Pending

LEMMA TickCaught ==
    ASSUME CaughtInv, Tick
    PROVE  \A f \in Files : Caught(f)'
<1> USE DEF CaughtInv
<1>1. /\ now \in Nat /\ now' = now + 1
      /\ UNCHANGED <<disk, saving, changedAt, events, burst, dash, missed, rows>>
    BY DEF Tick, fileVars, Base, TypeOK
<1>2. ASSUME NEW f \in Files, disk[f] # Absent
      PROVE  DateOf(f, disk[f], changedAt[f]) \in Nat
    BY <1>2 DEF Base, TypeOK, DateOf, Content
<1>3. ASSUME NEW f \in Files, disk[f] # Absent, InWindow(DateOf(f, disk[f], changedAt[f]))'
      PROVE  InWindow(DateOf(f, disk[f], changedAt[f]))
    <2>1. PICK t \in Nat : t = DateOf(f, disk[f], changedAt[f])
        BY <1>2, <1>3
    <2>2. t = DateOf(f, disk'[f], changedAt'[f])
        BY <1>1, <2>1
    <2>3. InWindow(t)'
        BY <1>3, <2>2 DEF DateOf
    <2> QED
        BY <1>1, <2>1, <2>3, WindowCloses
<1> QED
    BY <1>1, <1>3 DEF Caught, HeldAt, Same, Pending, DateOf

\* Where nobody deletes there is nothing to record.
LEMMA NoDeletionKeeps ==
    ASSUME CaughtInv, "delete" \notin Env, [Next]_vars
    PROVE  NoDeletion'
<1> USE DEF CaughtInv
<1>1. ASSUME NEW fs, NEW st, NEW r \in FileRows(rows, fs, st, now)
      PROVE  r.state = st
    <2>1. PICK f \in Due(rows, fs) : r = NewRow(rows, f, DateOf(f, disk[f], now), st, disk[f])
        BY DEF FileRows
    <2> QED
        BY <2>1 DEF NewRow
<1>2. ASSUME NEW fs, NEW lost, NEW st, st # "Deleted", NEW p,
             NEW tbl \in Snapshots(rows, fs, lost, st, now, p)
      PROVE  \A r \in tbl : r.state # "Deleted"
    <2>1. tbl \subseteq rows \cup FileRows(rows, fs \ lost, st, now)
        BY PassedIs DEF Snapshots
    <2> QED
        BY <1>1, <1>2, <2>1 DEF NoDeletion
<1>3. events \in [Names -> SUBSET Bits] /\ Files \subseteq Names
      /\ recovery \in [Process -> Recovering \cup {Idle}]
    BY DEF Base, TypeOK, Names
<1>4. ASSUME NEW f \in Files, NEW bits, Notify(f, bits), "DELETE" \notin bits
      PROVE  \A g \in Files : "DELETE" \notin events'[g]
    BY <1>3, <1>4 DEF Notify, NoDeletion
<1>5. ASSUME rows' = rows, recovery' = recovery, \A f \in Files : "DELETE" \notin events'[f],
             burst' = burst
      PROVE  NoDeletion'
    BY <1>5 DEF NoDeletion
<1>6. CASE Directory
    <2>1. ASSUME NEW f \in Files, BeginSave(f) \/ EndSave(f)
          PROVE  NoDeletion'
        <3>1. Notify(f, {"MODIFY"}) \/ Notify(f, {"CLOSE_WRITE"})
            BY <2>1 DEF BeginSave, EndSave
        <3>2. \A g \in Files : "DELETE" \notin events'[g]
            BY <1>4, <3>1
        <3> QED
            BY <1>5, <2>1, <3>2 DEF BeginSave, EndSave
    <2>2. ASSUME NEW f \in Files, NEW c, RenameOnto(f, c)
          PROVE  NoDeletion'
        <3>1. Notify(f, {"MOVED_TO"}) /\ UNCHANGED <<rows, recovery, burst>>
            BY <2>2 DEF RenameOnto, Replace
        <3> QED
            BY <1>4, <1>5, <3>1
    <2>3. ASSUME NEW f \in Files, Import(f) \/ EditSave(f) \/ RepairSave(f)
          PROVE  \E c : RenameOnto(f, c)
        BY <2>3 DEF Import, EditSave, RepairSave
    <2>4. CASE WriteCompanions \/ LaunchGame
        <3>1. UNCHANGED <<rows, recovery, burst>> /\ \A g \in Files : events'[g] = events[g]
            BY <1>3, <2>4, NamesAssumption DEF WriteCompanions, LaunchGame, Names
        <3> QED
            BY <3>1 DEF NoDeletion
    <2> QED
        BY <1>6, <2>1, <2>2, <2>3, <2>4 DEF Directory, DeleteSave
<1>7. CASE Tick \/ WatchDirectory \/ CliPrune \/ UNCHANGED vars
    <2>1. events' = events /\ burst' = burst /\ recovery' = recovery /\ rows' \subseteq rows
        BY <1>7, PassedIs DEF Tick, WatchDirectory, CliPrune, vars
    <2> QED
        BY <2>1 DEF NoDeletion
<1>8. CASE StartDashboard \/ CliSnapshot
    <2>1. events' = events /\ burst' = burst /\ recovery' = recovery
        BY <1>8 DEF StartDashboard, CliSnapshot
    <2>2. \A r \in rows' : r.state # "Deleted"
        BY <1>2, <1>8 DEF StartDashboard, CliSnapshot
    <2> QED
        BY <2>1, <2>2 DEF NoDeletion
<1>9. CASE TakeBurst \/ LoseBurst \/ StopDashboard
    <2>1. rows' = rows /\ \A f \in Files : events'[f] = {} /\ burst'[f] \subseteq events[f] \cup burst[f]
        BY <1>3, <1>9 DEF TakeBurst, LoseBurst, StopDashboard, NoEvents
    <2>2. \A p \in Process : recovery'[p] \in {recovery[p], Idle}
        BY <1>3, <1>9 DEF TakeBurst, LoseBurst, StopDashboard
    <2> QED
        BY <2>1, <2>2 DEF NoDeletion
<1>10. CASE HandleBurst
    <2>1. events' = events /\ recovery' = recovery /\ \A f \in Files : burst'[f] = {}
        BY <1>3, <1>10 DEF HandleBurst, NoEvents
    <2>2. \A r \in rows' : r.state # "Deleted"
        <3>1. CASE IsLaunchBurst(burst)
            BY <1>10, <3>1 DEF HandleBurst, NoDeletion
        <3>2. CASE ~ IsLaunchBurst(burst)
            <4>1. PICK lost : rows' \in Passed(rows \cup BurstRows(burst, lost), Policy, now)
                BY <1>10, <3>2, BurstIs DEF Handles
            <4>2. rows' \subseteq rows \cup BurstRows(burst, lost)
                BY <4>1, PassedIs
            <4>3. Deleted(burst) = {}
                BY DEF NoDeletion, Deleted
            <4>4. BurstRows(burst, lost) \subseteq
                      FileRows(rows, Written(burst) \ lost, ClassifyBurst(burst), now)
                BY <4>3 DEF BurstRows
            <4>5. ClassifyBurst(burst) # "Deleted"
                BY DEF ClassifyBurst
            <4> QED
                BY <1>1, <4>2, <4>4, <4>5 DEF NoDeletion
        <3> QED
            BY <3>1, <3>2
    <2> QED
        BY <2>1, <2>2 DEF NoDeletion
<1>11. ASSUME NEW p \in Process, NEW f \in Files, NEW ask, NEW pre \in BOOLEAN,
              LookUp(p, f, ask, pre)
       PROVE  NoDeletion'
    <2>1. PICK s : recovery' = [recovery EXCEPT ![p] = s] /\ s.row \in rows
        BY <1>11, LookUpIs
    <2>2. UNCHANGED <<rows, events, burst>>
        BY <1>11 DEF LookUp
    <2> QED
        BY <1>3, <2>1, <2>2 DEF NoDeletion
<1>12. CASE Recovery
    <2>1. PICK p \in Process : PreSnapshot(p) \/ Apply(p) \/ GiveUp(p)
        BY <1>12 DEF Recovery
    <2>2. PICK s \in Recovering : s = recovery[p] /\ s.row.state # "Deleted"
        BY <2>1, RecoveryTypes DEF Base, TypeOK, NoDeletion
    <2>3. PICK f \in Files : f = s.row.file
        BY <2>2 DEF Recovering, Row
    <2>4. CASE PreSnapshot(p)
        <3>1. PICK lost, k :
                 /\ rows' \in {rows} \cup Snapshots(rows, {f}, lost, "Autosave", now, PolicyOf(p))
                 /\ recovery' = [recovery EXCEPT ![p].step = "apply", ![p].kept = k]
            BY <2>2, <2>3, <2>4 DEF PreSnapshot
        <3>2. recovery'[p].row = s.row /\ \A q \in Process : q # p => recovery'[q] = recovery[q]
            <4>1. recovery'[p] = [s EXCEPT !.step = "apply", !.kept = k]
                BY <1>3, <2>2, <3>1
            <4> QED
                BY <1>3, <3>1, <4>1 DEF Recovering
        <3>3. \A r \in rows' : r.state # "Deleted"
            BY <1>2, <3>1 DEF NoDeletion
        <3>4. events' = events /\ burst' = burst
            BY <2>4 DEF PreSnapshot
        <3> QED
            BY <2>2, <3>2, <3>3, <3>4 DEF NoDeletion
    <2>5. CASE Apply(p) \/ GiveUp(p)
        <3>1. \A q \in Process : recovery'[q] \in {recovery[q], Idle}
            BY <1>3, <2>5 DEF Apply, GiveUp
        <3>2. rows' = rows /\ burst' = burst
            BY <2>5 DEF Apply, GiveUp
        <3>3. \A g \in Files : "DELETE" \notin events'[g]
            <4>1. Notify(f, {"MOVED_TO"}) \/ events' = events
                BY <2>2, <2>3, <2>5 DEF Apply, GiveUp, Replace
            <4> QED
                BY <1>4, <4>1 DEF NoDeletion
        <3> QED
            BY <3>1, <3>2, <3>3 DEF NoDeletion
    <2> QED
        BY <2>1, <2>4, <2>5
<1>13. "dashboard" \in Process /\ "cli" \in Process
    BY DEF Process
<1> QED
    BY <1>6, <1>7, <1>8, <1>9, <1>10, <1>11, <1>12, <1>13
       DEF Next, Dashboard, CommandLine, Recover, CliRecover

LEMMA CaughtIsInductive ==
    ASSUME "delete" \notin Env
    PROVE  CaughtInv /\ [Next]_vars => CaughtInv'
<1> SUFFICES ASSUME CaughtInv, [Next]_vars PROVE CaughtInv'
    OBVIOUS
<1>1. Base'
    BY BaseIsInductive DEF CaughtInv
<1>2. NoDeletion'
    BY NoDeletionKeeps
<1>3. \A f \in Files : Caught(f)'
    <2>1. CASE Directory
        BY <2>1, DirectoryCaught
    <2>2. CASE Tick
        BY <2>2, TickCaught
    <2>3. CASE Dashboard
        BY <2>3, DashboardCaught, BurstCaught, LookUpCaught DEF Dashboard, Recover
    <2>4. CASE CommandLine
        BY <2>4, CommandLineCaught, LookUpCaught DEF CommandLine, CliRecover
    <2>5. CASE Recovery
        BY <2>5, RecoveryCaught DEF Recovery
    <2>6. CASE UNCHANGED vars
        BY <2>6, TableStill, CaughtStays DEF vars, CaughtInv, Pending
    <2> QED
        BY <2>1, <2>2, <2>3, <2>4, <2>5, <2>6 DEF Next
<1> QED
    BY <1>1, <1>2, <1>3 DEF CaughtInv

\* Once the dashboard has caught up with the directory, every file inside the retention
\* window is in the table, whatever the order of saves, imports, edits, repairs, game
\* launches, bursts, crashes, restarts, recoveries and command-line runs, and whatever
\* inserts, passes and bursts failed or were lost: only a file whose own last change was
\* kept from the service, or was lost by it, is excepted (Settled).  Where saves are
\* deleted a burst can hold a deletion and the write after it, and the file is captured
\* with its next change only.
THEOREM ContentKept ==
    ASSUME "delete" \notin Env
    PROVE  Spec => []Captured
<1>1. Init => CaughtInv
    <2>1. Init => NoDeletion /\ \A f \in Files : Caught(f)
        BY DEF Init, NoDeletion, Caught, NoEvents, Names
    <2> QED
        BY <2>1, InitBase DEF CaughtInv
<1>2. CaughtInv /\ [Next]_vars => CaughtInv'
    BY CaughtIsInductive
<1>3. CaughtInv => Captured
    <2> SUFFICES ASSUME CaughtInv, NEW f \in Files, Settled(f), disk[f] # Absent,
                        InWindow(DateOf(f, disk[f], changedAt[f]))
                 PROVE  BackedUp(rows, f, disk[f])
        BY DEF Captured
    <2>1. HeldAt(rows, f, disk[f], changedAt[f])
        BY DEF CaughtInv, Caught, Settled, Watched
    <2> QED
        BY <2>1 DEF HeldAt, Same, BackedUp
<1> QED
    BY <1>1, <1>2, <1>3, PTL DEF Spec

-----------------------------------------------------------------------------
(***************************************************************************)
(* Deletions                                                               *)
(***************************************************************************)

\* A tombstone of f dated no earlier than t.
Tombed(tbl, f, t) == \E r \in tbl : r.file = f /\ r.state = "Deleted" /\ r.date >= t

HoldsTombs ==
    \A g \in Files, t \in Nat : InWindow(t) /\ Tombed(rows, g, t) => Tombed(rows', g, t)

LEMMA TombSurvives ==
    ASSUME Base, NEW new, \A r \in new : IsNew(r), NEW p \in Policies,
           NEW tbl \in Passed(rows \cup new, p, now),
           NEW f \in Files, NEW t \in Nat, InWindow(t), Tombed(rows \cup new, f, t)
    PROVE  Tombed(tbl, f, t)
<1>1. PICK r \in rows \cup new : r.file = f /\ r.state = "Deleted" /\ r.date >= t
    BY DEF Tombed
<1>2. r \in Row(Content)
    BY DEF Base, TypeOK, IsNew
<1>3. r.date \in Nat /\ now \in Nat
    BY <1>2 DEF Row, Base, TypeOK
<1>4. r \in tbl
    BY <1>1, <1>3, WindowSurvives, PassedIs
<1> QED
    BY <1>1, <1>4 DEF Tombed

LEMMA PassKeepsTombs ==
    ASSUME Base, NEW new, \A r \in new : IsNew(r), NEW p \in Policies,
           rows' \in Passed(rows \cup new, p, now)
    PROVE  HoldsTombs
<1> SUFFICES ASSUME NEW g \in Files, NEW t \in Nat, InWindow(t), Tombed(rows, g, t)
             PROVE  Tombed(rows', g, t)
    BY DEF HoldsTombs
<1>1. Tombed(rows \cup new, g, t)
    BY DEF Tombed
<1> QED
    BY <1>1, TombSurvives

LEMMA SnapshotKeepsTombs ==
    ASSUME Base, NEW fs \in SUBSET Files, NEW lost, NEW st \in State \ {"Deleted"},
           NEW p \in Policies, rows' \in Snapshots(rows, fs, lost, st, now, p)
    PROVE  HoldsTombs
<1>1. fs \ lost \in SUBSET Files
    OBVIOUS
<1> QED
    BY <1>1, FileRowsAreNew, PassKeepsTombs DEF Snapshots

LEMMA PruneKeepsTombs ==
    ASSUME Base, NEW p \in Policies, rows' \in Passed(rows, p, now)
    PROVE  HoldsTombs
<1>1. rows \cup {} = rows
    OBVIOUS
<1> QED
    BY <1>1, PassKeepsTombs

LEMMA TombsStill ==
    ASSUME rows' = rows
    PROVE  HoldsTombs
BY DEF HoldsTombs

\* A step that does not touch f, and that takes no deletion of f out of the service's
\* sight unless it is missed.
LEMMA RecordedStays ==
    ASSUME Base, NEW f \in Files, Recorded(f), HoldsTombs,
           disk'[f] = disk[f], changedAt'[f] = changedAt[f], now' = now, Watched' => Watched,
           "DELETE" \in events[f] \cup burst[f]
               => "DELETE" \in events'[f] \cup burst'[f] \/ f \in missed',
           disk[f] = Absent /\ f \in missed => f \in missed'
    PROVE  Recorded(f)'
<1> SUFFICES ASSUME Watched', disk'[f] = Absent, changedAt'[f] > 0, InWindow(changedAt[f])',
                    "DELETE" \notin events'[f] \cup burst'[f], f \notin missed'
             PROVE  Tombed(rows', f, changedAt[f])
    BY DEF Recorded, Tombed
<1>1. changedAt[f] \in Nat /\ InWindow(changedAt[f])
    BY DEF Base, TypeOK, InWindow
<1>2. Tombed(rows, f, changedAt[f])
    BY <1>1 DEF Recorded, Tombed
<1> QED
    BY <1>1, <1>2 DEF HoldsTombs

\* A step that writes or deletes f and tells of it.
LEMMA RecordedAfterWrite ==
    ASSUME RecordedInv, NEW f \in Files, rows' = rows, NEW c, NEW t, Put(f, c, t),
           NEW bits, Notify(f, bits), dash' = dash, burst' = burst, now' = now,
           c = Absent => "DELETE" \in bits
    PROVE  (\A g \in Files : Recorded(g)') /\ Unwatched'
<1> USE DEF RecordedInv
<1>1. FileTypes /\ Files \subseteq Names /\ events \in [Names -> SUBSET Bits] /\ HoldsTombs
    BY TypesSplit, TombsStill DEF Base, OtherTypes, Names
<1>2. disk'[f] = c /\ \A g \in Files : g # f => disk'[g] = disk[g] /\ changedAt'[g] = changedAt[g]
    BY <1>1, PutIs
<1>3. /\ Watched => events'[f] = events[f] \cup bits
      /\ \A g \in Files : g # f => events'[g] = events[g]
      /\ ~ Watched => events' = events /\ f \in missed'
      /\ \A g \in Files : g # f => (g \in missed' <=> g \in missed)
    BY <1>1 DEF Notify
<1>4. Recorded(f)'
    BY <1>2, <1>3 DEF Recorded, Watched
<1>5. ASSUME NEW g \in Files, g # f
      PROVE  Recorded(g)'
    BY <1>1, <1>2, <1>3, <1>5, RecordedStays DEF Watched
<1>6. Unwatched'
    BY <1>2, <1>3 DEF Unwatched, Watched
<1> QED
    BY <1>4, <1>5, <1>6

\* A step that leaves the files alone and, at most, adds to what is under way.
LEMMA RecordedAside ==
    ASSUME RecordedInv, UNCHANGED <<disk, changedAt, now, burst, dash>>, HoldsTombs,
           \A g \in Files : events[g] \subseteq events'[g] /\ (g \in missed => g \in missed'),
           ~ Watched => events' = events
    PROVE  (\A g \in Files : Recorded(g)') /\ Unwatched'
<1> USE DEF RecordedInv
<1>1. \A g \in Files : Recorded(g)'
    BY RecordedStays DEF Watched
<1>2. Unwatched'
    BY DEF Unwatched, Watched
<1> QED
    BY <1>1, <1>2

LEMMA DirectoryRecorded ==
    ASSUME RecordedInv, Directory
    PROVE  (\A g \in Files : Recorded(g)') /\ Unwatched'
<1> USE DEF RecordedInv
<1>1. events \in [Names -> SUBSET Bits] /\ Files \subseteq Names
    BY DEF Base, TypeOK, Names
<1>2. ASSUME NEW f \in Files, BeginSave(f)
      PROVE  (\A g \in Files : Recorded(g)') /\ Unwatched'
    <2> DEFINE c == [ver |-> lastVer', ts |-> HeaderTime(f, now), whole |-> TRUE, summed |-> TRUE]
    <2>1. PICK ts \in {0, c.ts} :
             Put(f, [c EXCEPT !.ts = ts, !.whole = FALSE, !.summed = (ts = 0)], now)
        BY <1>2 DEF BeginSave
    <2>2. lastVer' \in Nat /\ HeaderTime(f, now) \in Nat
        BY <1>2 DEF BeginSave, Base, TypeOK, HeaderTime
    <2>3. c \in Content /\ ts \in Nat
        BY <2>1, <2>2 DEF Content
    <2> HIDE DEF c
    <2>4. PICK torn : torn = [c EXCEPT !.ts = ts, !.whole = FALSE, !.summed = (ts = 0)]
                      /\ Put(f, torn, now)
        BY <2>1
    <2>5. torn \in Content
        BY <2>3, <2>4, TornIs
    <2>6. UNCHANGED <<now, burst, dash, rows>> /\ Notify(f, {"MODIFY"}) /\ torn # Absent
        BY <1>2, <2>5, MarksAssumption DEF BeginSave
    <2> QED
        BY <2>4, <2>6, RecordedAfterWrite
<1>3. ASSUME NEW f \in Files, EndSave(f)
      PROVE  (\A g \in Files : Recorded(g)') /\ Unwatched'
    <2>1. Notify(f, {"CLOSE_WRITE"}) /\ UNCHANGED <<now, burst, dash, rows>>
        BY <1>3 DEF EndSave
    <2>2. CASE saving[f] = Unlinked
        <3>1. UNCHANGED <<disk, changedAt>>
            BY <1>3, <2>2 DEF EndSave
        <3>2. /\ \A g \in Files : events[g] \subseteq events'[g] /\ (g \in missed => g \in missed')
              /\ ~ Watched => events' = events
            BY <1>1, <2>1 DEF Notify
        <3> QED
            BY <2>1, <3>1, <3>2, TombsStill, RecordedAside
    <2>3. CASE saving[f] # Unlinked
        <3>1. saving[f] \in Content /\ Put(f, saving[f], now)
            BY <1>3, <2>3 DEF EndSave, Base, TypeOK
        <3>2. saving[f] # Absent
            BY <3>1, MarksAssumption
        <3> QED
            BY <2>1, <3>1, <3>2, RecordedAfterWrite
    <2> QED
        BY <2>2, <2>3
<1>4. ASSUME NEW f \in Files, DeleteSave(f)
      PROVE  (\A g \in Files : Recorded(g)') /\ Unwatched'
    <2>1. /\ Put(f, Absent, now) /\ Notify(f, {"DELETE"}) /\ UNCHANGED <<now, burst, dash, rows>>
          /\ "DELETE" \in {"DELETE"}
        BY <1>4 DEF DeleteSave, Replace
    <2> QED
        BY <2>1, RecordedAfterWrite
<1>5. ASSUME NEW f \in Files, NEW c \in Content, RenameOnto(f, c)
      PROVE  (\A g \in Files : Recorded(g)') /\ Unwatched'
    <2>1. /\ Put(f, c, now) /\ Notify(f, {"MOVED_TO"}) /\ UNCHANGED <<now, burst, dash, rows>>
          /\ c # Absent
        BY <1>5, MarksAssumption DEF RenameOnto, Replace
    <2> QED
        BY <2>1, RecordedAfterWrite
<1>6. ASSUME NEW f \in Files, Import(f)
      PROVE  \E c \in Content : RenameOnto(f, c)
    <2>1. PICK t \in 1..now, ok \in BOOLEAN :
             RenameOnto(f, [ver |-> lastVer', ts |-> HeaderTime(f, t), whole |-> TRUE, summed |-> ok])
        BY <1>6 DEF Import
    <2> DEFINE c == [ver |-> lastVer', ts |-> HeaderTime(f, t), whole |-> TRUE, summed |-> ok]
    <2>2. lastVer' \in Nat /\ HeaderTime(f, t) \in Nat
        BY <1>6 DEF Import, Base, TypeOK, HeaderTime
    <2>3. c \in Content
        BY <2>2 DEF Content
    <2> QED
        BY <2>1, <2>3
<1>7. ASSUME NEW f \in Files, EditSave(f) \/ RepairSave(f)
      PROVE  \E c \in Content : RenameOnto(f, c)
    <2>1. PICK c : RenameOnto(f, c) /\ \/ c = [disk[f] EXCEPT !.ver = lastVer', !.summed = TRUE]
                                       \/ c = [disk[f] EXCEPT !.summed = TRUE]
        BY <1>7 DEF EditSave, RepairSave
    <2>2. PICK d \in Content, v \in Nat : d = disk[f] /\ v = lastVer'
        BY <1>7 DEF EditSave, RepairSave, HasHeader, Base, TypeOK
    <2>3. c \in Content
        BY <2>1, <2>2 DEF Content
    <2> QED
        BY <2>1, <2>3
<1>8. CASE WriteCompanions \/ LaunchGame
    <2>1. UNCHANGED <<disk, changedAt, now, burst, dash, rows, missed>>
          /\ (\A g \in Files : events'[g] = events[g]) /\ (~ Watched => events' = events)
        BY <1>8, NamesAssumption DEF WriteCompanions, LaunchGame, fileVars, Base, TypeOK, Names
    <2> QED
        BY <2>1, TombsStill, RecordedAside
<1> QED
    BY <1>2, <1>3, <1>4, <1>5, <1>6, <1>7, <1>8 DEF Directory

LEMMA BurstRecorded ==
    ASSUME RecordedInv, HandleBurst
    PROVE  (\A f \in Files : Recorded(f)') /\ Unwatched'
<1> USE DEF RecordedInv
<1>1. /\ UNCHANGED <<disk, changedAt, now, events>> /\ dash = "burst" /\ dash' = "watching"
      /\ burst' = NoEvents /\ Policy \in Policies
    BY DEF HandleBurst, fileVars, Policies
<1>2. Unwatched'
    BY <1>1 DEF Unwatched, Watched
<1>3. CASE IsLaunchBurst(burst)
    <2>1. rows' = rows /\ missed' = missed \cup Deleted(burst)
        BY <1>3 DEF HandleBurst
    <2>2. \A f \in Files : "DELETE" \in events[f] \cup burst[f]
                               => "DELETE" \in events'[f] \cup burst'[f] \/ f \in missed'
        BY <1>1, <2>1 DEF Deleted
    <2>3. \A f \in Files : Recorded(f)'
        BY <1>1, <2>1, <2>2, TombsStill, RecordedStays DEF Watched
    <2> QED
        BY <1>2, <2>3
<1>4. CASE ~ IsLaunchBurst(burst)
    <2>1. PICK lost : Handles(lost)
        BY <1>4, BurstIs
    <2> DEFINE new == BurstRows(burst, lost)
    <2>2. rows' \in Passed(rows \cup new, Policy, now)
          /\ missed' = (missed \ Looked(burst)) \cup lost
        BY <2>1 DEF Handles
    <2>3. (\A r \in new : IsNew(r)) /\ Deleted(burst) \ lost \in SUBSET Files
        BY BurstRowsAreNew
    <2>4. \A f \in Deleted(burst) \ lost : Tombstone(rows, f, now) \in new
        BY DEF BurstRows
    <2> HIDE DEF new
    <2>5. HoldsTombs
        BY <1>1, <2>2, <2>3, PassKeepsTombs
    <2>6. ASSUME NEW f \in Deleted(burst) \ lost
          PROVE  Recorded(f)'
        <3>1. f \in Files /\ changedAt[f] \in Nat /\ changedAt[f] <= now /\ now \in Nat
            BY DEF Deleted, Base, TypeOK, Contents
        <3>2. /\ Tombstone(rows, f, now).file = f /\ Tombstone(rows, f, now).state = "Deleted"
              /\ Tombstone(rows, f, now).date = now
            BY <2>3, TombstonesAreNew
        <3>3. Tombed(rows \cup new, f, changedAt[f])
            BY <2>4, <3>1, <3>2 DEF Tombed
        <3>4. InWindow(changedAt[f]) => Tombed(rows', f, changedAt[f])
            BY <1>1, <2>2, <2>3, <3>1, <3>3, TombSurvives
        <3> QED
            BY <1>1, <3>4 DEF Recorded, Tombed, InWindow
    <2>7. ASSUME NEW f \in Files, f \notin Deleted(burst), f \notin lost
          PROVE  Recorded(f)'
        <3>1. "DELETE" \notin burst[f]
            BY <2>7 DEF Deleted
        <3>2. disk[f] = Absent /\ f \in missed => f \in missed'
            BY <2>2, <2>7 DEF Looked
        <3> QED
            BY <1>1, <2>5, <3>1, <3>2, RecordedStays DEF Watched
    <2>8. ASSUME NEW f \in Files, f \in lost
          PROVE  Recorded(f)'
        BY <2>2, <2>8 DEF Recorded
    <2> QED
        BY <1>2, <2>6, <2>7, <2>8
<1> QED
    BY <1>3, <1>4

LEMMA DashboardRecorded ==
    ASSUME RecordedInv, StartDashboard \/ WatchDirectory \/ TakeBurst \/ LoseBurst \/ StopDashboard
    PROVE  (\A f \in Files : Recorded(f)') /\ Unwatched'
<1> USE DEF RecordedInv
<1>1. CASE StartDashboard
    <2>1. /\ dash = "down" /\ dash' = "starting" /\ events' = events /\ disk' = disk
          /\ {f \in Files : disk[f] = Absent} \subseteq missed'
        BY <1>1 DEF StartDashboard, fileVars
    <2>2. Unwatched'
        BY <2>1 DEF Unwatched, Watched
    <2> QED
        BY <2>1, <2>2 DEF Recorded, Watched
<1>2. CASE WatchDirectory
    <2>1. /\ UNCHANGED <<disk, changedAt, now, burst, events, rows, missed>>
          /\ dash = "starting" /\ dash' = "watching"
        BY <1>2 DEF WatchDirectory, fileVars
    <2>2. \A f \in Files : Recorded(f)'
        BY <2>1 DEF Recorded, Unwatched
    <2>3. Unwatched'
        BY <2>1 DEF Unwatched, Watched
    <2> QED
        BY <2>2, <2>3
<1>3. CASE TakeBurst
    <2>1. /\ UNCHANGED <<disk, changedAt, now, rows, missed>> /\ dash = "watching" /\ dash' = "burst"
          /\ burst' = events /\ burst = NoEvents /\ events' = NoEvents
        BY <1>3 DEF TakeBurst, fileVars, Base, Kernel
    <2>2. \A f \in Files : events'[f] \cup burst'[f] = events[f] \cup burst[f]
        BY <2>1 DEF NoEvents, Names
    <2>3. Unwatched'
        BY <2>1 DEF Unwatched, Watched
    <2>4. \A f \in Files : Recorded(f)'
        BY <2>1, <2>2, TombsStill, RecordedStays DEF Watched
    <2> QED
        BY <2>3, <2>4
<1>4. CASE LoseBurst
    <2>1. /\ UNCHANGED <<disk, changedAt, now, rows, dash>> /\ dash = "watching"
          /\ missed' = missed \cup {f \in Files : Pending(f)}
        BY <1>4 DEF LoseBurst, fileVars
    <2>2. \A f \in Files : "DELETE" \in events[f] \cup burst[f] => f \in missed'
        BY <2>1 DEF Pending
    <2>3. Unwatched'
        BY <2>1 DEF Unwatched, Watched
    <2>4. \A f \in Files : Recorded(f)'
        BY <2>1, <2>2, TombsStill, RecordedStays DEF Watched
    <2> QED
        BY <2>3, <2>4
<1>5. CASE StopDashboard
    BY <1>5 DEF StopDashboard, Recorded, Unwatched, Watched
<1> QED
    BY <1>1, <1>2, <1>3, <1>4, <1>5

LEMMA CommandLineRecorded ==
    ASSUME RecordedInv, CliSnapshot \/ CliPrune
    PROVE  (\A f \in Files : Recorded(f)') /\ Unwatched'
<1> USE DEF RecordedInv
<1>1. CliPolicy \in Policies /\ Files \in SUBSET Files /\ "Startup" \in State \ {"Deleted"}
    BY DEF Policies, CliSnapshot, CliPrune, State
<1>2. UNCHANGED <<disk, changedAt, now, events, burst, dash, missed>>
    BY DEF CliSnapshot, CliPrune, fileVars
<1>3. HoldsTombs
    BY <1>1, SnapshotKeepsTombs, PruneKeepsTombs DEF CliSnapshot, CliPrune
<1> QED
    BY <1>2, <1>3, RecordedAside

LEMMA RecoveryRecorded ==
    ASSUME RecordedInv, NEW p \in Process, PreSnapshot(p) \/ Apply(p) \/ GiveUp(p)
    PROVE  (\A g \in Files : Recorded(g)') /\ Unwatched'
<1> USE DEF RecordedInv
<1>1. PICK s \in Recovering : s = recovery[p]
    BY RecoveryTypes DEF Base, TypeOK
<1>2. PICK row \in Row(Content), f \in Files : row = s.row /\ f = row.file
    BY <1>1 DEF Recovering, Row
<1>3. RowKnown(row)
    BY <1>1, <1>2, RecoveryTypes DEF Base, Contents, SlotKnown
<1>4. CASE PreSnapshot(p)
    <2>1. UNCHANGED <<disk, changedAt, now, events, burst, dash, missed>>
        BY <1>4 DEF PreSnapshot, fileVars
    <2>2. PolicyOf(p) \in Policies /\ {f} \in SUBSET Files /\ "Autosave" \in State \ {"Deleted"}
        BY <1>4, RecoveryTypes, PolicyKnown DEF State
    <2>3. rows' = rows \/ \E lost : rows' \in Snapshots(rows, {f}, lost, "Autosave", now, PolicyOf(p))
        BY <1>1, <1>2, <1>4 DEF PreSnapshot
    <2>4. HoldsTombs
        BY <2>2, <2>3, SnapshotKeepsTombs, TombsStill
    <2> QED
        BY <2>1, <2>4, RecordedAside
<1>5. CASE Apply(p)
    <2>1. UNCHANGED <<now, burst, dash, rows>>
        BY <1>5 DEF Apply
    <2>2. CASE row.state = "Deleted" /\ disk[f] = Absent
        <3>1. UNCHANGED <<disk, changedAt, events, missed>>
            BY <1>1, <1>2, <1>5, <2>2 DEF Apply
        <3> QED
            BY <2>1, <3>1, TombsStill, RecordedAside
    <2>3. CASE row.state = "Deleted" /\ disk[f] # Absent
        <3>1. Put(f, Absent, now) /\ Notify(f, {"DELETE"}) /\ "DELETE" \in {"DELETE"}
            BY <1>1, <1>2, <1>5, <2>3 DEF Apply, Replace
        <3> QED
            BY <2>1, <3>1, RecordedAfterWrite
    <2>4. CASE row.state # "Deleted"
        <3>1. Put(f, row.data, row.date) /\ Notify(f, {"MOVED_TO"})
            BY <1>1, <1>2, <1>5, <2>4 DEF Apply, Replace
        <3>2. row.data # Absent
            BY <1>3, <2>4, MarksAssumption DEF Row, RowKnown
        <3> QED
            BY <2>1, <3>1, <3>2, RecordedAfterWrite
    <2> QED
        BY <2>2, <2>3, <2>4
<1>6. CASE GiveUp(p)
    <2>1. UNCHANGED <<disk, changedAt, now, events, burst, dash, rows, missed>>
        BY <1>6 DEF GiveUp, fileVars
    <2> QED
        BY <2>1, TombsStill, RecordedAside
<1> QED
    BY <1>4, <1>5, <1>6

LEMMA LookUpRecorded ==
    ASSUME RecordedInv, NEW p, NEW f, NEW ask, NEW pre, LookUp(p, f, ask, pre)
    PROVE  (\A g \in Files : Recorded(g)') /\ Unwatched'
<1>1. UNCHANGED <<disk, changedAt, now, events, burst, dash, rows, missed>>
    BY DEF LookUp, fileVars
<1> QED
    BY <1>1, TombsStill, RecordedAside

LEMMA TickRecorded ==
    ASSUME RecordedInv, Tick
    PROVE  (\A f \in Files : Recorded(f)') /\ Unwatched'
<1> USE DEF RecordedInv
<1>1. /\ now \in Nat /\ now' = now + 1 /\ changedAt \in [Files -> Nat]
      /\ UNCHANGED <<disk, changedAt, events, burst, dash, missed, rows>>
    BY DEF Tick, fileVars, Base, TypeOK
<1>2. ASSUME NEW f \in Files, InWindow(changedAt[f])'
      PROVE  InWindow(changedAt[f])
    <2>1. PICK t \in Nat : t = changedAt[f]
        BY <1>1
    <2>2. InWindow(t)'
        BY <1>1, <1>2, <2>1
    <2> QED
        BY <1>1, <2>1, <2>2, WindowCloses
<1>3. Unwatched'
    BY <1>1 DEF Unwatched, Watched
<1>4. \A f \in Files : Recorded(f)'
    BY <1>1, <1>2 DEF Recorded, Watched
<1> QED
    BY <1>3, <1>4

LEMMA RecordedIsInductive == RecordedInv /\ [Next]_vars => RecordedInv'
<1> SUFFICES ASSUME RecordedInv, [Next]_vars PROVE RecordedInv'
    OBVIOUS
<1>1. Base'
    BY BaseIsInductive DEF RecordedInv
<1>2. (\A f \in Files : Recorded(f)') /\ Unwatched'
    <2>1. CASE Directory
        BY <2>1, DirectoryRecorded
    <2>2. CASE Tick
        BY <2>2, TickRecorded
    <2>3. CASE Dashboard
        BY <2>3, DashboardRecorded, BurstRecorded, LookUpRecorded DEF Dashboard, Recover
    <2>4. CASE CommandLine
        BY <2>4, CommandLineRecorded, LookUpRecorded DEF CommandLine, CliRecover
    <2>5. CASE Recovery
        BY <2>5, RecoveryRecorded DEF Recovery
    <2>6. CASE UNCHANGED vars
        BY <2>6, TombsStill, RecordedAside DEF vars
    <2> QED
        BY <2>1, <2>2, <2>3, <2>4, <2>5, <2>6 DEF Next
<1> QED
    BY <1>1, <1>2 DEF RecordedInv

\* Every deletion the dashboard was told of and could record has its tombstone, dated no
\* earlier than the deletion, whatever else the burst held and whatever failed before:
\* only a deletion in a burst taken for the start of the game, in a lost burst, or whose
\* insert failed is excepted (Settled).
THEOREM DeletionKept == Spec => []DeletionRecorded
<1>1. Init => RecordedInv
    <2>1. Init => Unwatched /\ \A f \in Files : Recorded(f)
        BY DEF Init, Unwatched, Recorded, Watched
    <2> QED
        BY <2>1, InitBase DEF RecordedInv
<1>2. RecordedInv /\ [Next]_vars => RecordedInv'
    BY RecordedIsInductive
<1>3. RecordedInv => DeletionRecorded
    BY DEF RecordedInv, Recorded, DeletionRecorded, Settled, Pending
<1> QED
    BY <1>1, <1>2, <1>3, PTL DEF Spec
=============================================================================
