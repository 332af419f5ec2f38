------------------------------ MODULE BackupDb ------------------------------
(***************************************************************************)
(* The backup database as a component: a table, a clock, and one action    *)
(* per BackupDb operation that changes the table.  The callers are left    *)
(* unconstrained: any file may be inserted with any date up to now, which  *)
(* is what header-dated saves (imports, restores) make possible.           *)
(***************************************************************************)
EXTENDS BackupRows

CONSTANTS
    Contents,    \* file contents
    MaxClock,    \* bound: last second of a behaviour
    MaxRows,     \* bound: rows in the table
    Tags,        \* bound: states that are inserted
    Policies     \* retention policies that may be enforced

ASSUME DbAssumption ==
    /\ MaxClock \in Nat
    /\ MaxRows \in Nat
    /\ Tags \subseteq State \ {"Deleted"}
    /\ Policies \subseteq Retention
    /\ NoData \notin Contents

VARIABLES
    rows,    \* the backup table
    now      \* unix seconds

vars == <<rows, now>>

TypeOK ==
    /\ rows \subseteq Row(Contents)
    /\ IsFiniteSet(rows)
    /\ now \in Nat

Init ==
    /\ rows = {}
    /\ now = 0

Tick ==
    /\ now < MaxClock
    /\ now' = now + 1
    /\ UNCHANGED rows

\* BackupDb::insert
Insert(f, d, st, c) ==
    /\ Cardinality(rows) < MaxRows
    /\ rows' = rows \cup {NewRow(rows, f, d, st, c)}
    /\ UNCHANGED now

\* BackupDb::insertTombstone
InsertTombstone(f, d) ==
    /\ Cardinality(rows) < MaxRows
    /\ rows' = rows \cup {Tombstone(rows, f, d)}
    /\ UNCHANGED now

\* BackupDb::enforceRetention
EnforceRetention(p) ==
    /\ rows' = Retained(rows, p.days, p.sessions, now)
    /\ UNCHANGED now

Next ==
    \/ Tick
    \/ \E f \in Files, d \in 0..now, st \in Tags, c \in Contents :
          Insert(f, d, st, c)
    \/ \E f \in Files, d \in 0..now : InsertTombstone(f, d)
    \/ \E p \in Policies : EnforceRetention(p)

Spec == Init /\ [][Next]_vars

-----------------------------------------------------------------------------
(***************************************************************************)
(* Properties                                                              *)
(***************************************************************************)

\* Retention never changes what a point-in-time query answers about a character
\* at a moment the surviving history covers: after enforceRetention, at(f, ask)
\* returns the row it returned before, or the file has no row left at or before
\* `ask`.  Rules (a) and (b) must agree on this: it fails as soon as they can
\* keep an older row of a character and drop a newer one.
PointInTimeKept(Subjects) ==
    \A f \in Subjects, ask \in 0..now :
        (\E r \in rows' : r.file = f /\ r.date <= ask)
            => At(rows', f, ask) = At(rows, f, ask)

RetentionKeepsCharAnswers ==
    [][(\E p \in Policies : EnforceRetention(p)) => PointInTimeKept(CharFiles)]_vars

\* The same for the shared stash, as Recovery.hpp promises for every file
\* ("Recover the row that was current at this unix second").  It does not hold: README.md,
\* "Further behaviours".
RetentionKeepsStashAnswers ==
    [][(\E p \in Policies : EnforceRetention(p)) => PointInTimeKept(StashFiles)]_vars

\* Enforcing one policy twice in the same second deletes nothing the second
\* time: the deletions of the first pass must not shift the session cutoff or
\* the character ranges that the second pass computes.
RetentionIsStable ==
    \A p \in Policies :
        LET once == Retained(rows, p.days, p.sessions, now)
        IN  Retained(once, p.days, p.sessions, now) = once

\* A policy that is more generous in both numbers never deletes a row the
\* stricter one keeps, although a larger session count also moves the ranges
\* rule (c) derives for the stash.
RetentionIsMonotone ==
    \A p, q \in Policies :
        p.days <= q.days /\ p.sessions <= q.sessions
            => Retained(rows, p.days, p.sessions, now)
                   \subseteq Retained(rows, q.days, q.sessions, now)

\* With a session count of at least one, the last N completed sessions of a
\* character survive whole, and so does everything after them: whatever row is
\* newer than the N+1-th newest save-and-exit, its session is intact.
SessionsKeptWhole ==
    [][\A p \in Policies : EnforceRetention(p) /\ p.sessions > 0 =>
          \A r, s \in rows :
             (/\ r.file \in CharFiles
              /\ r.file = s.file
              /\ r \in rows'
              /\ s.date <= r.date
              /\ ~ \E e \in rows : /\ e.file = r.file
                                  /\ e.state = "SaveAndExit"
                                  /\ s.date <= e.date
                                  /\ e.date < r.date
              /\ ~ WithinDays(r, p.days, now))
             => s \in rows']_vars
=============================================================================
