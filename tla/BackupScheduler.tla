-------------------------- MODULE BackupScheduler ---------------------------
(***************************************************************************)
(* The automatic-backup service: the saves directory, the game and the     *)
(* tools that write it, the inotify queue, the dashboard's scheduler and   *)
(* the backup table.                                                       *)
(*                                                                         *)
(* Each entry point of BackupScheduler (takeStartupSnapshot,               *)
(* handleWatcherEvents, takeManualSnapshot inside recoverFile) is one      *)
(* action, with the retention pass it ends in.  The steps of the           *)
(* watcher thread are separate: events queue up (kernel), a burst is taken *)
(* (waitForChange after its debounce) or lost, and the burst is handled    *)
(* later, when the files may have changed again.  So are the steps of      *)
(* recoverFile: the row is looked up, what is on disk is snapshotted, and  *)
(* the row is put in its place, while the game may save in between.        *)
(* Inserts and retention passes fail when the database is locked.          *)
(*                                                                         *)
(* Modelled from src/backup_scheduler.cpp, src/recovery.cpp,               *)
(* src/watcher_inotify.cpp and their callers in src/dashboard_ftxui.cpp    *)
(* and src/main.cpp.                                                       *)
(***************************************************************************)
EXTENDS BackupRows

CONSTANTS
    Absent,     \* no such file in the saves directory
    NoSave,     \* the game is not writing the file
    Unlinked,   \* the game is writing a file that has lost its name
    Policy,     \* retention policy configured by the user
    CliPolicy,  \* retention policy of a `d2rsave backups` process
    Env,        \* optional behaviours of the environment, see EnvKinds
    MaxClock,   \* bound: last second of a behaviour
    MaxSaves,   \* bound: versions ever written
    MaxCommands \* bound: what the user does, see Command

\* launch: D2R is started.         exit: the player saves and exits.
\* delete: a save is deleted.
\* import: a save is replaced by an older one, by a rename (rsync, syncthing).
\* edit: d2rsave rename, set-seed, set-difficulty.
\* repair: d2rsave checksum.       recover: recovery from the dashboard.
\* cli: d2rsave backups recover, snapshot and prune in another process.
\* busy: writes to the database fail, because another process holds its lock (no
\* busy timeout is set) or the disk is full.  overflow: the inotify queue overflows.
EnvKinds == {"launch", "exit", "delete", "import", "edit", "repair", "recover", "cli",
             "busy", "overflow"}

ASSUME SchedulerAssumption ==
    /\ Policy \in Retention
    /\ CliPolicy \in Retention
    /\ Env \subseteq EnvKinds
    /\ MaxClock \in Nat
    /\ MaxSaves \in Nat
    /\ MaxCommands \in Nat
    /\ IsFiniteSet(Files)

(***************************************************************************)
(* What a save file holds, as far as the service can tell contents apart:  *)
(* ver names the version; ts is the time in the .d2s header (0 when the    *)
(* header is not there); whole is FALSE for a file caught in mid-write;    *)
(* summed is FALSE when the checksum field of a .d2s does not fit its      *)
(* bytes, as it never does in a torn one.                                  *)
(***************************************************************************)
Content == [ver: Nat, ts: Nat, whole: BOOLEAN, summed: BOOLEAN]

\* None of the marks for a missing content is one.
ASSUME MarksAssumption == {NoData, Absent, NoSave, Unlinked} \cap Content = {}

\* The names inotify reports that matter: save files, the companion files whose
\* close marks save-and-exit, and "aux" for three or more other files.
Signal == "Settings.json"
Aux    == "aux"
Names  == Files \cup {Signal, Aux}

ASSUME NamesAssumption == Files \cap {Signal, Aux} = {}

\* Event bits, OR-ed per name.  MODIFY stands for IN_MODIFY and IN_CREATE,
\* DELETE for IN_DELETE and IN_MOVED_FROM.
Bits      == {"ACCESS", "MODIFY", "CLOSE_WRITE", "MOVED_TO", "DELETE"}
WriteBits == {"MODIFY", "CLOSE_WRITE", "MOVED_TO"}
NoEvents  == [n \in Names |-> {}]

VARIABLES
    disk,       \* the saves directory: content of each file, or Absent
    saving,     \* the content the game is writing to the file, NoSave or Unlinked
    lastVer,    \* number of versions written so far
    now,        \* unix seconds
    commands,   \* number of commands the user has given
    events,     \* inotify queue: bits pending per name
    burst,      \* the burst waitForChange returned, not yet handled
    dash,       \* the dashboard process
    rows,       \* the backup table
    recovery,   \* where each process is in recoverFile
    changedAt,  \* ghost: when the file was written or deleted; for a file restored
                \* from a row, the date of that row
    missed      \* ghost: files whose last change the service was not told of, or
                \* could not record (see Notify, LoseBurst, HandleBurst)

fileVars == <<disk, saving, lastVer, changedAt>>
vars == <<disk, saving, lastVer, now, commands, events, burst, dash, rows, recovery,
          changedAt, missed>>

\* down: not running.  starting: startup snapshot taken, no watch yet.
\* watching: waiting for events.  burst: a burst is taken, not yet handled.
DashState == {"down", "starting", "watching", "burst"}
Watched   == dash \in {"watching", "burst"}

\* The dashboard's recovery modal runs on its UI thread; d2rsave backups recover is a
\* process of its own.
Process == {"dashboard", "cli"}

\* Between two steps of recoverFile: the row it looked up, and (a ghost) the content
\* that the pre-recovery snapshot found and did not fail to record.
Idle == [step |-> "idle"]
Recovering == [step: {"snapshot", "apply"}, row: Row(Content), kept: Content \cup {Absent}]

TypeOK ==
    /\ disk \in [Files -> Content \cup {Absent}]
    /\ saving \in [Files -> Content \cup {NoSave, Unlinked}]
    /\ lastVer \in Nat
    /\ now \in Nat
    /\ commands \in Nat
    /\ events \in [Names -> SUBSET Bits]
    /\ burst \in [Names -> SUBSET Bits]
    /\ dash \in DashState
    /\ rows \subseteq Row(Content)
    /\ IsFiniteSet(rows)
    /\ recovery \in [Process -> Recovering \cup {Idle}]
    /\ changedAt \in [Files -> Nat]
    /\ missed \subseteq Files

Init ==
    /\ disk = [f \in Files |-> Absent]
    /\ saving = [f \in Files |-> NoSave]
    /\ lastVer = 0
    /\ now = 1
    /\ commands = 0
    /\ events = NoEvents
    /\ burst = NoEvents
    /\ dash = "down"
    /\ rows = {}
    /\ recovery = [p \in Process |-> Idle]
    /\ changedAt = [f \in Files |-> 0]
    /\ missed = {}

-----------------------------------------------------------------------------
(***************************************************************************)
(* Inserting rows                                                          *)
(***************************************************************************)

\* computeFileChecksum: the .d2s sum leaves out the checksum field itself.
Checksum(f, c) == IF f \in CharFiles THEN [c EXCEPT !.summed = TRUE] ELSE c

\* Fault: two versions with one header time taken for the same.
FaultUnchanged(tbl, f, c) ==
    LET last == NewestRow(tbl, f)
    IN  last # NoRow /\ last.data # NoData /\ last.data.ts = c.ts

\* The date writeFileAsState gives a row: the header time of a .d2s, else t.
DateOf(f, c, t) == IF f \in CharFiles /\ c.ts > 0 THEN c.ts ELSE t

\* Change detection against the newest row; a tombstone has no checksum.
Unchanged(tbl, f, c) ==
    LET last == NewestRow(tbl, f)
    IN  /\ last # NoRow
        /\ last.data # NoData
        /\ Checksum(f, last.data) = Checksum(f, c)

\* The files of `fs` that writeFileAsState inserts a row for: unreadable and
\* unchanged ones are skipped.
Due(tbl, fs) == {f \in fs : disk[f] # Absent /\ ~ Unchanged(tbl, f, disk[f])}

FileRows(tbl, fs, st, t) ==
    {NewRow(tbl, f, DateOf(f, disk[f], t), st, disk[f]) : f \in Due(tbl, fs)}

\* Inserts that fail, of those for `fs`, are logged and dropped; the insert of a
\* tombstone too.
Lost(fs) == IF "busy" \in Env THEN SUBSET fs ELSE {{}}

\* runRetention: a pass that fails is rolled back and logged.
Passed(tbl, p, t) ==
    {Retained(tbl, p.days, p.sessions, t)} \cup (IF "busy" \in Env THEN {tbl} ELSE {})

\* A snapshot of `fs` in which the inserts for `lost` fail.
Snapshots(tbl, fs, lost, st, t, p) ==
    Passed(tbl \cup FileRows(tbl, fs \ lost, st, t), p, t)

-----------------------------------------------------------------------------
(***************************************************************************)
(* The saves directory                                                     *)
(***************************************************************************)

\* What inotify does with an event on f, and what the ghosts record of it.
Notify(f, bits) ==
    /\ events' = IF Watched THEN [events EXCEPT ![f] = @ \cup bits] ELSE events
    /\ missed' = IF Watched THEN missed ELSE missed \cup {f}

Put(f, c, t) ==
    /\ disk' = [disk EXCEPT ![f] = c]
    /\ changedAt' = IF disk[f] = c THEN changedAt ELSE [changedAt EXCEPT ![f] = t]

\* The user starts the dashboard, starts or quits the game, asks for a recovery or runs
\* the command line.
Command ==
    /\ commands < MaxCommands
    /\ commands' = commands + 1

Tick ==
    /\ now < MaxClock
    /\ now' = now + 1
    /\ UNCHANGED <<fileVars, commands, events, burst, dash, rows, recovery, missed>>

HeaderTime(f, t) == IF f \in CharFiles THEN t ELSE 0

\* The game opens a save, truncates it and writes: a reader sees a torn file,
\* whose header may or may not be there.
BeginSave(f) ==
    /\ saving[f] = NoSave
    /\ lastVer < MaxSaves
    /\ lastVer' = lastVer + 1
    /\ LET c == [ver |-> lastVer', ts |-> HeaderTime(f, now), whole |-> TRUE, summed |-> TRUE]
       IN  /\ saving' = [saving EXCEPT ![f] = c]
           /\ \E ts \in {0, c.ts} :
                Put(f, [c EXCEPT !.ts = ts, !.whole = FALSE, !.summed = (ts = 0)], now)
    /\ Notify(f, {"MODIFY"})
    /\ UNCHANGED <<now, commands, burst, dash, rows, recovery>>

\* ... and closes it.  The watch reports that also when the file has lost its name.
EndSave(f) ==
    /\ saving[f] # NoSave
    /\ IF saving[f] = Unlinked THEN UNCHANGED <<disk, changedAt>> ELSE Put(f, saving[f], now)
    /\ saving' = [saving EXCEPT ![f] = NoSave]
    /\ Notify(f, {"CLOSE_WRITE"})
    /\ UNCHANGED <<lastVer, now, commands, burst, dash, rows, recovery>>

\* The game writes its .ctl and Settings.json files when the user quits.
WriteCompanions ==
    /\ Command
    /\ "exit" \in Env
    /\ events' = IF Watched THEN [events EXCEPT ![Signal] = {"CLOSE_WRITE"}] ELSE events
    /\ UNCHANGED <<fileVars, now, burst, dash, rows, recovery, missed>>

\* D2R starts and reads every file of the directory.
LaunchGame ==
    /\ Command
    /\ "launch" \in Env
    /\ events' = IF Watched THEN [events EXCEPT ![Aux] = {"ACCESS"}] ELSE events
    /\ UNCHANGED <<fileVars, now, burst, dash, rows, recovery, missed>>

\* The name f is removed, or goes to another file by an atomic rename.  What the game
\* has open under that name is nobody's file from then on.
Replace(f, c, t, bits) ==
    /\ Put(f, c, t)
    /\ saving' = [saving EXCEPT ![f] = IF @ = NoSave THEN NoSave ELSE Unlinked]
    /\ Notify(f, bits)

DeleteSave(f) ==
    /\ "delete" \in Env
    /\ disk[f] # Absent
    /\ Replace(f, Absent, now, {"DELETE"})
    /\ UNCHANGED <<lastVer, now, commands, burst, dash, rows, recovery>>

\* A file lands on f by an atomic rename.
RenameOnto(f, c) ==
    /\ Replace(f, c, now, {"MOVED_TO"})
    /\ UNCHANGED <<now, commands, burst, dash, rows, recovery>>

Import(f) ==
    /\ "import" \in Env
    /\ lastVer < MaxSaves
    /\ lastVer' = lastVer + 1
    /\ \E t \in 1..now, ok \in BOOLEAN :
          RenameOnto(f, [ver |-> lastVer', ts |-> HeaderTime(f, t),
                         whole |-> TRUE, summed |-> ok])

\* The editing commands look for the magic number at the head of the file only.
HasHeader(f) == f \in CharFiles /\ disk[f] # Absent /\ disk[f].ts > 0

\* cmdRename, cmdSetSeed, cmdSetDifficulty: new bytes, same header time.
EditSave(f) ==
    /\ "edit" \in Env
    /\ HasHeader(f)
    /\ lastVer < MaxSaves
    /\ lastVer' = lastVer + 1
    /\ RenameOnto(f, [disk[f] EXCEPT !.ver = lastVer', !.summed = TRUE])

\* cmdChecksum: only the checksum field changes, where it does not fit.
RepairSave(f) ==
    /\ "repair" \in Env
    /\ HasHeader(f)
    /\ ~ disk[f].summed
    /\ RenameOnto(f, [disk[f] EXCEPT !.summed = TRUE])
    /\ UNCHANGED lastVer

-----------------------------------------------------------------------------
(***************************************************************************)
(* The dashboard                                                           *)
(***************************************************************************)

\* runDashboard opens the database and takes the startup snapshot.  Files that
\* are gone are not looked at: the sweep records no tombstones.
StartDashboard ==
    /\ Command
    /\ dash = "down"
    /\ dash' = "starting"
    /\ \E lost \in Lost(Due(rows, Files)) :
          /\ rows' \in Snapshots(rows, Files, lost, "Startup", now, Policy)
          /\ missed' = {f \in Files : disk[f] = Absent} \cup lost
    /\ UNCHANGED <<fileVars, now, events, burst, recovery>>

\* ... and, after the first full scan, creates the DirectoryWatcher.
WatchDirectory ==
    /\ dash = "starting"
    /\ dash' = "watching"
    /\ UNCHANGED <<fileVars, now, commands, events, burst, rows, recovery, missed>>

\* waitForChange returns after its debounce with everything that is queued.
TakeBurst ==
    /\ dash = "watching"
    /\ events # NoEvents
    /\ burst' = events
    /\ events' = NoEvents
    /\ dash' = "burst"
    /\ UNCHANGED <<fileVars, now, commands, rows, recovery, missed>>

\* Still to be handled: inotify bits of f that make the scheduler write a row.
Pending(f) ==
    (events[f] \cup burst[f]) \cap {"CLOSE_WRITE", "MOVED_TO", "DELETE"} # {}

\* The queue has overflowed.  The event that says so carries the descriptor -1 and no
\* name, as does the watch on the executable the dashboard does not have: the trigger
\* is for the executable, its names are dropped, and the scheduler is not called.
LoseBurst ==
    /\ "overflow" \in Env
    /\ dash = "watching"
    /\ events # NoEvents
    /\ events' = NoEvents
    /\ missed' = missed \cup {f \in Files : Pending(f)}
    /\ UNCHANGED <<fileVars, now, commands, burst, dash, rows, recovery>>

\* No write anywhere, and reads of at least three files other than saves.
IsLaunchBurst(b) ==
    /\ \A n \in Names : b[n] \cap WriteBits = {}
    /\ "ACCESS" \in b[Aux]

ClassifyBurst(b) ==
    IF "CLOSE_WRITE" \in b[Signal] THEN "SaveAndExit"
    ELSE IF \E f \in Files : "CLOSE_WRITE" \in b[f] THEN "Autosave"
    ELSE IF \E f \in Files : "MOVED_TO" \in b[f] THEN "Other"
    ELSE "Autosave"

\* Faults: the write wins over the deletion; renames are not looked at.
FaultDeleted(b) == {f \in Files : "DELETE" \in b[f] /\ b[f] \cap WriteBits = {}}
FaultWritten(b) == {f \in Files : "DELETE" \notin b[f] /\ "CLOSE_WRITE" \in b[f]}

\* Files a burst reports deleted (deletion wins), and files it reports written.
Deleted(b) == {f \in Files : "DELETE" \in b[f]}
Written(b) == {f \in Files \ Deleted(b) : b[f] \cap {"CLOSE_WRITE", "MOVED_TO"} # {}}

\* Files a burst is right about: there to be read, or gone.
Looked(b) == {f \in Files : IF disk[f] = Absent THEN f \in Deleted(b) ELSE f \in Written(b)}

\* handleWatcherEvents.  A burst taken for a launch is dropped, deletions and all.
HandleBurst ==
    /\ dash = "burst"
    /\ dash' = "watching"
    /\ burst' = NoEvents
    /\ IF IsLaunchBurst(burst)
       THEN rows' = rows /\ missed' = missed \cup Deleted(burst)
       ELSE \E lost \in Lost(Deleted(burst) \cup Due(rows, Written(burst))) :
              /\ rows' \in Passed(rows \cup {Tombstone(rows, f, now) : f \in Deleted(burst) \ lost}
                                      \cup FileRows(rows, Written(burst) \ lost,
                                                    ClassifyBurst(burst), now),
                                  Policy, now)
              /\ missed' = (missed \ Looked(burst)) \cup lost
    /\ UNCHANGED <<fileVars, now, commands, events, recovery>>

\* The dashboard quits or crashes: a burst it has taken, or that is still in its
\* debounce, is dropped with the queue; a recovery stops where it is.
StopDashboard ==
    /\ dash # "down"
    /\ dash' = "down"
    /\ events' = NoEvents
    /\ burst' = NoEvents
    /\ missed' = {}
    /\ recovery' = [recovery EXCEPT !["dashboard"] = Idle]
    /\ UNCHANGED <<fileVars, now, commands, rows>>

-----------------------------------------------------------------------------
(***************************************************************************)
(* Recovery and the command line                                           *)
(***************************************************************************)

\* The command-line process builds a scheduler with the default policy.
PolicyOf(p) == IF p = "dashboard" THEN Policy ELSE CliPolicy

\* recoverFile into the saves directory: look the row up; --no-pre-snapshot clears
\* `pre` ...
LookUp(p, f, ask, pre) ==
    /\ Command
    /\ recovery[p] = Idle
    /\ At(rows, f, ask) # NoRow
    /\ recovery' = [recovery EXCEPT ![p] =
                        [step |-> IF pre THEN "snapshot" ELSE "apply",
                         row |-> At(rows, f, ask), kept |-> Absent]]
    /\ UNCHANGED <<fileVars, now, events, burst, dash, rows, missed>>

\* ... snapshot what is on disk, and go on whether or not that has failed ...
PreSnapshot(p) ==
    /\ recovery[p].step = "snapshot"
    /\ LET f == recovery[p].row.file
       IN  \E lost \in Lost(Due(rows, {f})) :
              /\ rows' \in IF disk[f] = Absent THEN {rows}
                          ELSE Snapshots(rows, {f}, lost, "Autosave", now, PolicyOf(p))
              /\ recovery' = [recovery EXCEPT
                                 ![p].step = "apply",
                                 ![p].kept = IF f \in lost THEN Absent ELSE disk[f]]
    /\ UNCHANGED <<fileVars, now, commands, events, burst, dash, missed>>

\* ... and remove the file, or rename the row's bytes onto it, whatever it holds now.
Apply(p) ==
    /\ recovery[p].step = "apply"
    /\ LET row == recovery[p].row
       IN  IF row.state # "Deleted" THEN Replace(row.file, row.data, row.date, {"MOVED_TO"})
           ELSE IF disk[row.file] # Absent THEN Replace(row.file, Absent, now, {"DELETE"})
           ELSE UNCHANGED <<disk, changedAt, saving, events, missed>>
    /\ recovery' = [recovery EXCEPT ![p] = Idle]
    /\ UNCHANGED <<lastVer, now, commands, burst, dash, rows>>

\* A directory or a temporary file cannot be made: recoverFile throws.
GiveUp(p) ==
    /\ recovery[p] # Idle
    /\ recovery' = [recovery EXCEPT ![p] = Idle]
    /\ UNCHANGED <<fileVars, now, commands, events, burst, dash, rows, missed>>

Recover(f, ask) ==
    /\ "recover" \in Env
    /\ Watched
    /\ LookUp("dashboard", f, ask, TRUE)

CliRecover(f, ask, pre) ==
    /\ "cli" \in Env
    /\ LookUp("cli", f, ask, pre)

CliSnapshot ==
    /\ Command
    /\ "cli" \in Env
    /\ \E lost \in Lost(Due(rows, Files)) :
          rows' \in Snapshots(rows, Files, lost, "Startup", now, CliPolicy)
    /\ UNCHANGED <<fileVars, now, events, burst, dash, recovery, missed>>

CliPrune ==
    /\ Command
    /\ "cli" \in Env
    /\ rows' \in Passed(rows, CliPolicy, now)
    /\ UNCHANGED <<fileVars, now, events, burst, dash, recovery, missed>>

-----------------------------------------------------------------------------
\* Every point-in-time query has the answer it has at the date of some row.
Moments(f) == {r.date : r \in RowsOf(rows, f)}

Directory ==
    \/ \E f \in Files : \/ BeginSave(f) \/ EndSave(f) \/ DeleteSave(f)
                        \/ Import(f) \/ EditSave(f) \/ RepairSave(f)
    \/ WriteCompanions
    \/ LaunchGame

Dashboard ==
    \/ StartDashboard \/ WatchDirectory \/ StopDashboard
    \/ TakeBurst \/ LoseBurst \/ HandleBurst
    \/ \E f \in Files : \E ask \in Moments(f) : Recover(f, ask)

CommandLine ==
    \/ \E f \in Files, pre \in BOOLEAN : \E ask \in Moments(f) : CliRecover(f, ask, pre)
    \/ CliSnapshot
    \/ CliPrune

Recovery == \E p \in Process : PreSnapshot(p) \/ Apply(p) \/ GiveUp(p)

Next == Tick \/ Directory \/ Dashboard \/ CommandLine \/ Recovery

Spec == Init /\ [][Next]_vars

-----------------------------------------------------------------------------
(***************************************************************************)
(* Properties                                                              *)
(***************************************************************************)

\* The dashboard has caught up with f: it watches, the game is not writing f, no event
\* of f is under way, and the last change of f was neither kept from the service nor
\* lost by it.  That happens in five ways, each logged at most: f changed between the
\* startup snapshot and the creation of the watch (or was gone by then), in a burst
\* lost to an overflow, was deleted in a burst taken for a launch, or its insert failed.
Settled(f) ==
    /\ Watched
    /\ saving[f] \notin Content
    /\ ~ Pending(f)
    /\ f \notin missed

\* No retention pass that may run deletes a row of this date.
InWindow(date) ==
    \A p \in {Policy} \cup (IF "cli" \in Env THEN {CliPolicy} ELSE {}) :
        p.days > 0 /\ date >= now - p.days * SecondsPerDay

BackedUp(tbl, f, c) ==
    \E r \in tbl : r.file = f /\ r.data # NoData /\ Checksum(f, r.data) = Checksum(f, c)

\* What the service is for: once the dashboard has caught up, the content of
\* every save file inside the retention window is in the table, whatever the
\* order of saves, imports, edits, bursts, restarts and recoveries, and whatever
\* inserts and passes failed before.  Change detection by the newest row, header
\* dates and retention can each lose it.  (Where files are deleted, a burst that holds
\* a deletion and a later write of f gets no row: README.md.)
Captured ==
    \A f \in Files :
        /\ Settled(f)
        /\ disk[f] # Absent
        /\ InWindow(DateOf(f, disk[f], changedAt[f]))
        => BackedUp(rows, f, disk[f])

\* The same without the exemption of what was missed, as README.md puts it: snapshots
\* are captured "as files change when the dashboard is running".  It does not hold:
\* README.md, "Further behaviours".
CapturedWhileRunning ==
    \A f \in Files :
        /\ Watched /\ saving[f] \notin Content /\ ~ Pending(f)
        /\ disk[f] # Absent
        /\ InWindow(DateOf(f, disk[f], changedAt[f]))
        => BackedUp(rows, f, disk[f])

\* A deletion the dashboard was told of and could record has its tombstone, dated no
\* earlier than the deletion, whatever else the burst held.  BackupScheduler.hpp
\* promises it for every burst; a burst taken for a launch is the exception (Settled).
DeletionRecorded ==
    \A f \in Files :
        Settled(f) /\ disk[f] = Absent /\ changedAt[f] > 0 /\ InWindow(changedAt[f])
            => \E r \in rows : r.file = f /\ r.state = "Deleted" /\ r.date >= changedAt[f]

\* A recovery that replaces what its pre-recovery snapshot found, and did not fail to
\* insert, leaves those bytes in the table: the snapshot is not skipped for a wrong
\* reason, and no pass in between, its own, the watcher's or another process's,
\* deletes them.  Bytes whose insert failed, and those of a save between the snapshot
\* and the rename, are destroyed without a copy: README.md, "Further behaviours".
RecoveryKeepsBytes ==
    [][\A p \in Process :
          LET f == recovery[p].row.file
          IN  /\ Apply(p)
              /\ disk[f] # Absent
              /\ disk[f] = recovery[p].kept
              /\ InWindow(DateOf(f, disk[f], changedAt[f]))
              => BackedUp(rows', f, disk[f])]_vars

\* "Always takes a pre-recovery snapshot ... so the operation is reversible via a
\* repeat recovery" (Recovery.hpp): some repeat recovery brings back what the snapshot
\* found.  It does not hold: README.md, "Further behaviours".
RecoveryReversible ==
    [][\A p \in Process :
          LET f == recovery[p].row.file
          IN  /\ Apply(p)
              /\ disk[f] # Absent
              /\ disk[f] = recovery[p].kept
              => \E again \in 0..now :
                    /\ At(rows', f, again) # NoRow
                    /\ At(rows', f, again).data # NoData
                    /\ Checksum(f, At(rows', f, again).data) = Checksum(f, disk[f])]_vars
=============================================================================
