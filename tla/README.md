# A verification of d2rsave's moving parts

`d2rsave` reads Diablo II: Resurrected save files, edits a few fields of them,
watches the game's saves directory, keeps a dashboard up to date and backs up
every version of every save in a SQLite table.  Most of its code decodes and
formats; what is hard to get right is what runs while the game runs: an inotify
watcher with a debounce, a watcher thread and a UI thread, a backup service that
decides what a burst of events meant, a retention pass that deletes, and
recoveries that replace live files; and, on the screen, panes, cursors and a
"session" whose start is rebuilt from backups while everything under them changes.
This directory models those parts in TLA+, checks them with TLC on small instances
and proves most of what the checks show with TLAPS for every instance.

Paths below are relative to the program's repository (`src/…` is its C++ source
directory, `include/d2r/…` its headers).

## The system

### Components, their state and operations

| component | code | state | operations that change it | module |
|---|---|---|---|---|
| backup database | `src/backup_db.cpp`, `include/d2r/BackupDb.hpp` | the `backup` table: (filename, date, checksum, state, data), rowids, one index (filename, date desc) | `insert`, `insertTombstone`, `enforceRetention`; queries `at`, `lastChecksumFor`, `historyFor`, `summariseFiles` | `BackupRows`, `BackupDb`, `BackupThreads` |
| backup scheduler | `src/backup_scheduler.cpp` | the retention policy; otherwise stateless over the table and the directory | `takeStartupSnapshot`, `handleWatcherEvents`, `takeManualSnapshot`, `setRetention` | `BackupScheduler` |
| recovery | `src/recovery.cpp` | none: a row becomes a file again, after a pre-recovery snapshot | `recoverFile` | `BackupScheduler` |
| directory watcher | `src/watcher_inotify.cpp` | inotify queue, two watch descriptors, shutdown eventfd | `waitForChange`, `alsoWatchExecutable`, `shutdown` | `DirectoryWatcher` |
| watch loop (`--watch`) | end of `main()` in `src/main.cpp` | where the loop is; which binary runs | first run, attach, trigger, `execv`, re-run, signals | `WatchLoop` |
| dashboard refresh | `runDashboard` in `src/dashboard_ftxui.cpp`, cache in `src/dashboard_model.cpp` | `pendingChangedFiles`, Custom events, the parse cache, the snapshot, `shutdown` | watcher thread, `rebuild`, `[r]`, quit and join | `DashboardRefresh` |
| save editing | `src/save.cpp`, `cmdRename`, `cmdSetSeed`, `cmdSetDifficulty`, `cmdChecksum` | a `.d2s` file, replaced by rename | the four commands | `BackupScheduler`, as far as the backup service sees them |
| backup command line | `cmdBackups*` in `src/main.cpp` | none of its own | `recover`, `snapshot`, `prune` (the others read) | `BackupScheduler` |
| session runs | `dashboard_model.cpp` 1351-1622 | none (pure, over the table) | grouping of rows into runs, their durations and statistics | `RunGrouping` |
| application session | `AppSession` in `DashboardModel.hpp`, `buildSession`, `refreshAutoEndEpoch` | start and end of the session, the picture of the account at its start, its cache key | launch, backup, custom times, reset, rebuild | `AppSession`, `SessionPromise` |
| pane tree and configuration | `src/dashboard_config.cpp`, key handlers | the layout, retention settings, both also in a second database | split, delete, cycle, singletons, save, load, migrate | `PaneTree`, `DashboardPanes` |
| key routing | the event handler in `dashboard_ftxui.cpp` 4621-5480 | overlays, focus, cursors, expansions, queries | one per key | `DashboardPanes`, `ListPanes` |
| renderers | `dashboard_ftxui.cpp` | none (pure) | rows of the list panes; sizes of the panes | `ListPanes`, `InventoryTree`, `ChronicleGrid`, `PaneTree` |
| snapshot aggregation, chronicle | `dashboard_model.cpp` 240-1300 | the cache of parsed files | first-wins merges, chronicle, reconcile, rewinding | `AccountSnapshot`, `Account` |
| query commands | `main.cpp` | none | formatting of what others computed | not modelled |
| terror zones | `src/terror_zones.cpp` | none (pure function of time) | | not modelled |
| bit reader, character, item and stash parsers | `src/bitreader.cpp`, `*_parser.cpp` | a read position | | what a section yields: `AccountSnapshot` |
| reference database, CASC, excel and string tables, paths | `src/refdb*.cpp`, `casc_*.cpp`, `sql_emitter.cpp`, … | read-only data, offline generators | | not modelled: text to text, no state |

### How they interact

The game writes saves into the directory.  The kernel queues inotify events per
watch.  `waitForChange` turns a queue into one *trigger* (names, OR-ed masks)
after a debounce.  In the dashboard the watcher thread then (1) calls
`handleWatcherEvents`, which reads the files again, inserts rows, writes
tombstones and enforces retention; (2) pushes the names into
`pendingChangedFiles` under a mutex; (3) posts a Custom event.  The insert
callback posts events too, ahead of the names.  The UI thread drains the names in
`rebuild()`, parses what changed through a cache keyed by modification time and
size, and publishes a snapshot.  The recovery modal runs on the UI thread and
uses the *same* SQLite connection as the watcher thread.  A second process
(`d2rsave backups …`) may use the same database file with another policy.

A rebuild reads the session's window under the mutex, asks the database for the rows
of that second, replaces files in a copy of the snapshot by those rows, and publishes
snapshot, session and run statistics together; launches and backups may move the
window in between.  The panes draw what is published.  The keys do not see what was
drawn: each one computes the rows of its pane anew, from the database, the snapshot
and the pane's own cursor and expansions, and finds its pane through a list of
pointers that only drawing refreshes.  The layout and the retention policy are also
rows of a second database, written by the keys and read at the start.

### What is hard about it

* *Interleavings*: two threads in `enforceRetention` on one connection; the gap
  between the startup snapshot (or first scan) and the creation of the watch;
  several posted rebuilds for one list of names.
* *Coalescing and loss*: a burst is an OR of masks per name, a full inotify queue
  becomes one nameless event, an executable event hides the names of its window.
* *Dates that are not the time of the insert*: a `.d2s` row is dated by its header,
  so that imported, edited and restored saves arrive in the past and "newest row"
  is not "row inserted last".
* *Deletion*: retention combines a date rule, a session rule and a rule for the
  stash that depends on other files' rows.  Whatever it deletes is gone.
* *Failure*: quitting or crashing with events read and not handled; `execv` on a
  binary the linker is still writing; statements that fail because another process
  holds the write lock.
* *Liveness*: a poll that restarts on EINTR, a join on a thread in that poll, a
  session whose window moves while it is being drawn.
* *Rows under a cursor*: three pieces of code count the rows of a pane (the renderer,
  the cursor keys, Enter and R) and backups arrive between them.
* *A past made of mixtures*: the account "as it was at the start" is computed late,
  from files some of which are newer, older, or gone, while items travel between them.

`PROJECT.json` lists these and the smaller ones under "hazards", each at its line.

### What makes each part correct

* Database: retention deletes exactly what its rules condemn; it leaves every
  point-in-time answer about a character as it was; sessions survive whole; more
  generous settings keep more; a second pass finds nothing to do.
* Scheduler: once it has caught up with the last change of a file, which it was told of
  and could record, the content is in the table, and a deletion has its tombstone;
  nothing that failed before, and nothing else in the burst, stands in the way.
* Recovery: it does not destroy the only copy of what its pre-recovery snapshot found
  and could record.  (More the code does not keep: "Further behaviours".)
* Watcher and its two callers: no change is forgotten between the kernel and the
  command or the screen, the binary linked last ends up running, quitting ends.
* Panes: one overlay at a time, no key through a pane that is gone, at most one pane
  per list outside the menu, the layout and policy on the screen are those a restart
  loads, the panes cover the screen.
* List panes: keys act on the row that is highlighted; everything that passes the
  filter has exactly one row; runs partition a history and tile the session.
* Session: its picture of the past shows each file as it was at the start, whatever is
  cached; loot is what the account did not have then, and nothing else.

## Modules

`BackupRows` has no variables: it is the table as a set of rows, the queries
(`At`, `NewestRow`), the row an INSERT adds (`NewRow`, `Tombstone`) and the
keep-set of `enforceRetention` (`Kept`, from `WithinDays`, `WithinSessions`,
`WithinCharRange`).  SQLite's rowid is reduced to `rank`, the order among rows of
one file with one date, which is all that `ORDER BY date DESC` over the index
lets a query observe.  The session rule is stated without the sort and the cutoff
index of the code: a row survives iff at most `sessions` save-and-exit rows of its
file are not older than it, which is what "later than the (N+1)-th newest exit"
says, rows of equal date included.  Two modules build on it:

* `BackupDb` — the table, a clock and one action per operation (`Insert`,
  `InsertTombstone`, `EnforceRetention`).  Callers are unconstrained: any file,
  any date up to now, any tag.
* `BackupScheduler` — the whole backup service: the directory (`disk`, and
  `saving` for a file the game is writing), the inotify queue as masks per name
  (`events`), the dashboard (`dash`, `burst`), the table (`rows`), and where each
  process is in `recoverFile` (`recovery`).  One action per entry point of the
  scheduler: `StartDashboard` (takeStartupSnapshot), `HandleBurst`
  (handleWatcherEvents with launch detection, classification, tombstones, inserts
  and the retention pass), `CliSnapshot`, `CliPrune`.  `TakeBurst` is separate from
  `HandleBurst` because the files may change in between; `LoseBurst` is a queue that
  has overflowed, of which the scheduler hears nothing.  `recoverFile` is `Recover` or
  `CliRecover` (`LookUp`: the row, and whether a snapshot is wanted), `PreSnapshot` and
  `Apply`, with anything in between, or `GiveUp` where it throws.  With "busy" in
  `Env` any insert may fail (`Lost`) and any pass (`Passed`), which the code logs.  The
  ghost `missed` has the files whose last change the service was not told of or
  could not record, and `kept`, in `recovery`, the content a pre-recovery snapshot
  found and did not fail to record.  Content is a record of what the service can tell apart: version,
  header time, torn or whole, checksum field correct or stale.  The game's side
  (`BeginSave` truncates and writes, `EndSave` closes) and the other writers of
  the directory are the environment; `Env` switches the optional ones on.

`DirectoryWatcher` is `waitForChange` as three steps — `Poll` (poll, then read),
`Drain` (after the debounce), `Check` (second look at the eventfd, classify) —
over a queue with the kernel's merging of equal neighbours and its single
overflow event.  Two modules extend it with their thread:

* `WatchLoop` — `d2rsave --watch`: `InitialRun`, `Attach`, `OnTrigger`, `Exec`
  (a successful `execv` restarts the program and drops queue and watch; a failed
  one falls through to a run), `Rerun`.  The linker unlinks first and closes later
  (`BeginLink`, `EndLink`).
* `DashboardRefresh` — the watcher thread (`TakeTrigger`, `Handle`, `Push`, `Post`)
  and the UI thread (`OnCustom`, `Manual`, `StatFile`, `ReadFile`, `Publish`,
  `Quit`, `WakeWatcher`, `Join`).  Reading the modification time and reading the
  bytes are two steps.

`BackupThreads` is `enforceRetention` again, at the grain of SQL statements: two
threads, one connection, rowids as SQLite assigns them (largest in use plus one),
`BEGIN` / `DELETE` / `COMMIT` / `ROLLBACK` with the transaction that belongs to the
connection rather than to a thread, and the write lock another process may hold.
What the rules condemn is a given set there; `BackupRows` says which it is.

`SessionPromise` is the abstract specification of the session panes: a picture of the
account at some second shows each file as it truly was or as the backups said, and
nothing else.  `AppSession` is the program: the window (`app`, with automatic and
custom ends), the rows of the database as dates, `rebuild()` in four steps
(`BeginRebuild`, `ReadWindow`, `Build` with its cache key and the shortcut for files
that look untouched, `Publish`), the watcher thread's `BackUp` and `Launch`, and what
the user types.  `KeepsPromise == Promise!Spec` is the refinement, with the picture
that `Build` or the screen holds as the abstract one.

`AccountSnapshot` (pure) is what the rows of a file are, how files aggregate to
inventory, totals, chronicle and reconcile, how a snapshot is rewound, and what is
loot.  `Account` drives it: the game carries, sockets, identifies, sells, crafts,
stacks and discovers things and saves one file at a time (all of that is the
environment), and `Refresh` reads one file at a time into the cache.

`PaneTree` (pure) is the tree as a function from paths, the operations on it, its
stored form and the shares of the screen.  `DashboardPanes` puts it under the
keyboard: one action per kind of key, `Render` as an action of its own, and the two
tables of `dashboard.sqlite` with reads and writes that may fail (the ghost `lost` has
the tables whose last access did), `Quit`, `Crash` and `Start`.

`RunGrouping`, `InventoryTree` and `ChronicleGrid` (pure) are the rows of the list
panes; `Ranked` is `std::sort`, a loop that filters and a loop that adds up, for all of
them.  `ListPanes` has one pane of each kind
with its cursor, its keys and the changes under it (`BackupArrives`, `Prune`,
`SnapshotReplaced`).

`MC*` modules give the constants their values; `*_proofs` modules hold the proofs.
Operators named `Fault…` are plausible bugs, used by no action: they stand before
the definition they could replace and show that a property would notice.

## Runs

Each run is `tlc -config <name>.cfg <module>`.

| run | question | instance | result |
|---|---|---|---|
| `MCBackupDb` | does retention do what `BackupDb.hpp` says, whatever rows there are? | 1 character, 1 stash, 4 rows, clock 0..3, a day is one second, six policies (0 or 1 day, 0 to 2 sessions) | holds |
| `MCBackupScheduler` | is everything captured that can be, and is a recovery safe? | 1 character, 1 stash, 2 versions, 2 commands, clock to 3; launches, imports, edits, recoveries, a second process with another policy, a locked database, overflows | holds |
| `MCBackupSchedulerDeletion` | does every deletion get its tombstone that can? | 1 character, 1 version, 3 commands, clock to 3; deletions, launches, repairs, recoveries, a locked database, overflows | holds |
| `MCWatchLoop` | does `--watch` re-run and re-exec? | 2 saves, queue of 2, 3 changes, 2 links | holds |
| `MCDashboardRefresh` | does the screen follow the disk, does quitting end? | 2 saves, queue of 1, 3 changes, 1 manual refresh | holds |
| `MCBackupThreads` | does retention delete only what is condemned, with two threads on the connection? | 2 threads, 6 rows ever, nobody else writes, no row born condemned | holds |
| `MCBackupThreadsBusy` | does every transaction end, whoever else writes? | 2 threads, 5 rows ever, another process, rows born condemned | holds |
| `MCDashboardPanes` | what can a sequence of keys, a failed read or write or a crash do to panes, overlays, layout and policy? | 6 pane types, 2 categories, 3 stored layouts (none, legacy, today's), 2 edits, 2 screens | holds |
| `MCAppSession` | is the session's picture of the past true, and does it follow the window? | 2 characters, 1 stash, clock 2..4, 1 user command, both threads | holds |
| `MCListPanes` | do keys act on what is highlighted, and is everything listed? | 2 backup files, 3 to 4 rows, 3 dates; 5 items in 2 snapshots; 6 uniques; 2 queries | holds |
| `MCAccount` | are loot, reconcile and totals right for any mixture of old and new files? | 2 characters, 1 stash, 10 things, 2 starts, 2 plays, 3 saves | holds |
| `MCBackupThreadsRowid` | retention deletes only condemned rows, when rows may be born condemned | 2 threads, 4 rows ever | violated |

The violated run checks a sentence of the repository against its code;
`PROJECT.json` "findings" quotes the sentence and the line that differs.  Five more
such sentences are stated in the modules and do not hold either; they are described
under "Further behaviours".

### What the passing runs show

* `MCBackupDb`.  `RetentionKeepsCharAnswers`: the date rule and the session rule are
  both upward closed within one character, hence so is their union: no older row
  survives a newer one, and `at` answers as before at every moment the rest
  covers.  (The rule for the stash is not upward closed: see below.)
  `SessionsKeptWhole`: the strict comparison with the (N+1)-th exit keeps whole
  sessions, with ties.  `RetentionIsStable`, `RetentionIsMonotone`: see the comments.
* `MCBackupScheduler`.  `Captured`: in every state in which the dashboard watches,
  nobody writes file f and no event of f is under way, the content of f is in the
  table, provided its date is inside the window of every policy that may prune and
  the last change of f is not in `missed`: made in the gap before the watch, lost to an
  overflow of the queue, or its insert failed.  That is what the code loses, and all it
  loses: the next change of f, or the next start, makes up for it.  Change detection
  against the newest row by date, header dates in the past, failed inserts and passes
  before, crashes with a taken burst, and a second process's prune could each break it.
  `RecoveryKeepsBytes`: between the snapshot of `recoverFile` and its rename the game
  may save and every process may insert and prune; what the snapshot found and did not
  fail to insert is in the table when the rename destroys it.  What is saved in between,
  and what failed to be inserted, is not.
* `MCBackupSchedulerDeletion`.  `DeletionRecorded`: a tombstone for every deletion the
  dashboard was told of and could record, with saves and recoveries (of tombstones too)
  in the same burst.  Launches happen in the run, and a deletion in a burst taken for
  one is the exception, together with the gap, the overflow and the failed insert.
* `MCWatchLoop`.  `RerunOnChange` and `HotReload`, as liveness: event merging, a full
  queue, an executable trigger that hides save names, and an `execv` that fails
  while the linker writes do not lose a change for good.
* `MCDashboardRefresh`.  `StaleIsOnItsWay` is the safety half (whenever the screen is
  stale, some queue holds the news), `Refreshes` the liveness half; the queue of
  length 1 makes overflow the common case.  `QuitEnds`: no lost wake-up.
* `MCBackupThreads`, `MCBackupThreadsBusy`.  A nested BEGIN fails and leaves; a COMMIT
  of one thread commits the other's inserts; rows read before BEGIN may be gone.

* `MCDashboardPanes`.  `PointersAlive` and `OneOverlay`: any number of keys between two
  frames, menus that lead into modals.  `SingletonPanes`: the menu shows duplicates
  while it is open (and stores them at every step); each way out of it removes them.
  `SettingsSurvive`: for each table whose last read or write went
  through, a crash costs nothing the user has finished doing.  `PanesTile`: integer shares add up at every nesting.
* `MCAppSession`.  `KeepsPromise` is a refinement: the cache key, the shortcut for
  untouched files, the three fall-backs for a missing row and the two threads are
  invisible in `SessionPromise`.  `CatchesUp`: a launch or a backup in the middle of a
  rebuild is followed by another rebuild, until window, session and statistics agree.
* `MCListPanes`.  `KeysActOnHighlight` relates the code of Enter and R to the renderer's
  rows, and that of the cursor keys too; `RunsPartition` and `SessionTiles` say
  that runs neither overlap nor leave a gap, up to the last exit or, while a game runs,
  to the end of the session, with equal dates and rows inserted in the past; `AllItemsListed`, `LeftGoesToHeader`, `GridComplete` say what each of the two
  trees of rows may not lose.
* `MCAccount`.  `RewindIsStart`: the rewound snapshot is the one at the start, for every
  mixture of files read and unread.  `NoFalseLoot` holds at every moment, also while an
  item carried through the stash is in two files or in none; `NoMissedLoot` and the
  rune figures once everything is saved and read.  `ReconcileConsistent`: the two ids
  of a sunder charm are folded alike in four places.  `TotalsAgree` leaves out the empty
  slots of the material tab, of which the code's two rules differ ("Further behaviours").

### Bounds

One character and one stash are enough for retention because the only rule that
crosses files relates a stash row to one character; four rows allow two exits, a
row between them and a row after them, or a range of a character around a stash
row.  A "day" of one second puts dates inside, at and outside the window within a
clock of 3; in the scheduler, whose clock starts at 1, retention has nothing to
delete before 3.  Two versions of a file are the ones the scheduler compares; a third
restates the comparison.  Two commands allow restart, or start and recovery.  Deletions
are looked at with one version, which recoveries bring back, and three commands: a
start, a launch or a second start, and a recovery.  Two
threads are the threads the program has (the proof is for any number).  Three
changes with a queue of 1 or 2 allow an event that is handled, one that is merged
and one that overflows.  `MaxClock`, `MaxRows`, `MaxSaves`, `MaxCommands`,
`MaxChanges`, `MaxLinks`, `MaxWrites`, `MaxManual`, `MaxSerial`, `Tags`, `MaxEdits`,
`FewPanes`, `MaxTime`, `MaxUser`, `MaxDate`, `Grows`, `MaxPlays` and `MaxSaves` are the
only bounds; each is a constant with a comment, in a guard.

Panes: two edits are a change in the menu and what follows it (a split or a deletion,
another pane's change), starting from trees with every pane type the code treats
differently; screens or trees too small for their weights are exempt from
`PanesTile`.  Session: a clock of 4 has a second before, at and after a start, two
characters are an active one and another.  Lists: three dates among four rows give
equal dates, a row inserted in the past, and two runs with autosaves in both.
Account: two plays are a move and a second one back, into a socket or by a crafting;
three saves let both files of a move be saved and one of them again.

### Fairness

`WatchLoop`: weak fairness of the program's one thread (`Main`) and of `EndLink` (a
linker that has started finishes).  `DashboardRefresh`: weak fairness of each of the
two threads as a whole, never of one action: the operating system runs both, and
the screen's event queue hands out posted events.  Saves, quits, manual refreshes
and links are never forced.  `AppSession`: the same two threads, the watcher's backups
and the steps of `rebuild()`; the game, the clock and the user need do nothing.  The
other modules state safety only.

### Deadlock

It is checked in `BackupDb`, `BackupThreads` and `ListPanes`.  `WatchLoop` and
`DashboardRefresh` end, or wait for a change that the bounded environment has used up;
so do `AppSession`, `Account` and `DashboardPanes`, and `BackupScheduler`, which rests
when versions, commands and the clock are used up and the dashboard is not running.

### What is assumed of the environment

`AppSession`: the game saves at most one file per second and none in the second in
which a session starts (dates have seconds, and what comes first within one cannot be
told); custom starts lie in the past; the next game is launched when the last one's
saves have been backed up and read.  `Account`: the session starts with everything
saved, backed up and read, later saves have later timestamps, and saves that write
nothing new are left out.  `ListPanes`: a file is left with save-and-exit once in a
second.

## Proofs

Eight modules named `*_proofs` hold theorems that TLAPS checks for every value of the
constants: any number of files, characters, items, rows, threads and panes, any policy,
queue length and bound.  Of the 40 properties of the passing runs 35 are stated by a
theorem: every invariant, every action property and the refinement.  The other five are
liveness properties.  Each proof starts from an invariant that is strong
enough to be inductive; what it adds and why is told below the table.

| module | theorems | assumptions on constants | hypotheses |
|---|---|---|---|
| `BackupDb_proofs`, on `BackupDb` | `TypeCorrect`, `RetentionKeepsAnswers`, `RetentionTwice`, `MoreKeepsMore`, `SessionsAreWhole` | `FilesAssumption`, `DbAssumption` | none |
| `BackupDb_proofs`, on `BackupThreads` | `InvariantHolds`, `RetentionIsExact`, `NoTransactionIsLeft` | `ThreadsAssumption` | `~OldInserts`, `~OtherProcess` (not for the last) |
| `BackupScheduler_proofs` | `TypeCorrect`, `BytesKept`, `ContentKept`, `DeletionKept` | `SchedulerAssumption`, `MarksAssumption`, `NamesAssumption`, `FilesAssumption` | no deletions for `ContentKept` |
| `WatchLoop_proofs` | `TypeCorrect`, `ChangeIsPending`, `LinkIsPending`, `OnlyFirstRunEnds` | `WatcherAssumption`, `LoopAssumption` | `WatchesExe` for `LinkIsPending` |
| `DashboardRefresh_proofs` | `TypeCorrect`, `NewsIsKept` | `RefreshAssumption`, `AbsentAssumption`, `WatcherAssumption` | none |
| `AppSession_proofs` | `PromiseKept` | `AppSessionAssumption` | none |
| `Account_proofs` | `TypeCorrect`, `StartIsRebuilt`, `LootIsNew`, `LootIsComplete`, `PanesAgree`, `TotalsAddUp` | `AccountSnapshotAssumption`, `ListedAssumption`, `AccountAssumption` | `DistinctFingerprints` for `LootIsComplete` |
| `DashboardPanes_proofs` | `TypeCorrect`, `OneAtATime`, `PointersStayAlive`, `NoPaneTwice`, `NothingIsLost`, `ScreenIsCovered`, `PartsFit` | `PaneAssumption`, `LayoutAssumption` | none |
| `ListPanes_proofs` | `TypesHold`, `KeysAgree`, `RunsTakeUpAll`, `SessionsAreTiled`, `EveryItemHasARow`, `LeftGoesUp`, `GridIsComplete` | `PanesAssumption`, `TreeAssumption`, `UniquesAssumption` | none |

The assumptions say that constants have their types, that markers such as `NoData` are
no values, that the sets of files are finite where a cardinality is taken, and, in
`RefreshAssumption`, that the dashboard does not watch its executable (it never calls
`alsoWatchExecutable`).  Those of the list panes say what the code's tables and
containers give: the character names are the keys of a map and none is the stash's, a
code stands once in a section's catalogue (the tables of `dashboard_ftxui.cpp`
1315-1410), ids tell uniques apart, a unique without a base item has no tier and a class
of its own, and an item belongs to one of the containers the parser knows.  One is about
the game's files: the material tab has one slot for a code (`IsInventory`).  The code
relies on it, for its map by code drops a second one ("Further behaviours").

The hypotheses of theorems are the conditions under which the properties hold at all:

* A burst that holds a deletion and a write of the same file gets a tombstone and no
  row ("Further behaviours").  So `ContentKept` is proved where no file is deleted; all
  other environment switches may be set, a locked database and overflows among them.
  `BytesKept` and `DeletionKept` have no hypothesis: what they exempt is in the
  properties.
* `DistinctFingerprints`: what is loot is decided by quality and fingerprint, so of two
  things with one fingerprint the second is not new.
* `~OldInserts` and `~OtherProcess`: `MCBackupThreadsRowid` is the counterexample
  without the first; the second is the case `NoTransactionIsLeft` covers.

### The arguments

* *Retention* (`BackupDb`).  `TypeOK` includes that the table is finite, because ranks
  and session counts are cardinalities.  `KeptIsUpwardClosed`: what the rules keep of a
  character is upward closed by date; `SameRowAnswers`: then the row that answers a
  query is the same before and after.  That a second pass finds nothing rests on
  counting: every exit that made a row survive survives itself, so no count changes.
* *One connection* (`BackupThreads`).  `DeletesOnlyCondemned` is not inductive: a thread
  may hold a rowid that is about to be used again.  `Inv` says why that does not happen:
  a thread in its transaction owns it, rowids are unique, what is about to be deleted is
  condemned and its rowid belongs to no other row, and — the heart of it — some row that
  is not condemned has a larger rowid than everything about to be deleted, so SQLite
  never goes back.  `NoTransactionIsLeft` needs less: who is in a transaction owns it.
* *The backup service* (`BackupScheduler`).  `Base` adds to the types what versions and
  dates can be: rows are not of the future, a content with a header time is dated by
  it, no row holds a save that is still being written (`SaveKnown`), and a content
  without a header time that is in the table at all is there with a date at which the
  file had it (`Dated`), which is what makes it safe to skip an insert when the checksum
  is known.  Of a recovery under way it says that the row looked up is one of the table's
  unless retention has pruned it, and that what the snapshot kept stays there until
  something else lands on the file (`SlotKnown`, `KeptKnown`): no pass in between, of
  whichever process, deletes it inside the window.  `ContentKept` and `DeletionKept` add,
  per file, that the row is there, the event is under way, or the file is in `missed`
  (`Caught`, `Recorded`).  Each kind of step is one lemma about the table (inserts and
  passes that may fail) and one about the directory (a file that lands, `Brings`).
* *The watch loop* (`WatchLoop`).  `ChangePending` and `LinkPending` are what must be
  true at every moment for `RerunOnChange` and `HotReload` to come true under fairness:
  the change is in the kernel's queue, taken, in a returned trigger, or a run is about
  to start.  Any event counts, for an executable trigger that hides a save leads to a
  run as well, either of the new binary or of the old one after a failed `execv`.
* *The dashboard's refresh* (`DashboardRefresh`).  While a rebuild runs, a file that was
  read too early is covered by the news that is `Coming`; a file not read yet by `todo`.
  What the rebuild's own stat saw can only be older than the file, because a write
  changes the modification time (`Times`).
* *The application session* (`AppSession`).  `PromiseKept` is a refinement: `IInv` holds
  and every step of it maps to a step of `SessionPromise` or a stutter.  The invariant
  says of every place a picture may be (being built, built, on the screen) that it shows
  the files as they were at its start, that the key under which it is kept determines
  start and stash, and that what a stale parse cache misses was saved after every start
  in use (`CachedAt`).
* *The account* (`Account`).  What is in a socket is where the item around it is, files
  are what the game writes, and a character whose header is not newer than the start is
  as it was (`SinceStart`).  From that, `RewoundIs` computes the rebuilt start, and the
  panes follow by set reasoning from the definitions.  `TotalsAddUp` relates sums over
  the rows of a snapshot to sums over the items of its files: the rows of one file are
  its items under other names (`RowsAreItems`, `SumOfImage`), those of two files have
  nothing in common (`SumOfParts`), and only a slot's stack can make the two numbers of
  one item differ (`NumbersAre`).  Of the large charms the pane counts torches only, and
  so does the property; one of the things of `MCAccount` is a charm that is none.
* *Lists* (`ListPanes`).  The invariant `Inv` of the state is small: histories are in
  order of time, the items are an inventory, and what the keys set has its type
  (`Invariance`).  The work is in what the panes make of a state.  Sorting and filtering
  are choices by rank (`Ranked`), of which lemmas say that each element comes once and in
  order (`InOrderIs`, `SubsequenceIs`); of a flattened sequence, that its parts lie one
  behind the other (`PrefixesLaid`), so that a row has a place and a place a row.
  `WalkInv` is a loop invariant: after n rows the walk over a history has taken up just
  these, in runs that follow one another.  For `KeysAgree`, `CountsDoAgree` compares the
  sum of rows the keys count with the place a run is laid out at (`RunsLaid`).  For
  `EveryItemHasARow`, `RowsPlaced` is a bijection between the rows of a tree and its
  places (level, section, entry), and `CountEntriesAre` says that a counted section lists
  each item in stock once, between placeholders.  `GridLaid` does the same for families
  and columns.  `SessionsAreTiled` is a telescope: the durations of the runs that exits
  end add up to the last exit (`ClosedAddUp`), the running game takes the rest, and
  summing per character instead of per run changes nothing (`CharactersAddUp`).
* *Panes* (`DashboardPanes`).  Lemmas about join, cut, graft and relabel show that all
  operations give trees.  Between two frames keys act through the list of an older
  frame: `Pointers` says that its paths are still nodes and none lies above another, so
  that what one key cuts off is not what the next one finds; `ListIsNoLonger` (an
  injection from the list into the leaves) keeps the focus the position of a pane.
  `SingleInv` sets the pane under the menu aside.  `PartsFit` is the arithmetic of one
  split, with truncating division and its floors of one; `RoomIs` descends with it from
  the screen to the panes, and `LeavesCover` sums up the panes from below.

Induction over data is done here by hand, where a proof needs it: a least or greatest
counterexample in a finite set or among the numbers (`HasLeast`, `CountUp`,
`FromTheLeaves`, `FromTheRoot`), and for a recursive function or a fold first a proof
that something meets its recursion (`SumExists`, `ShareExists`, `ExtentExists`,
`Recursion`).  The
library's induction theorems take an operator as a parameter and cannot be cited.

### What is only model-checked

* Liveness: `RerunOnChange`, `HotReload`, `Refreshes`, `QuitEnds`, `CatchesUp`.  Fairness
  and `ENABLED` are outside the prover; the safety halves of the first three are
  `ChangeIsPending`, `LinkIsPending` and `NewsIsKept`.
* That the environment of a run does what its section says: the provers take the model
  as it is.

## Further behaviours seen while modelling

These follow from the code and are left out of the runs above, or exempted where
the properties say so:

Sentences of the repository that the code does not keep (stated in the modules, checked
by no run; a reader can add the definition to the run's configuration):

* `BackupDb.RetentionKeepsStashAnswers` (`MCBackupDb`, under 0 days and 1 session):
  retention keeps an old stash row inside a character's range and drops a newer one
  outside it (`backup_db.cpp` 454), so that `at` later answers with the older bytes;
  `Recovery.hpp` 27 says "Recover the row that was current at this unix second."
* `BackupScheduler.CapturedWhileRunning`: a save between the startup snapshot
  (`dashboard_ftxui.cpp` 4115) and the creation of the watch (5482) is not backed up
  until the file changes again; `README.md` 24-25 says snapshots are captured "as files
  change when the dashboard is running".
* `BackupScheduler.RecoveryReversible`: a pre-recovery snapshot is dated by the file's
  header (`recovery.cpp` 52); when a row with that date exists, `at` never returns the
  snapshot.  `Recovery.hpp` 3-5 says "the operation is reversible via a repeat recovery."
* `WatchLoop.CtrlCExits`: `waitForChange` polls again on EINTR (`watcher_inotify.cpp`
  124) and the handler is empty; `main.cpp` 2751-2752 says SIGINT makes "the whole thing"
  exit "gracefully on Ctrl-C".
* `AppSession.BaselineForAll`: the cache key (`dashboard_ftxui.cpp` 4245) has the dates of
  the active character and the stash only; another character created during the session
  gets no baseline while the key stays the same, although the comment promises one for
  "every character we've seen a session-relevant backup for".

Backup service and watcher:

* A burst that holds a deletion, three reads of other files and no write is taken
  for a launch and dropped whole, the deletion with it (`backup_scheduler.cpp`
  280-284; `BackupScheduler.hpp` 43 promises a tombstone).  `DeletionRecorded` exempts
  it.
* A pre-recovery snapshot whose insert fails is logged and forgotten
  (`recovery.cpp` 49-54, `backup_scheduler.cpp` 226-232), and the rename at 92 then
  destroys the only copy of what was there.  So it does to a save the game makes between
  the snapshot and the rename.  `RecoveryKeepsBytes` exempts both; `Recovery.hpp` 3-5
  says that `recoverFile` "always takes a pre-recovery snapshot".
* An overflow of the inotify queue comes to the dashboard as a trigger without names,
  and the scheduler is called for names only (`watcher_inotify.cpp` 164-186,
  `dashboard_ftxui.cpp` 5497): what the lost burst reported is stored when it changes
  again, or by the next startup snapshot; a deletion never.
* A burst in which a file is deleted and written again gets a tombstone and no
  content row (290-304), until the file changes once more.
* A file read while the game writes the next save becomes a torn row (314).
* A file restored from a row outside the retention window equals the newest row and
  is not stored again, and the next pass deletes that row: the bytes are then in no
  row, although the file has just changed.  `Captured` dates a restored file by
  the row it came from.
* A restart compares with the newest row by date, so an imported older save that is
  in the table already is inserted again (217).
* Without a watch on the executable an inotify overflow is taken for an executable
  event, because both carry wd -1 and an empty name (`watcher_inotify.cpp` 169); the
  dashboard then rescans everything, which `StaleIsOnItsWay` relies on.
* No busy timeout is set: an insert that meets another process's lock is logged and
  dropped (`backup_scheduler.cpp` 226-232), and so is a tombstone (300-303), and nobody
  tries again.  `Captured` and `DeletionRecorded` exempt a file whose last insert failed.
* The pre-recovery snapshot's retention pass may delete the row that is being
  restored; it has been read by then.

Panes and lists:

* The list of leaves is that of the last frame: Split and then Tab before a frame moves
  the focus by the old list, and the next frame may put the open menu on another pane
  (`dashboard_ftxui.cpp` 4548, 5085).  Two panes may then stay with one list.
* A read of the stored layout or policy that fails, at a start while another process
  writes, is taken for nothing stored (`dashboard_config.cpp` 475-495, 697-710): the
  screen has the default layout, the policy is 30 days and 100 sessions for every pass
  of this run, and the next change the user makes stores the defaults over the old
  settings.  `SettingsSurvive` exempts a table whose last read failed.
* A layout whose top row the user has deleted is taken for one from before there was a
  top row, and gets it again at every start (`dashboard_config.cpp` 431-471).
* The chronicle's cursor keys count the uniques that pass the filter, not the rows of
  the grid: the cursor cannot reach the last rows, or runs past them (2099-2102, 5387).
* Enter on a run while another one above it is expanded moves the highlight to another
  row, because the expansion closes (5270-5303).
* Right on a cursor that lies beyond the rows jumps to the last row but one (5197-5212);
  Left during a search erases an expansion that the search only overrides, against the
  comment at 1685-1689.
* In the material tab a second stack of one code is dropped by the map by code
  (1568-1572).
* The recovery modal keeps a second, not a row: when retention deletes the row while the
  modal is open, an older row is restored (4634, 5315).
* Expansions and scroll positions are keyed by the addresses of panes, which a new pane
  may reuse (295, 306).

Session and account:

* A character restored from an old row during the session has an old header, so it is
  taken for untouched and its start is what was restored (4322-4342).
* Without a character file there is no past: everything is as at the start.
* The items of a character deleted since the start are not in the rebuilt start; what it
  had handed over before is loot.
* A section ends at its first item that does not parse (`item_parser.cpp` 310); once that
  item leaves, those behind it look new.
* Of two things of one quality and fingerprint, one there at the start, the other is never
  loot: the keys of the rebuilt start are a set (`NoMissedLoot` holds in the run because
  its things differ; `LootIsComplete` assumes it).
* The chronicle's location is set from copies a character has, sockets left out: a copy
  in the shared stash counts as owned but leaves the location empty
  (`dashboard_model.cpp` 338-348, 398-455), though `DashboardModel.hpp` 104-106 says it
  is set when a copy is "in inventory or stash".
* An empty slot of the material tab counts as one key or essence in the Uber pane
  (`dashboard_model.cpp` 250), though `DashboardModel.hpp` 191-199 describes the rule
  under which it counts as none as "used everywhere we sum ownership".
* A stash of three tabs is never shown by the dashboard: its chronicle section is
  required there (`dashboard_model.cpp` 407), although the stash parser accepts it.
* Run durations do not cover the window after the last save-and-exit unless there is an
  autosave (`dashboard_model.cpp` 1575-1577), though `DashboardModel.hpp` 613-615 and 661
  say that they tile the session from its start to its end; `SessionTiles` says what they
  do cover; the autosaves
  listed in a run in progress may be older than its start.

## Not modelled, and why

The reference database and its generator, CASC access, terror zones, the query
commands and the field tables of the parsers turn input into output and keep no
state; wording is no part of any property, and of the layout only the sizes of panes
and the order of rows.  Of the renderers, those that format one snapshot are left out.
Of the keys, text cursors in modals, scrolling of the panes without a cursor, and the
display options of single pane types.  Read errors of inotify other than EINTR, an
alternate destination of a recovery, the tombstone `takeManualSnapshot` writes when a file
vanishes between `recoverFile`'s look at it and its own, the schema migrations and the WAL
checkpoint are left out of the modules named above.  The limit of 500 rows of
`historyFor` is not reached.  Two writes within one tick of the file system's clock
with equal size are excluded: modification times have nanoseconds where the program
runs.

The modules meet at named assumptions and are not composed into one: that a change
reaches the parse cache is `DashboardRefresh`, that a file's bytes reach the table is
`BackupScheduler`, which row a query returns is `BackupRows`, when a picture is built
is `AppSession`, and what it contains is `Account`.

`PROJECT.json` maps every definition to its lines; together they are a third of the
implementation, and most of what changes state.

## Plan

1. *Done*: database and retention, scheduler and recovery, watcher, its two callers,
   connection sharing; proofs of retention.  Panes and configuration, list panes, runs,
   the application session with its refinement, the account.
2. Proofs.  *Done*: every safety property of the backup service, the watch loop, the
   refresh, the threads, the panes, the lists and runs, the session and the account.
   *Left*: liveness, which stays with TLC.
3. The edit of a save beside the game (read, modify, rename); recoveries during a
   session; the bit reader and terror zones as functions against reference definitions.
