-------------------------- MODULE DashboardRefresh ---------------------------
(***************************************************************************)
(* How a change in the saves directory reaches the dashboard's screen: the *)
(* watcher thread, the list of pending names, the screen's event queue,    *)
(* and rebuild() on the UI thread over the per-file parse cache.           *)
(*                                                                         *)
(* Modelled from src/dashboard_ftxui.cpp (runDashboard, rebuild, the       *)
(* watcher thread) and src/dashboard_model.cpp (the parse cache).          *)
(***************************************************************************)
EXTENDS DirectoryWatcher, FiniteSets

CONSTANTS
    Absent,       \* no file, or no cache entry
    MaxWrites,    \* bound: changes of the saves directory
    MaxManual     \* bound: manual refreshes ([r], and after a recovery)

\* The dashboard does not call alsoWatchExecutable.
ASSUME RefreshAssumption ==
    /\ IsFiniteSet(SaveNames)
    /\ ~ WatchesExe
    /\ MaxWrites \in Nat
    /\ MaxManual \in Nat

VARIABLES
    disk,      \* saves directory: [ver, mtime] of each file, or Absent
    writes,    \* number of changes so far
    cache,     \* DashboardFileCache: [ver, mtime] of each parsed file, or Absent
    shown,     \* ui.snapshot: version of each file on the screen, or Absent
    pending,   \* ui.pendingChangedFiles
    posted,    \* Event::Custom events in the screen's queue
    tpc,       \* where the watcher thread is
    upc,       \* where the UI thread is
    todo,      \* files rebuild() has still to look at
    stat,      \* mtime the refresh of one file has read, before its bytes
    manual,    \* number of manual refreshes
    shutdown,  \* ui.shutdown
    gap        \* ghost: files that changed between the first scan and the watch

threadVars == <<pending, posted, tpc, upc, todo, stat, manual, shutdown>>
refreshVars == <<disk, writes, cache, shown, threadVars, gap>>
vars == <<watcherVars, refreshVars>>

NoStat == [name |-> "", mtime |-> 0]
FileState == [ver: 1..MaxWrites, mtime: 1..MaxWrites]

ASSUME AbsentAssumption == Absent \notin FileState \cup 1..MaxWrites

TypeOK ==
    /\ WatcherTypeOK
    /\ disk \in [SaveNames -> FileState \cup {Absent}]
    /\ writes \in 0..MaxWrites
    /\ cache \in [SaveNames -> FileState \cup {Absent}]
    /\ shown \in [SaveNames -> 1..MaxWrites \cup {Absent}]
    /\ pending \subseteq SaveNames
    /\ posted \in Nat
    /\ tpc \in {"off", "wait", "handle", "push", "post", "done"}
    /\ upc \in {"scan", "watch", "idle", "refresh", "publish", "stop", "join", "exited"}
    /\ todo \subseteq SaveNames
    /\ stat \in {NoStat} \cup [name: SaveNames, mtime: 1..MaxWrites]
    /\ manual \in 0..MaxManual
    /\ shutdown \in BOOLEAN
    /\ gap \subseteq SaveNames

\* The first scan of the directory fills the cache before the watch exists.
Init ==
    /\ WatcherInit
    /\ disk = [n \in SaveNames |-> Absent]
    /\ writes = 0
    /\ cache = disk
    /\ shown = disk
    /\ pending = {}
    /\ posted = 0
    /\ tpc = "off"
    /\ upc = "scan"
    /\ todo = SaveNames
    /\ stat = NoStat
    /\ manual = 0
    /\ shutdown = FALSE
    /\ gap = {}

-----------------------------------------------------------------------------
(***************************************************************************)
(* The saves directory                                                     *)
(***************************************************************************)

Started == upc # "scan" \/ todo # SaveNames \/ stat # NoStat
Watched == tpc # "off"

Notify(n) ==
    /\ queue' = IF Watched THEN Queued(queue, SaveEvent(n)) ELSE queue
    /\ gap' = IF Watched \/ ~ Started THEN gap ELSE gap \cup {n}

\* Every write leaves another modification time (nanoseconds on the file
\* systems the program runs on).
Write(n) ==
    /\ writes < MaxWrites
    /\ writes' = writes + 1
    /\ disk' = [disk EXCEPT ![n] = [ver |-> writes', mtime |-> writes']]
    /\ Notify(n)
    /\ UNCHANGED <<taken, wake, wpc, trigger, cache, shown, threadVars>>

Delete(n) ==
    /\ writes < MaxWrites
    /\ disk[n] # Absent
    /\ writes' = writes + 1
    /\ disk' = [disk EXCEPT ![n] = Absent]
    /\ Notify(n)
    /\ UNCHANGED <<taken, wake, wpc, trigger, cache, shown, threadVars>>

-----------------------------------------------------------------------------
(***************************************************************************)
(* The watcher thread                                                      *)
(***************************************************************************)

\* while (!shutdown) { waitForChange; if (!trig) break; if (shutdown) break; ... }
TakeTrigger ==
    /\ tpc = "wait"
    /\ wpc = "returned"
    /\ wpc' = "out"
    /\ tpc' = IF trigger = Nullopt \/ shutdown THEN "done"
              ELSE IF trigger.kind = "Primary" THEN "handle" ELSE "post"
    /\ UNCHANGED <<queue, taken, wake, trigger, disk, writes, cache, shown, pending,
                   posted, upc, todo, stat, manual, shutdown, gap>>

\* handleWatcherEvents; its callback posts an event per row it inserts, ahead of
\* the names.
Handle ==
    /\ tpc = "handle"
    /\ tpc' = "push"
    /\ posted' \in posted..(posted + Cardinality(trigger.files))
    /\ UNCHANGED <<watcherVars, disk, writes, cache, shown, pending, upc, todo, stat,
                   manual, shutdown, gap>>

Push ==
    /\ tpc = "push"
    /\ tpc' = "post"
    /\ pending' = pending \cup trigger.files
    /\ UNCHANGED <<watcherVars, disk, writes, cache, shown, posted, upc, todo, stat,
                   manual, shutdown, gap>>

\* postRebuild, then around the loop.
Post ==
    /\ tpc = "post"
    /\ posted' = posted + 1
    /\ IF shutdown THEN tpc' = "done" /\ wpc' = wpc
                   ELSE tpc' = "wait" /\ wpc' = "poll"
    /\ UNCHANGED <<queue, taken, wake, trigger, disk, writes, cache, shown, pending, upc,
                   todo, stat, manual, shutdown, gap>>

Wait ==
    /\ WaitForChange
    /\ UNCHANGED refreshVars

WatcherThread == TakeTrigger \/ Handle \/ Push \/ Post \/ Wait

-----------------------------------------------------------------------------
(***************************************************************************)
(* The UI thread                                                           *)
(***************************************************************************)

\* rebuild() drains the pending names; no names means a scan of the directory.
Rebuild ==
    /\ upc' = "refresh"
    /\ todo' = IF pending = {} THEN SaveNames ELSE pending
    /\ pending' = {}

\* Fault: any event of the screen taken for a Custom one.
FaultOnCustom ==
    /\ upc = "idle"
    /\ posted' = posted - 1
    /\ Rebuild
    /\ UNCHANGED <<watcherVars, disk, writes, cache, shown, tpc, stat, manual, shutdown, gap>>

\* The screen's event queue hands a Custom event to the CatchEvent handler.
OnCustom ==
    /\ upc = "idle"
    /\ posted > 0
    /\ posted' = posted - 1
    /\ Rebuild
    /\ UNCHANGED <<watcherVars, disk, writes, cache, shown, tpc, stat, manual, shutdown, gap>>

Manual ==
    /\ upc = "idle"
    /\ manual < MaxManual
    /\ manual' = manual + 1
    /\ Rebuild
    /\ UNCHANGED <<watcherVars, disk, writes, cache, shown, posted, tpc, stat, shutdown, gap>>

Refreshing == upc \in {"scan", "refresh"}

\* Fault: a file that is gone keeps its entry.
FaultStatFile(n) ==
    /\ Refreshing
    /\ stat = NoStat
    /\ n \in todo
    /\ IF disk[n] = Absent \/ (cache[n] # Absent /\ cache[n].mtime = disk[n].mtime)
       THEN /\ todo' = todo \ {n}
            /\ stat' = stat
       ELSE /\ todo' = todo
            /\ stat' = [name |-> n, mtime |-> disk[n].mtime]
    /\ gap' = gap \ {n}
    /\ UNCHANGED <<watcherVars, disk, writes, cache, shown, pending, posted, tpc, upc, manual,
                   shutdown>>

\* refreshD2sIfNeeded, refreshD2iIfNeeded: a file that is gone loses its entry,
\* one with the cached mtime and size is left alone ...
StatFile(n) ==
    /\ Refreshing
    /\ stat = NoStat
    /\ n \in todo
    /\ IF disk[n] = Absent
       THEN /\ cache' = [cache EXCEPT ![n] = Absent]
            /\ todo' = todo \ {n}
            /\ stat' = stat
       ELSE IF cache[n] # Absent /\ cache[n].mtime = disk[n].mtime
       THEN /\ cache' = cache
            /\ todo' = todo \ {n}
            /\ stat' = stat
       ELSE /\ cache' = cache
            /\ todo' = todo
            /\ stat' = [name |-> n, mtime |-> disk[n].mtime]
    /\ gap' = gap \ {n}
    /\ UNCHANGED <<watcherVars, disk, writes, shown, pending, posted, tpc, upc, manual,
                   shutdown>>

\* ... and any other is read and parsed under the mtime seen before the read.  A
\* read or parse that fails keeps the previous entry.
ReadFile ==
    /\ stat # NoStat
    /\ LET n == stat.name
       IN  /\ cache' = IF disk[n] = Absent
                       THEN cache
                       ELSE [cache EXCEPT ![n] = [ver |-> disk[n].ver, mtime |-> stat.mtime]]
           /\ todo' = todo \ {n}
    /\ stat' = NoStat
    /\ UNCHANGED <<watcherVars, disk, writes, shown, pending, posted, tpc, upc, manual,
                   shutdown, gap>>

Parsed(n) == IF cache[n] = Absent THEN Absent ELSE cache[n].ver

\* aggregateDashboardSnapshot, and the new snapshot under the mutex.
Publish ==
    /\ Refreshing
    /\ todo = {}
    /\ stat = NoStat
    /\ shown' = [n \in SaveNames |-> Parsed(n)]
    /\ upc' = IF upc = "scan" THEN "watch" ELSE "idle"
    /\ UNCHANGED <<watcherVars, disk, writes, cache, pending, posted, tpc, todo, stat, manual,
                   shutdown, gap>>

\* The watcher is created, and its thread started, right before the event loop.
StartWatcher ==
    /\ upc = "watch"
    /\ upc' = "idle"
    /\ tpc' = "wait"
    /\ wpc' = "poll"
    /\ UNCHANGED <<queue, taken, wake, trigger, disk, writes, cache, shown, pending, posted,
                   todo, stat, manual, shutdown, gap>>

\* The user quits: shutdown flag, eventfd, join.
Quit ==
    /\ upc = "idle"
    /\ upc' = "stop"
    /\ shutdown' = TRUE
    /\ UNCHANGED <<watcherVars, disk, writes, cache, shown, pending, posted, tpc, todo, stat,
                   manual, gap>>

\* Fault: the flag is set, the eventfd is not written.
FaultWakeWatcher ==
    /\ upc = "stop"
    /\ upc' = "join"
    /\ UNCHANGED <<watcherVars, disk, writes, cache, shown, pending, posted, tpc, todo, stat,
                   manual, shutdown, gap>>

WakeWatcher ==
    /\ upc = "stop"
    /\ upc' = "join"
    /\ wake' = TRUE
    /\ UNCHANGED <<queue, taken, wpc, trigger, disk, writes, cache, shown, pending, posted, tpc,
                   todo, stat, manual, shutdown, gap>>

Join ==
    /\ upc = "join"
    /\ tpc = "done"
    /\ upc' = "exited"
    /\ UNCHANGED <<watcherVars, disk, writes, cache, shown, pending, posted, tpc, todo, stat,
                   manual, shutdown, gap>>

UiThread ==
    \/ OnCustom
    \/ \E n \in SaveNames : StatFile(n)
    \/ ReadFile \/ Publish \/ StartWatcher \/ WakeWatcher \/ Join

Environment ==
    \/ \E n \in SaveNames : Write(n) \/ Delete(n)
    \/ Manual
    \/ Quit

Next == WatcherThread \/ UiThread \/ Environment

\* Both threads keep running.  The screen's events are a queue, so that a posted
\* event is not overtaken for ever.
Spec ==
    /\ Init
    /\ [][Next]_vars
    /\ WF_vars(WatcherThread)
    /\ WF_vars(UiThread)

-----------------------------------------------------------------------------
(***************************************************************************)
(* Properties                                                              *)
(***************************************************************************)

VersionOf(n) == IF disk[n] = Absent THEN Absent ELSE disk[n].ver
Stale(n) == shown[n] # VersionOf(n)
Quitting == upc \in {"stop", "join", "exited"}

\* Rebuilds to come, and whether one of them will find no names pending and scan
\* the directory: a burst posts its event after it pushes its names.
Posts == posted + (IF tpc = "post" THEN 1 ELSE 0)
ScanToCome == Posts > (IF pending = {} THEN 0 ELSE 1)

\* Somebody still has it to do: an event of n, or an overflow, which stands for
\* any file, is queued or read; the trigger is on its way to the list of names; a
\* rebuild to come will look at n; or the running one has yet to look at n or to
\* publish what it saw.
OnItsWay(n) ==
    \/ {SaveEvent(n), Overflow} \cap (ToSet(queue) \cup taken) # {}
    \/ wpc = "returned" /\ (n \in trigger.files \/ trigger.kind = "Executable")
    \/ tpc \in {"handle", "push"} /\ n \in trigger.files
    \/ n \in pending /\ Posts > 0
    \/ ScanToCome
    \/ Refreshing /\ (n \in todo \/ Parsed(n) = VersionOf(n))

\* No change is forgotten: whenever the screen shows an old version of a file,
\* some queue between the kernel and the screen still holds the news, whatever
\* is coalesced, dropped by a full queue, or drained by an earlier rebuild.
StaleIsOnItsWay ==
    \A n \in SaveNames :
        Watched /\ ~ Quitting /\ Stale(n) /\ n \notin gap => OnItsWay(n)

\* "watches the save directory while D2R is running and refreshes automatically
\* as the game writes new save state" (README.md): a stale screen is brought up
\* to date, unless the file changed between the first scan and the watch.
Refreshes ==
    \A n \in SaveNames : Stale(n) ~> ~ Stale(n) \/ Quitting \/ n \in gap

\* Quitting ends: the watcher thread is joined whatever it was doing.
QuitEnds == Quitting ~> upc = "exited"
=============================================================================
