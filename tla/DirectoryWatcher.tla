-------------------------- MODULE DirectoryWatcher --------------------------
(***************************************************************************)
(* DirectoryWatcher::waitForChange over an inotify queue: poll, read,      *)
(* debounce and drain, check for shutdown, classify.  The thread that      *)
(* calls it belongs to a module that extends this one: `d2rsave --watch`   *)
(* (WatchLoop) or the dashboard's watcher thread (DashboardRefresh).       *)
(*                                                                         *)
(* Event masks are left out (BackupScheduler has them): what counts here   *)
(* is which watch an event came from and which file it names.              *)
(*                                                                         *)
(* Modelled from src/watcher_inotify.cpp and include/d2r/Watcher.hpp.      *)
(***************************************************************************)
EXTENDS Integers, Sequences, SequencesExt

CONSTANTS
    SaveNames,   \* basenames in the watched saves directory
    Exe,         \* basename of the running executable
    WatchesExe,  \* alsoWatchExecutable succeeded
    QueueLimit   \* fs.inotify.max_queued_events

ASSUME WatcherAssumption ==
    /\ Exe \notin SaveNames
    /\ WatchesExe \in BOOLEAN
    /\ QueueLimit \in Nat \ {0}

SaveEvent(n) == [wd |-> "primary", name |-> n]
ExeEvent     == [wd |-> "exe", name |-> Exe]
Overflow     == [wd |-> "none", name |-> ""]   \* IN_Q_OVERFLOW: wd -1, no name
InotifyEvent == {SaveEvent(n) : n \in SaveNames} \cup {ExeEvent, Overflow}

\* std::optional<Trigger>.  An Executable trigger carries no files.
Nullopt == [kind |-> "Nullopt", files |-> {}]
Trigger == [kind: {"Nullopt", "Primary", "Executable"}, files: SUBSET SaveNames]

VARIABLES
    queue,   \* the inotify queue
    taken,   \* events waitForChange has read and not yet classified
    wake,    \* the shutdown eventfd is signalled
    wpc,     \* where the caller is in waitForChange
    trigger  \* what waitForChange returned last

watcherVars == <<queue, taken, wake, wpc, trigger>>

WatcherTypeOK ==
    /\ queue \in Seq(InotifyEvent)
    /\ Len(queue) <= QueueLimit + 1
    /\ taken \subseteq InotifyEvent
    /\ wake \in BOOLEAN
    /\ wpc \in {"out", "poll", "drain", "check", "returned"}
    /\ trigger \in Trigger

WatcherInit ==
    /\ queue = <<>>
    /\ taken = {}
    /\ wake = FALSE
    /\ wpc = "out"
    /\ trigger = Nullopt

-----------------------------------------------------------------------------
\* Faults: overflow no longer taken for the executable; primary events winning
\* over the executable; names not checked for the watch they belong to.
FaultSawExe(events) == WatchesExe /\ ExeEvent \in events

FaultClassify(events) ==
    LET files == {n \in SaveNames : SaveEvent(n) \in events}
    IN  IF files = {} THEN [kind |-> "Executable", files |-> {}]
                      ELSE [kind |-> "Primary", files |-> files]

FaultAnyName(events) ==
    IF ExeEvent \in events
    THEN [kind |-> "Executable", files |-> {}]
    ELSE [kind |-> "Primary", files |-> {e.name : e \in events}]

\* The kernel's side: an event equal to the last one queued is merged with it,
\* and a full queue takes one overflow event and nothing more.
Queued(q, e) ==
    IF q # <<>> /\ Last(q) = e THEN q
    ELSE IF Len(q) < QueueLimit THEN Append(q, e)
    ELSE IF Last(q) = Overflow THEN q
    ELSE Append(q, Overflow)

\* "Executable wins when both fire in the same window."  Without a watch on the
\* executable exeWd_ is -1 and exeBasename_ empty, which is what an overflow
\* event carries.
SawExe(events) == (IF WatchesExe THEN ExeEvent ELSE Overflow) \in events

Classify(events) ==
    IF SawExe(events)
    THEN [kind |-> "Executable", files |-> {}]
    ELSE [kind |-> "Primary", files |-> {n \in SaveNames : SaveEvent(n) \in events}]

-----------------------------------------------------------------------------
Return(t) ==
    /\ wpc' = "returned"
    /\ trigger' = t

\* poll() returns and the first read() empties the queue; shutdown is looked at
\* first.  A signal makes poll() fail with EINTR, and the loop polls again.
Poll ==
    /\ wpc = "poll"
    /\ \/ /\ wake
          /\ Return(Nullopt)
          /\ UNCHANGED <<queue, taken, wake>>
       \/ /\ ~ wake
          /\ queue # <<>>
          /\ taken' = ToSet(queue)
          /\ queue' = <<>>
          /\ wpc' = "drain"
          /\ UNCHANGED <<wake, trigger>>

\* After the debounce: read until EAGAIN.
Drain ==
    /\ wpc = "drain"
    /\ taken' = taken \cup ToSet(queue)
    /\ queue' = <<>>
    /\ wpc' = "check"
    /\ UNCHANGED <<wake, trigger>>

\* "Also check the shutdown fd once more": a shutdown during the debounce drops
\* the events already read.
Check ==
    /\ wpc = "check"
    /\ Return(IF wake THEN Nullopt ELSE Classify(taken))
    /\ taken' = {}
    /\ UNCHANGED <<queue, wake>>

WaitForChange == Poll \/ Drain \/ Check
=============================================================================
