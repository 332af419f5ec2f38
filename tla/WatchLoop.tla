------------------------------ MODULE WatchLoop ------------------------------
(***************************************************************************)
(* `d2rsave --watch <command>`: run the command, watch the saves directory *)
(* and the executable, re-run on a change, re-exec on a re-link.           *)
(*                                                                         *)
(* Modelled from the end of main() in src/main.cpp.                        *)
(***************************************************************************)
EXTENDS DirectoryWatcher

CONSTANTS
    MaxChanges,   \* bound: changes of the saves directory
    MaxLinks      \* bound: times the executable is re-linked

ASSUME LoopAssumption == MaxChanges \in Nat /\ MaxLinks \in Nat

VARIABLES
    mpc,          \* where main() is
    disk,         \* version of the saves directory
    shown,        \* version the last run of the command has read
    binary,       \* version of the executable on disk
    linking,      \* the linker has unlinked the old executable, not finished the new
    running,      \* version of the executable that runs
    interrupted,  \* the user pressed Ctrl-C
    missed        \* ghost: changed between a run or an exec and the watch,
                  \* or re-linked with the queue full

loopVars == <<mpc, disk, shown, binary, linking, running, interrupted, missed>>
vars == <<watcherVars, loopVars>>

TypeOK ==
    /\ WatcherTypeOK
    /\ mpc \in {"initial", "attach", "wait", "exec", "run", "exited"}
    /\ disk \in 0..MaxChanges
    /\ shown \in -1..MaxChanges
    /\ binary \in 0..MaxLinks
    /\ linking \in BOOLEAN
    /\ running \in 0..MaxLinks
    /\ interrupted \in BOOLEAN
    /\ missed \subseteq {"save", "exe"}

Init ==
    /\ WatcherInit
    /\ mpc = "initial"
    /\ disk = 0
    /\ shown = -1
    /\ binary = 0
    /\ linking = FALSE
    /\ running = 0
    /\ interrupted = FALSE
    /\ missed = {}

-----------------------------------------------------------------------------
Attached == mpc \notin {"initial", "attach", "exited"}

Notify(e) == queue' = IF Attached THEN Queued(queue, e) ELSE queue

Miss(what) == missed' = IF Attached THEN missed ELSE missed \cup {what}

\* The kernel drops the event of a re-link when the queue is full.
ExeEventDropped == Attached /\ ExeEvent \notin ToSet(Queued(queue, ExeEvent))

ChangeSave(n) ==
    /\ disk < MaxChanges
    /\ disk' = disk + 1
    /\ Notify(SaveEvent(n))
    /\ Miss("save")
    /\ UNCHANGED <<taken, wake, wpc, trigger, mpc, shown, binary, linking, running, interrupted>>

\* ld and cmake: unlink and create, then write and close.
BeginLink ==
    /\ ~ linking
    /\ binary < MaxLinks
    /\ linking' = TRUE
    /\ Notify(ExeEvent)
    /\ UNCHANGED <<taken, wake, wpc, trigger, mpc, disk, shown, binary, running, interrupted, missed>>

EndLink ==
    /\ linking
    /\ linking' = FALSE
    /\ binary' = binary + 1
    /\ Notify(ExeEvent)
    /\ missed' = IF ~ Attached \/ ExeEventDropped THEN missed \cup {"exe"} ELSE missed
    /\ UNCHANGED <<taken, wake, wpc, trigger, mpc, disk, shown, running, interrupted>>

\* The handler is empty and waitForChange polls again on EINTR.
Interrupt ==
    /\ mpc # "exited"
    /\ interrupted' = TRUE
    /\ UNCHANGED <<watcherVars, mpc, disk, shown, binary, linking, running, missed>>

-----------------------------------------------------------------------------
\* The first run of the command, before there is a watch; an exception ends the
\* program.
InitialRun ==
    /\ mpc = "initial"
    /\ \/ /\ shown' = disk
          /\ missed' = missed \ {"save"}
          /\ mpc' = "attach"
       \/ /\ mpc' = "exited"
          /\ UNCHANGED <<shown, missed>>
    /\ UNCHANGED <<watcherVars, disk, binary, linking, running, interrupted>>

Attach ==
    /\ mpc = "attach"
    /\ mpc' = "wait"
    /\ wpc' = "poll"
    /\ UNCHANGED <<queue, taken, wake, trigger, disk, shown, binary, linking, running, interrupted, missed>>

\* Fault: the loop looks at Primary triggers only.
FaultOnTrigger ==
    /\ mpc = "wait"
    /\ wpc = "returned"
    /\ IF trigger.kind = "Executable"
       THEN wpc' = "poll" /\ mpc' = mpc
       ELSE wpc' = "out" /\ mpc' = (IF trigger.kind = "Primary" THEN "run" ELSE "exited")
    /\ UNCHANGED <<queue, taken, wake, trigger, disk, shown, binary, linking, running, interrupted, missed>>

OnTrigger ==
    /\ mpc = "wait"
    /\ wpc = "returned"
    /\ wpc' = "out"
    /\ mpc' = CASE trigger.kind = "Nullopt"    -> "exited"
                [] trigger.kind = "Executable" -> "exec"
                [] trigger.kind = "Primary"    -> "run"
    /\ UNCHANGED <<queue, taken, wake, trigger, disk, shown, binary, linking, running, interrupted, missed>>

\* execv replaces the process, and with it the watch and its queue; when the new
\* binary is not ready it returns, and the command runs again in the old one.
Exec ==
    /\ mpc = "exec"
    /\ IF linking
       THEN /\ mpc' = "run"
            /\ UNCHANGED <<watcherVars, running, missed>>
       ELSE /\ mpc' = "initial"
            /\ running' = binary
            /\ missed' = {}
            /\ queue' = <<>>
            /\ wpc' = "out"
            /\ trigger' = Nullopt
            /\ UNCHANGED <<taken, wake>>
    /\ UNCHANGED <<disk, shown, binary, linking, interrupted>>

Rerun ==
    /\ mpc = "run"
    /\ mpc' = "wait"
    /\ wpc' = "poll"
    /\ shown' = disk
    /\ missed' = missed \ {"save"}
    /\ UNCHANGED <<queue, taken, wake, trigger, disk, binary, linking, running, interrupted>>

Wait ==
    /\ WaitForChange
    /\ UNCHANGED loopVars

Main == InitialRun \/ Attach \/ Wait \/ OnTrigger \/ Exec \/ Rerun

Environment ==
    \/ \E n \in SaveNames : ChangeSave(n)
    \/ BeginLink
    \/ EndLink
    \/ Interrupt

Next == Main \/ Environment

\* The program's one thread keeps running, and a linker that started finishes.
Spec == Init /\ [][Next]_vars /\ WF_vars(Main) /\ WF_vars(EndLink)

-----------------------------------------------------------------------------
(***************************************************************************)
(* Properties                                                              *)
(***************************************************************************)

\* "Re-run the command whenever a file in --path changes" (usage text): a change
\* is followed by a run that has seen it, unless it fell between a run and the
\* creation of the watch.  Events coalesced in a debounce, dropped by a full
\* queue, or overridden by an executable event must not be lost for good.
RerunOnChange ==
    shown # disk ~> shown = disk \/ "save" \in missed \/ mpc = "exited"

\* "re-exec on self-rebuild": the program ends up running the binary that was
\* linked last, unless the link ended before the watch existed or its event was
\* dropped by a full queue.
HotReload ==
    running # binary ~> running = binary \/ "exe" \in missed \/ mpc = "exited"

\* "SIGINT interrupts the blocking read() inside the watcher so the whole thing
\* exits gracefully on Ctrl-C" (comment in main()).  It does not hold: README.md,
\* "Further behaviours".
CtrlCExits == interrupted ~> mpc = "exited"
=============================================================================
