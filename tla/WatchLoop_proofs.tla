--------------------------- MODULE WatchLoop_proofs ---------------------------
(***************************************************************************)
(* `--watch` never forgets what it is waiting for, for every set of saves, *)
(* every length of the inotify queue and every bound:                      *)
(*                                                                         *)
(*   TypeCorrect       queue, versions and program counters keep their     *)
(*                     types                                               *)
(*   ChangeIsPending   what the last run has not read will cause another   *)
(*   LinkIsPending     what the linker has replaced will be executed       *)
(*   OnlyFirstRunEnds  nothing that happens to the loop ends it            *)
(***************************************************************************)
EXTENDS WatchLoop, TLAPS

\* A run that has not read the latest change is followed by another one: it is about
\* to start, or waitForChange has returned, or has something to read.  Any event will
\* do, for a re-exec starts with a run.
ChangePending ==
    shown # disk /\ "save" \notin missed /\ mpc # "exited" =>
        \/ mpc \in {"initial", "exec", "run"}
        \/ wpc = "returned"
        \/ taken # {}
        \/ queue # <<>>

\* A process that does not run the binary on disk is about to replace itself, or the
\* event that makes it do so is on its way, or the linker is still to send one.
LinkPending ==
    running # binary /\ "exe" \notin missed /\ mpc # "exited" =>
        \/ linking
        \/ mpc = "exec"
        \/ wpc = "returned" /\ trigger.kind = "Executable"
        \/ ExeEvent \in ToSet(queue) \cup taken

-----------------------------------------------------------------------------
(***************************************************************************)
(* The inductive invariant                                                 *)
(***************************************************************************)

\* An overflow event is the last of a queue that is longer than the limit, and there
\* are no events without a watch.
Kernel ==
    /\ Len(queue) > QueueLimit => Last(queue) = Overflow
    /\ ~ Attached => queue = <<>>

\* main() is in waitForChange while it waits and nowhere else; nobody signals the
\* eventfd, so that every wait ends with a trigger.
Loop ==
    /\ ~ wake
    /\ mpc = "wait" <=> wpc # "out"
    /\ taken # {} => wpc \in {"drain", "check"}
    /\ wpc = "returned" => trigger.kind \in {"Primary", "Executable"}
    /\ linking => binary < MaxLinks

IInv == TypeOK /\ Kernel /\ Loop /\ ChangePending

-----------------------------------------------------------------------------
(***************************************************************************)
(* The inotify queue                                                       *)
(***************************************************************************)

LEMMA EventsAre ==
    /\ \A n \in SaveNames : SaveEvent(n) \in InotifyEvent
    /\ ExeEvent \in InotifyEvent /\ Overflow \in InotifyEvent
BY DEF InotifyEvent

\* A notification leaves what was in the queue, and the queue is not empty afterwards.
LEMMA QueuedIs ==
    ASSUME TypeOK, Kernel, NEW e \in InotifyEvent
    PROVE  LET q == Queued(queue, e)
           IN  /\ q \in Seq(InotifyEvent) /\ Len(q) <= QueueLimit + 1
               /\ Len(q) > QueueLimit => Last(q) = Overflow
               /\ ToSet(queue) \subseteq ToSet(q)
               /\ q # <<>>
<1> DEFINE q == Queued(queue, e)
<1>1. /\ queue \in Seq(InotifyEvent) /\ Len(queue) <= QueueLimit + 1
      /\ Len(queue) > QueueLimit => Last(queue) = Overflow
      /\ QueueLimit \in Nat \ {0}
    BY WatcherAssumption DEF TypeOK, WatcherTypeOK, Kernel
<1>2. Overflow \in InotifyEvent
    BY EventsAre
<1>3. ASSUME NEW x \in InotifyEvent, Len(queue) <= QueueLimit,
             Len(queue) < QueueLimit \/ x = Overflow
      PROVE  /\ Append(queue, x) \in Seq(InotifyEvent) /\ Len(Append(queue, x)) <= QueueLimit + 1
             /\ Len(Append(queue, x)) > QueueLimit => Last(Append(queue, x)) = Overflow
             /\ ToSet(queue) \subseteq ToSet(Append(queue, x))
             /\ Append(queue, x) # <<>>
    BY <1>1, <1>3 DEF Last, ToSet
<1>4. CASE queue # <<>> /\ Last(queue) = e
    <2>1. q = queue
        BY <1>4 DEF Queued
    <2> QED
        BY <2>1, <1>1, <1>4
<1>5. CASE ~ (queue # <<>> /\ Last(queue) = e) /\ Len(queue) < QueueLimit
    <2>1. q = Append(queue, e)
        BY <1>5 DEF Queued
    <2> QED
        BY <2>1, <1>1, <1>3, <1>5
<1>6. CASE ~ (queue # <<>> /\ Last(queue) = e) /\ ~ Len(queue) < QueueLimit /\ Last(queue) = Overflow
    <2>1. q = queue
        BY <1>6 DEF Queued
    <2>2. queue # <<>>
        BY <1>1, <1>6
    <2> QED
        BY <2>1, <2>2, <1>1, <1>6
<1>7. CASE ~ (queue # <<>> /\ Last(queue) = e) /\ ~ Len(queue) < QueueLimit /\ Last(queue) # Overflow
    <2>1. q = Append(queue, Overflow)
        BY <1>7 DEF Queued
    <2>2. Len(queue) <= QueueLimit
        BY <1>1, <1>7
    <2> QED
        BY <2>1, <2>2, <1>2, <1>3
<1> QED
    BY <1>4, <1>5, <1>6, <1>7

\* So does a notification of the loop's watch, if there is one.
LEMMA NotifyKeeps ==
    ASSUME TypeOK, Kernel, NEW e \in InotifyEvent, Notify(e), mpc' = mpc
    PROVE  /\ queue' \in Seq(InotifyEvent) /\ Len(queue') <= QueueLimit + 1
           /\ Kernel'
           /\ ToSet(queue) \subseteq ToSet(queue')
           /\ Attached => queue' # <<>> /\ queue' = Queued(queue, e)
<1>1. CASE Attached
    BY <1>1, QueuedIs DEF Notify, Kernel, Attached
<1>2. CASE ~ Attached
    BY <1>2 DEF Notify, Kernel, Attached, TypeOK, WatcherTypeOK
<1> QED
    BY <1>1, <1>2

LEMMA ClassifyIs ==
    ASSUME NEW E \in SUBSET InotifyEvent
    PROVE  /\ Classify(E) \in Trigger
           /\ Classify(E).kind \in {"Primary", "Executable"}
           /\ WatchesExe /\ ExeEvent \in E => Classify(E).kind = "Executable"
<1>1. CASE SawExe(E)
    BY <1>1 DEF Classify, Trigger
<1>2. CASE ~ SawExe(E)
    BY <1>2 DEF Classify, Trigger, SawExe
<1> QED
    BY <1>1, <1>2

-----------------------------------------------------------------------------
(***************************************************************************)
(* Each step keeps the invariant                                           *)
(***************************************************************************)

LEMMA InitInv == Init => IInv /\ LinkPending
<1> SUFFICES ASSUME Init PROVE IInv /\ LinkPending
    OBVIOUS
<1> USE DEF Init, WatcherInit
<1>1. TypeOK
    <2>1. queue \in Seq(InotifyEvent) /\ Len(queue) <= QueueLimit + 1
        BY WatcherAssumption
    <2>2. trigger \in Trigger
        BY DEF Trigger, Nullopt
    <2>3. disk \in 0..MaxChanges /\ binary \in 0..MaxLinks /\ running \in 0..MaxLinks
        BY LoopAssumption
    <2>4. shown \in -1..MaxChanges
        BY LoopAssumption
    <2> QED
        BY <2>1, <2>2, <2>3, <2>4 DEF TypeOK, WatcherTypeOK
<1> QED
    BY <1>1, WatcherAssumption DEF IInv, Kernel, Loop, ChangePending, LinkPending

LEMMA EnvironmentKeepsInv == IInv /\ Environment => IInv'
<1> SUFFICES ASSUME IInv, Environment PROVE IInv'
    OBVIOUS
<1> USE DEF IInv
<1>1. ASSUME NEW n \in SaveNames, ChangeSave(n) PROVE IInv'
    <2>1. /\ queue' \in Seq(InotifyEvent) /\ Len(queue') <= QueueLimit + 1 /\ Kernel'
          /\ Attached => queue' # <<>>
        BY <1>1, EventsAre, NotifyKeeps DEF ChangeSave
    <2>2. TypeOK'
        BY <1>1, <2>1, LoopAssumption DEF ChangeSave, Miss, TypeOK, WatcherTypeOK
    <2>3. Loop'
        BY <1>1 DEF ChangeSave, Loop
    <2>4. ChangePending'
        BY <1>1, <2>1 DEF ChangeSave, Miss, ChangePending, Attached
    <2> QED
        BY <2>1, <2>2, <2>3, <2>4
<1>2. CASE BeginLink \/ EndLink
    <2>1. /\ queue' \in Seq(InotifyEvent) /\ Len(queue') <= QueueLimit + 1 /\ Kernel'
          /\ ToSet(queue) \subseteq ToSet(queue') /\ (Attached => queue' # <<>>)
        BY <1>2, EventsAre, NotifyKeeps DEF BeginLink, EndLink
    <2>2. TypeOK'
        <3>1. binary' \in 0..MaxLinks
            BY <1>2, LoopAssumption DEF BeginLink, EndLink, TypeOK, Loop
        <3>2. missed' \subseteq {"save", "exe"} /\ linking' \in BOOLEAN
            BY <1>2 DEF BeginLink, EndLink, TypeOK
        <3> QED
            BY <1>2, <2>1, <3>1, <3>2 DEF BeginLink, EndLink, TypeOK, WatcherTypeOK
    <2>3. Loop'
        BY <1>2 DEF BeginLink, EndLink, Loop
    <2>4. ChangePending'
        BY <1>2, <2>1 DEF BeginLink, EndLink, ChangePending, Attached, Kernel
    <2> QED
        BY <2>1, <2>2, <2>3, <2>4
<1>3. CASE Interrupt
    BY <1>3 DEF Interrupt, watcherVars, TypeOK, WatcherTypeOK, Kernel, Attached, Loop,
                ChangePending
<1> QED
    BY <1>1, <1>2, <1>3 DEF Environment

LEMMA WaitKeepsInv == IInv /\ Wait => IInv'
<1> SUFFICES ASSUME IInv, Wait PROVE IInv'
    OBVIOUS
<1> USE DEF IInv
<1>0. UNCHANGED <<mpc, disk, shown, binary, linking, running, interrupted, missed>> /\ ~ wake
    BY DEF Wait, loopVars, Loop
<1>1. CASE Poll \/ Drain
    <2>1. /\ queue' = <<>> /\ taken' \subseteq InotifyEvent /\ taken' = taken \cup ToSet(queue)
          /\ UNCHANGED <<wake, trigger>>
          /\ wpc # "out" /\ wpc' \in {"drain", "check"}
        BY <1>0, <1>1 DEF Poll, Drain, TypeOK, WatcherTypeOK, ToSet, Loop
    <2>2. queue' \in Seq(InotifyEvent) /\ Len(queue') = 0
        BY <2>1
    <2>3. queue # <<>> => ToSet(queue) # {}
        <3>1. queue # <<>> => 1 \in DOMAIN queue
            BY DEF TypeOK, WatcherTypeOK
        <3> QED
            BY <3>1 DEF ToSet
    <2>4. TypeOK' /\ Kernel' /\ Loop'
        BY <1>0, <2>1, <2>2, WatcherAssumption DEF TypeOK, WatcherTypeOK, Kernel, Loop, Attached
    <2>5. ChangePending'
        BY <1>0, <1>1, <2>1, <2>3 DEF ChangePending, Poll, Drain
    <2> QED
        BY <2>4, <2>5
<1>2. CASE Check
    <2>1. /\ wpc = "check" /\ wpc' = "returned" /\ trigger' = Classify(taken) /\ taken' = {}
          /\ UNCHANGED <<queue, wake>>
        BY <1>0, <1>2 DEF Check, Return
    <2>2. trigger' \in Trigger /\ trigger'.kind \in {"Primary", "Executable"}
        BY <2>1, ClassifyIs DEF TypeOK, WatcherTypeOK
    <2> QED
        BY <1>0, <2>1, <2>2 DEF TypeOK, WatcherTypeOK, Kernel, Loop, Attached, ChangePending
<1> QED
    BY <1>1, <1>2 DEF Wait, WaitForChange

LEMMA MainKeepsInv == IInv /\ (InitialRun \/ Attach \/ OnTrigger \/ Exec \/ Rerun) => IInv'
<1> SUFFICES ASSUME IInv, InitialRun \/ Attach \/ OnTrigger \/ Exec \/ Rerun PROVE IInv'
    OBVIOUS
<1> USE DEF IInv
<1>1. CASE InitialRun
    <2>0. disk \in -1..MaxChanges
        BY LoopAssumption DEF TypeOK
    <2>1. shown' \in -1..MaxChanges /\ missed' \subseteq {"save", "exe"}
        BY <1>1, <2>0 DEF InitialRun, TypeOK
    <2>2. TypeOK'
        BY <1>1, <2>1 DEF InitialRun, watcherVars, TypeOK, WatcherTypeOK
    <2> QED
        BY <1>1, <2>2 DEF InitialRun, watcherVars, Kernel, Attached, Loop, ChangePending
<1>2. CASE Attach
    BY <1>2 DEF Attach, TypeOK, WatcherTypeOK, Kernel, Attached, Loop, ChangePending
<1>3. CASE OnTrigger
    <2>1. /\ mpc = "wait" /\ wpc' = "out" /\ mpc' \in {"exec", "run"}
          /\ UNCHANGED <<queue, taken, wake, trigger, disk, shown, binary, linking, running,
                         interrupted, missed>>
        BY <1>3 DEF OnTrigger, Loop
    <2>2. wpc = "returned"
        BY <1>3 DEF OnTrigger
    <2> QED
        BY <2>1, <2>2 DEF TypeOK, WatcherTypeOK, Kernel, Attached, Loop, ChangePending
<1>4. CASE Exec /\ linking
    BY <1>4 DEF Exec, watcherVars, TypeOK, WatcherTypeOK, Kernel, Attached, Loop, ChangePending
<1>5. CASE Exec /\ ~ linking
    <2>1. queue' \in Seq(InotifyEvent) /\ Len(queue') = 0 /\ trigger' \in Trigger
        BY <1>5 DEF Exec, Nullopt, Trigger
    <2> QED
        BY <1>5, <2>1, WatcherAssumption
        DEF Exec, TypeOK, WatcherTypeOK, Kernel, Attached, Loop, ChangePending
<1>6. CASE Rerun
    BY <1>6 DEF Rerun, TypeOK, WatcherTypeOK, Kernel, Attached, Loop, ChangePending
<1> QED
    BY <1>1, <1>2, <1>3, <1>4, <1>5, <1>6

LEMMA NextKeepsInv == IInv /\ [Next]_vars => IInv'
<1> SUFFICES ASSUME IInv, [Next]_vars PROVE IInv'
    OBVIOUS
<1>1. CASE UNCHANGED vars
    BY <1>1 DEF vars, watcherVars, loopVars, IInv, TypeOK, WatcherTypeOK, Kernel, Attached, Loop,
                ChangePending
<1> QED
    BY <1>1, EnvironmentKeepsInv, WaitKeepsInv, MainKeepsInv DEF Next, Main

LEMMA InvHolds == Spec => []IInv
BY InitInv, NextKeepsInv, PTL DEF Spec

-----------------------------------------------------------------------------
(***************************************************************************)
(* The link                                                                *)
(***************************************************************************)

LEMMA LinkKept ==
    ASSUME WatchesExe, IInv, LinkPending, [Next]_vars
    PROVE  LinkPending'
<1> USE DEF IInv
<1>1. ASSUME NEW n \in SaveNames, ChangeSave(n) PROVE LinkPending'
    <2>1. ToSet(queue) \subseteq ToSet(queue')
        BY <1>1, EventsAre, NotifyKeeps DEF ChangeSave
    <2> QED
        BY <1>1, <2>1 DEF ChangeSave, Miss, LinkPending
<1>2. CASE BeginLink
    BY <1>2 DEF BeginLink, LinkPending
<1>3. CASE EndLink
    <2>1. CASE "exe" \in missed'
        BY <2>1 DEF LinkPending
    <2>2. CASE "exe" \notin missed'
        <3>1. Attached /\ ExeEvent \in ToSet(Queued(queue, ExeEvent))
            BY <1>3, <2>2 DEF EndLink, ExeEventDropped
        <3>2. ExeEvent \in ToSet(queue')
            BY <1>3, <3>1 DEF EndLink, Notify
        <3> QED
            BY <3>2 DEF LinkPending
    <2> QED
        BY <2>1, <2>2
<1>4. CASE Interrupt
    BY <1>4 DEF Interrupt, watcherVars, LinkPending
<1>5. CASE Wait
    <2>0. UNCHANGED <<mpc, binary, linking, running, missed>> /\ ~ wake
        BY <1>5 DEF Wait, loopVars, Loop
    <2>1. CASE Poll \/ Drain
        <3>1. taken' = taken \cup ToSet(queue)
            BY <2>0, <2>1 DEF Poll, Drain, Loop
        <3>2. wpc # "returned"
            BY <2>1 DEF Poll, Drain
        <3> QED
            BY <2>0, <3>1, <3>2 DEF LinkPending
    <2>2. CASE Check
        <3>1. /\ wpc = "check" /\ wpc' = "returned" /\ trigger' = Classify(taken)
              /\ UNCHANGED queue
            BY <2>0, <2>2 DEF Check, Return
        <3>2. ExeEvent \in taken => trigger'.kind = "Executable"
            BY <3>1, ClassifyIs DEF TypeOK, WatcherTypeOK
        <3> QED
            BY <2>0, <3>1, <3>2 DEF LinkPending
    <2> QED
        BY <1>5, <2>1, <2>2 DEF Wait, WaitForChange
<1>6. CASE InitialRun
    BY <1>6 DEF InitialRun, watcherVars, LinkPending
<1>7. CASE Attach
    BY <1>7 DEF Attach, LinkPending, Loop
<1>8. CASE OnTrigger
    <2>1. trigger.kind = "Executable" => mpc' = "exec"
        BY <1>8 DEF OnTrigger
    <2> QED
        BY <1>8, <2>1 DEF OnTrigger, LinkPending
<1>9. CASE Exec
    BY <1>9 DEF Exec, watcherVars, LinkPending
<1>10. CASE Rerun
    BY <1>10 DEF Rerun, LinkPending, Loop
<1>11. CASE UNCHANGED vars
    BY <1>11 DEF vars, watcherVars, loopVars, LinkPending
<1> QED
    BY <1>1, <1>2, <1>3, <1>4, <1>5, <1>6, <1>7, <1>8, <1>9, <1>10, <1>11
    DEF Next, Main, Environment

-----------------------------------------------------------------------------
(***************************************************************************)
(* The theorems                                                            *)
(***************************************************************************)

\* Queue, versions and program counters of `--watch` keep their types: the queue never
\* holds more than the kernel's limit and one overflow event.
THEOREM TypeCorrect == Spec => []TypeOK
<1>1. IInv => TypeOK
    BY DEF IInv
<1> QED
    BY <1>1, InvHolds, PTL

\* "Re-run the command whenever a file in --path changes": at no moment is a change that
\* the last run has not read without a run to come, whatever is merged, dropped by a full
\* queue, hidden behind an executable event or left in the queue of a process that
\* replaces itself.
THEOREM ChangeIsPending == Spec => []ChangePending
<1>1. IInv => ChangePending
    BY DEF IInv
<1> QED
    BY <1>1, InvHolds, PTL

\* "Re-exec on self-rebuild", when the executable is watched: at no moment is a finished
\* link forgotten, not even when execv met the next link and failed.
THEOREM LinkIsPending == ASSUME WatchesExe PROVE Spec => []LinkPending
<1>1. IInv /\ LinkPending /\ [Next]_vars => LinkPending'
    BY LinkKept
<1> QED
    BY <1>1, InitInv, InvHolds, PTL DEF Spec

\* Only an exception of the first run ends the program: neither a trigger nor a signal
\* does once it watches.
THEOREM OnlyFirstRunEnds == Spec => [][mpc' = "exited" => mpc \in {"initial", "exited"}]_vars
<1>1. IInv /\ [Next]_vars => [mpc' = "exited" => mpc \in {"initial", "exited"}]_vars
    BY DEF IInv, Loop, Next, Main, Environment, ChangeSave, BeginLink, EndLink, Interrupt,
           InitialRun, Attach, Wait, OnTrigger, Exec, Rerun, loopVars
<1> QED
    BY <1>1, InvHolds, PTL DEF Spec
=============================================================================
