----------------------- MODULE DashboardRefresh_proofs ------------------------
(***************************************************************************)
(* The dashboard's screen never forgets a change, for every set of saves,  *)
(* every length of the inotify queue and every bound:                      *)
(*                                                                         *)
(*   TypeCorrect   queues, caches and program counters keep their types    *)
(*   NewsIsKept    a stale file is on its way to the screen                *)
(***************************************************************************)
EXTENDS DashboardRefresh, FiniteSetTheorems, TLAPS

-----------------------------------------------------------------------------
(***************************************************************************)
(* The inductive invariant                                                 *)
(***************************************************************************)

\* An overflow event is the last of a queue that is longer than the limit.
Kernel == Len(queue) > QueueLimit => Last(queue) = Overflow

\* Which thread may be where; nobody is woken, and no wait ends without a trigger,
\* before the user quits.
Threads ==
    /\ tpc = "wait" <=> wpc # "out"
    /\ taken # {} => wpc \in {"drain", "check"}
    /\ upc \in {"scan", "watch"} <=> tpc = "off"
    /\ tpc = "done" => Quitting
    /\ wake \/ shutdown => Quitting
    /\ wpc = "returned" /\ trigger = Nullopt => Quitting
    /\ tpc \in {"handle", "push"} => trigger.kind = "Primary"
    /\ stat # NoStat => Refreshing /\ stat.name \in todo
    /\ pending # {} => Posts > 0

\* A file's modification time is the moment of its last write; a cache entry is not
\* newer than the file, and an entry with the file's time has the file's content.
Times ==
    /\ \A n \in SaveNames :
          /\ disk[n] # Absent => disk[n].ver = disk[n].mtime /\ disk[n].ver <= writes
          /\ cache[n] # Absent => cache[n].mtime <= cache[n].ver /\ cache[n].ver <= writes
          /\ disk[n] # Absent /\ cache[n] # Absent => cache[n].ver <= disk[n].ver
    /\ stat # NoStat => stat.mtime <= writes
    /\ stat # NoStat /\ disk[stat.name] # Absent => stat.mtime <= disk[stat.name].ver

\* News of n that no running rebuild will take away.
Coming(n) ==
    \/ {SaveEvent(n), Overflow} \cap (ToSet(queue) \cup taken) # {}
    \/ wpc = "returned" /\ (n \in trigger.files \/ trigger.kind = "Executable")
    \/ tpc \in {"handle", "push"} /\ n \in trigger.files
    \/ n \in pending /\ Posts > 0
    \/ ScanToCome

\* Between two rebuilds the screen shows what is in the cache.
Drawn == ~ Refreshing => \A n \in SaveNames : shown[n] = Parsed(n)

\* What a running rebuild knows of n, what it is about to read of it, and what the
\* screen shows of it otherwise, is right or will be put right.
Known(n) ==
    n \notin gap /\ ~ Quitting =>
        /\ Refreshing => n \in todo \/ Parsed(n) = VersionOf(n) \/ Coming(n)
        /\ stat.name = n /\ stat # NoStat => disk[n] # Absent \/ Coming(n)
        /\ ~ Refreshing => ~ Stale(n) \/ Coming(n)

IInv == TypeOK /\ Kernel /\ Threads /\ Times /\ Drawn /\ \A n \in SaveNames : Known(n)

-----------------------------------------------------------------------------
(***************************************************************************)
(* Rebuilds to come, and the inotify queue                                 *)
(***************************************************************************)

LEMMA PostsIs ==
    ASSUME posted \in Nat
    PROVE  Posts = IF tpc = "post" THEN posted + 1 ELSE posted
<1>1. CASE tpc = "post"
    BY <1>1 DEF Posts
<1>2. CASE tpc # "post"
    BY <1>2 DEF Posts
<1> QED
    BY <1>1, <1>2

LEMMA PostsWillBe ==
    ASSUME posted' \in Nat
    PROVE  Posts' = IF tpc' = "post" THEN posted' + 1 ELSE posted'
<1>1. CASE tpc' = "post"
    <2>1. Posts' = posted' + 1
        BY <1>1 DEF Posts
    <2> QED
        BY <1>1, <2>1
<1>2. CASE tpc' # "post"
    <2>1. (IF tpc' = "post" THEN 1 ELSE 0) = 0
        BY <1>2
    <2>2. Posts' = posted' + 0
        BY <2>1 DEF Posts
    <2>3. \A k \in Nat : k + 0 = k
        OBVIOUS
    <2> QED
        BY <1>2, <2>2, <2>3
<1> QED
    BY <1>1, <1>2

LEMMA EventsDiffer ==
    /\ \A n \in SaveNames : SaveEvent(n) \in InotifyEvent /\ SaveEvent(n) # Overflow
    /\ Overflow \in InotifyEvent
    /\ \A m, n \in SaveNames : SaveEvent(m) = SaveEvent(n) => m = n
BY DEF SaveEvent, Overflow, InotifyEvent

\* A notification is in the queue afterwards, or an overflow is, and nothing that was
\* in the queue has left it.
LEMMA QueuedIs ==
    ASSUME TypeOK, Kernel, NEW n \in SaveNames
    PROVE  LET q == Queued(queue, SaveEvent(n))
           IN  /\ q \in Seq(InotifyEvent) /\ Len(q) <= QueueLimit + 1
               /\ Len(q) > QueueLimit => Last(q) = Overflow
               /\ ToSet(queue) \subseteq ToSet(q)
               /\ {SaveEvent(n), Overflow} \cap ToSet(q) # {}
<1> DEFINE e == SaveEvent(n)
           q == Queued(queue, e)
<1>1. /\ queue \in Seq(InotifyEvent) /\ Len(queue) <= QueueLimit + 1
      /\ Len(queue) > QueueLimit => Last(queue) = Overflow
      /\ QueueLimit \in Nat \ {0}
    BY WatcherAssumption DEF TypeOK, WatcherTypeOK, Kernel
<1>2. e \in InotifyEvent /\ Overflow \in InotifyEvent
    BY EventsDiffer
<1>3. queue # <<>> => Last(queue) \in ToSet(queue)
    BY <1>1 DEF Last, ToSet
<1> HIDE DEF e
<1>4. ASSUME NEW x \in InotifyEvent, Len(queue) <= QueueLimit,
             Len(queue) < QueueLimit \/ x = Overflow
      PROVE  /\ Append(queue, x) \in Seq(InotifyEvent) /\ Len(Append(queue, x)) <= QueueLimit + 1
             /\ Len(Append(queue, x)) > QueueLimit => Last(Append(queue, x)) = Overflow
             /\ ToSet(queue) \subseteq ToSet(Append(queue, x))
             /\ x \in ToSet(Append(queue, x))
    BY <1>1, <1>4 DEF Last, ToSet
<1>5. CASE queue # <<>> /\ Last(queue) = e
    <2>1. q = queue
        BY <1>5 DEF Queued
    <2> QED
        BY <2>1, <1>1, <1>3, <1>5 DEF e
<1>6. CASE ~ (queue # <<>> /\ Last(queue) = e) /\ Len(queue) < QueueLimit
    <2>1. q = Append(queue, e)
        BY <1>6 DEF Queued
    <2> QED
        BY <2>1, <1>1, <1>2, <1>4, <1>6 DEF e
<1>7. CASE ~ (queue # <<>> /\ Last(queue) = e) /\ ~ Len(queue) < QueueLimit /\ Last(queue) = Overflow
    <2>1. q = queue
        BY <1>7 DEF Queued
    <2>2. queue # <<>>
        BY <1>1, <1>7
    <2> QED
        BY <2>1, <2>2, <1>1, <1>3, <1>7 DEF e
<1>8. CASE ~ (queue # <<>> /\ Last(queue) = e) /\ ~ Len(queue) < QueueLimit /\ Last(queue) # Overflow
    <2>1. q = Append(queue, Overflow)
        BY <1>8 DEF Queued
    <2>2. Len(queue) <= QueueLimit
        BY <1>1, <1>8
    <2> QED
        BY <2>1, <2>2, <1>2, <1>4 DEF e
<1> QED
    BY <1>5, <1>6, <1>7, <1>8

-----------------------------------------------------------------------------
(***************************************************************************)
(* Changes of the saves directory                                          *)
(***************************************************************************)

LEMMA InitInv == Init => IInv
<1> SUFFICES ASSUME Init PROVE IInv
    OBVIOUS
<1> USE DEF Init, WatcherInit
<1>1. TypeOK
    <2>1. queue \in Seq(InotifyEvent) /\ Len(queue) <= QueueLimit + 1
        BY WatcherAssumption
    <2>2. trigger \in Trigger
        BY DEF Trigger, Nullopt
    <2>3. WatcherTypeOK
        BY <2>1, <2>2 DEF WatcherTypeOK
    <2>4. /\ disk \in [SaveNames -> FileState \cup {Absent}]
          /\ shown \in [SaveNames -> 1..MaxWrites \cup {Absent}]
        OBVIOUS
    <2>5. writes \in 0..MaxWrites /\ manual \in 0..MaxManual
        BY RefreshAssumption
    <2> QED
        BY <2>3, <2>4, <2>5 DEF TypeOK
<1>2. Kernel
    BY WatcherAssumption DEF Kernel
<1>3. Threads
    BY DEF Threads, Quitting, Nullopt
<1>4. Times
    BY DEF Times
<1>5. Drawn /\ \A n \in SaveNames : Known(n)
    BY DEF Drawn, Known, Refreshing
<1> QED
    BY <1>1, <1>2, <1>3, <1>4, <1>5 DEF IInv

\* A write or a deletion of n: the new state of the file is the newest of all.
LEMMA DirectoryKeepsInv ==
    ASSUME IInv, NEW n \in SaveNames, Write(n) \/ Delete(n)
    PROVE  IInv'
<1> USE DEF IInv
<1>1. writes' \in 0..MaxWrites /\ writes' = writes + 1
    BY RefreshAssumption DEF Write, Delete, TypeOK
<1>0. PICK v \in FileState \cup {Absent} :
          /\ v # Absent => v.ver = writes' /\ v.mtime = writes'
          /\ disk' = [disk EXCEPT ![n] = v]
    <2>1. CASE Write(n)
        <3>1. writes' \in 1..MaxWrites
            BY <2>1, <1>1, RefreshAssumption DEF Write, TypeOK
        <3>2. [ver |-> writes', mtime |-> writes'] \in FileState
            BY <3>1 DEF FileState
        <3>3. disk' = [disk EXCEPT ![n] = [ver |-> writes', mtime |-> writes']]
            BY <2>1 DEF Write
        <3> QED
            BY <3>2, <3>3
    <2>2. CASE Delete(n)
        <3>1. disk' = [disk EXCEPT ![n] = Absent]
            BY <2>2 DEF Delete
        <3> QED
            BY <3>1
    <2> QED
        BY <2>1, <2>2
<1>2. /\ Notify(n)
      /\ UNCHANGED <<taken, wake, wpc, trigger, cache, shown, threadVars>>
    BY DEF Write, Delete
<1>3. \A m \in SaveNames : disk'[m] = IF m = n THEN v ELSE disk[m]
    BY <1>0 DEF TypeOK
<1>4. /\ queue' \in Seq(InotifyEvent) /\ Len(queue') <= QueueLimit + 1
      /\ Len(queue') > QueueLimit => Last(queue') = Overflow
      /\ ToSet(queue) \subseteq ToSet(queue')
    BY <1>2, QueuedIs DEF Notify, TypeOK, WatcherTypeOK, Kernel
<1>5. Watched => {SaveEvent(n), Overflow} \cap ToSet(queue') # {}
    BY <1>2, QueuedIs DEF Notify
<1>6. TypeOK'
    BY <1>0, <1>1, <1>2, <1>4 DEF TypeOK, WatcherTypeOK, Notify, threadVars
<1>7. Kernel'
    BY <1>4 DEF Kernel
<1>8. Threads'
    BY <1>2 DEF Threads, Quitting, Refreshing, Posts, threadVars
<1>9. Times'
    <2>1. \A m \in SaveNames : cache[m] # Absent =>
              cache[m].ver \in 1..MaxWrites /\ cache[m].mtime \in 1..MaxWrites
        BY DEF TypeOK, FileState
    <2>2. \A m \in SaveNames : disk[m] # Absent => disk[m].ver \in 1..MaxWrites
        BY DEF TypeOK, FileState
    <2>3. stat # NoStat => stat.mtime \in 1..MaxWrites /\ stat.name \in SaveNames
        BY DEF TypeOK
    <2>4. writes \in Nat /\ writes' = writes + 1
        BY <1>1 DEF TypeOK
    <2> QED
        BY <1>0, <1>1, <1>2, <1>3, <2>1, <2>2, <2>3, <2>4 DEF Times, threadVars
<1>11. Drawn'
    BY <1>2 DEF Drawn, Refreshing, Parsed, threadVars
<1>10. ASSUME NEW m \in SaveNames PROVE Known(m)'
    <2>1. Coming(m) => Coming(m)'
        BY <1>2, <1>4 DEF Coming, ScanToCome, Posts, threadVars
    <2>2. CASE m = n /\ Watched
        <3>1. Coming(n)'
            BY <1>5, <2>2, <1>2 DEF Coming
        <3> QED
            BY <2>2, <3>1 DEF Known
    <2>3. CASE m = n /\ ~ Watched
        <3>1. upc \in {"scan", "watch"}
            BY <2>3 DEF Threads, Watched
        <3>2. CASE Started
            <4>1. n \in gap'
                BY <1>2, <2>3, <3>2 DEF Notify
            <4> QED
                BY <4>1, <2>3 DEF Known
        <3>3. CASE ~ Started
            <4>1. upc = "scan" /\ todo = SaveNames /\ stat = NoStat
                BY <3>3 DEF Started
            <4> QED
                BY <4>1, <1>2, <2>3 DEF Known, Refreshing, threadVars
        <3> QED
            BY <3>2, <3>3
    <2>4. CASE m # n
        <3>1. disk'[m] = disk[m] /\ (m \in gap' <=> m \in gap)
            BY <1>2, <1>3, <2>4 DEF Notify
        <3>2. Known(m)
            OBVIOUS
        <3> QED
            BY <3>1, <3>2, <1>2, <2>1
            DEF Known, Quitting, Refreshing, Parsed, VersionOf, Stale, threadVars
    <2> QED
        BY <2>2, <2>3, <2>4
<1> QED
    BY <1>6, <1>7, <1>8, <1>9, <1>10, <1>11

-----------------------------------------------------------------------------
(***************************************************************************)
(* The watcher thread                                                      *)
(***************************************************************************)

\* A step of the watcher thread leaves the disk, the cache and the screen alone: it
\* is enough that it hands on what it has.
LEMMA WatcherKeepsInv ==
    ASSUME IInv, TypeOK', Kernel', Threads',
           UNCHANGED <<disk, writes, cache, shown, upc, todo, stat, gap>>,
           \A n \in SaveNames : ~ Quitting /\ Coming(n) => Coming(n)'
    PROVE  IInv'
<1>1. Times' /\ Drawn'
    BY DEF IInv, Times, Drawn, Refreshing, Parsed
<1>2. ASSUME NEW n \in SaveNames PROVE Known(n)'
    <2>1. Known(n)
        BY DEF IInv
    <2> QED
        BY <2>1 DEF Known, Quitting, Refreshing, Parsed, VersionOf, Stale
<1> QED
    BY <1>1, <1>2 DEF IInv

\* Without a watch on the executable an overflow is taken for a change of it, and
\* everything else is in the list of names.
LEMMA ClassifyIs ==
    ASSUME NEW E \in SUBSET InotifyEvent
    PROVE  /\ Classify(E) \in Trigger /\ Classify(E) # Nullopt
           /\ \A n \in SaveNames : {SaveEvent(n), Overflow} \cap E # {} =>
                 n \in Classify(E).files \/ Classify(E).kind = "Executable"
<1>1. SawExe(E) <=> Overflow \in E
    BY RefreshAssumption DEF SawExe
<1>2. CASE SawExe(E)
    BY <1>2 DEF Classify, Trigger, Nullopt
<1>3. CASE ~ SawExe(E)
    BY <1>1, <1>3 DEF Classify, Trigger, Nullopt
<1> QED
    BY <1>2, <1>3

LEMMA WaitKeepsInv == IInv /\ Wait => IInv'
<1> SUFFICES ASSUME IInv, Wait PROVE IInv'
    OBVIOUS
<1> USE DEF IInv
<1>0. UNCHANGED refreshVars
    BY DEF Wait
<1> USE <1>0 DEF refreshVars, threadVars
<1>1. CASE Poll /\ wake
    <2>1. wpc' = "returned" /\ trigger' = Nullopt /\ UNCHANGED <<queue, taken, wake>>
        BY <1>1 DEF Poll, Return
    <2>2. wpc = "poll" /\ tpc = "wait" /\ Quitting
        BY <1>1 DEF Poll, Threads
    <2>3. TypeOK' /\ Kernel'
        BY <2>1 DEF TypeOK, WatcherTypeOK, Kernel, Trigger, Nullopt
    <2>4. Threads'
        BY <2>1, <2>2 DEF Threads, Quitting, Refreshing, Posts
    <2> QED
        BY <2>2, <2>3, <2>4, WatcherKeepsInv
<1>2. CASE Poll /\ ~ wake
    <2>1. /\ taken' = ToSet(queue) /\ queue' = <<>> /\ wpc' = "drain" /\ wpc = "poll"
          /\ UNCHANGED <<wake, trigger>>
        BY <1>2 DEF Poll
    <2>2. ToSet(queue) \subseteq InotifyEvent
        BY DEF TypeOK, WatcherTypeOK, ToSet
    <2>3. TypeOK' /\ Kernel'
        <3>1. queue' \in Seq(InotifyEvent) /\ Len(queue') = 0
            BY <2>1
        <3> QED
            BY <2>1, <2>2, <3>1, WatcherAssumption DEF TypeOK, WatcherTypeOK, Kernel
    <2>4. Threads'
        BY <2>1 DEF Threads, Quitting, Refreshing, Posts
    <2> QED
        BY <2>1, <2>3, <2>4, WatcherKeepsInv DEF Coming, ScanToCome, Posts, Threads
<1>3. CASE Drain
    <2>1. /\ taken' = taken \cup ToSet(queue) /\ queue' = <<>> /\ wpc' = "check" /\ wpc = "drain"
          /\ UNCHANGED <<wake, trigger>>
        BY <1>3 DEF Drain
    <2>2. ToSet(queue) \subseteq InotifyEvent
        BY DEF TypeOK, WatcherTypeOK, ToSet
    <2>3. TypeOK' /\ Kernel'
        <3>1. queue' \in Seq(InotifyEvent) /\ Len(queue') = 0
            BY <2>1
        <3> QED
            BY <2>1, <2>2, <3>1, WatcherAssumption DEF TypeOK, WatcherTypeOK, Kernel
    <2>4. Threads'
        BY <2>1 DEF Threads, Quitting, Refreshing, Posts
    <2> QED
        BY <2>1, <2>3, <2>4, WatcherKeepsInv DEF Coming, ScanToCome, Posts
<1>4. CASE Check
    <2>1. /\ wpc = "check" /\ wpc' = "returned" /\ taken' = {}
          /\ trigger' = IF wake THEN Nullopt ELSE Classify(taken)
          /\ UNCHANGED <<queue, wake>>
        BY <1>4 DEF Check, Return
    <2>2. taken \in SUBSET InotifyEvent
        BY DEF TypeOK, WatcherTypeOK
    <2>3. trigger' \in Trigger /\ (trigger' = Nullopt => wake)
        <3>1. Nullopt \in Trigger
            BY DEF Nullopt, Trigger
        <3> QED
            BY <2>1, <2>2, <3>1, ClassifyIs
    <2>4. TypeOK' /\ Kernel'
        BY <2>1, <2>3 DEF TypeOK, WatcherTypeOK, Kernel
    <2>5. Threads'
        BY <2>1, <2>3 DEF Threads, Quitting, Refreshing, Posts
    <2>6. ASSUME NEW n \in SaveNames, ~ Quitting, Coming(n) PROVE Coming(n)'
        <3>1. ~ wake
            BY <2>6 DEF Threads
        <3>2. {SaveEvent(n), Overflow} \cap taken # {} =>
                  n \in trigger'.files \/ trigger'.kind = "Executable"
            BY <2>1, <2>2, <3>1, ClassifyIs
        <3> QED
            BY <2>1, <2>6, <3>2 DEF Coming, ScanToCome, Posts, Threads
    <2> QED
        BY <2>4, <2>5, <2>6, WatcherKeepsInv
<1> QED
    BY <1>1, <1>2, <1>3, <1>4 DEF Wait, WaitForChange

LEMMA LoopKeepsInv == IInv /\ (TakeTrigger \/ Handle \/ Push \/ Post) => IInv'
<1> SUFFICES ASSUME IInv, TakeTrigger \/ Handle \/ Push \/ Post PROVE IInv'
    OBVIOUS
<1> USE DEF IInv
<1>1. CASE TakeTrigger
    <2>1. TypeOK' /\ Kernel'
        BY <1>1 DEF TakeTrigger, TypeOK, WatcherTypeOK, Kernel
    <2>2. trigger = Nullopt \/ trigger.kind \in {"Primary", "Executable"} \/ trigger.kind = "Nullopt"
        BY DEF TypeOK, WatcherTypeOK, Trigger
    <2>3. Threads'
        BY <1>1 DEF TakeTrigger, Threads, Quitting, Refreshing, Posts, TypeOK
    <2>4. ASSUME NEW n \in SaveNames, ~ Quitting, Coming(n) PROVE Coming(n)'
        <3>1. trigger # Nullopt /\ ~ shutdown /\ wpc = "returned" /\ tpc = "wait"
            BY <1>1, <2>4 DEF TakeTrigger, Threads
        <3>2. CASE trigger.kind = "Primary"
            BY <1>1, <2>4, <3>1, <3>2 DEF TakeTrigger, Coming, ScanToCome, Posts
        <3>3. CASE trigger.kind # "Primary"
            <4>1. tpc' = "post" /\ Posts' = posted + 1 /\ Posts = posted /\ posted \in Nat
                BY <1>1, <3>1, <3>3 DEF TakeTrigger, Posts, TypeOK
            <4>2. ScanToCome'
                BY <1>1, <4>1 DEF TakeTrigger, ScanToCome, Threads
            <4> QED
                BY <4>2 DEF Coming
        <3> QED
            BY <3>2, <3>3
    <2> QED
        BY <1>1, <2>1, <2>3, <2>4, WatcherKeepsInv DEF TakeTrigger
<1>2. CASE Handle
    <2>1. posted' \in Nat /\ posted' >= posted /\ posted \in Nat
        <3>1. IsFiniteSet(trigger.files)
            BY RefreshAssumption, FS_Subset DEF TypeOK, WatcherTypeOK, Trigger
        <3>2. Cardinality(trigger.files) \in Nat
            BY <3>1, FS_CardinalityType
        <3> QED
            BY <1>2, <3>2 DEF Handle, TypeOK
    <2>2. TypeOK' /\ Kernel'
        BY <1>2, <2>1 DEF Handle, TypeOK, WatcherTypeOK, watcherVars, Kernel
    <2>00. tpc = "handle" /\ tpc' = "push"
        BY <1>2 DEF Handle
    <2>0. Posts = posted /\ Posts' = posted'
        BY <2>00, <2>1, PostsIs, PostsWillBe
    <2>3. Threads'
        BY <1>2, <2>00, <2>0, <2>1 DEF Handle, Threads, Quitting, Refreshing, watcherVars
    <2>4. ASSUME NEW n \in SaveNames, Coming(n) PROVE Coming(n)'
        BY <1>2, <2>00, <2>0, <2>1, <2>4 DEF Handle, Coming, ScanToCome, watcherVars
    <2> QED
        BY <1>2, <2>2, <2>3, <2>4, WatcherKeepsInv DEF Handle
<1>3. CASE Push
    <2>1. TypeOK' /\ Kernel'
        BY <1>3 DEF Push, TypeOK, WatcherTypeOK, watcherVars, Kernel, Trigger
    <2>2. posted \in Nat /\ Posts' = posted + 1 /\ Posts = posted
        BY <1>3 DEF Push, Posts, TypeOK
    <2>0. /\ tpc = "push" /\ tpc' = "post" /\ wpc = "out"
          /\ pending' = pending \cup trigger.files
        BY <1>3 DEF Push, Threads
    <2>3. Threads'
        BY <1>3, <2>0, <2>2 DEF Push, Threads, Quitting, Refreshing, Started, watcherVars
    <2>4. ASSUME NEW n \in SaveNames, Coming(n) PROVE Coming(n)'
        BY <1>3, <2>0, <2>2, <2>4 DEF Push, Coming, ScanToCome, watcherVars
    <2> QED
        BY <1>3, <2>1, <2>3, <2>4, WatcherKeepsInv DEF Push
<1>4. CASE Post
    <2>1. posted \in Nat /\ posted' = posted + 1 /\ Posts' = Posts
        BY <1>4 DEF Post, Posts, TypeOK
    <2>2. TypeOK' /\ Kernel'
        BY <1>4, <2>1 DEF Post, TypeOK, WatcherTypeOK, Kernel
    <2>0. /\ tpc = "post" /\ wpc = "out"
          /\ (tpc' = "done" /\ wpc' = "out" /\ shutdown) \/ (tpc' = "wait" /\ wpc' = "poll")
        BY <1>4 DEF Post, Threads
    <2>3. Threads'
        BY <1>4, <2>0, <2>1 DEF Post, Threads, Quitting, Refreshing
    <2>4. ASSUME NEW n \in SaveNames, Coming(n) PROVE Coming(n)'
        BY <1>4, <2>0, <2>1, <2>4 DEF Post, Coming, ScanToCome
    <2> QED
        BY <1>4, <2>2, <2>3, <2>4, WatcherKeepsInv DEF Post
<1> QED
    BY <1>1, <1>2, <1>3, <1>4

-----------------------------------------------------------------------------
(***************************************************************************)
(* The UI thread                                                           *)
(***************************************************************************)

\* A rebuild takes the names that are pending, or every name; if it leaves news behind
\* that only a scan would find, a scan is still to come.
LEMMA RebuildKeepsInv == IInv /\ (OnCustom \/ Manual) => IInv'
<1> SUFFICES ASSUME IInv, OnCustom \/ Manual PROVE IInv'
    OBVIOUS
<1> USE DEF IInv
<1>0. /\ upc = "idle" /\ upc' = "refresh" /\ pending' = {}
      /\ todo' = IF pending = {} THEN SaveNames ELSE pending
      /\ UNCHANGED <<watcherVars, disk, writes, cache, shown, tpc, stat, shutdown, gap>>
    BY DEF OnCustom, Manual, Rebuild
<1>1. posted \in Nat /\ posted' \in Nat /\ (posted' = posted \/ posted' = posted - 1)
    BY DEF OnCustom, Manual, TypeOK
<1>2. stat = NoStat /\ ~ Quitting
    BY <1>0 DEF Threads, Refreshing, Quitting
<1>3. TypeOK'
    <2>1. manual' \in 0..MaxManual
        BY RefreshAssumption DEF OnCustom, Manual, TypeOK
    <2>2. todo' \subseteq SaveNames
        BY <1>0 DEF TypeOK
    <2> QED
        BY <1>0, <1>1, <2>1, <2>2 DEF TypeOK, WatcherTypeOK, watcherVars
<1>4. Kernel' /\ Times' /\ Drawn'
    BY <1>0 DEF Kernel, Times, Drawn, Refreshing, watcherVars
<1>5. Threads'
    BY <1>0, <1>2 DEF Threads, Quitting, Refreshing, watcherVars
<1>6. ASSUME NEW n \in SaveNames, Coming(n) PROVE n \in todo' \/ Coming(n)'
    <2>1. CASE ScanToCome
        <3>1. CASE pending = {}
            BY <1>0, <3>1
        <3>2. CASE pending # {}
            <4>1. Posts > 1
                BY <2>1, <3>2 DEF ScanToCome
            <4>3. Posts' > 0
                BY <1>0, <1>1, <4>1, PostsIs, PostsWillBe
            <4>2. ScanToCome'
                BY <1>0, <4>3 DEF ScanToCome
            <4> QED
                BY <4>2 DEF Coming
        <3> QED
            BY <3>1, <3>2
    <2>2. CASE n \in pending
        BY <1>0, <2>2
    <2> QED
        BY <1>0, <1>6, <2>1, <2>2 DEF Coming, watcherVars
<1>7. ASSUME NEW n \in SaveNames PROVE Known(n)'
    <2>1. Known(n)
        OBVIOUS
    <2>2. shown[n] = Parsed(n)
        BY <1>0 DEF Drawn, Refreshing
    <2> QED
        BY <1>0, <1>2, <1>6, <2>1, <2>2
        DEF Known, Refreshing, Quitting, Stale, Parsed, VersionOf
<1> QED
    BY <1>3, <1>4, <1>5, <1>7

LEMMA QuitKeepsInv == IInv /\ (Quit \/ WakeWatcher \/ Join) => IInv'
<1> SUFFICES ASSUME IInv, Quit \/ WakeWatcher \/ Join PROVE IInv'
    OBVIOUS
<1> USE DEF IInv
<1>1. /\ upc \notin {"scan", "refresh", "watch"} /\ Quitting'
      /\ upc' \in {"stop", "join", "exited"}
      /\ UNCHANGED <<queue, taken, wpc, trigger, disk, writes, cache, shown, pending, posted,
                     tpc, todo, stat, manual, gap>>
    BY DEF Quit, WakeWatcher, Join, Quitting, watcherVars
<1>2. TypeOK'
    BY <1>1 DEF Quit, WakeWatcher, Join, TypeOK, WatcherTypeOK, watcherVars
<1>3. Kernel' /\ Times' /\ Drawn'
    BY <1>1 DEF Kernel, Times, Drawn, Refreshing, Parsed
<1>4. Threads'
    BY <1>1 DEF Threads, Refreshing, Posts
<1>5. \A n \in SaveNames : Known(n)'
    BY <1>1 DEF Known
<1> QED
    BY <1>2, <1>3, <1>4, <1>5

LEMMA StartWatcherKeepsInv == IInv /\ StartWatcher => IInv'
<1> SUFFICES ASSUME IInv, StartWatcher PROVE IInv'
    OBVIOUS
<1> USE DEF IInv, StartWatcher
<1>1. TypeOK' /\ Kernel' /\ Times' /\ Drawn'
    BY DEF TypeOK, WatcherTypeOK, Kernel, Times, Drawn, Refreshing, Parsed
<1>2. tpc = "off" /\ posted' = posted /\ posted \in Nat
    BY DEF Threads, TypeOK
<1>3. Threads'
    BY <1>2, PostsIs, PostsWillBe DEF Threads, Quitting, Refreshing
<1>4. ASSUME NEW n \in SaveNames PROVE Known(n)'
    <2>1. Posts' = Posts
        BY <1>2, PostsIs, PostsWillBe
    <2>2. Coming(n) => Coming(n)'
        BY <1>2, <2>1 DEF Coming, ScanToCome, Threads
    <2>3. Known(n)
        OBVIOUS
    <2> QED
        BY <2>2, <2>3 DEF Known, Quitting, Refreshing, Stale, VersionOf
<1> QED
    BY <1>1, <1>3, <1>4

LEMMA PublishKeepsInv == IInv /\ Publish => IInv'
<1> SUFFICES ASSUME IInv, Publish PROVE IInv'
    OBVIOUS
<1> USE DEF IInv, Publish
<1>1. \A n \in SaveNames : Parsed(n) \in 1..MaxWrites \cup {Absent}
    BY DEF Parsed, TypeOK, FileState
<1>2. TypeOK'
    BY <1>1 DEF TypeOK, WatcherTypeOK, watcherVars
<1>3. Kernel' /\ Times' /\ Drawn'
    BY DEF Kernel, Times, Drawn, Parsed, watcherVars
<1>4. Threads'
    BY DEF Threads, Quitting, Refreshing, Posts, watcherVars
<1>5. ASSUME NEW n \in SaveNames PROVE Known(n)'
    <2>1. shown'[n] = Parsed(n)
        OBVIOUS
    <2>2. n \notin gap => Parsed(n) = VersionOf(n) \/ Coming(n)
        BY DEF Known, Refreshing, Quitting
    <2>3. Coming(n) => Coming(n)'
        BY DEF Coming, ScanToCome, Posts, watcherVars
    <2> QED
        BY <2>1, <2>2, <2>3 DEF Known, Refreshing, Stale, VersionOf
<1> QED
    BY <1>2, <1>3, <1>4, <1>5

\* A file that is not read again is in the cache as it is on disk.
LEMMA StatFileKeepsInv == \A n \in SaveNames : IInv /\ StatFile(n) => IInv'
<1> SUFFICES ASSUME NEW n \in SaveNames, IInv, StatFile(n) PROVE IInv'
    OBVIOUS
<1> USE DEF IInv
<1>0. /\ Refreshing /\ Refreshing' /\ stat = NoStat /\ n \in todo /\ gap' = gap \ {n}
      /\ UNCHANGED <<watcherVars, disk, writes, shown, pending, posted, tpc, upc, manual,
                     shutdown>>
    BY DEF StatFile, Refreshing
<1>1. CASE disk[n] = Absent
    <2>1. cache' = [cache EXCEPT ![n] = Absent] /\ todo' = todo \ {n} /\ stat' = stat
        BY <1>1 DEF StatFile
    <2>2. \A m \in SaveNames : cache'[m] = IF m = n THEN Absent ELSE cache[m]
        BY <2>1 DEF TypeOK
    <2>3. TypeOK'
        BY <1>0, <2>1 DEF TypeOK, WatcherTypeOK, watcherVars
    <2>4. Kernel' /\ Times' /\ Drawn'
        BY <1>0, <2>1, <2>2 DEF Kernel, Times, Drawn, watcherVars
    <2>5. Threads'
        BY <1>0, <2>1 DEF Threads, Quitting, Posts, watcherVars
    <2>6. ASSUME NEW m \in SaveNames PROVE Known(m)'
        <3>1. Coming(m) => Coming(m)'
            BY <1>0 DEF Coming, ScanToCome, Posts, watcherVars
        <3>2. CASE m = n
            BY <1>0, <1>1, <2>1, <2>2, <3>2 DEF Known, Parsed, VersionOf
        <3>3. CASE m # n
            BY <1>0, <2>1, <2>2, <3>1, <3>3 DEF Known, Parsed, VersionOf, Quitting
        <3> QED
            BY <3>2, <3>3
    <2> QED
        BY <2>3, <2>4, <2>5, <2>6
<1>2. CASE disk[n] # Absent /\ cache[n] # Absent /\ cache[n].mtime = disk[n].mtime
    <2>1. cache' = cache /\ todo' = todo \ {n} /\ stat' = stat
        BY <1>2 DEF StatFile
    <2>2. Parsed(n) = VersionOf(n)
        <3>1. /\ disk[n].ver \in Nat /\ disk[n].mtime \in Nat
              /\ cache[n].ver \in Nat /\ cache[n].mtime \in Nat
            BY <1>2 DEF TypeOK, FileState
        <3>2. cache[n].ver = disk[n].ver
            BY <1>2, <3>1 DEF Times
        <3> QED
            BY <1>2, <3>2 DEF Parsed, VersionOf
    <2>3. TypeOK'
        BY <1>0, <2>1 DEF TypeOK, WatcherTypeOK, watcherVars
    <2>4. Kernel' /\ Times' /\ Drawn'
        BY <1>0, <2>1 DEF Kernel, Times, Drawn, watcherVars
    <2>5. Threads'
        BY <1>0, <2>1 DEF Threads, Quitting, Posts, watcherVars
    <2>6. ASSUME NEW m \in SaveNames PROVE Known(m)'
        <3>1. Coming(m) => Coming(m)'
            BY <1>0 DEF Coming, ScanToCome, Posts, watcherVars
        <3> QED
            BY <1>0, <2>1, <2>2, <3>1 DEF Known, Parsed, VersionOf, Quitting
    <2> QED
        BY <2>3, <2>4, <2>5, <2>6
<1>3. CASE disk[n] # Absent /\ ~ (cache[n] # Absent /\ cache[n].mtime = disk[n].mtime)
    <2>1. cache' = cache /\ todo' = todo /\ stat' = [name |-> n, mtime |-> disk[n].mtime]
        BY <1>3 DEF StatFile
    <2>2. disk[n].mtime \in 1..MaxWrites /\ disk[n].mtime = disk[n].ver /\ disk[n].ver <= writes
        BY <1>3 DEF TypeOK, FileState, Times
    <2>3. TypeOK'
        BY <1>0, <2>1, <2>2 DEF TypeOK, WatcherTypeOK, watcherVars
    <2>4. Kernel' /\ Times' /\ Drawn'
        BY <1>0, <2>1, <2>2 DEF Kernel, Times, Drawn, watcherVars
    <2>5. Threads'
        BY <1>0, <2>1 DEF Threads, Quitting, Posts, watcherVars
    <2>6. ASSUME NEW m \in SaveNames PROVE Known(m)'
        <3>1. Coming(m) => Coming(m)'
            BY <1>0 DEF Coming, ScanToCome, Posts, watcherVars
        <3> QED
            BY <1>0, <1>3, <2>1, <3>1 DEF Known, Parsed, VersionOf, Quitting
    <2> QED
        BY <2>3, <2>4, <2>5, <2>6
<1> QED
    BY <1>1, <1>2, <1>3

\* The bytes that are read are the file's; a file that has gone since its stat left
\* an event when it went.
LEMMA ReadFileKeepsInv == IInv /\ ReadFile => IInv'
<1> SUFFICES ASSUME IInv, ReadFile PROVE IInv'
    OBVIOUS
<1> USE DEF IInv
<1> DEFINE n == stat.name
<1>0. /\ stat # NoStat /\ stat' = NoStat /\ todo' = todo \ {n}
      /\ UNCHANGED <<watcherVars, disk, writes, shown, pending, posted, tpc, upc, manual,
                     shutdown, gap>>
    BY DEF ReadFile
<1>1. n \in SaveNames /\ stat.mtime \in 1..MaxWrites /\ Refreshing /\ Refreshing' /\ ~ Quitting
    BY <1>0 DEF TypeOK, Threads, Refreshing, Quitting
<1>2. PICK v \in FileState \cup {Absent} :
          /\ cache' = [cache EXCEPT ![n] = v]
          /\ disk[n] = Absent => v = cache[n]
          /\ disk[n] # Absent => v # Absent /\ v.ver = disk[n].ver /\ v.mtime = stat.mtime
    <2>1. CASE disk[n] = Absent
        <3>1. cache' = [cache EXCEPT ![n] = cache[n]]
            BY <1>1, <2>1 DEF ReadFile, TypeOK
        <3> QED
            BY <1>1, <2>1, <3>1 DEF TypeOK
    <2>2. CASE disk[n] # Absent
        <3> DEFINE w == [ver |-> disk[n].ver, mtime |-> stat.mtime]
        <3>1. w \in FileState
            BY <1>1, <2>2 DEF TypeOK, FileState
        <3>2. cache' = [cache EXCEPT ![n] = w]
            BY <2>2 DEF ReadFile
        <3>3. w # Absent /\ w.ver = disk[n].ver /\ w.mtime = stat.mtime
            BY <3>1, AbsentAssumption
        <3> HIDE DEF w
        <3> QED
            BY <2>2, <3>1, <3>2, <3>3
    <2> QED
        BY <2>1, <2>2
<1>3. \A m \in SaveNames : cache'[m] = IF m = n THEN v ELSE cache[m]
    BY <1>2 DEF TypeOK
<1> HIDE DEF n
<1>4. TypeOK'
    BY <1>0, <1>1, <1>2 DEF TypeOK, WatcherTypeOK, watcherVars
<1>5. Kernel' /\ Drawn'
    BY <1>0, <1>1 DEF Kernel, Drawn, watcherVars
<1>6. Times'
    <2>1. disk[n] # Absent => stat.mtime <= disk[n].ver
        BY <1>0 DEF Times, n
    <2>2. /\ disk[n] # Absent => disk[n].ver \in 1..MaxWrites
          /\ disk[n] # Absent => disk[n].ver <= writes
        BY <1>1 DEF Times, TypeOK, FileState
    <2>3. ASSUME NEW m \in SaveNames
          PROVE  /\ cache'[m] # Absent => cache'[m].mtime <= cache'[m].ver /\ cache'[m].ver <= writes
                 /\ disk[m] # Absent /\ cache'[m] # Absent => cache'[m].ver <= disk[m].ver
        <3>1. CASE m = n /\ disk[n] # Absent
            BY <1>1, <1>2, <1>3, <2>1, <2>2, <3>1
        <3>2. CASE ~ (m = n /\ disk[n] # Absent)
            BY <1>1, <1>2, <1>3, <3>2 DEF Times
        <3> QED
            BY <3>1, <3>2
    <2> QED
        BY <1>0, <2>3 DEF Times
<1>7. Threads'
    BY <1>0, <1>1 DEF Threads, Quitting, Posts, watcherVars
<1>8. ASSUME NEW m \in SaveNames PROVE Known(m)'
    <2>1. Coming(m) => Coming(m)'
        BY <1>0 DEF Coming, ScanToCome, Posts, watcherVars
    <2>2. CASE m = n /\ disk[n] = Absent
        <3>1. m \notin gap => Coming(m)
            BY <1>0, <1>1, <2>2 DEF Known, n
        <3> QED
            BY <1>0, <1>1, <2>1, <2>2, <3>1 DEF Known
    <2>3. CASE m = n /\ disk[n] # Absent
        <3>1. Parsed(m)' = VersionOf(m)'
            BY <1>0, <1>1, <1>2, <1>3, <2>3 DEF Parsed, VersionOf
        <3> QED
            BY <1>0, <1>1, <2>3, <3>1 DEF Known
    <2>4. CASE m # n
        BY <1>0, <1>1, <1>3, <2>1, <2>4 DEF Known, Parsed, VersionOf, Quitting
    <2> QED
        BY <2>2, <2>3, <2>4
<1> QED
    BY <1>4, <1>5, <1>6, <1>7, <1>8

-----------------------------------------------------------------------------
(***************************************************************************)
(* The theorems                                                            *)
(***************************************************************************)

LEMMA StutterKeepsInv == IInv /\ UNCHANGED vars => IInv'
<1> SUFFICES ASSUME IInv, UNCHANGED vars PROVE IInv'
    OBVIOUS
<1> USE DEF IInv, vars, refreshVars, threadVars, watcherVars
<1>1. TypeOK' /\ Kernel' /\ Threads' /\ Times' /\ Drawn'
    BY DEF TypeOK, WatcherTypeOK, Kernel, Threads, Quitting, Refreshing, Posts, Times, Drawn,
           Parsed
<1>2. ASSUME NEW n \in SaveNames PROVE Known(n)'
    BY DEF Known, Quitting, Refreshing, Parsed, VersionOf, Stale, Coming, ScanToCome, Posts
<1> QED
    BY <1>1, <1>2

LEMMA NextKeepsInv == IInv /\ [Next]_vars => IInv'
BY DirectoryKeepsInv, WaitKeepsInv, LoopKeepsInv, RebuildKeepsInv, QuitKeepsInv,
   StartWatcherKeepsInv, PublishKeepsInv, StatFileKeepsInv, ReadFileKeepsInv, StutterKeepsInv
   DEF Next, WatcherThread, UiThread, Environment

LEMMA InvHolds == Spec => []IInv
BY InitInv, NextKeepsInv, PTL DEF Spec

\* Every queue, cache and program counter of the two threads keeps its type: the
\* number of posted events does not fall below zero, and the inotify queue never holds
\* more than the kernel's limit and one overflow event.
THEOREM TypeCorrect == Spec => []TypeOK
<1>1. IInv => TypeOK
    BY DEF IInv
<1> QED
    BY <1>1, InvHolds, PTL

\* No change of a save is forgotten between the kernel and the screen, whatever is
\* merged, dropped by a full queue, drained by an earlier rebuild or read while it
\* changes again.
THEOREM NewsIsKept == Spec => []StaleIsOnItsWay
<1>1. IInv => StaleIsOnItsWay
    BY DEF IInv, Known, StaleIsOnItsWay, OnItsWay, Coming, Refreshing
<1> QED
    BY <1>1, InvHolds, PTL
=============================================================================
