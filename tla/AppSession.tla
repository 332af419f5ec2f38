----------------------------- MODULE AppSession ------------------------------
(***************************************************************************)
(* The application session: the window [start, end] that is automatic or   *)
(* set by the user, and the picture of the account at its start that the   *)
(* session panes subtract from the present.  Two threads take part.  The   *)
(* watcher thread backs files up, moves the automatic start when the game  *)
(* is launched, and posts an event for either; the UI thread rebuilds in   *)
(* steps, and takes the mutex anew for the window, for the run statistics  *)
(* and for publishing.                                                     *)
(*                                                                         *)
(* A character's version is the timestamp in its header, the second it was *)
(* saved at; 0 (Never) is no file, no row, no baseline.  The stash has no  *)
(* timestamp: its version is the date of its backup.  That a change reaches*)
(* the parse cache is the subject of DashboardRefresh; here a rebuild sees *)
(* the files as they are.                                                  *)
(*                                                                         *)
(* Modelled from src/dashboard_ftxui.cpp, src/dashboard_model.cpp and      *)
(* include/d2r/DashboardModel.hpp.                                         *)
(***************************************************************************)
EXTENDS Integers, FiniteSets

CONSTANTS
    Chars,    \* character files; one existed before the dashboard started
    Stash,    \* the shared stash
    MaxTime,  \* bound on the clock
    MaxUser   \* bound on what the user types

ASSUME AppSessionAssumption ==
    /\ Stash \notin Chars
    /\ MaxTime \in Nat /\ MaxUser \in Nat

Never == 0
Unset == -1   \* an empty optional
Nothing == [start |-> Unset]  \* a null pointer
Files == Chars \cup {Stash}
BootTime == 2

VARIABLES
    now,
    file,     \* what is in the saves directory
    saves,    \* ghost: every version the game wrote
    rows,     \* dates in the backup database
    pending,  \* files changed since the watcher thread last backed up
    posted,   \* an Event::Custom waits
    app,      \* ui.appSession
    pc,       \* where the UI thread is in rebuild()
    cache,    \* ui.fileCache
    window,   \* what buildSession read under the mutex
    built,    \* what it returned
    session,  \* ui.session
    key,      \* ui.sessionCacheKey
    stats,    \* the window of ui.sessionRunStats
    used      \* what the user typed

vars == <<now, file, saves, rows, pending, posted, app, pc, cache, window, built,
          session, key, stats, used>>
world == <<now, file, saves, rows, pending>>
shown == <<session, stats>>

-----------------------------------------------------------------------------
(***************************************************************************)
(* struct AppSession                                                       *)
(***************************************************************************)

StartEpoch(a) == IF a.customStart # Unset THEN a.customStart ELSE a.autoStart
EndEpoch(a) == IF a.customEnd # Unset THEN a.customEnd ELSE a.autoEnd
ClearCustom(a) == [a EXCEPT !.customStart = Unset, !.customEnd = Unset]
SetCustomStart(a, t) == [a EXCEPT !.customStart = t]
SetCustomEnd(a, t) == [a EXCEPT !.customEnd = IF a.customStart # Unset THEN t ELSE Unset]

WindowOf(a) ==
    [start |-> StartEpoch(a), startCustom |-> a.customStart # Unset,
     end |-> IF EndEpoch(a) < StartEpoch(a) THEN StartEpoch(a) ELSE EndEpoch(a),
     endCustom |-> a.customEnd # Unset]

-----------------------------------------------------------------------------
(***************************************************************************)
(* Looking into the past                                                   *)
(***************************************************************************)

Newest(dates) == IF dates = {} THEN Never ELSE CHOOSE d \in dates : \A e \in dates : e <= d
OldestOf(dates) == IF dates = {} THEN Never ELSE CHOOSE d \in dates : \A e \in dates : d <= e

\* BackupDb::at, as the date of the row it finds.
VersionAt(dates, t) == Newest({d \in dates : d <= t})
OldestBackupSince(f, t) == OldestOf({d \in rows[f] : d >= t})

FirstOf(a, b) == IF a # Never THEN a ELSE b

\* The character saved last; Never if there is none.
ActivePlayer(c) ==
    IF \A f \in Chars : c[f] = Never THEN Never
    ELSE CHOOSE f \in Chars : \A g \in Chars : c[g] <= c[f]

CharacterDate(w) == VersionAt(rows[ActivePlayer(cache)], w.start)
StashDate(w) ==
    FirstOf(VersionAt(rows[Stash], w.start),
            IF w.startCustom THEN Never ELSE OldestOf(rows[Stash]))

KeyFor(w) == <<CharacterDate(w), StashDate(w), w.start>>

FaultUntouched(f, w) == f # ActivePlayer(cache)

\* A character other than the active one that is older than the start by its own
\* timestamp is not looked up.
Untouched(f, w) == f # ActivePlayer(cache) /\ cache[f] <= w.start

ItemsFrom(w) ==
    [f \in Files |->
        IF f = Stash THEN StashDate(w)
        ELSE IF cache[f] = Never \/ Untouched(f, w) THEN cache[f]
        ELSE VersionAt(rows[f], w.start)]

\* Whoever has no version at the start is compared with the first backup since;
\* the active player, if nothing was overridden, at worst with itself.
BaselinesFrom(w) ==
    LET Overridden(f) == cache[f] # Never /\ ~ Untouched(f, w) /\ VersionAt(rows[f], w.start) # Never
        Seed(f) == IF f = ActivePlayer(cache) /\ \A g \in Chars : ~ Overridden(g)
                   THEN cache[f] ELSE Never
    IN [f \in Chars |->
            IF cache[f] = Never THEN Never
            ELSE FirstOf(FirstOf(ItemsFrom(w)[f], OldestBackupSince(f, w.start)), Seed(f))]

Picture(w, items, base) ==
    [start |-> w.start, startCustom |-> w.startCustom, end |-> w.end, endCustom |-> w.endCustom,
     items |-> items, base |-> base]

-----------------------------------------------------------------------------
Init ==
    /\ now = BootTime
    /\ \E first \in Chars : file = [c \in Chars |-> IF c = first THEN 1 ELSE Never]
    /\ saves = [c \in Chars |-> IF file[c] = Never THEN {} ELSE {1}]
    /\ rows \in [Files -> {{}, {1}}]
    /\ \A c \in Chars : rows[c] = saves[c]
    /\ pending = {} /\ posted = FALSE
    /\ app = [autoStart |-> BootTime, autoEnd |-> Never, customStart |-> Unset, customEnd |-> Unset]
    /\ pc = "window" /\ cache = file
    /\ window = WindowOf(app)
    /\ built = Nothing /\ session = Nothing /\ stats = <<0, 0>>
    /\ key = <<0, 0, 0>>
    /\ used = 0

-----------------------------------------------------------------------------
(***************************************************************************)
(* The game, and the watcher thread                                        *)
(***************************************************************************)

Tick ==
    /\ now < MaxTime
    /\ now' = now + 1
    /\ UNCHANGED <<file, saves, rows, pending, posted, app, pc, cache, window, built, shown, key, used>>

\* One save in a second, and none in the second in which the session starts.
SaveCharacter(c) ==
    /\ now > app.autoStart
    /\ \A f \in Chars : now \notin saves[f]
    /\ file' = [file EXCEPT ![c] = now]
    /\ saves' = [saves EXCEPT ![c] = @ \cup {now}]
    /\ pending' = pending \cup {c}
    /\ UNCHANGED <<now, rows, posted, app, pc, cache, window, built, shown, key, used>>

SaveStash ==
    /\ now > app.autoStart
    /\ pending' = pending \cup {Stash}
    /\ UNCHANGED <<now, file, saves, rows, posted, app, pc, cache, window, built, shown, key, used>>

\* handleWatcherEvents and the insert callback.
BackUp(f) ==
    /\ f \in pending
    /\ pending' = pending \ {f}
    /\ rows' = [rows EXCEPT ![f] = @ \cup {IF f = Stash THEN now ELSE file[f]}]
    /\ posted' = TRUE
    /\ UNCHANGED <<now, file, saves, app, pc, cache, window, built, shown, key, used>>

\* What the last game saved has been backed up and read before the next one starts.
Settled == pending = {} /\ cache = file

FaultLaunch ==
    /\ now # app.autoStart
    /\ Settled
    /\ app' = [app EXCEPT !.autoStart = now]
    /\ UNCHANGED <<world, posted, pc, cache, window, built, shown, key, used>>

\* The launch callback.
Launch ==
    /\ now # app.autoStart
    /\ Settled
    /\ app' = [app EXCEPT !.autoStart = now]
    /\ posted' = TRUE
    /\ UNCHANGED <<world, pc, cache, window, built, shown, key, used>>

-----------------------------------------------------------------------------
(***************************************************************************)
(* The UI thread: rebuild() in four steps                                  *)
(***************************************************************************)

Refresh == cache' = file /\ pc' = "window"

BeginRebuild ==
    /\ pc = "idle" /\ posted
    /\ posted' = FALSE
    /\ Refresh
    /\ UNCHANGED <<world, app, window, built, shown, key, used>>

\* refreshAutoEndEpoch and the first lines of buildSession
ReadWindow ==
    /\ pc = "window"
    /\ LET newest == Newest(UNION {rows[f] : f \in Files})
       IN app' = [app EXCEPT !.autoEnd = IF newest = Never THEN now ELSE newest]
    /\ window' = WindowOf(app')
    /\ pc' = "build"
    /\ UNCHANGED <<world, posted, cache, built, shown, key, used>>

\* The rest of buildSession: a hit patches the window of the picture on the screen.
Build ==
    /\ pc = "build"
    /\ IF session # Nothing /\ key = KeyFor(window)
       THEN built' = Picture(window, session.items, session.base) /\ UNCHANGED key
       ELSE built' = Picture(window, ItemsFrom(window), BaselinesFrom(window)) /\ key' = KeyFor(window)
    /\ pc' = "publish"
    /\ UNCHANGED <<world, posted, app, cache, window, shown, used>>

\* computeSessionRunStats for the window of that moment, then the three shared
\* pointers.
Publish ==
    /\ pc = "publish"
    /\ session' = built
    /\ stats' = <<StartEpoch(app), EndEpoch(app)>>
    /\ pc' = "idle"
    /\ window' = Nothing /\ built' = Nothing   \* locals go out of scope
    /\ UNCHANGED <<world, posted, app, cache, key, used>>

-----------------------------------------------------------------------------
(***************************************************************************)
(* The user                                                                *)
(***************************************************************************)

UserActs == pc = "idle" /\ used < MaxUser /\ used' = used + 1

\* A start in the past; "end session" is in the menu only beside a custom start,
\* but the modal may outlive a launch.
TypeSessionTime ==
    /\ UserActs
    /\ \/ \E t \in 1..now - 1 : app' = SetCustomStart(app, t)
       \/ \E t \in 1..now : app' = SetCustomEnd(app, t)
    /\ Refresh
    /\ posted' = FALSE
    /\ UNCHANGED <<world, window, built, shown, key>>

\* ResetSession keeps the snapshot and the automatic end.
ResetSession ==
    /\ UserActs
    /\ app' = ClearCustom(app)
    /\ window' = WindowOf(app')
    /\ pc' = "build"
    /\ UNCHANGED <<world, posted, cache, built, shown, key>>

Next ==
    \/ Tick \/ Launch \/ SaveStash
    \/ \E c \in Chars : SaveCharacter(c)
    \/ \E f \in Files : BackUp(f)
    \/ BeginRebuild \/ ReadWindow \/ Build \/ Publish
    \/ TypeSessionTime \/ ResetSession

\* Both threads run; the game, the clock and the user need do nothing.
Fairness ==
    /\ WF_vars(\E f \in Files : BackUp(f))
    /\ WF_vars(BeginRebuild \/ ReadWindow \/ Build \/ Publish)

Spec == Init /\ [][Next]_vars /\ Fairness

-----------------------------------------------------------------------------
(***************************************************************************)
(* Properties                                                              *)
(***************************************************************************)

Latest == IF pc = "publish" THEN built ELSE session
Picked == IF Latest = Nothing THEN Nothing
          ELSE [start |-> Latest.start, custom |-> Latest.startCustom,
                items |-> Latest.items, base |-> Latest.base]

Promise == INSTANCE SessionPromise WITH shown <- Picked

\* Every picture that a rebuild makes, cached or not, is one the promise allows:
\* each file as it was at the start, each baseline from then or,
\* for a character created later, from after it.
KeepsPromise == Promise!Spec

NewestBackup == Newest(UNION {rows[f] : f \in Files})

\* What the panes show belongs to the window in force: start, end and the window the
\* runs were counted in.
InStep ==
    /\ session # Nothing
    /\ WindowOf([app EXCEPT !.autoEnd = NewestBackup])
         = [start |-> session.start, startCustom |-> session.startCustom,
            end |-> session.end, endCustom |-> session.endCustom]
    /\ stats = <<StartEpoch(app), EndEpoch(app)>>

\* A launch or a backup that comes while the UI thread rebuilds with the old window
\* is not forgotten: the panes get in step again.
CatchesUp == []<>InStep

\* "The Character pane can render deltas for every character we've seen a
\* session-relevant backup for."  It does not hold: README.md,
\* "Further behaviours".
BaselineForAll ==
    session # Nothing /\ pc = "idle" /\ ~ posted /\ pending = {}
    => \A c \in Chars : rows[c] # {} => session.base[c] # Never
=============================================================================
