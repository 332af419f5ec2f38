--------------------------- MODULE SessionPromise ----------------------------
(***************************************************************************)
(* What the session panes promise, without the cache, the shortcuts and    *)
(* the threads behind them: the account "as it was at the start of the     *)
(* session" shows every file as it was at that second.                     *)
(*                                                                         *)
(* A version of a file is the second it was saved at.  The program knows   *)
(* the past from the backups alone, and a backup is made a little after    *)
(* the save; so a file may be shown as it truly was or as the backups said *)
(* when the panes were drawn, and as nothing else.                         *)
(*                                                                         *)
(* States what src/include/d2r/DashboardModel.hpp and the comments of      *)
(* buildSession in src/dashboard_ftxui.cpp say.                            *)
(***************************************************************************)
EXTENDS Integers

CONSTANTS
    Chars,   \* character files
    Stash,   \* the shared stash file
    Never,   \* a file that does not exist yet
    Nothing  \* no picture yet

VARIABLES
    saves,   \* the versions each character ever had
    rows,    \* the dates of each file's backups
    shown    \* [start, custom, items, base]

Files == Chars \cup {Stash}

\* The newest of the dates up to t.
VersionAt(dates, t) ==
    IF \E d \in dates : d <= t
    THEN CHOOSE d \in dates : d <= t /\ \A e \in dates : e <= t => e <= d
    ELSE Never

Oldest(dates) == CHOOSE d \in dates : \A e \in dates : d <= e

\* What a picture of the account at t may show of f.  A session that starts by
\* itself before the first backup of the stash starts from that backup.
Candidates(f, t, custom) ==
    {VersionAt(rows[f], t)}
    \cup (IF f \in Chars THEN {VersionAt(saves[f], t)} ELSE {})
    \cup (IF f = Stash /\ ~ custom /\ VersionAt(rows[f], t) = Never /\ rows[f] # {}
          THEN {Oldest(rows[f])} ELSE {})

\* What the experience of c may be compared with: c at t, or for a character
\* created since, a version since then, or nothing.
BaseCandidates(c, t) ==
    LET at == Candidates(c, t, TRUE)
    IN IF Never \in at THEN at \cup {d \in saves[c] : d > t} ELSE at

Init ==
    /\ \A c \in Chars : rows[c] \subseteq saves[c]
    /\ shown = Nothing

\* The game writes a later version of a character, or a backup is made.
Past ==
    /\ \A c \in Chars :
          /\ saves[c] \subseteq saves'[c] /\ rows'[c] \subseteq saves'[c]
          /\ \A d \in saves'[c] \ saves[c], e \in saves[c] : e < d
    /\ \A f \in Files : rows[f] \subseteq rows'[f]
    /\ UNCHANGED shown

\* The panes are given a picture of the account at some second.
Show ==
    /\ \A f \in Files : shown'.items[f] \in Candidates(f, shown'.start, shown'.custom)
    /\ \A c \in Chars : shown'.base[c] \in BaseCandidates(c, shown'.start)
    /\ UNCHANGED <<saves, rows>>

Next == Past \/ Show

Spec == Init /\ [][Next]_<<saves, rows, shown>>
=============================================================================
