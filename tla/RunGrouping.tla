---------------------------- MODULE RunGrouping -----------------------------
(***************************************************************************)
(* Runs: what lies between two save-and-exit rows of the backup history.   *)
(* The Backups pane groups the rows of one file; Session Info groups the   *)
(* exits of all characters in the session's window into one timeline.      *)
(*                                                                         *)
(* A history is what BackupDb::historyFor returns: newest first, and among *)
(* rows of one date the one inserted first is first.  Files are numbers in *)
(* the order of their names.                                               *)
(*                                                                         *)
(* Modelled from src/dashboard_model.cpp.                                  *)
(***************************************************************************)
EXTENDS Integers, Sequences, SequencesExt, FiniteSetsExt, Ranked

Autosaves == {"Autosave", "Other"}

\* struct Run; end = 0 while it is in progress.
Run(start, end, autosaves) == [start |-> start, end |-> end, autosaves |-> autosaves]

-----------------------------------------------------------------------------
(***************************************************************************)
(* groupRunsForFile                                                        *)
(***************************************************************************)

\* One row of the walk, which goes from the oldest row to the newest.
WalkRow(from, walk, row) ==
    CASE row.date < from -> walk
      [] row.date >= from /\ row.state \in Autosaves ->
            [walk EXCEPT !.open = Append(@, row.date)]
      [] row.date >= from /\ row.state = "SaveAndExit" ->
            [runs |-> Append(walk.runs, Run(walk.start, row.date, walk.open)),
             start |-> row.date, open |-> << >>]
      [] OTHER -> walk

\* The walk after n rows.
Walk(hist, from) ==
    LET walk[n \in 0..Len(hist)] ==
            IF n = 0 THEN [runs |-> << >>, start |-> from, open |-> << >>]
            ELSE WalkRow(from, walk[n - 1], hist[Len(hist) + 1 - n])
    IN walk

FaultGroupRunsForFile(hist, from) ==
    LET last == Walk(hist, from)[Len(hist)]
    IN Append(last.runs, Run(last.start, 0, last.open))

\* The runs of one file, oldest first.
GroupRunsForFile(hist, from) ==
    LET last == Walk(hist, from)[Len(hist)]
    IN IF last.open = << >> THEN last.runs
       ELSE Append(last.runs, Run(last.start, 0, last.open))

-----------------------------------------------------------------------------
(***************************************************************************)
(* groupSessionRuns: hists maps each character file to its history         *)
(***************************************************************************)

FaultInWindow(row, from, to) == row.date >= from

InWindow(row, from, to) == row.date >= from /\ (to = 0 \/ row.date <= to)

\* Positions in the histories of the rows of these states in the window.
RowsIn(hists, states, from, to) ==
    UNION {{[file |-> f, index |-> i, date |-> hists[f][i].date] :
               i \in {j \in DOMAIN hists[f] :
                         hists[f][j].state \in states /\ InWindow(hists[f][j], from, to)}} :
           f \in DOMAIN hists}

\* By date, then by file.
EventOrder(a, b) ==
    \/ a.date < b.date
    \/ a.date = b.date /\ a.file < b.file
    \/ a.date = b.date /\ a.file = b.file /\ a.index > b.index

LastExitOf(exits, f) == Max({0} \cup {e.date : e \in {x \in exits : x.file = f}})

\* The file whose newest autosave is the newest after all the exits; which of two
\* such files is up to the hash table.
StillPlayed(tails, cursor) ==
    LET after == {t \in tails : t.date > cursor}
    IN {t.file : t \in {u \in after : \A v \in after : v.date <= u.date}}

\* struct SessionRun
SessionRun(f, start, end, autosaves) ==
    [file |-> f, start |-> start, end |-> end, autosaves |-> autosaves]

\* Every exit, whosever it is, ends one run and begins the next.
GroupSessionRuns(hists, from, to) ==
    LET exits  == RowsIn(hists, {"SaveAndExit"}, from, to)
        tails  == RowsIn(hists, Autosaves, from, to)
        ends   == Sorted(exits, EventOrder)
        cursor == IF ends = << >> THEN from ELSE Last(ends).date
        closed == [i \in 1..Len(ends) |->
                      SessionRun(ends[i].file, IF i = 1 THEN from ELSE ends[i - 1].date,
                                 ends[i].date, << >>)]
        played == StillPlayed(tails, cursor)
    IN IF played = {} THEN closed
       ELSE LET f    == CHOOSE g \in played : TRUE
                past == {t \in tails : t.file = f /\ t.date > LastExitOf(exits, f)}
                order == Sorted(past, EventOrder)
            IN Append(closed, SessionRun(f, cursor, 0, [i \in 1..Len(order) |-> order[i].date]))

\* runDurationSecs
RunDurationSecs(run, to) ==
    LET end == CASE run.end # 0                          -> run.end
                 [] run.end = 0 /\ to > run.start        -> to
                 [] run.end = 0 /\ to <= run.start /\ run.autosaves # << >> -> Last(run.autosaves)
                 [] OTHER                                -> 0
    IN IF end > run.start THEN end - run.start ELSE 0

\* computeSessionRunStats, for one character.
StatsOf(runs, f, to) ==
    LET mine == {i \in DOMAIN runs : runs[i].file = f}
    IN [runCount      |-> Cardinality({i \in mine : runs[i].end # 0}),
        hasInProgress |-> \E i \in mine : runs[i].end = 0,
        secs          |-> SumOf([i \in mine |-> RunDurationSecs(runs[i], to)], mine)]
=============================================================================
