----------------------------- MODULE ListPanes ------------------------------
(***************************************************************************)
(* The panes that list rows under a cursor.  The renderer and the key      *)
(* handlers each work out the rows anew, from data that other threads      *)
(* replace between two keys, and share nothing but the cursor, a number,   *)
(* and the expansions.  A behaviour is about one pane: Backups, Inventory, *)
(* Chronicle, or Session Info, which shows the runs of the same histories. *)
(*                                                                         *)
(* Cursors count from 0, as in the code.  Typing a query is one step: the  *)
(* keys in between go to the query.                                        *)
(*                                                                         *)
(* Modelled from src/dashboard_ftxui.cpp.                                  *)
(***************************************************************************)
EXTENDS RunGrouping, InventoryTree, ChronicleGrid

CONSTANTS
    Panes,      \* the panes to look at
    BackupFiles,\* character files, numbers in the order of their names
    StashFile,  \* the number of the shared stash
    MaxDate,    \* bound on dates
    Grows,      \* pane -> the files that get backups, of which states, and how many
    Snapshots,  \* the inventories that a rebuild may publish
    Qualities,  \* the qualities the pane can hide
    Queries     \* what is typed into the search

ASSUME PanesAssumption ==
    /\ Panes \subseteq {"Backups", "Inventory", "Chronicle", "Session Info"}
    /\ BackupFiles \subseteq Nat \ {0} /\ IsFiniteSet(BackupFiles) /\ BackupFiles # {}
    /\ StashFile \in Nat \ ({0} \cup BackupFiles) /\ MaxDate \in Nat \ {0}
    /\ Snapshots # {} /\ \A shown \in Snapshots : IsInventory(shown)

VARIABLES
    pane,
    hists,      \* the backup database
    items,      \* the snapshot's inventory
    found,      \* ids of the snapshot's discovered rows
    cursor, query,
    detail,     \* backupViewMode: 0 is the summary, else the file shown
    collapse,   \* backupsRunCollapse
    expandedRun,\* ui.expandedRunEndEpoch; 0 is none
    filter,     \* the first Character pane's file; 0 is none
    mask,       \* inventoryQualityMask
    expanded,   \* ui.paneExpanded of the pane
    ownership, ascending

backups == <<hists, detail, collapse, expandedRun, filter>>
inventory == <<items, mask, expanded>>
chronicle == <<found, ownership, ascending>>
vars == <<pane, cursor, query, backups, inventory, chronicle>>

Clamp(i, n) == IF n = 0 THEN 0 ELSE Max({0, Min({i, n - 1})})

-----------------------------------------------------------------------------
(***************************************************************************)
(* Backups: what is drawn                                                  *)
(***************************************************************************)

CharacterHists == Restrict(hists, BackupFiles)
AllFiles == BackupFiles \cup {StashFile}
RowCount == SumOf([f \in AllFiles |-> Len(hists[f])], AllFiles)

\* summariseFiles, partitioned: the stash, then the characters, each newest first.
SummaryOrder ==
    LET Newer(f, g) == \/ hists[f][1].date > hists[g][1].date
                       \/ hists[f][1].date = hists[g][1].date /\ f < g
        present == {f \in AllFiles : hists[f] # << >>}
    IN Sorted(present \cap {StashFile}, Newer)
       \o Sorted({f \in present \ {StashFile} : filter \in {0, f}}, Newer)

RunsShown == Reverse(GroupRunsForFile(hists[detail], 0))
IsExpanded(run) == run.end # 0 /\ run.end = expandedRun
RunDate(run) == IF run.end = 0 THEN Last(run.autosaves) ELSE run.end

VRow(date, summary, run) == [date |-> date, summary |-> summary, run |-> run]

\* A row for each run, newest first, with the autosaves of the expanded one below it;
\* or a row for each row of the database.
VRows ==
    IF collapse
    THEN FlattenSeq([i \in DOMAIN RunsShown |->
            LET run == RunsShown[i]
            IN <<VRow(RunDate(run), TRUE, run.end)>>
               \o (IF ~ IsExpanded(run) THEN << >>
                   ELSE LET dates == Reverse(run.autosaves)
                        IN [k \in DOMAIN dates |-> VRow(dates[k], FALSE, 0)])])
    ELSE [i \in DOMAIN hists[detail] |-> VRow(hists[detail][i].date, FALSE, 0)]

Highlighted(rows) == rows[Clamp(cursor, Len(rows)) + 1]

-----------------------------------------------------------------------------
(***************************************************************************)
(* Backups: how the keys find the row                                      *)
(***************************************************************************)

\* The visual index of the i-th run.
RunIndex(i) ==
    LET extra == [j \in DOMAIN RunsShown |->
                     IF IsExpanded(RunsShown[j]) THEN Len(RunsShown[j].autosaves) ELSE 0]
    IN i - 1 + SumOf(extra, 1..i - 1)

FaultEnterTarget ==
    LET at == {i \in DOMAIN RunsShown : i - 1 = cursor /\ RunsShown[i].end # 0}
    IN IF at = {} THEN 0 ELSE RunsShown[CHOOSE i \in at : TRUE].end

\* Enter: the end of the run to fold or unfold, or 0.
EnterTarget ==
    LET at == {i \in DOMAIN RunsShown : RunIndex(i) = cursor /\ RunsShown[i].end # 0}
    IN IF at = {} THEN 0 ELSE RunsShown[CHOOSE i \in at : TRUE].end

\* R: the date to recover, or 0.
RowDate ==
    LET onRun == {i \in DOMAIN RunsShown : RunIndex(i) = cursor}
        inRun == {p \in (DOMAIN RunsShown) \X (1..Len(hists[detail])) :
                     /\ IsExpanded(RunsShown[p[1]]) /\ p[2] <= Len(RunsShown[p[1]].autosaves)
                     /\ RunIndex(p[1]) + p[2] = cursor}
    IN CASE hists[detail] = << >> -> 0
         [] hists[detail] # << >> /\ ~ collapse ->
                hists[detail][Clamp(cursor, Len(hists[detail])) + 1].date
         [] collapse /\ onRun # {} -> RunDate(RunsShown[CHOOSE i \in onRun : TRUE])
         [] collapse /\ onRun = {} /\ inRun # {} ->
                LET at == CHOOSE p \in inRun : TRUE
                    saves == RunsShown[at[1]].autosaves
                IN saves[Len(saves) + 1 - at[2]]
         [] OTHER -> 0

-----------------------------------------------------------------------------
(***************************************************************************)
(* The rows of the other panes, and the cursor                             *)
(***************************************************************************)

Searching == query # NoQuery
Tree == BuildInventoryTree(FilterInventory(items, mask, query), query)
AllRows == RowsOf(Tree)
InventoryRows == EmitInventoryRows(AllRows, expanded, Searching)
Opened(row) == row.kind = "header" /\ IsOpen(row.path, expanded, Searching)

GridRows == DisplayRows(found, ownership, query, ascending)

\* What shownRows adds for the first run with the expanded end.
Unfolded ==
    LET open == {i \in DOMAIN RunsShown : IsExpanded(RunsShown[i])}
    IN Len(RunsShown) + (IF open = {} THEN 0 ELSE Len(RunsShown[Max(open)].autosaves))

\* shownRows: what the keys take for the number of rows.
ShownRows ==
    CASE pane = "Chronicle" -> Cardinality(FilterForLeaf(found, ownership, query))
      [] pane = "Inventory" -> Len(InventoryRows)
      [] pane = "Backups" /\ detail = 0 -> Len(SummaryOrder)
      [] pane = "Backups" /\ detail # 0 ->
            IF collapse THEN Unfolded ELSE Len(hists[detail])
      [] OTHER -> 0

DrawnRows ==
    CASE pane = "Chronicle" -> Cardinality({i \in DOMAIN GridRows : IsData(GridRows[i])})
      [] pane = "Inventory" -> Len(InventoryRows)
      [] pane = "Backups" /\ detail = 0 -> Len(SummaryOrder)
      [] pane = "Backups" /\ detail # 0 -> Len(VRows)
      [] OTHER -> 0

-----------------------------------------------------------------------------
Init ==
    /\ pane \in Panes
    /\ hists = [f \in AllFiles |-> << >>]
    /\ items = CHOOSE shown \in Snapshots : TRUE
    /\ found = {}
    /\ cursor = 0 /\ query = NoQuery
    /\ detail = 0 /\ collapse = TRUE /\ expandedRun = 0
    /\ filter \in IF pane = "Backups" THEN {0, Max(BackupFiles)} ELSE {0}
    /\ mask = Qualities /\ expanded = {}
    /\ ownership = "All" /\ ascending = TRUE

(***************************************************************************)
(* The other threads                                                       *)
(***************************************************************************)

\* A row finds its place by its date, after older rows of the same second.  A file is
\* left with save-and-exit once in a second.
BackupArrives(f, date, state) ==
    /\ f \in Grows[pane].files /\ state \in Grows[pane].states /\ RowCount < Grows[pane].rows
    /\ state = "SaveAndExit" =>
          \A i \in DOMAIN hists[f] : hists[f][i] # [date |-> date, state |-> state]
    /\ LET row == [date |-> date, state |-> state]
           at  == Cardinality({i \in DOMAIN hists[f] : hists[f][i].date >= date})
       IN hists' = [hists EXCEPT ![f] = SubSeq(@, 1, at) \o <<row>> \o SubSeq(@, at + 1, Len(@))]
    /\ UNCHANGED <<pane, cursor, query, detail, collapse, expandedRun, filter, inventory, chronicle>>

\* Retention takes the oldest rows.
Prune(f) ==
    /\ hists[f] # << >>
    /\ hists' = [hists EXCEPT ![f] = Front(@)]
    /\ UNCHANGED <<pane, cursor, query, detail, collapse, expandedRun, filter, inventory, chronicle>>

\* A rebuild publishes another snapshot.
SnapshotReplaced ==
    /\ \/ pane = "Inventory" /\ items' \in Snapshots \ {items} /\ UNCHANGED found
       \/ pane = "Chronicle" /\ \E u \in Uniques : found' = SymDiff(found, {u.id}) /\ UNCHANGED items
    /\ UNCHANGED <<pane, cursor, query, backups, mask, expanded, ownership, ascending>>

(***************************************************************************)
(* The keys                                                                *)
(***************************************************************************)

FaultMoveTo(i, n) == cursor' = IF n = 0 THEN 0 ELSE i

MoveTo(i, n) == cursor' = Clamp(i, n)

MoveKeys ==
    /\ pane # "Session Info"
    /\ LET n == ShownRows
       IN MoveTo(cursor - 1, n) \/ MoveTo(cursor + 1, n) \/ cursor' = 0 \/ MoveTo(n - 1, n)
    /\ UNCHANGED <<pane, query, backups, inventory, chronicle>>

Search ==
    /\ pane \in {"Inventory", "Chronicle"}
    /\ query' \in {NoQuery} \cup Queries
    /\ cursor' = 0
    /\ UNCHANGED <<pane, backups, inventory, chronicle>>

\* Enter on the summary, and Escape.
DrillIn ==
    /\ pane = "Backups" /\ detail = 0 /\ SummaryOrder # << >>
    /\ detail' = Highlighted(SummaryOrder)
    /\ cursor' = 0
    /\ UNCHANGED <<pane, query, hists, collapse, expandedRun, filter, inventory, chronicle>>

DrillOut ==
    /\ pane = "Backups" /\ detail # 0
    /\ detail' = 0 /\ cursor' = 0
    /\ UNCHANGED <<pane, query, hists, collapse, expandedRun, filter, inventory, chronicle>>

\* Enter on the rows of one file.
Unfold ==
    /\ pane = "Backups" /\ detail # 0 /\ collapse
    /\ EnterTarget # 0
    /\ expandedRun' = IF expandedRun = EnterTarget THEN 0 ELSE EnterTarget
    /\ UNCHANGED <<pane, cursor, query, hists, detail, collapse, filter, inventory, chronicle>>

ToggleRunCollapse ==
    /\ pane = "Backups"
    /\ collapse' = ~ collapse
    /\ cursor' = 0 /\ expandedRun' = 0
    /\ UNCHANGED <<pane, query, hists, detail, filter, inventory, chronicle>>

ToggleQuality ==
    /\ pane = "Inventory"
    /\ \E q \in Qualities : mask' = SymDiff(mask, {q})
    /\ cursor' = 0
    /\ UNCHANGED <<pane, query, items, expanded, backups, chronicle>>

CycleChronicle ==
    /\ pane = "Chronicle"
    /\ \/ ownership' \in Ownerships \ {ownership} /\ UNCHANGED ascending
       \/ ascending' = ~ ascending /\ UNCHANGED ownership
    /\ UNCHANGED <<pane, cursor, query, found, backups, inventory>>

ExpandAll ==
    /\ pane = "Inventory"
    /\ expanded' = expanded \cup CollectExpandablePaths(Tree)
    /\ UNCHANGED <<pane, cursor, query, items, mask, backups, chronicle>>

CollapseAll ==
    /\ pane = "Inventory"
    /\ expanded' = {} /\ cursor' = 0
    /\ UNCHANGED <<pane, query, items, mask, backups, chronicle>>

Right ==
    /\ pane = "Inventory"
    /\ LET rows == InventoryRows
           row  == Highlighted(rows)
           cur  == Clamp(cursor, Len(rows))
       IN /\ rows # << >> /\ row.kind = "header"
          /\ IF Opened(row)
             THEN cur + 1 < Len(rows) /\ cursor' = cur + 1 /\ UNCHANGED expanded
             ELSE expanded' = expanded \cup {row.path} /\ UNCHANGED cursor
    /\ UNCHANGED <<pane, query, items, mask, backups, chronicle>>

FaultHeaderAbove(rows, cur, path) == SelectInSeq(rows, LAMBDA r : r.kind = "header")

\* The nearest row above cur that is the header of path.
HeaderAbove(rows, cur, path) ==
    SelectLastInSubSeq(rows, 1, cur, LAMBDA r : r.kind = "header" /\ r.path = path)

Left ==
    /\ pane = "Inventory"
    /\ LET rows == InventoryRows
           row  == Highlighted(rows)
           cur  == Clamp(cursor, Len(rows))
       IN /\ rows # << >>
          /\ IF Opened(row)
             THEN expanded' = expanded \ {row.path} /\ UNCHANGED cursor
             ELSE /\ ParentPath(row) # << >>
                  /\ cursor' = HeaderAbove(rows, cur, ParentPath(row)) - 1
                  /\ UNCHANGED expanded
    /\ UNCHANGED <<pane, query, items, mask, backups, chronicle>>

World ==
    \/ \E f \in AllFiles, d \in 1..MaxDate, s \in {"Autosave", "SaveAndExit", "Deleted"} :
          BackupArrives(f, d, s)
    \/ \E f \in AllFiles : Prune(f)
    \/ SnapshotReplaced

Keys ==
    \/ MoveKeys \/ Search \/ DrillIn \/ DrillOut \/ Unfold \/ ToggleRunCollapse
    \/ ToggleQuality \/ CycleChronicle \/ ExpandAll \/ CollapseAll \/ Right \/ Left

Next == World \/ Keys

Spec == Init /\ [][Next]_vars

-----------------------------------------------------------------------------
\* Type correctness: the cursor and the expansions denote something, histories are sorted.
TypeOK ==
    /\ cursor \in Nat /\ query \in {NoQuery} \cup Queries
    /\ detail \in {0} \cup AllFiles /\ expandedRun \in 0..MaxDate
    /\ items \in Snapshots /\ found \subseteq {u.id : u \in Uniques}
    /\ \A path \in expanded : Len(path) \in 1..2
    /\ \A f \in AllFiles : \A i, j \in DOMAIN hists[f] :
          i < j => hists[f][i].date >= hists[f][j].date

CountsAgree == ShownRows = DrawnRows

EnterAndRecoverAgree ==
    detail # 0 /\ VRows # << >> =>
        LET row    == Highlighted(VRows)
            onRows == cursor < Len(VRows)
        IN /\ RowDate \in (IF onRows THEN {} ELSE {0}) \cup {row.date}
           /\ collapse => EnterTarget \in (IF onRows THEN {} ELSE {0}) \cup {row.run}

\* Backups: whatever arrived or was pruned since the last key, the rows that the cursor
\* keys count are the rows that the renderer draws, Enter unfolds and R recovers the
\* highlighted row or nothing, and never nothing while the cursor lies on a row.
KeysActOnHighlight == pane = "Backups" => CountsAgree /\ EnterAndRecoverAgree

\* Backups: the runs of a file take up every autosave and every exit once, in order; a
\* run begins where the last one ended, and its rows lie between its ends.
RunsPartition ==
    pane = "Backups" => \A f \in AllFiles :
        LET runs    == GroupRunsForFile(hists[f], 0)
            oldest  == Reverse(hists[f])
            Dates(states) == LET rows == Filtered(oldest, LAMBDA r : r.state \in states)
                             IN [i \in DOMAIN rows |-> rows[i].date]
            ended   == Filtered(runs, LAMBDA r : r.end # 0)
        IN /\ FlattenSeq([i \in DOMAIN runs |-> runs[i].autosaves]) = Dates(Autosaves)
           /\ [i \in DOMAIN ended |-> ended[i].end] = Dates({"SaveAndExit"})
           /\ \A i \in DOMAIN runs :
                 /\ runs[i].start = IF i = 1 THEN 0 ELSE runs[i - 1].end
                 /\ runs[i].end = 0 => i = Len(runs) /\ runs[i].autosaves # << >>
                 /\ \A d \in ToSet(runs[i].autosaves) :
                       runs[i].start <= d /\ (runs[i].end # 0 => d <= runs[i].end)

Sessions == {s \in (0..MaxDate) \X (0..MaxDate) : s[2] = 0 \/ s[1] < s[2]}

\* Session Info: whatever characters' runs alternate in the window, no second of it is
\* counted for two of them and none of a game is missing: while a game is running the
\* durations add up to the time until the end of the session, otherwise to the time until
\* the last exit.  (What comes after that exit is no run's, although DashboardModel.hpp
\* 613-615 and 661 say that the durations tile the window up to its end.)  Each exit is a
\* run of the character it belongs to, and the running game is the one saved last.
SessionTiles ==
    pane = "Session Info" => \A session \in Sessions :
        LET from  == session[1]  to == session[2]
            runs  == GroupSessionRuns(CharacterHists, from, to)
            exits == RowsIn(CharacterHists, {"SaveAndExit"}, from, to)
            last  == Max({from} \cup {e.date : e \in exits})
            tails == RowsIn(CharacterHists, Autosaves, from, to)
            saves == {e.date : e \in tails}
            live  == \E d \in saves : d > last
            total == SumOf([f \in BackupFiles |-> StatsOf(runs, f, to).secs], BackupFiles)
        IN /\ total = IF live THEN (IF to = 0 THEN Max(saves) ELSE to) - from ELSE last - from
           /\ \A f \in BackupFiles : LET stats == StatsOf(runs, f, to)
                                      newest == Max({0} \cup {e.date : e \in {x \in tails : x.file = f}})
                 IN /\ stats.runCount = Cardinality({e \in exits : e.file = f})
                    /\ stats.hasInProgress => live /\ newest = Max(saves)
           /\ live => \E f \in BackupFiles : StatsOf(runs, f, to).hasInProgress

\* Inventory: what the filter lets through has a row of its own once all is unfolded,
\* and exactly one, in the right place; only empty slots of the material tab have none.
\* A search unfolds everything, whatever the expansions left behind by earlier keys.
AllItemsListed ==
    pane = "Inventory" =>
        LET rows  == EmitInventoryRows(AllRows, expanded \cup CollectExpandablePaths(Tree), Searching)
            shown == IF Searching THEN InventoryRows ELSE rows
            At(it) == {i \in DOMAIN shown : shown[i].kind = "item" /\ shown[i].entry = Owned(it)}
        IN \A it \in FilterInventory(items, mask, query) :
              IF EffectiveStackCount(it) = 0 /\ SubLevelOf(it) \in CountSections
              THEN At(it) = {}
              ELSE /\ Cardinality(At(it)) = 1
                   /\ \A i \in At(it) : shown[i].path = <<TopLevelOf(it), SubLevelOf(it)>>

\* Inventory: Left on a row that it does not close goes up, to the header the row hangs
\* under, although the rows were rebuilt since the last key.
LeftGoesToHeader ==
    [][cursor' # cursor /\ Left =>
          LET rows == InventoryRows
              row  == Highlighted(rows)
              to   == rows[cursor' + 1]
          IN cursor' < cursor /\ to.kind = "header" /\ to.path = ParentPath(row)]_vars

CellsIn(grid, u) ==
    {c \in (DOMAIN grid) \X Tiers : IsData(grid[c[1]]) /\ grid[c[1]].cells[c[2]] = u.id}

EachHasItsCell(grid, passing) ==
    LET banners == {i \in DOMAIN grid : ~ IsData(grid[i])}
        Rows(u) == {c[1] : c \in CellsIn(grid, u)}
    IN /\ \A u \in Uniques : u.tier = None /\ CellsIn(grid, u) # {} => u \in passing
       /\ \A u \in passing : \E i \in DOMAIN grid : CellsIn(grid, u) = {<<i, Column(u)>>}
       /\ \A i, j \in banners : grid[i] = grid[j] => i = j
       /\ \A u, v \in Uniques :
             Column(u) = Column(v) /\ u.id < v.id /\ FamilyOf(u) = FamilyOf(v) =>
                \A i \in Rows(u), j \in Rows(v) : i < j

\* Chronicle: every unique that passes the filter has one cell of the grid, in the
\* column of its tier, with its family in one piece; what has no tier appears only if it
\* passes itself; and each class has one banner.
GridComplete ==
    pane = "Chronicle" => EachHasItsCell(GridRows, FilterForLeaf(found, ownership, query))
=============================================================================
