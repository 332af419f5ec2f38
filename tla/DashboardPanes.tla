--------------------------- MODULE DashboardPanes ---------------------------
(***************************************************************************)
(* The panes of the dashboard under the keyboard: normal mode, the         *)
(* overlays (help, recovery, retention editor, search, character picker,   *)
(* session time, configuration menu), and the two tables of                *)
(* dashboard.sqlite that outlive the program, the layout and the retention *)
(* policy.                                                                 *)
(*                                                                         *)
(* The event loop handles every key that has arrived before it draws       *)
(* again, and only drawing refreshes `leaves`, the list through which keys *)
(* find their pane: Render is an action of its own, and any number of keys *)
(* may come between two of them.                                           *)
(*                                                                         *)
(* Cursor movements within a pane or a menu are left out: an action may    *)
(* take any row or item that the cursor could be on.  Reads and writes of  *)
(* the database may fail.  The code does not check a write, and takes a    *)
(* read that failed for an empty table: the screen gets the defaults, and  *)
(* the next write puts them over what was stored.                          *)
(*                                                                         *)
(* Modelled from src/dashboard_ftxui.cpp and src/dashboard_config.cpp.     *)
(***************************************************************************)
EXTENDS PaneTree

CONSTANTS
    StoredLayouts,  \* layouts that earlier runs may have left
    Numbers,        \* numbers that may be typed into the retention editor
    Screens,        \* terminal sizes, [w, h]
    FewPanes,       \* bound: a screen with at most so many panes
    MaxEdits        \* takes MaxEdits changes of panes and policy, a larger one takes one

ASSUME LayoutAssumption ==
    /\ \A s \in StoredLayouts : IsTree(s)
    /\ \A s \in Screens : s.w \in Nat /\ s.h \in Nat

VARIABLES
    running,   \* the dashboard is up
    hasDb,     \* dashboard.sqlite could be opened
    tree,      \* ui.rootPane
    leaves,    \* ui.leaves, as of the last render
    focus,     \* ui.focusedLeaf, from 1
    open,      \* overlays whose flag is set
    target,    \* characterPicker.target; Root when the picker is closed
    fields,    \* the two buffers of the retention editor
    policy,    \* the scheduler's retention
    layoutRow, \* table dashboard_layout
    policyRow, \* table backup_retention
    edits,
    lost,      \* ghost: tables whose last read or write failed
    clean      \* ghost: the layout loaded at the start had no pane twice, and
               \* no render has moved the open menu to another pane

vars == <<running, hasDb, tree, leaves, focus, open, target, fields, policy,
          layoutRow, policyRow, edits, lost, clean>>
ui == <<running, hasDb, clean, policy, policyRow>>

\* In the order the event handler asks for them.
OverlayOrder == <<"help", "recovery", "retention", "search", "picker", "time", "config">>
Overlays == ToSet(OverlayOrder)

EmptyField == -1

NoFields == [days |-> EmptyField, sessions |-> EmptyField]
DefaultPolicy == [days |-> 30, sessions |-> 100]
Policies == [days: Numbers \cup {0, 30}, sessions: Numbers \cup {0, 100}]

NoDuplicates(t) ==
    /\ \A cat \in ToSet(Categories) : Cardinality(PanesOfCategory(t, cat)) <= 1
    /\ Cardinality(InventoryPanes(t)) <= 1

Init ==
    /\ running = FALSE /\ hasDb = FALSE /\ clean = TRUE
    /\ tree = MakeDefaultLayout /\ leaves = <<>> /\ focus = 1 /\ open = {} /\ target = Root
    /\ fields = NoFields
    /\ policy = DefaultPolicy /\ policyRow = DefaultPolicy
    /\ layoutRow \in StoredLayouts \cup {NoLayout}
    /\ edits = 0 /\ lost = {}

\* As in LoadPaneTree, a query that gives no row leaves the default.
LoadBackupRetention(read) == IF read THEN policyRow ELSE DefaultPolicy

\* Start: the constructor part of runDashboard.  Either read may fail.
Start ==
    /\ ~ running
    /\ running' = TRUE
    /\ hasDb' \in BOOLEAN
    /\ lost' \in IF hasDb' THEN SUBSET {"layout", "policy"} ELSE {lost}
    /\ tree' = IF hasDb' THEN LoadPaneTree(layoutRow, "layout" \notin lost') ELSE MakeDefaultLayout
    /\ policy' = IF hasDb' THEN LoadBackupRetention("policy" \notin lost') ELSE DefaultPolicy
    /\ clean' = NoDuplicates(tree')
    /\ UNCHANGED <<leaves, focus, open, target, fields, layoutRow, policyRow, edits>>

-----------------------------------------------------------------------------
(***************************************************************************)
(* Parts of the actions                                                    *)
(***************************************************************************)

\* persistLayout(): one upsert whose result nobody looks at.
PersistLayout(t) ==
    IF ~ hasDb THEN UNCHANGED <<layoutRow, lost>>
    ELSE \/ layoutRow' = ToJson(t) /\ lost' = lost \ {"layout"}
         \/ lost' = lost \cup {"layout"} /\ UNCHANGED layoutRow

\* What the memory of the program holds while it does not run does not matter:
\* it gets the values of Init.
Stop ==
    /\ running /\ running' = FALSE
    /\ hasDb' = FALSE /\ clean' = TRUE
    /\ tree' = MakeDefaultLayout /\ leaves' = <<>> /\ focus' = 1 /\ open' = {} /\ target' = Root
    /\ fields' = NoFields
    /\ policy' = DefaultPolicy

Handles(o) ==
    /\ running /\ o \in open
    /\ \A i, j \in DOMAIN OverlayOrder :
          OverlayOrder[j] = o /\ OverlayOrder[i] \in open => i >= j
NormalMode == running /\ open = {}

HasFocus == focus \in DOMAIN leaves
Focused == leaves[focus]
FocusedConfig == tree[Focused].cfg

Edit ==
    /\ edits < IF Cardinality(Leaves(tree)) <= FewPanes THEN MaxEdits ELSE 1
    /\ edits' = edits + 1

Show(o) == open' = {o}
Close(o) == open' = open \ {o}
Switch(from, to) == open' = (open \ {from}) \cup {to}

\* Draws the screen, which lists the leaves again.  The focus is a position: if a
\* split has not been drawn yet, it may now be another pane's.
Render ==
    /\ running
    /\ leaves' = FlattenLeaves(tree)
    /\ focus' = IF focus \in DOMAIN leaves' THEN focus ELSE 1
    /\ <<leaves', focus'>> # <<leaves, focus>>
    /\ clean' = (clean /\ ("config" \in open => leaves'[focus'] = Focused))
    /\ UNCHANGED <<running, hasDb, policy, policyRow, tree, open, target, fields,
                   layoutRow, edits, lost>>

-----------------------------------------------------------------------------
(***************************************************************************)
(* Normal mode                                                             *)
(***************************************************************************)

\* q, or Ctrl-C in any mode: the loop ends and the layout is saved on the way out.
Quit == Stop /\ PersistLayout(tree) /\ UNCHANGED <<policyRow, edits>>

Crash == Stop /\ UNCHANGED <<layoutRow, policyRow, edits, lost>>

\* Tab and Shift-Tab
MoveFocus ==
    /\ NormalMode
    /\ leaves # <<>>
    /\ \E step \in {1, -1} : focus' = ((focus - 1 + step) % Len(leaves)) + 1
    /\ UNCHANGED <<ui, tree, leaves, open, target, fields, layoutRow, edits, lost>>

OpensInNormalMode(o) ==
    \/ o = "help"
    \/ o = "config" /\ HasFocus
    \/ o = "search" /\ HasFocus /\ Searchable(FocusedConfig.type)
    \/ o = "recovery" /\ HasFocus /\ FocusedConfig.type = "Backups" /\ FocusedConfig.view = "Detail"
    \/ o = "retention" /\ HasFocus /\ FocusedConfig.type = "Backups" /\ FocusedConfig.view = "Summary"

\* ?, c, /, R and E.  The retention editor is filled from the scheduler.
OpenOverlay(o) ==
    /\ NormalMode
    /\ OpensInNormalMode(o)
    /\ Show(o)
    /\ fields' = IF o = "retention" THEN policy ELSE fields
    /\ UNCHANGED <<ui, tree, leaves, focus, target, layoutRow, edits, lost>>

\* Enter and Escape in a Backups pane: nothing is saved.
DrillBackups ==
    /\ NormalMode
    /\ HasFocus /\ FocusedConfig.type = "Backups"
    /\ tree' = [tree EXCEPT ![Focused].cfg.view = IF @ = "Summary" THEN "Detail" ELSE "Summary"]
    /\ Edit
    /\ UNCHANGED <<ui, leaves, focus, open, target, fields, layoutRow, lost>>

-----------------------------------------------------------------------------
(***************************************************************************)
(* Modals                                                                  *)
(***************************************************************************)

\* Help, a recovery that is cancelled or succeeds, a session time that is
\* cancelled or parsed: the overlay closes (the rest is in other modules).
CloseModal(o) ==
    /\ o \in {"help", "recovery", "time"}
    /\ Handles(o)
    /\ Close(o)
    /\ UNCHANGED <<ui, tree, leaves, focus, target, fields, layoutRow, edits, lost>>

EditRetentionField ==
    /\ Handles("retention")
    /\ \E f \in {"days", "sessions"}, v \in Numbers \cup {EmptyField} : fields' = [fields EXCEPT ![f] = v]
    /\ Edit
    /\ UNCHANGED <<ui, tree, leaves, focus, open, target, layoutRow, lost>>

\* An empty field counts as 0.
FieldValue(v) == IF v = EmptyField THEN 0 ELSE v

SaveRetention ==
    /\ Handles("retention")
    /\ policy' = [days |-> FieldValue(fields.days), sessions |-> FieldValue(fields.sessions)]
    /\ IF ~ hasDb THEN UNCHANGED <<policyRow, lost>>
       ELSE \/ policyRow' = policy' /\ lost' = lost \ {"policy"}
            \/ lost' = lost \cup {"policy"} /\ UNCHANGED policyRow
    /\ Close("retention") /\ fields' = NoFields
    /\ UNCHANGED <<running, hasDb, clean, tree, leaves, focus, target, layoutRow, edits>>

CancelRetention ==
    /\ Handles("retention")
    /\ Close("retention") /\ fields' = NoFields
    /\ UNCHANGED <<ui, tree, leaves, focus, target, layoutRow, edits, lost>>

TypeQuery ==
    /\ Handles("search") /\ HasFocus
    /\ \E q \in BOOLEAN : tree' = [tree EXCEPT ![Focused].cfg.query = q]
    /\ Edit
    /\ UNCHANGED <<ui, leaves, focus, open, target, fields, layoutRow, lost>>

\* Enter keeps the query, Escape clears it.
EndSearch ==
    /\ Handles("search")
    /\ Close("search")
    /\ IF ~ HasFocus THEN UNCHANGED <<tree, layoutRow, lost>>
       ELSE /\ tree' \in {tree, [tree EXCEPT ![Focused].cfg.query = FALSE]}
            /\ PersistLayout(tree')
    /\ UNCHANGED <<ui, leaves, focus, target, fields, edits>>

PickCharacter ==
    /\ Handles("picker")
    /\ \E c \in Characters \cup {""} : tree' = [tree EXCEPT ![target].cfg.character = c]
    /\ PersistLayout(tree')
    /\ Close("picker") /\ target' = Root
    /\ Edit
    /\ UNCHANGED <<ui, leaves, focus, fields>>

CancelPicker ==
    /\ Handles("picker")
    /\ Close("picker") /\ target' = Root
    /\ UNCHANGED <<ui, tree, leaves, focus, fields, layoutRow, edits, lost>>

-----------------------------------------------------------------------------
(***************************************************************************)
(* Configuration menu                                                      *)
(***************************************************************************)

\* buildConfigMenu: the items that do more than redraw.
InMenu(item, p) ==
    LET c == tree[p].cfg
    IN CASE item \in {"category", "sort"}     -> c.type = "Chronicle"
         [] item = "session"                  -> c.type \in {"Session", "SessionLoot"}
         [] item = "pickCharacter"            -> c.type = "Character"
         [] item = "autoCharacter"            -> c.type = "Character" /\ c.character # ""
         [] item = "delete"                   -> HasParent(tree, p)
         [] OTHER                             -> TRUE

\* Left, Right or Enter on an item with a cycle of values: saved at once, with
\* whatever duplicates the pane makes at this moment.
CycleItem ==
    /\ Handles("config") /\ HasFocus
    /\ \E step \in {1, -1}, item \in {"type", "category", "sort", "weight"} :
          /\ InMenu(item, Focused)
          /\ tree' = SetConfig(tree, Focused,
                CASE item = "type"     -> CyclePaneType(FocusedConfig, step)
                  [] item = "category" -> CycleCategory(FocusedConfig, step)
                  [] item = "sort"     -> CycleSortKey(FocusedConfig, step)
                  [] item = "weight"   -> CyclePaneWeight(FocusedConfig, step))
    /\ PersistLayout(tree')
    /\ Edit
    /\ UNCHANGED <<ui, leaves, focus, open, target, fields>>

FaultCloseConfig ==
    /\ Handles("config") /\ HasFocus
    /\ PersistLayout(tree)
    /\ Close("config")
    /\ UNCHANGED <<ui, tree, leaves, focus, target, fields, edits>>

\* Escape and "close config menu"
CloseConfig ==
    /\ Handles("config") /\ HasFocus
    /\ tree' = ApplySingletons(tree, Focused)
    /\ PersistLayout(tree')
    /\ Close("config")
    /\ UNCHANGED <<ui, leaves, focus, target, fields, edits>>

SplitPane ==
    /\ Handles("config") /\ HasFocus
    /\ \E dir \in {"Vertical", "Horizontal"} :
          tree' = SplitLeaf(ApplySingletons(tree, Focused), Focused, dir)
    /\ PersistLayout(tree')
    /\ Close("config")
    /\ Edit
    /\ UNCHANGED <<ui, leaves, focus, target, fields>>

FaultRemovePane ==
    /\ Handles("config") /\ HasFocus
    /\ InMenu("delete", Focused)
    /\ tree' = DeletePane(tree, Focused)
    /\ PersistLayout(tree')
    /\ Close("config")
    /\ Edit
    /\ UNCHANGED <<ui, leaves, focus, target, fields>>

\* The only action that moves nodes, and the only one but Render that lists the
\* leaves again.
RemovePane ==
    /\ Handles("config") /\ HasFocus
    /\ InMenu("delete", Focused)
    /\ tree' = DeletePane(tree, Focused)
    /\ leaves' = FlattenLeaves(tree')
    /\ focus' = IF focus > Len(leaves') THEN Len(leaves') ELSE focus
    /\ PersistLayout(tree')
    /\ Close("config")
    /\ Edit
    /\ UNCHANGED <<ui, target, fields>>

FaultLeaveForModal ==
    /\ Handles("config") /\ HasFocus
    /\ \/ /\ InMenu("session", Focused)
          /\ open' = open \cup {"time"} /\ UNCHANGED target
       \/ /\ InMenu("pickCharacter", Focused)
          /\ open' = open \cup {"picker"} /\ target' = Focused
    /\ PersistLayout(tree)
    /\ UNCHANGED <<ui, tree, leaves, focus, fields, edits>>

\* Items that leave the menu for a modal.
LeaveForModal ==
    /\ Handles("config") /\ HasFocus
    /\ \/ /\ InMenu("session", Focused)
          /\ Switch("config", "time") /\ UNCHANGED target
       \/ /\ InMenu("pickCharacter", Focused)
          /\ Switch("config", "picker") /\ target' = Focused
    /\ PersistLayout(tree)
    /\ UNCHANGED <<ui, tree, leaves, focus, fields, edits>>

ResetCharacterToAuto ==
    /\ Handles("config") /\ HasFocus
    /\ InMenu("autoCharacter", Focused)
    /\ tree' = [tree EXCEPT ![Focused].cfg.character = ""]
    /\ PersistLayout(tree')
    /\ Close("config")
    /\ UNCHANGED <<ui, leaves, focus, target, fields, edits>>

Next ==
    \/ Start \/ Render \/ Quit \/ Crash \/ MoveFocus \/ DrillBackups
    \/ \E o \in Overlays : OpenOverlay(o) \/ CloseModal(o)
    \/ EditRetentionField \/ SaveRetention \/ CancelRetention
    \/ TypeQuery \/ EndSearch \/ PickCharacter \/ CancelPicker
    \/ CycleItem \/ CloseConfig \/ SplitPane \/ RemovePane
    \/ LeaveForModal \/ ResetCharacterToAuto

Spec == Init /\ [][Next]_vars

-----------------------------------------------------------------------------
(***************************************************************************)
(* Properties                                                              *)
(***************************************************************************)

\* What a pane of each type shows; the view of a Backups pane may be left behind.
Looks(c) ==
    <<c.type, c.weight,
      IF c.type = "Chronicle" THEN <<c.category, c.sort>> ELSE <<>>,
      IF c.type \in {"Character", "SessionLoot"} THEN <<c.character>> ELSE <<>>,
      IF c.type \in {"Chronicle", "Inventory", "Reconcile"} THEN <<c.query>> ELSE <<>> >>

SameLayout(s, t) ==
    /\ DOMAIN s = DOMAIN t
    /\ \A p \in DOMAIN s :
          IF s[p].split THEN t[p].split /\ s[p].dir = t[p].dir
          ELSE ~ t[p].split /\ Looks(s[p].cfg) = Looks(t[p].cfg)

\* The flags, lists and rows have the values the program's types allow, the tree and
\* the stored one are trees, and the focus is the position of some pane, also when the
\* list of panes is that of an older frame.
TypeOK ==
    /\ open \subseteq Overlays
    /\ policy \in Policies /\ policyRow \in Policies
    /\ IsTree(tree) /\ (layoutRow = NoLayout \/ IsTree(layoutRow))
    /\ focus \in 1..Cardinality(Leaves(tree))

\* "Overlay modes. Only one is active at a time": no sequence of keys leaves two
\* flags set, of which the handler would serve the first and the screen show both.
OneOverlay == Cardinality(open) <= 1

\* The pointers that keys act through name nodes that still exist, however many
\* keys come between two renders.
PointersAlive ==
    /\ ToSet(leaves) \subseteq DOMAIN tree
    /\ target \in DOMAIN tree
    /\ "picker" \in open => tree[target].cfg.type = "Character"

\* Outside the configuration menu a category has at most one pane, and so has the
\* inventory: "the commit path decides which pane wins".  Two things break it, a
\* stored layout that already had a pane twice and a menu that a late render has
\* moved to another pane.
SingletonPanes == running /\ clean /\ "config" \notin open => NoDuplicates(tree)

LayoutSurvives ==
    "layout" \notin lost /\ open \cap {"config", "search"} = {} /\ TreeHasTopRowPane(tree)
    => SameLayout(LoadPaneTree(layoutRow, TRUE), tree)

PolicySurvives == "policy" \notin lost => policy = policyRow

\* A crash costs nothing the user has finished doing, as long as the last read or write
\* of the table went through: the layout that would be loaded is the one on the screen,
\* but for drilled-in Backups panes, and the policy is the one in force.  (A layout
\* without top-row panes is migrated again at every start.  A start whose read fails
\* shows the defaults; it is not covered until a write has put them over the stored
\* settings, which the code does not try to keep.)
SettingsSurvive == running /\ hasDb => LayoutSurvives /\ PolicySurvives

\* Panes cover the screen without overlap, if every weight unit gets a cell.
PanesTile ==
    \A s \in Screens :
        LET e == Extent(tree, s.w, s.h)
        IN s.w >= Share(tree, "Vertical")[Root] /\ s.h >= Share(tree, "Horizontal")[Root]
           => /\ \A p \in Leaves(tree) : e[p].w >= 1 /\ e[p].h >= 1
              /\ MapThenSumSet(LAMBDA p : e[p].w * e[p].h, Leaves(tree)) = s.w * s.h
=============================================================================
