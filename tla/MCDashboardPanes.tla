-------------------------- MODULE MCDashboardPanes ---------------------------
(***************************************************************************)
(* Instances of DashboardPanes for TLC: a cycle of pane types with one     *)
(* member of each group that the code treats alike.                        *)
(***************************************************************************)
EXTENDS DashboardPanes

MCPaneTypes == <<"Blank", "Chronicle", "Inventory", "Backups", "Session", "Character">>
MCCategories == <<"Sets", "UniquesAll">>
MCCharacters == {"Kai"}
MCNumbers == {5}
MCScreens == {[w |-> 180, h |-> 60], [w |-> 7, h |-> 5]}

\* A layout of one chain, stored before there was a top row, and a small one of
\* today.
MCStoredLayouts ==
    {ToJson(Join("Vertical", MakeLeaf("Chronicle", "Sets"), MakeLeaf("Inventory", "Sets"))),
     ToJson(Join("Horizontal", MakeLeaf("Character", "Sets"),
                 Join("Vertical", MakeLeaf("Chronicle", "Sets"), MakeLeaf("Backups", "Sets"))))}
=============================================================================
