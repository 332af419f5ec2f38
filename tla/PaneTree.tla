------------------------------ MODULE PaneTree ------------------------------
(***************************************************************************)
(* The pane tree of the dashboard and the operations on it.  A tree is a   *)
(* function from the paths of its nodes; a path is the sequence of sides,  *)
(* 1 for `a` and 2 for `b`, that leads to the node from the root.  A       *)
(* PaneNode* of the program is a path: it keeps naming the same node while *)
(* leaves are split, and only deletePane moves nodes.                      *)
(*                                                                         *)
(* Of a PaneConfig the model keeps the fields that decide how panes act on *)
(* each other, one representative field that only some types save (the     *)
(* character selection), and drops the display options of single types.    *)
(*                                                                         *)
(* Modelled from src/dashboard_config.cpp and src/dashboard_ftxui.cpp.     *)
(***************************************************************************)
EXTENDS Integers, FiniteSets, SequencesExt

CONSTANTS
    PaneTypes,   \* the pane types, in the order the configuration menu cycles
    Categories,  \* the chronicle categories, likewise
    Characters   \* names a Character pane can be pinned to

ASSUME PaneAssumption ==
    /\ \A s \in {PaneTypes, Categories} : Len(s) \in Nat /\ DOMAIN s = 1..Len(s)
    /\ {"Blank", "Chronicle", "Inventory"} \subseteq ToSet(PaneTypes)
    /\ {"Sets", "UniquesAll"} \subseteq ToSet(Categories)
    /\ "" \notin Characters

Root == <<>>

\* The types of the panes above the chronicle, which old layouts do not have.
TopRowTypes == {"Character", "Uber", "TerrorZone", "SessionLoot"}

PaneConfig ==
    [type: ToSet(PaneTypes) \cup TopRowTypes, category: ToSet(Categories),
     sort: {"Name", "Base", "Owned", "Tier"}, weight: Nat \ {0},
     view: {"Summary", "Detail"}, character: Characters \cup {""}, query: BOOLEAN]

PaneNode == [split: BOOLEAN, dir: {"Vertical", "Horizontal"}, cfg: PaneConfig]

\* A default-constructed PaneConfig.  `query`: a search query is set.
NewConfig ==
    [type |-> "Blank", category |-> "Sets", sort |-> "Base", weight |-> 1,
     view |-> "Summary", character |-> "", query |-> FALSE]

LeafNode(config) == [split |-> FALSE, dir |-> "Vertical", cfg |-> config]
SplitNode(dir) == [split |-> TRUE, dir |-> dir, cfg |-> NewConfig]

Leaves(tree) == {p \in DOMAIN tree : ~ tree[p].split}

\* Every split has both children, and nothing hangs below a leaf.
IsTree(tree) ==
    /\ IsFiniteSet(DOMAIN tree) /\ DOMAIN tree \subseteq Seq({1, 2})
    /\ tree \in [DOMAIN tree -> PaneNode]
    /\ Root \in DOMAIN tree
    /\ \A p \in DOMAIN tree \ {Root} : Front(p) \in DOMAIN tree /\ tree[Front(p)].split
    /\ \A p \in DOMAIN tree : tree[p].split => {p \o <<1>>, p \o <<2>>} \subseteq DOMAIN tree

-----------------------------------------------------------------------------
(***************************************************************************)
(* Building and cutting trees                                              *)
(***************************************************************************)

Single(config) == [p \in {Root} |-> LeafNode(config)]

Join(dir, a, b) ==
    [p \in {Root} \cup {<<1>> \o q : q \in DOMAIN a} \cup {<<2>> \o q : q \in DOMAIN b} |->
        IF p = Root THEN SplitNode(dir) ELSE (IF p[1] = 1 THEN a ELSE b)[Tail(p)]]

SubtreeAt(tree, p) ==
    [q \in {SubSeq(r, Len(p) + 1, Len(r)) : r \in {s \in DOMAIN tree : IsPrefix(p, s)}}
        |-> tree[p \o q]]

\* `tree` with everything at and below p replaced.
Graft(tree, p, subtree) ==
    [q \in {r \in DOMAIN tree : ~ IsPrefix(p, r)} \cup {p \o r : r \in DOMAIN subtree} |->
        IF IsPrefix(p, q) THEN subtree[SubSeq(q, Len(p) + 1, Len(q))] ELSE tree[q]]

MakeLeaf(type, category) == Single([NewConfig EXCEPT !.type = type, !.category = category])

\* buildVerticalChain folds its panes from the right.
Beside(a, rest) == Join("Vertical", a, rest)

SetLeafWeight(tree, w) ==
    [p \in DOMAIN tree |-> IF tree[p].split THEN tree[p] ELSE [tree[p] EXCEPT !.cfg.weight = w]]

TopRow ==
    SetLeafWeight(Beside(MakeLeaf("Character", "Sets"),
                  Beside(MakeLeaf("Uber", "Sets"),
                  Beside(MakeLeaf("TerrorZone", "Sets"), MakeLeaf("SessionLoot", "Sets")))), 12)

MakeDefaultLayout ==
    Join("Horizontal", TopRow,
         SetLeafWeight(Beside(MakeLeaf("Chronicle", "Sets"),
                       Beside(MakeLeaf("Chronicle", "UniquesAll"),
                              MakeLeaf("Inventory", "Sets"))), 40))

-----------------------------------------------------------------------------
(***************************************************************************)
(* Traversal                                                               *)
(***************************************************************************)

\* The depth-first order of two leaves.
Before(p, q) ==
    \E i \in DOMAIN p \cap DOMAIN q :
        p[i] < q[i] /\ SubSeq(p, 1, i - 1) = SubSeq(q, 1, i - 1)

FlattenLeaves(tree) ==
    [i \in 1..Cardinality(Leaves(tree)) |->
        CHOOSE p \in Leaves(tree) : Cardinality({q \in Leaves(tree) : Before(q, p)}) = i - 1]

\* findParent(root, p) # nullptr
HasParent(tree, p) == p \in DOMAIN tree /\ p # Root

-----------------------------------------------------------------------------
(***************************************************************************)
(* Changing the tree                                                       *)
(***************************************************************************)

\* Turns the node at p into a split, whatever it was.
SplitLeaf(tree, p, dir) ==
    Graft(tree, p, Join(dir, Single(tree[p].cfg), Single(NewConfig)))

FaultDeletePane(tree, p) ==
    IF ~ HasParent(tree, p) THEN tree
    ELSE [q \in {r \in DOMAIN tree : ~ IsPrefix(p, r)} |-> tree[q]]

\* The sibling takes the place of the parent.
DeletePane(tree, p) ==
    IF ~ HasParent(tree, p) THEN tree
    ELSE Graft(tree, Front(p), SubtreeAt(tree, Front(p) \o <<3 - Last(p)>>))

BlankPanes(tree, panes) ==
    [p \in DOMAIN tree |-> IF p \in panes THEN [tree[p] EXCEPT !.cfg.type = "Blank"] ELSE tree[p]]

PanesOfCategory(tree, cat) ==
    {p \in Leaves(tree) : tree[p].cfg.type = "Chronicle" /\ tree[p].cfg.category = cat}
InventoryPanes(tree) == {p \in Leaves(tree) : tree[p].cfg.type = "Inventory"}

EnforceCategorySingleton(tree, keep, cat) ==
    BlankPanes(tree, PanesOfCategory(tree, cat) \ {keep})
EnforceInventorySingleton(tree, keep) ==
    BlankPanes(tree, InventoryPanes(tree) \ {keep})

\* applySingletons: what committing the configuration of the pane at p does.
ApplySingletons(tree, p) ==
    LET c == tree[p].cfg
    IN CASE c.type = "Chronicle" -> EnforceCategorySingleton(tree, p, c.category)
         [] c.type = "Inventory" -> EnforceInventorySingleton(tree, p)
         [] OTHER                -> tree

SetConfig(tree, p, config) == [tree EXCEPT ![p].cfg = config]

\* The neighbour of x in the cycle s; an unknown value counts as the first.
Cycle(s, x, step) ==
    LET i == IF x \in ToSet(s) THEN CHOOSE k \in DOMAIN s : s[k] = x ELSE 1
    IN s[((i - 1 + step) % Len(s)) + 1]

CyclePaneType(c, step) ==
    [c EXCEPT !.type = Cycle(PaneTypes, @, step), !.view = "Summary"]

CycleCategory(c, step) ==
    LET cat == Cycle(Categories, c.category, step)
    IN [c EXCEPT !.category = cat,
                 !.sort = IF @ = "Tier" /\ cat # "UniquesAll" THEN "Base" ELSE @]

SortKeys(cat) ==
    IF cat = "UniquesAll" THEN <<"Name", "Base", "Owned", "Tier">> ELSE <<"Name", "Base", "Owned">>
CycleSortKey(c, step) == [c EXCEPT !.sort = Cycle(SortKeys(c.category), @, step)]

CyclePaneWeight(c, step) == [c EXCEPT !.weight = ((@ - 1 + step) % 4) + 1]

-----------------------------------------------------------------------------
(***************************************************************************)
(* The stored layout                                                       *)
(***************************************************************************)

Searchable(type) == type \in {"Chronicle", "Inventory", "Reconcile"}

FaultPersisted(c) == [NewConfig EXCEPT !.type = c.type, !.weight = c.weight]

\* toJson writes a field only for the types that use it; fromJson gives the
\* others their defaults.
Persisted(c) ==
    [NewConfig EXCEPT
        !.type      = c.type,
        !.weight    = c.weight,
        !.category  = IF c.type = "Chronicle" THEN c.category ELSE @,
        !.sort      = IF c.type = "Chronicle" THEN c.sort ELSE @,
        !.view      = IF c.type = "Backups" THEN c.view ELSE @,
        !.character = IF c.type \in {"Character", "SessionLoot"} THEN c.character ELSE @,
        !.query     = Searchable(c.type) /\ c.query]

ToJson(tree) ==
    [p \in DOMAIN tree |->
        IF tree[p].split THEN SplitNode(tree[p].dir) ELSE LeafNode(Persisted(tree[p].cfg))]

TreeHasTopRowPane(tree) ==
    \E p \in Leaves(tree) : tree[p].cfg.type \in TopRowTypes

MigrateLegacyLayout(tree) == Join("Horizontal", TopRow, SetLeafWeight(tree, 40))

\* The empty function stands for a table without a layout.
NoLayout == <<>>

\* `read`: the query gave its row (sqlite3_prepare or sqlite3_step can fail, on a lock
\* for example); without one the default layout stands in for the stored one.
LoadPaneTree(stored, read) ==
    IF ~ read \/ stored = NoLayout THEN MakeDefaultLayout
    ELSE IF TreeHasTopRowPane(stored) THEN stored
    ELSE MigrateLegacyLayout(stored)

-----------------------------------------------------------------------------
(***************************************************************************)
(* Layout on the screen                                                    *)
(***************************************************************************)
LOCAL Larger(a, b) == IF a > b THEN a ELSE b

\* Number of strips along an axis: `along` is the direction of the splits that
\* add up ("Vertical" for widthShare, "Horizontal" for heightShare).
Share(tree, along) ==
    LET share[p \in DOMAIN tree] ==
            IF ~ tree[p].split THEN tree[p].cfg.weight
            ELSE LET a == share[p \o <<1>>]
                     b == share[p \o <<2>>]
                 IN IF tree[p].dir = along THEN a + b ELSE Larger(a, b)
    IN share

\* The first child's part of `room` cells, and what is left for the second.
FirstPart(room, a, b) == Larger(1, (room * a) \div Larger(1, a + b))
FaultSecondPart(room, a, b) == Larger(1, (room * b) \div Larger(1, a + b))

SecondPart(room, a, b) == Larger(1, room - FirstPart(room, a, b))

\* renderPane: the cells each node gets.
Extent(tree, width, height) ==
    LET wide == Share(tree, "Vertical")
        high == Share(tree, "Horizontal")
        extent[p \in DOMAIN tree] ==
            IF p = Root THEN [w |-> width, h |-> height]
            ELSE LET up == extent[Front(p)]
                     a == Front(p) \o <<1>>
                     b == Front(p) \o <<2>>
                     Part(room, share) == IF p = a THEN FirstPart(room, share[a], share[b])
                                          ELSE SecondPart(room, share[a], share[b])
                 IN IF tree[Front(p)].dir = "Vertical"
                    THEN [up EXCEPT !.w = Part(up.w, wide)]
                    ELSE [up EXCEPT !.h = Part(up.h, high)]
    IN extent
=============================================================================
