--------------------------- MODULE InventoryTree ----------------------------
(***************************************************************************)
(* The two-level tree of the Inventory pane: the shared stash and the      *)
(* characters, their sections, and the items in them.  The three counted   *)
(* sections of the stash's material tab list their whole catalog, owned or *)
(* not.                                                                    *)
(*                                                                         *)
(* An item is [id, words, stash, tab, owner, sub, code, class, quality,    *)
(* stacks, slot]: id in the order of names, words the texts a query can    *)
(* hit, slot true for what lies in the material tab.  A path is a tuple.   *)
(*                                                                         *)
(* Modelled from src/dashboard_ftxui.cpp and include/d2r/DashboardModel.hpp. *)
(***************************************************************************)
EXTENDS Integers, Sequences, SequencesExt, FiniteSetsExt, Functions, Ranked

CONSTANTS
    Owners,    \* the characters' names, in order
    Catalog,   \* section -> its codes in order
    NameOf,    \* code -> the name in the catalog
    NoQuery    \* the empty search

Stash == "Shared Stash"
SharedSubOrder == <<"Page 1", "Page 2", "Page 3", "Page 4", "Page 5", "Gems", "Materials", "Runes">>
CharSubOrder == <<"Equipped", "Inventory", "Stash", "Belt", "Cube", "Merc", "Corpse", "Iron Golem">>
CountSections == DOMAIN Catalog

\* No character has the stash's name, and each code has one place in the catalog.
ASSUME TreeAssumption ==
    /\ Owners \in Seq(ToSet(Owners)) /\ IsInjective(Owners) /\ Stash \notin ToSet(Owners)
    /\ \A label \in CountSections :
          Catalog[label] \in Seq(DOMAIN NameOf) /\ IsInjective(Catalog[label])

\* effectiveStackCount
EffectiveStackCount(it) == IF it.slot \/ it.stacks > 0 THEN it.stacks ELSE 1

\* filterInventory: what lies in the material tab is not junk of any quality.
FilterInventory(items, mask, query) ==
    {it \in items : (it.slot \/ it.quality \in mask) /\ (query = NoQuery \/ query \in it.words)}

-----------------------------------------------------------------------------
TopLevelOf(it) == IF it.stash THEN Stash ELSE it.owner

SubLevelOf(it) ==
    CASE it.stash /\ it.tab \in 1..5            -> SharedSubOrder[it.tab]
      [] it.stash /\ it.tab \notin 1..5 /\ it.class = "rune" -> "Runes"
      [] it.stash /\ it.tab \notin 1..5 /\ it.class = "gem"  -> "Gems"
      [] it.stash /\ it.tab \notin 1..5 /\ it.class \notin {"rune", "gem"} -> "Materials"
      [] OTHER                                  -> it.sub

\* What a snapshot holds: in the material tab each code has one slot.
IsInventory(items) ==
    /\ IsFiniteSet(items)
    /\ \A it \in items :
          /\ it.id \in Nat /\ it.stacks \in Nat /\ it.tab \in Nat
          /\ it.stash \in BOOLEAN /\ it.slot \in BOOLEAN
          /\ ~ it.stash => it.owner \in ToSet(Owners) /\ it.sub \in ToSet(CharSubOrder)
    /\ \A a, b \in items : a.id = b.id => a = b
    /\ \A a, b \in items :
          SubLevelOf(a) \in CountSections /\ SubLevelOf(a) = SubLevelOf(b) /\ a.code = b.code => a = b

ByName(items) == Sorted(items, LAMBDA a, b : a.id < b.id)

Owned(it) == [owned |-> TRUE, id |-> it.id]
Missing(code) == [owned |-> FALSE, id |-> code]

FaultCountEntries(label, raw, query) ==
    LET owned == {it \in raw : EffectiveStackCount(it) > 0}
        Entry(code) ==
            IF \E it \in owned : it.code = code
            THEN Owned(CHOOSE it \in owned : it.code = code) ELSE Missing(code)
        listed == Filtered(Catalog[label],
                            LAMBDA code : query = NoQuery \/ query = NameOf[code]
                                          \/ \E it \in owned : it.code = code)
    IN [i \in DOMAIN listed |-> Entry(listed[i])]

\* The catalog in its order, with a placeholder for what is not owned; then what is
\* owned and not in the catalog.
CountEntries(label, raw, query) ==
    LET owned == {it \in raw : EffectiveStackCount(it) > 0}
        Entry(code) ==
            IF \E it \in owned : it.code = code
            THEN Owned(CHOOSE it \in owned : it.code = code) ELSE Missing(code)
        listed == Filtered(Catalog[label],
                            LAMBDA code : query = NoQuery \/ query = NameOf[code]
                                          \/ \E it \in owned : it.code = code)
        strays == ByName({it \in owned : it.code \notin ToSet(Catalog[label])})
    IN [i \in DOMAIN listed |-> Entry(listed[i])] \o [i \in DOMAIN strays |-> Owned(strays[i])]

\* makeSection, without the counts of its header.
Section(top, label, raw, query) ==
    [path    |-> <<top, label>>,
     counted |-> label \in CountSections,
     owns    |-> raw # {},
     entries |-> IF label \in CountSections THEN CountEntries(label, raw, query)
                 ELSE LET sorted == ByName(raw) IN [i \in DOMAIN sorted |-> Owned(sorted[i])]]

Raw(items, top, label) == {it \in items : TopLevelOf(it) = top /\ SubLevelOf(it) = label}

\* A section appears with an item in it; a counted one under a search also with a
\* placeholder alone.  What the last line takes up again was left out for want of
\* entries.
SectionsOf(items, top, query) ==
    LET order == IF top = Stash THEN SharedSubOrder ELSE CharSubOrder
        all == [i \in DOMAIN order |-> Section(top, order[i], Raw(items, top, order[i]), query)]
        Shows(sec) == /\ sec.owns \/ (sec.counted /\ query # NoQuery)
                      /\ sec.entries # << >>
    IN Filtered(all, Shows) \o Filtered(all, LAMBDA sec : ~ Shows(sec) /\ sec.owns)

\* buildInventoryTree: the stash, then the characters; none without an item.
BuildInventoryTree(items, query) ==
    LET tops == <<Stash>> \o Owners
        all == [i \in DOMAIN tops |->
                   [path     |-> <<tops[i]>>,
                    owns     |-> \E it \in items : TopLevelOf(it) = tops[i],
                    sections |-> SectionsOf(items, tops[i], query)]]
    IN Filtered(all, LAMBDA top : top.owns)

-----------------------------------------------------------------------------
HeaderRow(path) == [kind |-> "header", path |-> path, entry |-> << >>]
ItemRow(section, entry) == [kind |-> "item", path |-> section, entry |-> entry]

\* The header above a row: of an item its section's, of a section its top level's.
ParentPath(row) == IF row.kind = "item" THEN row.path ELSE Front(row.path)

\* Every row there is, top levels and sections in their order.
RowsOf(tree) ==
    FlattenSeq([t \in DOMAIN tree |->
        <<HeaderRow(tree[t].path)>>
        \o FlattenSeq([s \in DOMAIN tree[t].sections |->
               LET section == tree[t].sections[s]
               IN <<HeaderRow(section.path)>>
                  \o [i \in DOMAIN section.entries |-> ItemRow(section.path, section.entries[i])]])])

\* A search opens everything and leaves the expansions alone.
IsOpen(path, expanded, searching) == searching \/ path \in expanded

\* emitInventoryRows: what lies under open headers only.
EmitInventoryRows(rows, expanded, searching) ==
    Filtered(rows, LAMBDA row : \A n \in 1..Len(ParentPath(row)) :
                                    IsOpen(SubSeq(ParentPath(row), 1, n), expanded, searching))

CollectExpandablePaths(tree) ==
    UNION {{tree[t].path} \cup {sec.path : sec \in ToSet(tree[t].sections)} : t \in DOMAIN tree}
=============================================================================
