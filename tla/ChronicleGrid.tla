--------------------------- MODULE ChronicleGrid ----------------------------
(***************************************************************************)
(* The list and the by-tier grid of the Chronicle pane.  The grid aligns   *)
(* the normal, exceptional and elite uniques of one family of bases in     *)
(* three columns, under a banner for each class of items.                  *)
(*                                                                         *)
(* A unique is [id, words, tier, family, type, level]: id in the order of  *)
(* display names, tier 1 to 3 or None, family and type numbers in the      *)
(* order of the bases and of the classes, Misc last.                       *)
(*                                                                         *)
(* Modelled from src/dashboard_ftxui.cpp.                                  *)
(***************************************************************************)
EXTENDS Integers, Sequences, SequencesExt, FiniteSetsExt, Ranked

CONSTANTS
    Uniques,     \* the rows of the chronicle
    Misc,        \* the class of what has no tier
    AnyWord      \* the empty search

Tiers == 1..3
None == 0
Ownerships == {"All", "RemainingOnly", "DiscoveredOnly"}

\* Names differ, and what has a tier is of a class of its own kind, never of the last.
ASSUME UniquesAssumption ==
    /\ IsFiniteSet(Uniques) /\ Misc \in Nat \ {None}
    /\ \A u \in Uniques :
          /\ u.id \in Nat \ {None} /\ u.tier \in Tiers \cup {None}
          /\ u.family \in Nat /\ u.level \in Nat /\ u.type \in Nat \ {None}
          /\ u.tier # None => u.type # Misc
    /\ \A u, v \in Uniques : u.id = v.id => u = v

Passes(u, found, ownership, word) ==
    /\ u.id \in found => ownership # "RemainingOnly"
    /\ u.id \notin found => ownership # "DiscoveredOnly"
    /\ word = AnyWord \/ word \in u.words

\* filterForLeaf; the order of the list is the sort key's.
FilterForLeaf(found, ownership, word) == {u \in Uniques : Passes(u, found, ownership, word)}

-----------------------------------------------------------------------------
\* What has no tier is a family of its own, in the first column.
FaultFamilyOf(u) == [misc |-> u.tier = None, key |-> u.family]
FamilyOf(u) == [misc |-> u.tier = None, key |-> IF u.tier = None THEN u.id ELSE u.family]
Column(u) == IF u.tier = None THEN 1 ELSE u.tier
Families == {FamilyOf(u) : u \in Uniques}
Members == [fam \in Families |-> {u \in Uniques : FamilyOf(u) = fam}]
AMember == [fam \in Families |-> CHOOSE u \in Members[fam] : TRUE]
TypeOf == [fam \in Families |-> IF fam.misc THEN Misc ELSE AMember[fam].type]

\* The uniques of a family in one column, by name.
Bucket(fam, t) == Sorted({u \in Members[fam] : Column(u) = t}, LAMBDA a, b : a.id < b.id)

\* As many rows as the longest column needs.
DataRows == [fam \in Families |->
    LET buckets == [t \in Tiers |-> Bucket(fam, t)]
    IN [i \in 1..Max({Len(buckets[t]) : t \in Tiers}) |->
           [banner |-> None,
            cells  |-> [t \in Tiers |-> IF i <= Len(buckets[t]) THEN buckets[t][i].id ELSE None]]]]

\* A family stays, whole, as long as one of its cells passes.
Survives(fam, found, ownership, word) ==
    \E u \in Members[fam] : Passes(u, found, ownership, word)

FamilyOrder(a, b) ==
    LET la == AMember[a].level  lb == AMember[b].level
    IN \/ TypeOf[a] < TypeOf[b]
       \/ TypeOf[a] = TypeOf[b] /\ la < lb
       \/ TypeOf[a] = TypeOf[b] /\ la = lb /\ a.key < b.key

BannerRow(type) == [banner |-> type, cells |-> << >>]

\* A banner where the class changes, then the rows of each family.
DisplayRows(found, ownership, word, asc) ==
    LET fams == Sorted({f \in Families : Survives(f, found, ownership, word)},
                       LAMBDA a, b : IF asc THEN FamilyOrder(a, b) ELSE FamilyOrder(b, a))
        Rows(i) == (IF i = 1 \/ TypeOf[fams[i - 1]] # TypeOf[fams[i]]
                    THEN <<BannerRow(TypeOf[fams[i]])>> ELSE << >>) \o DataRows[fams[i]]
    IN FlattenSeq([i \in DOMAIN fams |-> Rows(i)])

IsData(row) == row.banner = None

\* The display row under the cursor, which counts data rows alone; 0 if none.
CursorRow(rows, cursor) ==
    LET data == {i \in DOMAIN rows : IsData(rows[i])}
        at   == Max({0, Min({cursor, Cardinality(data) - 1})})
    IN IF data = {} THEN 0
       ELSE CHOOSE i \in data : Cardinality({j \in data : j < i}) = at
=============================================================================
