-------------------------- MODULE AccountSnapshot ---------------------------
(***************************************************************************)
(* What the dashboard makes of the save files: the rows of each file, the  *)
(* snapshot they aggregate to (inventory, totals, chronicle, reconcile),   *)
(* the same snapshot with files rewound to earlier bytes, and the session  *)
(* panes' difference between the two.  Pure operators: the state is in     *)
(* module Account.                                                         *)
(*                                                                         *)
(* A file's bytes are the items in it, each in a part (a character's own   *)
(* items, its mercenary, corpse and golem; a tab of the stash) or in the   *)
(* sockets of another; the header's timestamp; the stash's chronicle.      *)
(* Characters are numbered in the order of their file names; the stash,    *)
(* which is aggregated first, is 0.                                        *)
(*                                                                         *)
(* Modelled from src/dashboard_model.cpp and include/d2r/SunderCharms.hpp. *)
(***************************************************************************)
EXTENDS Integers, FiniteSets, FiniteSetsExt, Functions

CONSTANTS
    Chars,    \* character files
    Catalog,  \* item -> [quality, id, code, fingerprint, slot, readable]
    Listed    \* <<quality, id>> of the uniques and sets of the chronicle

ASSUME AccountSnapshotAssumption ==
    /\ Chars \subseteq Nat \ {0} /\ DOMAIN Catalog \subseteq Nat \ {0}
    /\ IsFiniteSet(Chars) /\ IsFiniteSet(DOMAIN Catalog)
    /\ \A i \in DOMAIN Catalog : Catalog[i].id \in Nat

Stash == 0
Files == Chars \cup {Stash}
Items == DOMAIN Catalog
Absent == [stamp |-> -1]   \* no file, no cache entry, no backup row
Nowhere == <<-1, 0>>       \* an empty location
Named == {"unique", "set"}

ASSUME ListedAssumption == Listed \subseteq Named \X Nat

Present(files) == {f \in Files : files[f] # Absent}

-----------------------------------------------------------------------------
(***************************************************************************)
(* parseD2sIntoEntry, parseD2iIntoEntry                                    *)
(***************************************************************************)

\* The position in its section, for something in a socket that of the item around it.
Top(x) == IF x.host = 0 THEN x.item ELSE x.host

\* A section, be it a character's items, a mercenary's, a corpse's, a golem or a tab,
\* yields what comes before the first item that does not parse.
Parses(b, x) ==
    \A y \in b.items : Catalog[y.item].readable \/ y.part # x.part \/ Top(x) < Top(y)

Row(f, x) == [item |-> x.item, loc |-> <<f, x.part>>, known |-> x.known,
              stacks |-> x.stacks, socketed |-> x.host # 0]

FileRows(f, b) == {Row(f, x) : x \in {y \in b.items : Parses(b, y)}}
StashRows(b) == FileRows(Stash, b)

Quality(r) == Catalog[r.item].quality
IdOf(r) == <<Quality(r), Catalog[r.item].id>>

\* What the file says is owned.
OwnedLocs(rows) == {<<IdOf(r), r.loc>> : r \in {x \in rows : Quality(x) \in Named}}

\* Where a character wears or carries something listed: the only places the chronicle
\* names, as the stash fills no such list.
ChronLocs(rows) ==
    {<<IdOf(r), r.loc>> :
        r \in {x \in rows : IdOf(x) \in Listed /\ ~ x.socketed /\ x.loc[1] # Stash}}

\* countQuestItem: an empty slot counts as one.
QuestQty(r) == IF r.stacks > 0 THEN r.stacks ELSE 1
IsTorch(r) == IdOf(r) = <<"unique", 400>> /\ Catalog[r.item].code = "cm2"
CountIn(rows, code) ==
    MapThenSumSet(QuestQty, {r \in rows : Catalog[r.item].code = code /\ (code = "cm2" => IsTorch(r))})

-----------------------------------------------------------------------------
(***************************************************************************)
(* aggregateDashboardSnapshot                                              *)
(***************************************************************************)

Inventory(cache) ==
    (IF cache[Stash] = Absent THEN {} ELSE StashRows(cache[Stash]))
    \cup UNION {FileRows(c, cache[c]) : c \in Present(cache) \ {Stash}}
Found(cache) == IF cache[Stash] = Absent THEN {} ELSE cache[Stash].found

\* mergeQuestCounts, the stash first
Total(cache, code) == MapThenSumSet(LAMBDA f : CountIn(FileRows(f, cache[f]), code), Present(cache))

\* try_emplace: the first file in the order of aggregation, its first section.
LocationOf(locs, id) ==
    LET all == {l[2] : l \in {x \in locs : x[1] = id}}
        Before(a, b) == a[1] < b[1] \/ (a[1] = b[1] /\ a[2] <= b[2])
    IN IF all = {} THEN Nowhere ELSE CHOOSE l \in all : \A m \in all : Before(l, m)

HasActivePlayer(cache) == \E c \in Chars : cache[c] # Absent

\* The newest timestamp; of equal ones the first name.
ActivePlayer(cache) ==
    LET chars == Present(cache) \ {Stash}
    IN CHOOSE c \in chars : \A d \in chars :
           \/ cache[d].stamp < cache[c].stamp
           \/ cache[d].stamp = cache[c].stamp /\ c <= d

\* kSunderPairs: the charm that drops and the charm it is crafted to.
SunderPairs == {<<426, 427>>, <<428, 433>>, <<429, 434>>, <<430, 435>>, <<431, 436>>, <<432, 437>>}

SunderPairedId(id) ==
    LET other == {p[2] : p \in {q \in SunderPairs : q[1] = id}}
                 \cup {p[1] : p \in {q \in SunderPairs : q[2] = id}}
    IN IF other = {} THEN 0 ELSE CHOOSE o \in other : TRUE

\* The two names of a charm; every other thing has one.
Siblings(id) ==
    LET pair == SunderPairedId(id[2])
    IN IF id[1] = "unique" /\ pair # 0 THEN {id, <<"unique", pair>>} ELSE {id}

FaultCanonical(id) == id

SunderCanonical(id) == CHOOSE k \in Siblings(id) : \A l \in Siblings(id) : k[2] <= l[2]

Discovered(cache, id) == Siblings(id) \cap Found(cache) # {}

Chronicle(cache) ==
    LET locs == ChronLocs(Inventory(cache))
    IN {[id |-> id, discovered |-> Discovered(cache, id), location |-> LocationOf(locs, id)] : id \in Listed}

\* One row for what is owned but not in the chronicle, or the other way round.
Reconcile(cache) ==
    LET locs == OwnedLocs(Inventory(cache))
        owned == {l[1] : l \in locs}
        ids == {SunderCanonical(id) : id \in owned \cup Found(cache)}
        Owned(id) == Siblings(id) \cap owned # {}
        Where(id) == IF id \in owned \/ ~ Owned(id) THEN LocationOf(locs, id)
                     ELSE LocationOf(locs, CHOOSE k \in Siblings(id) : k # id)
        Entry(id) == [id |-> id, owned |-> Owned(id), discovered |-> Discovered(cache, id),
                      location |-> Where(id)]
    IN {Entry(id) : id \in {k \in ids : Owned(k) # Discovered(cache, k)}}

\* The Uber pane's table: per character and for the stash, from the cache itself.
TorchesOf(cache, f) == IF cache[f] = Absent THEN 0 ELSE CountIn(FileRows(f, cache[f]), "cm2")

-----------------------------------------------------------------------------
(***************************************************************************)
(* The past: a snapshot with files rewound                                 *)
(***************************************************************************)

FaultStripped(rows, files) == {r \in rows : r.loc[1] \notin files \/ r.socketed}

\* By the prefix of the location.
Stripped(rows, files) == {r \in rows : r.loc[1] \notin files}
ClearSharedStash(rows) == {r \in rows : r.loc[1] # Stash}

\* One character after the other; without a row from the past a character was not
\* there.
OverrideCharacters(rows, chars, past) ==
    Stripped(rows, chars) \cup UNION {FileRows(c, past[c]) : c \in chars \cap Present(past)}
OverrideSharedStash(rows, b) ==
    ClearSharedStash(rows) \cup (IF b = Absent THEN {} ELSE StashRows(b))

\* buildSession: a character not saved since is left as the snapshot has it.  The
\* active one and the stash never are.  Without a character there is no past.
Rewound(cache, past, since) ==
    IF ~ HasActivePlayer(cache) THEN Inventory(cache) ELSE
    LET chars == Present(cache) \ {Stash}
        untouched == {c \in chars \ {ActivePlayer(cache)} : cache[c].stamp <= since}
        rewound == OverrideCharacters(Inventory(cache), chars \ untouched, past)
    IN OverrideSharedStash(rewound, past[Stash])

-----------------------------------------------------------------------------
(***************************************************************************)
(* makeSessionStateFromSnapshot, and the difference the Session Info pane  *)
(* shows                                                                   *)
(***************************************************************************)

FaultEffectiveStackCount(r) == QuestQty(r)

EffectiveStackCount(r) ==
    IF Catalog[r.item].slot THEN r.stacks ELSE IF r.stacks > 0 THEN r.stacks ELSE 1

FaultKey(r) == <<r.loc, Catalog[r.item].fingerprint>>

Key(r) == <<Quality(r), Catalog[r.item].fingerprint>>
HasKey(r) == r.known /\ Quality(r) \in Named /\ Catalog[r.item].fingerprint # 0
ItemKeys(rows) == {Key(r) : r \in {x \in rows : HasKey(x)}}
RuneStacks(rows, code) == MapThenSumSet(EffectiveStackCount, {r \in rows : Catalog[r.item].code = code})

FaultLoot(rows, keys) == {r \in rows : HasKey(r) /\ Key(r) \notin keys /\ ~ r.socketed}

\* renderSessionLootPane
Loot(rows, keys) == {r \in rows : HasKey(r) /\ Key(r) \notin keys}
RuneDelta(now, before) == IF now > before THEN now - before ELSE 0
=============================================================================
