--------------------------- MODULE Account_proofs ----------------------------
(***************************************************************************)
(* What the dashboard shows of a session of play, for every catalog of     *)
(* items, every number of characters, every start and every bound:         *)
(*                                                                         *)
(*   TypeCorrect     files and cache hold what the game writes             *)
(*   PanesAgree      reconcile and chronicle panes are consistent          *)
(*   StartIsRebuilt  the account at the start can be rebuilt at any moment *)
(*   LootIsNew       what the account had identified is not loot           *)
(*   LootIsComplete  what is new is loot, once everything is saved         *)
(*   TotalsAddUp     the totals of runes and quest items are those of the  *)
(*                   items in the files                                    *)
(***************************************************************************)
EXTENDS Account, WellFoundedInduction, FiniteSetTheorems, TLAPS

-----------------------------------------------------------------------------
(***************************************************************************)
(* The inductive invariant                                                 *)
(***************************************************************************)

\* What is in a socket is where the item around it is.
GameOK ==
    /\ at \in [Items -> (Files \X (1..4)) \cup {Nowhere}]
    /\ host \in [Items -> Items \cup {0}]
    /\ known \subseteq Items
    /\ stacks \in [Items -> {0, MaxStack}]
    /\ \A i \in Items : stacks[i] # 0 => Catalog[i].slot
    /\ found \subseteq Named \X Nat
    /\ plays \in 0..MaxPlays /\ saves \in 0..MaxSaves
    /\ \A i \in Items : host[i] # 0 =>
          /\ host[host[i]] = 0 /\ at[host[i]] = at[i]
          /\ Catalog[host[i]].code = "arm" /\ Catalog[i].code \in {"jew", "r01"}

\* What a save says of an item.
ItemRecord == [item : Items, part : 1..4, host : Items \cup {0}, known : BOOLEAN, stacks : 0..MaxStack]

\* A file: a socketed item is with its host, and no item is in it twice.
FileBytes ==
    {b \in [items : SUBSET ItemRecord, stamp : 0..Started + MaxSaves, found : SUBSET (Named \X Nat)] :
        /\ \A x \in b.items : x.host # 0 => \E y \in b.items : y.item = x.host /\ y.host = 0
        /\ \A x \in b.items : x.stacks # 0 => Catalog[x.item].slot
        /\ \A x, y \in b.items : x.item = y.item => x = y}

\* Every file is absent or as the game wrote it once.
FilesOK ==
    /\ disk \in [Files -> FileBytes \cup {Absent}]
    /\ cache \in [Files -> FileBytes \cup {Absent}]
    /\ past \in [Files -> FileBytes \cup {Absent}]

\* A character whose header is not newer than the start is as it was at the start.
SinceStart(files) ==
    \A c \in Chars : files[c] = Absent \/ files[c] = past[c] \/ files[c].stamp > Started

\* The four together are kept by every action.
IInv == GameOK /\ FilesOK /\ SinceStart(disk) /\ SinceStart(cache)

-----------------------------------------------------------------------------
(***************************************************************************)
(* The game                                                                *)
(***************************************************************************)

\* What the game writes is a file.
LEMMA BytesAreBytes ==
    ASSUME GameOK, NEW f \in Files, NEW t \in 0..Started + MaxSaves
    PROVE  BytesOf(f, t) \in FileBytes /\ (f # Stash => BytesOf(f, t).stamp = t)
<1> DEFINE here == {j \in Items : at[j][1] = f}
           rec(i) == [item |-> i, part |-> at[i][2], host |-> host[i], known |-> i \in known,
                      stacks |-> stacks[i]]
           b == BytesOf(f, t)
<1>1. b.items = {rec(i) : i \in here} /\ b.stamp = (IF f = Stash THEN 0 ELSE t)
      /\ b.found = (IF f = Stash THEN found ELSE {})
    BY DEF BytesOf
<1>2. \A i \in here : at[i] \in Files \X (1..4)
    <2> SUFFICES ASSUME NEW i \in here PROVE at[i] \in Files \X (1..4)
        OBVIOUS
    <2>1. Nowhere[1] = -1 /\ f \in Nat
        BY AccountSnapshotAssumption DEF Nowhere, Files, Stash
    <2> QED
        BY <2>1 DEF GameOK
<1>3. \A i \in here : rec(i) \in ItemRecord
    <2> SUFFICES ASSUME NEW i \in here PROVE rec(i) \in ItemRecord
        OBVIOUS
    <2>1. at[i][2] \in 1..4 /\ host[i] \in Items \cup {0} /\ stacks[i] \in 0..MaxStack
        BY <1>2, AccountAssumption DEF GameOK
    <2> QED
        BY <2>1 DEF ItemRecord
<1>4. b \in [items : SUBSET ItemRecord, stamp : 0..Started + MaxSaves, found : SUBSET (Named \X Nat)]
    <2>1. {rec(i) : i \in here} \in SUBSET ItemRecord
        BY <1>3
    <2>2. (IF f = Stash THEN 0 ELSE t) \in 0..Started + MaxSaves
        BY AccountAssumption DEF Started
    <2>3. (IF f = Stash THEN found ELSE {}) \in SUBSET (Named \X Nat)
        BY DEF GameOK
    <2> QED
        BY <2>1, <2>2, <2>3 DEF BytesOf
<1>5. \A x \in b.items : x.host # 0 => \E y \in b.items : y.item = x.host /\ y.host = 0
    <2> SUFFICES ASSUME NEW i \in here, host[i] # 0
                 PROVE  \E y \in b.items : y.item = host[i] /\ y.host = 0
        BY <1>1
    <2>1. host[i] \in here /\ host[host[i]] = 0
        BY DEF GameOK
    <2>2. rec(host[i]) \in b.items
        BY <1>1, <2>1
    <2> QED
        BY <2>1, <2>2
<1>6. \A x \in b.items : x.stacks # 0 => Catalog[x.item].slot
    BY <1>1 DEF GameOK
<1>7. \A x, y \in b.items : x.item = y.item => x = y
    BY <1>1
<1> QED
    BY <1>1, <1>4, <1>5, <1>6, <1>7 DEF FileBytes

\* A file is not an absent one.
LEMMA FileIsThere == \A b \in FileBytes : b # Absent /\ b.stamp \in Nat
BY AccountAssumption DEF FileBytes, Absent, Started

\* Every game a session can start with is one of those.
LEMMA InitInv == Init => IInv
<1> SUFFICES ASSUME Init PROVE IInv
    OBVIOUS
<1>1. PICK s \in Starts : at = s.at /\ found = s.found /\ known = s.known
    BY DEF Init
<1>2. GameOK
    BY <1>1, AccountAssumption DEF Init, GameOK
<1>3. \A f \in Files : BytesOf(f, Started) \in FileBytes
    BY <1>2, BytesAreBytes, AccountAssumption DEF Started
<1>4. disk \in [Files -> FileBytes \cup {Absent}] /\ cache = disk /\ past = disk
    BY <1>3 DEF Init
<1> QED
    BY <1>2, <1>4 DEF IInv, FilesOK, SinceStart

\* Whatever is done in the game, what is in a socket stays with its host.
LEMMA PlayKeepsGame ==
    ASSUME GameOK, NEW i \in Items,
           \/ \E l \in Spots : Carry(i, l)
           \/ \E j \in Items : Socket(i, j) \/ Craft(i, j)
           \/ \E n \in {0, MaxStack} : Stack(i, n)
           \/ Identify(i) \/ Sell(i) \/ Discover(i)
    PROVE  GameOK' /\ UNCHANGED <<disk, cache, past>>
<1>0. Play
    BY DEF Carry, Socket, Craft, Stack, Identify, Sell, Discover
<1>1. plays' \in 0..MaxPlays /\ UNCHANGED <<disk, cache, past, saves>>
    BY <1>0, AccountAssumption DEF Play, GameOK
<1> USE DEF GameOK
<1>9. host[i] = 0 => \A j \in Items : host[j] # 0 =>
          /\ host[j] \in Items
          /\ j \in Filled(i) <=> host[j] = i
          /\ host[j] \in Filled(i) <=> host[j] = i
    BY AccountSnapshotAssumption DEF Filled, Items
<1>2. ASSUME NEW l \in Spots, Carry(i, l) PROVE GameOK'
    <2>1. at' = [j \in Items |-> IF j \in Filled(i) THEN l ELSE at[j]] /\ l \in Files \X (1..4)
          /\ host[i] = 0 /\ UNCHANGED <<host, known, stacks, found>>
        BY <1>2, AccountAssumption DEF Carry, Loose
    <2>2. ASSUME NEW j \in Items, host[j] # 0 PROVE at'[host[j]] = at'[j]
        BY <1>9, <2>1, <2>2
    <2> QED
        BY <1>1, <2>1, <2>2
<1>3. ASSUME NEW j \in Items, Socket(i, j) PROVE GameOK'
    <2>1. /\ host' = [host EXCEPT ![i] = j] /\ at' = [at EXCEPT ![i] = at[j]]
          /\ host[i] = 0 /\ host[j] = 0 /\ Catalog[i].code \in {"jew", "r01"} /\ Catalog[j].code = "arm"
          /\ UNCHANGED <<known, stacks, found>>
        BY <1>3 DEF Socket, Loose
    <2>2. i # j /\ \A k \in Items : host[k] # i
        BY <2>1, AccountSnapshotAssumption DEF Items
    <2> QED
        BY <1>1, <2>1, <2>2
<1>4. ASSUME NEW j \in Items, Craft(i, j) PROVE GameOK'
    <2>1. /\ at' = [at EXCEPT ![i] = Nowhere, ![j] = at[i]] /\ known' = known \cup {j}
          /\ <<Catalog[i].id, Catalog[j].id>> \in SunderPairs
          /\ UNCHANGED <<host, stacks, found>>
        BY <1>4 DEF Craft
    <2>2. Catalog[i].code \notin {"arm", "jew", "r01"} /\ Catalog[j].code \notin {"arm", "jew", "r01"}
        BY <2>1, AccountAssumption
    <2>3. \A k \in Items : host[k] # 0 => k # i /\ k # j /\ host[k] # i /\ host[k] # j
        BY <2>2
    <2> QED
        BY <1>1, <2>1, <2>3
<1>5. ASSUME NEW n \in {0, MaxStack}, Stack(i, n) PROVE GameOK'
    BY <1>1, <1>5 DEF Stack
<1>6. CASE Identify(i)
    BY <1>1, <1>6 DEF Identify
<1>7. CASE Sell(i)
    <2>1. /\ at' = [j \in Items |-> IF j \in Filled(i) THEN Nowhere ELSE at[j]]
          /\ host' = [j \in Items |-> IF j \in Filled(i) THEN 0 ELSE host[j]]
          /\ host[i] = 0 /\ UNCHANGED <<known, stacks, found>>
        BY <1>7 DEF Sell, Gone, Loose
    <2>2. ASSUME NEW j \in Items, host'[j] # 0
          PROVE  j \notin Filled(i) /\ host[j] \notin Filled(i) /\ host'[j] = host[j]
        <3>1. j \notin Filled(i) /\ host'[j] = host[j]
            BY <2>1, <2>2
        <3> QED
            BY <1>9, <2>1, <2>2, <3>1
    <2> QED
        BY <1>1, <2>1, <2>2
<1>8. CASE Discover(i)
    <2>1. <<Catalog[i].quality, Catalog[i].id>> \in Named \X Nat
        BY <1>8, AccountSnapshotAssumption DEF Discover, Items
    <2> QED
        BY <1>1, <1>8, <2>1 DEF Discover
<1> QED
    BY <1>1, <1>2, <1>3, <1>4, <1>5, <1>6, <1>7, <1>8

\* Every action keeps the invariant.
LEMMA NextKeepsInv == IInv /\ [Next]_vars => IInv'
<1> SUFFICES ASSUME IInv, [Next]_vars PROVE IInv'
    OBVIOUS
<1> USE DEF IInv
<1>1. ASSUME NEW i \in Items,
             \/ \E l \in Spots : Carry(i, l)
             \/ \E j \in Items : Socket(i, j) \/ Craft(i, j)
             \/ \E n \in {0, MaxStack} : Stack(i, n)
             \/ Identify(i) \/ Sell(i) \/ Discover(i)
      PROVE  IInv'
    BY <1>1, PlayKeepsGame DEF FilesOK, SinceStart
<1>2. ASSUME NEW f \in Files, Save(f) PROVE IInv'
    <2>1. /\ saves' = saves + 1 /\ saves' \in 0..MaxSaves
          /\ disk' = [disk EXCEPT ![f] = BytesOf(f, Started + saves + 1)]
          /\ UNCHANGED <<game, cache, past, plays>>
        BY <1>2, AccountAssumption DEF Save, GameOK
    <2>2. Started + saves + 1 \in 0..Started + MaxSaves /\ Started + saves + 1 > Started
        BY <2>1, AccountAssumption DEF Started, GameOK
    <2>3. PICK b \in FileBytes : /\ disk' = [disk EXCEPT ![f] = b]
                                 /\ f # Stash => b.stamp > Started
        BY <2>1, <2>2, BytesAreBytes
    <2>4. \A c \in Chars : c \in Files /\ c # Stash
        BY AccountSnapshotAssumption DEF Files, Stash
    <2>5. GameOK'
        BY <2>1 DEF GameOK, game
    <2>6. FilesOK'
        BY <2>1, <2>3 DEF FilesOK
    <2>7. SinceStart(disk)'
        BY <2>1, <2>3, <2>4 DEF SinceStart, FilesOK
    <2> QED
        BY <2>1, <2>5, <2>6, <2>7 DEF SinceStart
<1>3. ASSUME NEW f \in Files, Refresh(f) PROVE IInv'
    <2>1. cache' = [cache EXCEPT ![f] = disk[f]] /\ UNCHANGED <<game, disk, past, plays, saves>>
        BY <1>3 DEF Refresh
    <2>2. GameOK'
        BY <2>1 DEF GameOK, game
    <2>3. FilesOK'
        BY <2>1 DEF FilesOK
    <2> QED
        BY <2>1, <2>2, <2>3 DEF SinceStart, FilesOK
<1>4. ASSUME NEW c \in Chars, DeleteCharacter(c) PROVE IInv'
    <2>1. /\ saves' \in 0..MaxSaves /\ disk' = [disk EXCEPT ![c] = Absent]
          /\ at' = [j \in Items |-> IF at[j][1] = c THEN Nowhere ELSE at[j]]
          /\ host' = [j \in Items |-> IF at[j][1] = c THEN 0 ELSE host[j]]
          /\ UNCHANGED <<known, stacks, found, cache, past, plays>>
        BY <1>4, AccountAssumption DEF DeleteCharacter, Gone, GameOK
    <2>2. GameOK'
        BY <2>1 DEF GameOK
    <2>3. FilesOK'
        BY <2>1 DEF FilesOK
    <2> QED
        BY <2>1, <2>2, <2>3 DEF SinceStart, FilesOK, Files
<1>5. CASE UNCHANGED vars
    BY <1>5 DEF vars, game, GameOK, FilesOK, SinceStart
<1> QED
    BY <1>1, <1>2, <1>3, <1>4, <1>5 DEF Next

\* It holds at every moment.
LEMMA InvHolds == Spec => []IInv
BY InitInv, NextKeepsInv, PTL DEF Spec

-----------------------------------------------------------------------------
(***************************************************************************)
(* Rows and places                                                         *)
(***************************************************************************)

\* A row names the file it was read from.
LEMMA RowsAreOfFile ==
    ASSUME NEW f \in Files, NEW b \in FileBytes, NEW r \in FileRows(f, b)
    PROVE  /\ r.loc[1] = f /\ r.loc[2] \in 1..4 /\ r.item \in Items
           /\ \E x \in b.items : r = Row(f, x)
<1>1. PICK x \in b.items : r = Row(f, x)
    BY DEF FileRows
<1>2. x.part \in 1..4 /\ x.item \in Items
    BY DEF FileBytes, ItemRecord
<1> QED
    BY <1>1, <1>2 DEF Row

\* The inventory has the rows of every file.
LEMMA InventoryIs ==
    \A files, r : r \in Inventory(files) <=> \E f \in Present(files) : r \in FileRows(f, files[f])
<1> SUFFICES ASSUME NEW files, NEW r
             PROVE  r \in Inventory(files) <=> \E f \in Present(files) : r \in FileRows(f, files[f])
    OBVIOUS
<1>1. Stash \in Files
    BY DEF Files
<1>2. files[Stash] # Absent <=> Stash \in Present(files)
    BY <1>1 DEF Present
<1>3. CASE files[Stash] = Absent
    BY <1>2, <1>3 DEF Inventory
<1>4. CASE files[Stash] # Absent
    BY <1>2, <1>4 DEF Inventory, StashRows
<1> QED
    BY <1>3, <1>4

\* Rows of a snapshot are where a file is.
LEMMA InventoryRows ==
    ASSUME NEW files \in [Files -> FileBytes \cup {Absent}], NEW r \in Inventory(files)
    PROVE  /\ r.loc \in Nat \X Nat /\ r.loc # Nowhere /\ r.item \in Items
           /\ r.loc[1] \in Present(files) /\ r \in FileRows(r.loc[1], files[r.loc[1]])
<1>1. PICK f \in Present(files) : r \in FileRows(f, files[f])
    BY InventoryIs
<1>2. f \in Files /\ files[f] \in FileBytes
    BY DEF Present
<1>3. PICK x \in files[f].items : r = Row(f, x)
    BY <1>1, <1>2, RowsAreOfFile
<1>4. r.loc = <<f, x.part>>
    BY <1>3 DEF Row
<1>5. x.part \in 1..4
    BY <1>2 DEF FileBytes, ItemRecord
<1>6. f \in Nat
    BY <1>2, AccountSnapshotAssumption DEF Files, Stash
<1> QED
    BY <1>1, <1>2, <1>4, <1>5, <1>6, RowsAreOfFile DEF Nowhere

\* A set of numbers that has a member has a least one.
LEMMA HasLeast ==
    ASSUME NEW S \in SUBSET Nat, S # {}
    PROVE  \E m \in S : \A e \in S : m <= e
<1>1. PICK m \in S : \A e \in S : ~ (<<e, m>> \in OpToRel(<, Nat))
    BY NatLessThanWellFounded, WFMin
<1>2. \A e \in S : ~ (e < m)
    BY <1>1 DEF OpToRel
<1> QED
    BY <1>2

\* try_emplace keeps one of the locations, if there are any.
LEMMA LocationIs ==
    ASSUME NEW locs, \A l \in locs : l[2] \in Nat \X Nat, NEW id
    PROVE  LET all == {l[2] : l \in {x \in locs : x[1] = id}}
           IN  /\ all = {} => LocationOf(locs, id) = Nowhere
               /\ all # {} => LocationOf(locs, id) \in all
<1> DEFINE all == {l[2] : l \in {x \in locs : x[1] = id}}
           First(l) == \A m \in all : l[1] < m[1] \/ (l[1] = m[1] /\ l[2] <= m[2])
<1>1. all \subseteq Nat \X Nat
    OBVIOUS
<1>2. LocationOf(locs, id) = IF all = {} THEN Nowhere ELSE CHOOSE l \in all : First(l)
    BY DEF LocationOf
<1>3. ASSUME all # {} PROVE \E l \in all : First(l)
    <2> HIDE DEF all
    <2> DEFINE files == {l[1] : l \in all}
    <2>1. files \subseteq Nat /\ files # {}
        BY <1>1, <1>3
    <2>2. PICK f \in files : \A g \in files : f <= g
        BY <2>1, HasLeast
    <2> DEFINE parts == {l[2] : l \in {x \in all : x[1] = f}}
    <2>3. parts \subseteq Nat /\ parts # {}
        BY <1>1
    <2>4. PICK p \in parts : \A q \in parts : p <= q
        BY <2>3, HasLeast
    <2>5. PICK l \in all : l[1] = f /\ l[2] = p
        OBVIOUS
    <2>6. ASSUME NEW m \in all PROVE l[1] < m[1] \/ (l[1] = m[1] /\ l[2] <= m[2])
        <3>1. m[1] \in files /\ f <= m[1] /\ f \in Nat /\ m[1] \in Nat
            BY <1>1, <2>2
        <3>2. CASE m[1] = f
            BY <2>4, <2>5, <3>2
        <3>3. CASE m[1] # f
            BY <2>5, <3>1, <3>3
        <3> QED
            BY <3>2, <3>3
    <2> QED
        BY <2>6
<1> HIDE DEF all, First
<1>4. all # {} => LocationOf(locs, id) \in all
    BY <1>2, <1>3
<1> QED
    BY <1>2, <1>4 DEF all

-----------------------------------------------------------------------------
(***************************************************************************)
(* The past                                                                *)
(***************************************************************************)

\* The rewound snapshot is the account at the start.
LEMMA RewoundIs == IInv => RewindIsStart
<1> SUFFICES ASSUME IInv, HasActivePlayer(cache)
             PROVE  Rewound(cache, past, Started) = UNION {FileRows(f, past[f]) : f \in Kept}
    BY DEF RewindIsStart
<1> DEFINE chars == Present(cache) \ {Stash}
           untouched == {c \in chars \ {ActivePlayer(cache)} : cache[c].stamp <= Started}
           changed == chars \ untouched
           rewound == OverrideCharacters(Inventory(cache), changed, past)
           stash == IF past[Stash] = Absent THEN {} ELSE StashRows(past[Stash])
           then == UNION {FileRows(f, past[f]) : f \in Kept}
<1>1. Rewound(cache, past, Started) = ClearSharedStash(rewound) \cup stash
    BY DEF Rewound, OverrideSharedStash
<1>2. \A f \in Files : /\ cache[f] # Absent => cache[f] \in FileBytes
                       /\ past[f] # Absent => past[f] \in FileBytes
    BY DEF IInv, FilesOK
<1>3. \A c \in chars : c \in Chars /\ c \in Files /\ c # Stash /\ cache[c] # Absent
    BY DEF Present, Files
<1>4. \A c \in untouched : past[c] = cache[c]
    <2> SUFFICES ASSUME NEW c \in untouched PROVE past[c] = cache[c]
        OBVIOUS
    <2>1. cache[c].stamp \in Nat /\ cache[c].stamp <= Started
        BY <1>2, <1>3, FileIsThere
    <2> QED
        BY <1>3, <2>1 DEF IInv, SinceStart, Started
<1>5. Stash \in Files /\ (Stash \in Kept <=> past[Stash] # Absent)
    BY DEF Kept, Present, Files
<1> HIDE DEF untouched
<1>6. ASSUME NEW r \in ClearSharedStash(rewound) PROVE r \in then
    <2>1. r \in rewound /\ r.loc[1] # Stash
        BY DEF ClearSharedStash
    <2>2. CASE r \in Stripped(Inventory(cache), changed)
        <3>1. /\ r \in Inventory(cache) /\ r.loc[1] \notin changed
              /\ r.loc[1] \in Present(cache) /\ r \in FileRows(r.loc[1], cache[r.loc[1]])
            BY <2>2, InventoryRows DEF Stripped, IInv, FilesOK
        <3>2. r.loc[1] \in untouched
            BY <2>1, <3>1
        <3>3. past[r.loc[1]] = cache[r.loc[1]] /\ r.loc[1] \in Kept
            BY <1>4, <3>1, <3>2 DEF Kept, Present
        <3> QED
            BY <3>1, <3>3
    <2>3. CASE r \notin Stripped(Inventory(cache), changed)
        <3>1. PICK c \in changed \cap Present(past) : r \in FileRows(c, past[c])
            BY <2>1, <2>3 DEF OverrideCharacters
        <3>2. c \in Kept
            BY DEF Kept
        <3> QED
            BY <3>1, <3>2
    <2> QED
        BY <2>2, <2>3
<1>7. stash \subseteq then
    BY <1>5 DEF StashRows
<1>8. ASSUME NEW r \in then PROVE r \in ClearSharedStash(rewound) \cup stash
    <2>1. PICK f \in Kept : r \in FileRows(f, past[f])
        OBVIOUS
    <2>2. f \in Files /\ past[f] # Absent /\ (f # Stash => f \in chars)
        BY DEF Kept, Present
    <2>3. r.loc[1] = f
        BY <1>2, <2>1, <2>2, RowsAreOfFile
    <2>4. CASE f = Stash
        BY <2>1, <2>2, <2>4 DEF StashRows
    <2>5. CASE f # Stash /\ f \in changed
        <3>1. f \in Present(past)
            BY <2>2 DEF Present
        <3>2. r \in rewound
            BY <2>1, <2>5, <3>1 DEF OverrideCharacters
        <3> QED
            BY <2>3, <2>5, <3>2 DEF ClearSharedStash
    <2>6. CASE f # Stash /\ f \notin changed
        <3>1. past[f] = cache[f] /\ f \in Present(cache)
            BY <1>4, <2>2, <2>6 DEF Present
        <3>2. r \in Inventory(cache)
            BY <2>1, <3>1, InventoryIs
        <3>3. r \in rewound
            BY <2>3, <2>6, <3>2 DEF OverrideCharacters, Stripped
        <3> QED
            BY <2>3, <2>6, <3>3 DEF ClearSharedStash
    <2> QED
        BY <2>4, <2>5, <2>6
<1> QED
    BY <1>1, <1>6, <1>7, <1>8

\* The account as it was at the start can be rebuilt at any later moment, from any
\* mixture of old and new files, because a file that has changed since has a newer header.
THEOREM StartIsRebuilt == Spec => []RewindIsStart
BY InvHolds, RewoundIs, PTL

\* What the account already had identified at the start is not loot, wherever it is
\* now.
THEOREM LootIsNew == Spec => []NoFalseLoot
<1>1. ASSUME IInv PROVE NoFalseLoot
    <2> DEFINE had == {r \in UNION {FileRows(f, past[f]) : f \in Kept} : HasKey(r)}
    <2> SUFFICES ASSUME NEW r \in Loot(Inventory(cache), StartKeys), NEW h \in had, r.item = h.item
                 PROVE  FALSE
        BY DEF NoFalseLoot, LootItems
    <2>1. HasKey(r) /\ Key(r) \notin StartKeys /\ r \in Inventory(cache)
        BY DEF Loot
    <2>2. Key(r) = Key(h) /\ HasKey(h)
        BY DEF Key, Quality
    <2>3. CASE HasActivePlayer(cache)
        <3>1. h \in Rewound(cache, past, Started)
            BY <1>1, <2>3, RewoundIs DEF RewindIsStart
        <3>2. Key(h) \in StartKeys
            BY <2>2, <3>1 DEF StartKeys, ItemKeys
        <3> QED
            BY <2>1, <2>2, <3>2
    <2>4. CASE ~ HasActivePlayer(cache)
        BY <2>1, <2>4 DEF StartKeys, ItemKeys, Rewound
    <2> QED
        BY <2>3, <2>4
<1> QED
    BY <1>1, InvHolds, PTL

\* Items have fingerprints of their own, but for items the game has duplicated.
DistinctFingerprints ==
    \A i, j \in Items : Worth(i) /\ Catalog[i].quality = Catalog[j].quality
                        /\ Catalog[i].fingerprint = Catalog[j].fingerprint => i = j

\* Once everything is saved and read, whatever the account did not have identified at
\* the start is loot, unless it shares its fingerprint with something that it had.
THEOREM LootIsComplete ==
    ASSUME DistinctFingerprints
    PROVE  Spec => []NoMissedLoot
<1>1. ASSUME IInv PROVE NoMissedLoot
    <2> SUFFICES ASSUME Settled, AllParse(disk), NEW i \in known, Worth(i), at[i] # Nowhere,
                        i \notin LootItems
                 PROVE  \E f \in Present(past) : \E x \in past[f].items : x.item = i /\ x.known
        BY DEF NoMissedLoot
    <2>1. i \in Items /\ at[i] \in Files \X (1..4)
        BY <1>1 DEF IInv, GameOK
    <2> DEFINE f == at[i][1]
               x == [item |-> i, part |-> at[i][2], host |-> host[i], known |-> TRUE,
                     stacks |-> stacks[i]]
               r == Row(f, x)
    <2>2. f \in Files /\ Saved(f) /\ cache = disk
        BY <2>1 DEF Settled
    <2>3. disk[f] # Absent /\ x \in disk[f].items
        <3>1. Alive(f) /\ disk[f] = BytesOf(f, disk[f].stamp)
            BY <2>1, <2>2 DEF Saved
        <3>2. x \in BytesOf(f, disk[f].stamp).items
            BY <2>1 DEF BytesOf
        <3> QED
            BY <3>1, <3>2 DEF Alive
    <2>4. f \in Present(disk)
        BY <2>2, <2>3 DEF Present
    <2>5. Parses(disk[f], x)
        BY <2>4 DEF AllParse, Parses
    <2>6. r \in Inventory(cache)
        <3>1. r \in FileRows(f, disk[f])
            BY <2>3, <2>5 DEF FileRows
        <3> QED
            BY <2>2, <2>4, <3>1, InventoryIs
    <2>7. r.item = i /\ r.known
        BY DEF Row
    <2>8. HasKey(r)
        BY <2>7 DEF HasKey, Worth, Quality
    <2>9. Key(r) \in StartKeys
        BY <2>6, <2>7, <2>8 DEF LootItems, Loot
    <2>10. PICK s \in Rewound(cache, past, Started) : HasKey(s) /\ Key(s) = Key(r)
        BY <2>9 DEF StartKeys, ItemKeys
    <2>11. PICK g \in Kept : s \in FileRows(g, past[g])
        BY <1>1, RewoundIs DEF RewindIsStart, Settled
    <2>12. g \in Present(past) /\ g \in Files /\ past[g] \in FileBytes
        BY <1>1 DEF Kept, Present, IInv, FilesOK
    <2>13. PICK y \in past[g].items : s = Row(g, y)
        BY <2>11, <2>12, RowsAreOfFile
    <2>14. s.item \in Items /\ s.known /\ y.item = s.item /\ y.known = s.known
        BY <2>10, <2>11, <2>12, <2>13, RowsAreOfFile DEF Row, HasKey
    <2>15. s.item = i
        BY <2>1, <2>7, <2>10, <2>14 DEF Key, Quality, DistinctFingerprints
    <2> QED
        BY <2>12, <2>14, <2>15
<1> QED
    BY <1>1, InvHolds, PTL

-----------------------------------------------------------------------------
(***************************************************************************)
(* Charms with two names                                                   *)
(***************************************************************************)

Ids == Named \X Nat

\* A charm's other name is one of the twelve, and the other name of that is the charm's.
LEMMA PairedIs ==
    ASSUME NEW n \in Nat
    PROVE  LET m == SunderPairedId(n)
           IN  m \in Nat /\ (m # 0 => m # n /\ SunderPairedId(m) = n /\ n # 0)
<1> DEFINE Other(k) == {p[2] : p \in {q \in SunderPairs : q[1] = k}}
                       \cup {p[1] : p \in {q \in SunderPairs : q[2] = k}}
<1>1. \A k : SunderPairedId(k) = IF Other(k) = {} THEN 0 ELSE CHOOSE o \in Other(k) : TRUE
    BY DEF SunderPairedId
<1>2. \A p \in SunderPairs : p[1] \in Nat \ {0} /\ p[2] \in Nat \ {0}
    BY DEF SunderPairs
<1>3. \A p, q \in SunderPairs : /\ p[1] = q[1] => p[2] = q[2]
                                /\ p[2] = q[2] => p[1] = q[1]
                                /\ p[1] # q[2]
    BY DEF SunderPairs
<1>4. \A p \in SunderPairs : SunderPairedId(p[1]) = p[2] /\ SunderPairedId(p[2]) = p[1]
    <2> SUFFICES ASSUME NEW p \in SunderPairs
                 PROVE  SunderPairedId(p[1]) = p[2] /\ SunderPairedId(p[2]) = p[1]
        OBVIOUS
    <2>1. Other(p[1]) = {p[2]}
        BY <1>3
    <2>2. Other(p[2]) = {p[1]}
        BY <1>3
    <2> HIDE DEF Other
    <2> QED
        BY <1>1, <2>1, <2>2
<1>5. CASE \E p \in SunderPairs : n \in {p[1], p[2]}
    <2>1. PICK p \in SunderPairs : n \in {p[1], p[2]}
        BY <1>5
    <2>2. SunderPairedId(p[1]) = p[2] /\ SunderPairedId(p[2]) = p[1]
        BY <1>4
    <2>3. p[1] \in Nat \ {0} /\ p[2] \in Nat \ {0} /\ p[1] # p[2]
        BY <1>2, <1>3
    <2>4. CASE n = p[1]
        BY <2>2, <2>3, <2>4
    <2>5. CASE n = p[2]
        BY <2>2, <2>3, <2>5
    <2> QED
        BY <2>1, <2>4, <2>5
<1>6. CASE ~ \E p \in SunderPairs : n \in {p[1], p[2]}
    <2>1. Other(n) = {}
        BY <1>6
    <2> QED
        BY <1>1, <2>1, <1>2, <1>4, <1>6
<1> QED
    BY <1>5, <1>6

\* Being siblings is an equivalence, and a name decides no more than who its siblings are.
LEMMA SiblingsAre ==
    ASSUME NEW id \in Ids
    PROVE  /\ id \in Siblings(id) /\ Siblings(id) \subseteq Ids
           /\ \A k \in Siblings(id) : Siblings(k) = Siblings(id)
           /\ \A j, k \in Siblings(id) : j # k => j[2] # k[2] /\ Siblings(id) = {j, k}
           /\ SunderCanonical(id) \in Siblings(id)
           /\ \A k \in Siblings(id) : SunderCanonical(k) = SunderCanonical(id)
<1>1. PICK q \in Named, n \in Nat : id = <<q, n>>
    <2>1. id[1] \in Named /\ id[2] \in Nat /\ id = <<id[1], id[2]>>
        BY DEF Ids
    <2> QED
        BY <2>1
<1> DEFINE m == SunderPairedId(n)
           other == <<"unique", m>>
<1>2. m \in Nat /\ (m # 0 => m # n /\ SunderPairedId(m) = n /\ n # 0)
    BY PairedIs
<1> HIDE DEF m
<1>3. CASE ~ (q = "unique" /\ m # 0)
    <2>1. Siblings(id) = {id}
        BY <1>1, <1>3 DEF Siblings, m
    <2>2. SunderCanonical(id) = id
        <3>1. \A l \in {id} : id[2] <= l[2]
            BY <1>1
        <3> QED
            BY <2>1, <3>1 DEF SunderCanonical
    <2> QED
        BY <2>1, <2>2
<1>4. CASE q = "unique" /\ m # 0
    <2>1. Siblings(id) = {id, other}
        BY <1>1, <1>4 DEF Siblings, m
    <2>2. Siblings(other) = {id, other}
        <3>1. other[1] = "unique" /\ SunderPairedId(other[2]) = n /\ id = <<"unique", n>>
            BY <1>1, <1>2, <1>4
        <3>2. n # 0
            BY <1>2, <1>4
        <3> QED
            BY <3>1, <3>2 DEF Siblings
    <2>3. other \in Ids /\ id # other /\ id[2] = n /\ other[2] = m
        BY <1>1, <1>2, <1>4 DEF Ids, Named
    <2>4. \E k \in {id, other} : \A l \in {id, other} : k[2] <= l[2]
        BY <1>2, <2>3
    <2>5. SunderCanonical(id) \in {id, other}
        BY <2>1, <2>4 DEF SunderCanonical
    <2>6. SunderCanonical(other) = SunderCanonical(id)
        BY <2>1, <2>2 DEF SunderCanonical
    <2> QED
        BY <1>2, <1>4, <2>1, <2>2, <2>3, <2>5, <2>6
<1> QED
    BY <1>3, <1>4

-----------------------------------------------------------------------------
(***************************************************************************)
(* The chronicle and the reconcile pane                                    *)
(***************************************************************************)

\* Names and places of what is owned, in the reconcile pane and in the chronicle.
Locs == OwnedLocs(Inventory(cache))
OwnedIds == {l[1] : l \in Locs}
IsOwned(id) == Siblings(id) \cap OwnedIds # {}
Where(id) ==
    IF id \in OwnedIds \/ ~ IsOwned(id) THEN LocationOf(Locs, id)
    ELSE LocationOf(Locs, CHOOSE k \in Siblings(id) : k # id)
Entry(id) ==
    [id |-> id, owned |-> IsOwned(id), discovered |-> Discovered(cache, id), location |-> Where(id)]
Differs(id) == IsOwned(id) # Discovered(cache, id)

\* What the pane lists.
LEMMA ReconcileIs ==
    Reconcile(cache) =
        {Entry(id) : id \in {k \in {SunderCanonical(id) : id \in OwnedIds \cup Found(cache)} : Differs(k)}}
BY DEF Reconcile, Locs, OwnedIds, IsOwned, Where, Entry, Differs

\* What there is to say of an id is where its items are.
LEMMA LocsAre ==
    ASSUME IInv
    PROVE  /\ \A l \in Locs : l[1] \in Ids /\ l[2] \in Nat \X Nat /\ l[2] # Nowhere
           /\ OwnedIds \subseteq Ids /\ Found(cache) \subseteq Ids
           /\ \A id : id \in OwnedIds <=>
                 id[1] \in Named /\ id \in {IdOf(r) : r \in Inventory(cache)}
<1>1. ASSUME NEW r \in Inventory(cache), Quality(r) \in Named
      PROVE  IdOf(r) \in Ids /\ r.loc \in Nat \X Nat /\ r.loc # Nowhere /\ IdOf(r)[1] = Quality(r)
    <2>1. r.item \in Items /\ r.loc \in Nat \X Nat /\ r.loc # Nowhere
        BY InventoryRows DEF IInv, FilesOK
    <2>2. Catalog[r.item].id \in Nat
        BY <2>1, AccountSnapshotAssumption DEF Items
    <2> QED
        BY <1>1, <2>1, <2>2 DEF IdOf, Ids
<1>2. \A l \in Locs : \E r \in Inventory(cache) : Quality(r) \in Named /\ l = <<IdOf(r), r.loc>>
    BY DEF Locs, OwnedLocs
<1>3. \A r \in Inventory(cache) : Quality(r) \in Named => <<IdOf(r), r.loc>> \in Locs
    BY DEF Locs, OwnedLocs
<1>4. Found(cache) \subseteq Ids
    <2>1. CASE cache[Stash] = Absent
        BY <2>1 DEF Found
    <2>2. CASE cache[Stash] # Absent
        <3>1. cache[Stash] \in FileBytes
            BY <2>2 DEF IInv, FilesOK, Files
        <3> QED
            BY <2>2, <3>1 DEF Found, FileBytes, Ids
    <2> QED
        BY <2>1, <2>2
<1>5. \A l \in Locs : l[1] \in Ids /\ l[2] \in Nat \X Nat /\ l[2] # Nowhere
    BY <1>1, <1>2
<1>6. ASSUME NEW id
      PROVE  id \in OwnedIds <=> id[1] \in Named /\ id \in {IdOf(r) : r \in Inventory(cache)}
    <2>1. ASSUME id \in OwnedIds
          PROVE  id[1] \in Named /\ id \in {IdOf(r) : r \in Inventory(cache)}
        BY <1>1, <1>2, <2>1 DEF OwnedIds
    <2>2. ASSUME NEW r \in Inventory(cache), id = IdOf(r), id[1] \in Named
          PROVE  id \in OwnedIds
        <3>1. Quality(r) \in Named
            BY <2>2 DEF IdOf
        <3>2. <<IdOf(r), r.loc>> \in Locs
            BY <1>3, <3>1
        <3> QED
            BY <2>2, <3>2 DEF OwnedIds
    <2> QED
        BY <2>1, <2>2
<1> QED
    BY <1>4, <1>5, <1>6 DEF OwnedIds

\* What the pane says of a name holds of its siblings.
LEMMA SameForSiblings ==
    ASSUME NEW id \in Ids, NEW k \in Siblings(id)
    PROVE  /\ k \in Ids /\ id \in Siblings(k)
           /\ IsOwned(k) = IsOwned(id) /\ Discovered(cache, k) = Discovered(cache, id)
           /\ Differs(k) = Differs(id)
<1>1. Siblings(k) = Siblings(id) /\ k \in Ids /\ id \in Siblings(id)
    BY SiblingsAre
<1> QED
    BY <1>1 DEF IsOwned, Discovered, Differs

\* The place of an entry is a place exactly if the thing is owned.
LEMMA WhereIs ==
    ASSUME IInv, NEW id \in Ids
    PROVE  IsOwned(id) <=> Where(id) # Nowhere
<1> DEFINE all(k) == {l[2] : l \in {x \in Locs : x[1] = k}}
<1>1. ASSUME NEW k
      PROVE  k \in OwnedIds <=> LocationOf(Locs, k) # Nowhere
    <2>1. /\ all(k) = {} => LocationOf(Locs, k) = Nowhere
          /\ all(k) # {} => LocationOf(Locs, k) \in all(k)
        BY LocsAre, LocationIs
    <2>2. Nowhere \notin all(k)
        BY LocsAre
    <2>3. all(k) # {} <=> k \in OwnedIds
        BY DEF OwnedIds
    <2> HIDE DEF all
    <2> QED
        BY <2>1, <2>2, <2>3
<1>2. CASE id \in OwnedIds \/ ~ IsOwned(id)
    <2>1. id \in OwnedIds <=> IsOwned(id)
        BY <1>2, SiblingsAre DEF IsOwned
    <2> QED
        BY <1>1, <1>2, <2>1 DEF Where
<1>3. CASE id \notin OwnedIds /\ IsOwned(id)
    <2>1. PICK k \in Siblings(id) : k \in OwnedIds
        BY <1>3 DEF IsOwned
    <2>2. k # id /\ Siblings(id) = {id, k}
        BY <1>3, <2>1, SiblingsAre
    <2>3. (CHOOSE j \in Siblings(id) : j # id) = k
        BY <2>2
    <2>4. Where(id) = LocationOf(Locs, k)
        BY <1>3, <2>3 DEF Where
    <2> QED
        BY <1>1, <1>3, <2>1, <2>4
<1> QED
    BY <1>2, <1>3

\* Whatever mixture of old and new files the dashboard has read, the reconcile pane
\* shows a charm once, shows exactly what is owned and not in the chronicle or the other
\* way round, says where, and agrees with the chronicle pane.
THEOREM PanesAgree == Spec => []ReconcileConsistent
<1>1. ASSUME IInv PROVE ReconcileConsistent
    <2> DEFINE rec == Reconcile(cache)
               owned == {IdOf(r) : r \in Inventory(cache)}
               listed == Listed \cup {x \in owned : x[1] \in Named}
    <2>1. listed \subseteq Ids /\ \A id \in listed : Siblings(id) \cap owned # {} <=> IsOwned(id)
        <3>1. listed \subseteq Ids
            BY <1>1, LocsAre, ListedAssumption DEF Ids
        <3>2. ASSUME NEW id \in listed PROVE Siblings(id) \cap owned # {} <=> IsOwned(id)
            <4>1. \A k \in Siblings(id) : k[1] \in Named
                BY <3>1, SiblingsAre DEF Ids
            <4> QED
                BY <1>1, <4>1, LocsAre DEF IsOwned
        <3> QED
            BY <3>1, <3>2
    <2>2. ASSUME NEW e \in rec
          PROVE  /\ e = Entry(e.id) /\ e.id \in Ids /\ Differs(e.id) /\ e.owned = IsOwned(e.id)
                 /\ e.discovered = Discovered(cache, e.id) /\ e.location = Where(e.id)
                 /\ SunderCanonical(e.id) = e.id
        <3>1. PICK k \in OwnedIds \cup Found(cache) : e = Entry(SunderCanonical(k)) /\ Differs(SunderCanonical(k))
            BY ReconcileIs
        <3>2. k \in Ids
            BY <1>1, LocsAre
        <3>3. SunderCanonical(k) \in Siblings(k) /\ SunderCanonical(SunderCanonical(k)) = SunderCanonical(k)
            BY <3>2, SiblingsAre
        <3>4. SunderCanonical(k) \in Ids
            BY <3>2, <3>3, SiblingsAre
        <3> QED
            BY <3>1, <3>3, <3>4 DEF Entry
    <2>3. ASSUME NEW id \in Ids, Differs(id)
          PROVE  \E e \in rec : e.id \in Siblings(id)
        <3>1. PICK k \in Siblings(id) : k \in OwnedIds \cup Found(cache)
            BY <2>3 DEF Differs, IsOwned, Discovered
        <3>2. k \in Ids /\ SunderCanonical(k) \in Siblings(id)
            BY SiblingsAre
        <3>3. Differs(SunderCanonical(k))
            BY <2>3, <3>2, SameForSiblings
        <3>4. Entry(SunderCanonical(k)) \in rec
            BY <3>1, <3>3, ReconcileIs
        <3>5. Entry(SunderCanonical(k)).id = SunderCanonical(k)
            BY DEF Entry
        <3> QED
            BY <3>2, <3>4, <3>5
    <2>4. ASSUME NEW d \in rec, NEW e \in rec, d.id \in Siblings(e.id) PROVE d = e
        <3>1. SunderCanonical(d.id) = SunderCanonical(e.id)
            BY <2>2, <2>4, SiblingsAre
        <3> QED
            BY <2>2, <3>1
    <2>5. ASSUME NEW e \in rec PROVE e.owned <=> e.location # Nowhere
        BY <1>1, <2>2, WhereIs
    <2>6. ASSUME NEW id \in listed
          PROVE  (Siblings(id) \cap owned # {}) # Discovered(cache, id)
                 <=> \E e \in rec : e.id \in Siblings(id)
        <3>0. (Siblings(id) \cap owned # {}) = IsOwned(id)
            BY <2>1 DEF IsOwned
        <3>1. (Siblings(id) \cap owned # {}) # Discovered(cache, id) <=> Differs(id)
            BY <3>0 DEF Differs
        <3>2. ASSUME NEW e \in rec, e.id \in Siblings(id) PROVE Differs(id)
            BY <2>1, <2>2, <3>2, SameForSiblings
        <3> QED
            BY <2>1, <2>3, <3>1, <3>2
    <2>7. ASSUME NEW e \in rec, NEW r \in Chronicle(cache), r.id \in Siblings(e.id)
          PROVE  r.discovered = e.discovered /\ (~ e.owned => r.location = Nowhere)
        <3> DEFINE chron == ChronLocs(Inventory(cache))
        <3>1. r.discovered = Discovered(cache, r.id) /\ r.location = LocationOf(chron, r.id)
            BY DEF Chronicle
        <3>2. r.discovered = e.discovered
            BY <2>2, <2>7, <3>1, SameForSiblings
        <3>3. chron \subseteq Locs
            BY ListedAssumption DEF Locs, OwnedLocs, ChronLocs, IdOf
        <3>4. ASSUME ~ e.owned PROVE {l[2] : l \in {x \in chron : x[1] = r.id}} = {}
            BY <2>2, <2>7, <3>3, <3>4 DEF IsOwned, OwnedIds
        <3>5. ~ e.owned => r.location = Nowhere
            BY <1>1, <3>1, <3>3, <3>4, LocsAre, LocationIs
        <3> QED
            BY <3>2, <3>5
    <2> QED
        BY <2>4, <2>5, <2>6, <2>7 DEF ReconcileConsistent
<1> QED
    BY <1>1, InvHolds, PTL

\* Files hold what the game writes, on disk, in the cache and among the rows of the
\* start, whatever the player does and whichever file is read again.
THEOREM TypeCorrect == Spec => []TypeOK
<1>1. ASSUME IInv PROVE TypeOK
    <2>1. \A b \in FileBytes : IsBytes(b)
        BY DEF FileBytes, ItemRecord, IsBytes
    <2> QED
        BY <1>1, <2>1 DEF TypeOK, IInv, GameOK, FilesOK
<1> QED
    BY <1>1, InvHolds, PTL

-----------------------------------------------------------------------------
(***************************************************************************)
(* Sums over finite sets.  A fold over a set is a function on its subsets; *)
(* that there is one, and only one, is shown by the size of the subsets.   *)
(***************************************************************************)

\* A set of numbers that has zero and with each number the next has all of them.
LEMMA CountUp ==
    ASSUME NEW W \in SUBSET Nat, 0 \in W, \A n \in W : n + 1 \in W
    PROVE  W = Nat
<1> SUFFICES ASSUME Nat \ W # {} PROVE FALSE
    OBVIOUS
<1>1. PICK m \in Nat \ W : \A k \in Nat \ W : m <= k
    <2>1. Nat \ W \in SUBSET Nat
        OBVIOUS
    <2> QED
        BY <2>1, HasLeast
<1>2. m - 1 \in Nat /\ m = (m - 1) + 1 /\ ~ (m <= m - 1)
    BY <1>1
<1> QED
    BY <1>1, <1>2

\* The sum of what the elements of a set count.
SumOf(F, S) == MapThenSumSet(LAMBDA x : F[x], S)

\* One element of a set and what is left of it.
Pick(s) == CHOOSE x \in s : TRUE

\* A set counts what one of its elements and the rest count.
Step(it, F, s) == IF s = {} THEN 0 ELSE F[Pick(s)] + it[s \ {Pick(s)}]

\* The fold of the library takes some function that follows these steps.
LEMMA SumIsFold ==
    ASSUME NEW F, NEW S, NEW f, f = [s \in SUBSET S |-> Step(f, F, s)]
    PROVE  \E g : g = [s \in SUBSET S |-> Step(g, F, s)] /\ SumOf(F, S) = g[S]
<1> DEFINE R(g) == [s \in SUBSET S |-> Step(g, F, s)]
           it == CHOOSE g : g = R(g)
<1>1. SumOf(F, S) = it[S]
    BY DEF SumOf, MapThenSumSet, MapThenFoldSet, Step, Pick
<1> HIDE DEF R
<1>2. f = R(f)
    BY DEF R
<1>3. it = R(it)
    BY <1>2
<1> QED
    BY <1>1, <1>3 DEF R

\* A function that sums up every subset of a set.
Sums(it, F, S) == it = [s \in SUBSET S |-> Step(it, F, s)]

\* Smaller sets are summed up first.
LEMMA SumExists ==
    ASSUME NEW F, NEW S, IsFiniteSet(S)
    PROVE  \E it : Sums(it, F, S)
<1> DEFINE Small(n) == {s \in SUBSET S : Cardinality(s) <= n}
           Good(it, n) == DOMAIN it = Small(n) /\ \A s \in Small(n) : it[s] = Step(it, F, s)
           W == {n \in Nat : \E it : Good(it, n)}
<1>1. \A s \in SUBSET S : IsFiniteSet(s) /\ Cardinality(s) \in Nat
    BY FS_Subset, FS_CardinalityType
<1>2. \A s \in SUBSET S : s # {} => /\ Pick(s) \in s /\ s \ {Pick(s)} \in SUBSET S
                                    /\ Cardinality(s \ {Pick(s)}) = Cardinality(s) - 1
    <2> SUFFICES ASSUME NEW s \in SUBSET S, s # {}
                 PROVE  /\ Pick(s) \in s /\ s \ {Pick(s)} \in SUBSET S
                        /\ Cardinality(s \ {Pick(s)}) = Cardinality(s) - 1
        OBVIOUS
    <2>1. Pick(s) \in s
        BY DEF Pick
    <2> QED
        BY <1>1, <2>1, FS_RemoveElement
<1>3. 0 \in W
    <2> DEFINE it == [s \in Small(0) |-> 0]
    <2>1. \A s \in Small(0) : s = {}
        BY <1>1, FS_EmptySet
    <2>2. Good(it, 0)
        BY <2>1 DEF Step
    <2> QED
        BY <2>2
<1>4. ASSUME NEW n \in W PROVE n + 1 \in W
    <2>1. n \in Nat
        OBVIOUS
    <2>2. PICK it : Good(it, n)
        OBVIOUS
    <2> DEFINE jt == [s \in Small(n + 1) |-> IF s \in Small(n) THEN it[s] ELSE Step(it, F, s)]
    <2>3. \A s \in Small(n + 1) : s # {} => s \ {Pick(s)} \in Small(n) /\ s \ {Pick(s)} \in Small(n + 1)
        BY <1>1, <1>2, <2>1
    <2>4. \A s \in Small(n + 1) : Step(jt, F, s) = Step(it, F, s)
        BY <2>3 DEF Step
    <2>5. \A s \in Small(n) : s \in Small(n + 1) /\ it[s] = Step(it, F, s)
        BY <1>1, <2>1, <2>2
    <2>6. Good(jt, n + 1)
        <3>1. \A s \in Small(n + 1) : jt[s] = Step(it, F, s)
            BY <2>5
        <3>2. DOMAIN jt = Small(n + 1)
            OBVIOUS
        <3> HIDE DEF jt
        <3> QED
            BY <2>4, <3>1, <3>2
    <2>7. n + 1 \in Nat
        BY <2>1
    <2> HIDE DEF Good, jt
    <2> QED
        BY <2>6, <2>7
<1>5. W = Nat
    <2>1. W \in SUBSET Nat
        OBVIOUS
    <2> HIDE DEF W
    <2> QED
        BY <1>3, <1>4, <2>1, CountUp
<1>6. PICK it : Good(it, Cardinality(S))
    <2>1. Cardinality(S) \in Nat
        BY FS_CardinalityType
    <2> HIDE DEF Good
    <2> QED
        BY <1>5, <2>1
<1>7. \A s \in SUBSET S : s \in Small(Cardinality(S))
    BY FS_Subset
<1>8. Small(Cardinality(S)) = SUBSET S
    BY <1>7
<1>9. Sums([s \in SUBSET S |-> it[s]], F, S)
    <2> DEFINE jt == [s \in SUBSET S |-> it[s]]
    <2>1. \A s \in SUBSET S : Step(jt, F, s) = Step(it, F, s)
        BY <1>2 DEF Step
    <2>2. \A s \in SUBSET S : jt[s] = Step(jt, F, s)
        BY <1>6, <1>8, <2>1
    <2> HIDE DEF Good, Small
    <2> QED
        BY <2>2 DEF Sums
<1> QED
    BY <1>9

\* Two ways to sum the same elements agree where both are defined.
LEMMA SumIsUnique ==
    ASSUME NEW F, NEW S, NEW T, IsFiniteSet(S), IsFiniteSet(T),
           NEW it, Sums(it, F, S), NEW jt, Sums(jt, F, T)
    PROVE  \A s \in (SUBSET S) \cap (SUBSET T) : it[s] = jt[s]
<1> DEFINE W == {n \in Nat : \A s \in (SUBSET S) \cap (SUBSET T) : Cardinality(s) <= n => it[s] = jt[s]}
<1>1. \A s \in SUBSET S : IsFiniteSet(s) /\ Cardinality(s) \in Nat
    BY FS_Subset, FS_CardinalityType
<1>2. \A s \in (SUBSET S) \cap (SUBSET T) :
          it[s] = Step(it, F, s) /\ jt[s] = Step(jt, F, s)
    BY DEF Sums
<1>3. 0 \in W
    <2>1. \A s \in SUBSET S : Cardinality(s) <= 0 => s = {}
        BY <1>1, FS_EmptySet
    <2> QED
        BY <1>2, <2>1 DEF Step
<1>4. ASSUME NEW n \in W PROVE n + 1 \in W
    <2>1. n \in Nat /\ n + 1 \in Nat
        OBVIOUS
    <2>2. ASSUME NEW s \in (SUBSET S) \cap (SUBSET T), Cardinality(s) <= n + 1, s # {}
          PROVE  it[s] = jt[s]
        <3>1. Pick(s) \in s
            BY <2>2 DEF Pick
        <3>2. Cardinality(s \ {Pick(s)}) = Cardinality(s) - 1
            BY <1>1, <3>1, FS_RemoveElement
        <3>3. it[s \ {Pick(s)}] = jt[s \ {Pick(s)}]
            BY <1>1, <2>1, <2>2, <3>2
        <3> QED
            BY <1>2, <2>2, <3>3 DEF Step
    <2>3. it[{}] = jt[{}]
        BY <1>2 DEF Step
    <2> QED
        BY <2>1, <2>2, <2>3
<1>5. W = Nat
    <2>1. W \in SUBSET Nat
        OBVIOUS
    <2> HIDE DEF W
    <2> QED
        BY <1>3, <1>4, <2>1, CountUp
<1> QED
    BY <1>1, <1>5

\* Any function that sums up the subsets of a set gives their sums.
LEMMA SumIs ==
    ASSUME NEW F, NEW S, IsFiniteSet(S), NEW it, Sums(it, F, S)
    PROVE  \A s \in SUBSET S : SumOf(F, s) = it[s]
<1> SUFFICES ASSUME NEW s \in SUBSET S PROVE SumOf(F, s) = it[s]
    OBVIOUS
<1>1. IsFiniteSet(s)
    BY FS_Subset
<1>2. PICK f : Sums(f, F, s)
    BY <1>1, SumExists
<1>3. PICK g : Sums(g, F, s) /\ SumOf(F, s) = g[s]
    BY <1>2, SumIsFold DEF Sums
<1> QED
    BY <1>1, <1>3, SumIsUnique

\* Whatever element is picked, the sum of a set is that of the rest and one more.
LEMMA SumOfMore ==
    ASSUME NEW F, NEW S, IsFiniteSet(S), \A x \in S : F[x] \in Nat
    PROVE  /\ SumOf(F, {}) = 0
           /\ \A s \in SUBSET S : SumOf(F, s) \in Nat
           /\ \A s \in SUBSET S : \A x \in s : SumOf(F, s) = F[x] + SumOf(F, s \ {x})
<1>1. PICK it : Sums(it, F, S)
    BY SumExists
<1>2. \A s \in SUBSET S : SumOf(F, s) = it[s] /\ it[s] = Step(it, F, s)
    <2>1. \A s \in SUBSET S : SumOf(F, s) = it[s]
        BY <1>1, SumIs
    <2>2. \A s \in SUBSET S : it[s] = Step(it, F, s)
        BY <1>1 DEF Sums
    <2> QED
        BY <2>1, <2>2
<1>3. \A s \in SUBSET S : s # {} =>
          Pick(s) \in s /\ SumOf(F, s) = F[Pick(s)] + SumOf(F, s \ {Pick(s)})
    <2> SUFFICES ASSUME NEW s \in SUBSET S, s # {}
                 PROVE  Pick(s) \in s /\ SumOf(F, s) = F[Pick(s)] + SumOf(F, s \ {Pick(s)})
        OBVIOUS
    <2>1. Pick(s) \in s
        BY DEF Pick
    <2>2. it[s] = F[Pick(s)] + it[s \ {Pick(s)}]
        BY <1>2 DEF Step
    <2> QED
        BY <1>2, <2>1, <2>2
<1>4. SumOf(F, {}) = 0
    BY <1>2 DEF Step
<1> DEFINE Good(s) == SumOf(F, s) \in Nat /\ \A x \in s : SumOf(F, s) = F[x] + SumOf(F, s \ {x})
           W == {n \in Nat : \A s \in SUBSET S : Cardinality(s) <= n => Good(s)}
<1>5. \A s \in SUBSET S : IsFiniteSet(s) /\ Cardinality(s) \in Nat
    BY FS_Subset, FS_CardinalityType
<1>6. 0 \in W
    <2>1. \A s \in SUBSET S : Cardinality(s) <= 0 => s = {}
        BY <1>5, FS_EmptySet
    <2>2. Good({})
        BY <1>4
    <2> HIDE DEF Good
    <2> QED
        BY <2>1, <2>2
<1>7. ASSUME NEW n \in W PROVE n + 1 \in W
    <2>1. n \in Nat /\ n + 1 \in Nat
        OBVIOUS
    <2>0. \A s \in SUBSET S : Cardinality(s) <= n => Good(s)
        OBVIOUS
    <2>2. ASSUME NEW s \in SUBSET S, Cardinality(s) <= n + 1, s # {} PROVE Good(s)
        <3> DEFINE c == Pick(s)
        <3>1. c \in s /\ SumOf(F, s) = F[c] + SumOf(F, s \ {c})
            BY <1>3, <2>2
        <3> HIDE DEF c
        <3>2. \A x \in s : Cardinality(s \ {x}) = Cardinality(s) - 1 /\ s \ {x} \in SUBSET S
            BY <1>5, FS_RemoveElement
        <3>3. \A x \in s : Good(s \ {x})
            <4> HIDE DEF Good
            <4> QED
                BY <1>5, <2>0, <2>1, <2>2, <3>2
        <3>4. SumOf(F, s) \in Nat
            BY <3>1, <3>3
        <3>5. ASSUME NEW x \in s, x # c PROVE SumOf(F, s) = F[x] + SumOf(F, s \ {x})
            <4>1. x \in s \ {c} /\ c \in s \ {x} /\ (s \ {c}) \ {x} = (s \ {x}) \ {c}
                BY <3>1, <3>5
            <4>2. SumOf(F, s \ {c}) = F[x] + SumOf(F, (s \ {c}) \ {x})
                BY <3>1, <3>3, <4>1
            <4>3. SumOf(F, s \ {x}) = F[c] + SumOf(F, (s \ {x}) \ {c})
                BY <3>3, <4>1
            <4>4. PICK k : k = SumOf(F, (s \ {x}) \ {c})
                OBVIOUS
            <4>5. k \in Nat
                <5>1. Cardinality((s \ {x}) \ {c}) <= n /\ (s \ {x}) \ {c} \in SUBSET S
                    <6>1. IsFiniteSet(s \ {x}) /\ Cardinality(s \ {x}) \in Nat
                        BY <1>5, <3>2
                    <6>2. Cardinality((s \ {x}) \ {c}) = Cardinality(s \ {x}) - 1
                        BY <4>1, <6>1, FS_RemoveElement
                    <6> QED
                        BY <1>5, <2>1, <2>2, <3>2, <6>1, <6>2
                <5>2. Good((s \ {x}) \ {c})
                    BY <2>0, <5>1
                <5> QED
                    BY <4>4, <5>2
            <4>6. F[x] \in Nat /\ F[c] \in Nat
                BY <3>1
            <4> QED
                BY <3>1, <4>1, <4>2, <4>3, <4>4, <4>5, <4>6
        <3> QED
            BY <3>1, <3>4, <3>5
    <2>3. Good({})
        BY <1>4
    <2> HIDE DEF Good
    <2> QED
        BY <2>1, <2>2, <2>3
<1>8. W = Nat
    <2>1. W \in SUBSET Nat
        OBVIOUS
    <2> HIDE DEF W
    <2> QED
        BY <1>6, <1>7, <2>1, CountUp
<1>9. \A s \in SUBSET S : Good(s)
    <2> HIDE DEF Good
    <2> QED
        BY <1>5, <1>8
<1> QED
    BY <1>4, <1>9

\* Two sets that have nothing in common are summed up one after the other.
LEMMA SumOfBoth ==
    ASSUME NEW F, NEW S, IsFiniteSet(S), \A x \in S : F[x] \in Nat,
           NEW A \in SUBSET S, NEW B \in SUBSET S, A \cap B = {}
    PROVE  SumOf(F, A \cup B) = SumOf(F, A) + SumOf(F, B)
<1> DEFINE W == {n \in Nat : \A b \in SUBSET B : Cardinality(b) <= n =>
                                SumOf(F, A \cup b) = SumOf(F, A) + SumOf(F, b)}
<1>1. \A b \in SUBSET B : IsFiniteSet(b) /\ Cardinality(b) \in Nat
    BY FS_Subset, FS_CardinalityType
<1>2. /\ SumOf(F, {}) = 0
      /\ \A s \in SUBSET S : SumOf(F, s) \in Nat
      /\ \A s \in SUBSET S : \A x \in s : SumOf(F, s) = F[x] + SumOf(F, s \ {x})
    BY SumOfMore
<1>3. SumOf(F, A \cup {}) = SumOf(F, A) + SumOf(F, {})
    BY <1>2
<1>4. 0 \in W
    <2>1. \A b \in SUBSET B : Cardinality(b) <= 0 => b = {}
        BY <1>1, FS_EmptySet
    <2> QED
        BY <1>3, <2>1
<1>5. ASSUME NEW n \in W PROVE n + 1 \in W
    <2>1. n \in Nat /\ n + 1 \in Nat
        OBVIOUS
    <2>2. ASSUME NEW b \in SUBSET B, Cardinality(b) <= n + 1, b # {}
          PROVE  SumOf(F, A \cup b) = SumOf(F, A) + SumOf(F, b)
        <3>1. PICK x \in b : TRUE
            BY <2>2
        <3>2. Cardinality(b \ {x}) = Cardinality(b) - 1
            BY <1>1, <3>1, FS_RemoveElement
        <3>3. SumOf(F, A \cup (b \ {x})) = SumOf(F, A) + SumOf(F, b \ {x})
            BY <1>1, <2>1, <2>2, <3>2
        <3>4. (A \cup b) \ {x} = A \cup (b \ {x}) /\ x \in A \cup b /\ A \cup b \in SUBSET S
            BY <3>1
        <3>5. /\ SumOf(F, A \cup b) = F[x] + SumOf(F, A \cup (b \ {x}))
              /\ SumOf(F, b) = F[x] + SumOf(F, b \ {x})
            BY <1>2, <3>1, <3>4
        <3>6. /\ SumOf(F, A) \in Nat /\ SumOf(F, b \ {x}) \in Nat /\ F[x] \in Nat
            BY <1>2, <3>1
        <3> QED
            BY <3>3, <3>5, <3>6
    <2> QED
        BY <1>3, <2>1, <2>2
<1>6. W = Nat
    <2>1. W \in SUBSET Nat
        OBVIOUS
    <2> HIDE DEF W
    <2> QED
        BY <1>4, <1>5, <2>1, CountUp
<1>7. B \in SUBSET B
    OBVIOUS
<1> QED
    BY <1>1, <1>6, <1>7

\* A property of all small subsets of a finite set, if it holds of the empty one and
\* grows with one element, holds of all of them.
LEMMA SubsetsUp ==
    ASSUME NEW S, IsFiniteSet(S), NEW Q \in SUBSET (SUBSET S), {} \in Q,
           \A s \in SUBSET S : \A x \in s : s \ {x} \in Q => s \in Q
    PROVE  Q = SUBSET S
<1> DEFINE W == {n \in Nat : \A s \in SUBSET S : Cardinality(s) <= n => s \in Q}
<1>1. \A s \in SUBSET S : IsFiniteSet(s) /\ Cardinality(s) \in Nat
    BY FS_Subset, FS_CardinalityType
<1>2. 0 \in W
    <2>1. \A s \in SUBSET S : Cardinality(s) <= 0 => s = {}
        BY <1>1, FS_EmptySet
    <2> QED
        BY <2>1
<1>3. ASSUME NEW n \in W PROVE n + 1 \in W
    <2>1. n \in Nat /\ n + 1 \in Nat
        OBVIOUS
    <2>2. ASSUME NEW s \in SUBSET S, Cardinality(s) <= n + 1, s # {} PROVE s \in Q
        <3>1. PICK x \in s : TRUE
            BY <2>2
        <3>2. Cardinality(s \ {x}) = Cardinality(s) - 1
            BY <1>1, <3>1, FS_RemoveElement
        <3>3. s \ {x} \in Q
            BY <1>1, <2>1, <2>2, <3>2
        <3> QED
            BY <3>1, <3>3
    <2> QED
        BY <2>1, <2>2
<1>4. W = Nat
    <2>1. W \in SUBSET Nat
        OBVIOUS
    <2> HIDE DEF W
    <2> QED
        BY <1>2, <1>3, <2>1, CountUp
<1> QED
    BY <1>1, <1>4

\* A sum over elements that count the same is the same.
LEMMA SumOfSame ==
    ASSUME NEW F, NEW G, NEW S, IsFiniteSet(S), \A x \in S : F[x] = G[x]
    PROVE  SumOf(F, S) = SumOf(G, S)
<1>1. PICK it : Sums(it, F, S)
    BY SumExists
<1>2. \A s \in SUBSET S : Step(it, F, s) = Step(it, G, s)
    <2>1. \A s \in SUBSET S : s # {} => Pick(s) \in S
        BY DEF Pick
    <2> QED
        BY <2>1 DEF Step
<1>3. Sums(it, G, S)
    BY <1>1, <1>2 DEF Sums
<1> QED
    BY <1>1, <1>3, SumIs

\* What counts nothing can be left out.
LEMMA SumOfSome ==
    ASSUME NEW F, NEW S, IsFiniteSet(S), \A x \in S : F[x] \in Nat,
           NEW A \in SUBSET S, \A x \in S \ A : F[x] = 0
    PROVE  SumOf(F, S) = SumOf(F, A)
<1> DEFINE B == S \ A
           Q == {s \in SUBSET B : SumOf(F, s) = 0}
<1>1. /\ SumOf(F, {}) = 0
      /\ \A s \in SUBSET S : SumOf(F, s) \in Nat
      /\ \A s \in SUBSET S : \A x \in s : SumOf(F, s) = F[x] + SumOf(F, s \ {x})
    BY SumOfMore
<1>2. IsFiniteSet(B) /\ {} \in Q /\ Q \in SUBSET (SUBSET B)
    BY <1>1, FS_Subset
<1>3. \A s \in SUBSET B : \A x \in s : s \ {x} \in Q => s \in Q
    BY <1>1
<1>4. Q = SUBSET B
    <2> HIDE DEF Q
    <2> QED
        BY <1>2, <1>3, SubsetsUp
<1>5. SumOf(F, B) = 0
    BY <1>4
<1>6. SumOf(F, A \cup B) = SumOf(F, A) + SumOf(F, B)
    BY SumOfBoth
<1>7. A \cup B = S
    OBVIOUS
<1> HIDE DEF B
<1>8. SumOf(F, S) = SumOf(F, A) + 0 /\ SumOf(F, A) \in Nat
    BY <1>1, <1>5, <1>6, <1>7
<1> QED
    BY <1>8

\* The things of a set under other names.
Image(h, s) == {h[x] : x \in s}

\* Under their other names things count the same, and no two of them have one name.
Renames(h, F, G, S) ==
    /\ \A x \in S : F[x] \in Nat /\ G[h[x]] = F[x]
    /\ \A x, y \in S : h[x] = h[y] => x = y

\* Counting things under other names.
LEMMA SumOfImage ==
    ASSUME NEW F, NEW G, NEW h, NEW S, IsFiniteSet(S), Renames(h, F, G, S)
    PROVE  SumOf(G, Image(h, S)) = SumOf(F, S)
<1> DEFINE Q == {s \in SUBSET S : SumOf(G, Image(h, s)) = SumOf(F, s)}
           T == Image(h, S)
<1>1. IsFiniteSet(T)
    <2>1. [x \in S |-> h[x]] \in Surjection(S, T)
        BY DEF Surjection, Image
    <2> QED
        BY <2>1, FS_Surjection
<1>2. \A y \in T : G[y] \in Nat
    BY DEF Image, Renames
<1>3. /\ SumOf(F, {}) = 0
      /\ \A s \in SUBSET S : \A x \in s : SumOf(F, s) = F[x] + SumOf(F, s \ {x})
    <2>1. \A x \in S : F[x] \in Nat
        BY DEF Renames
    <2> QED
        BY <2>1, SumOfMore
<1>4. /\ SumOf(G, {}) = 0
      /\ \A s \in SUBSET T : \A y \in s : SumOf(G, s) = G[y] + SumOf(G, s \ {y})
    <2> HIDE DEF T
    <2> QED
        BY <1>1, <1>2, SumOfMore
<1>5. {} \in Q /\ Q \in SUBSET (SUBSET S)
    <2>1. Image(h, {}) = {}
        BY DEF Image
    <2> QED
        BY <1>3, <1>4, <2>1
<1>6. \A s \in SUBSET S : \A x \in s : s \ {x} \in Q => s \in Q
    <2> SUFFICES ASSUME NEW s \in SUBSET S, NEW x \in s, s \ {x} \in Q PROVE s \in Q
        OBVIOUS
    <2>1. Image(h, s) \in SUBSET T /\ h[x] \in Image(h, s) /\ Image(h, s) \ {h[x]} = Image(h, s \ {x})
        BY DEF Image, Renames
    <2>2. SumOf(G, Image(h, s)) = G[h[x]] + SumOf(G, Image(h, s \ {x}))
        BY <1>4, <2>1
    <2>3. SumOf(F, s) = F[x] + SumOf(F, s \ {x})
        BY <1>3
    <2>4. G[h[x]] = F[x]
        BY DEF Renames
    <2> QED
        BY <2>2, <2>3, <2>4
<1>7. Q = SUBSET S
    <2> HIDE DEF Q
    <2> QED
        BY <1>5, <1>6, SubsetsUp
<1> QED
    BY <1>7

\* A sum over sets that have nothing in common is the sum of their sums.
LEMMA SumOfParts ==
    ASSUME NEW G, NEW A, IsFiniteSet(A), NEW U, IsFiniteSet(U), NEW R \in [A -> SUBSET U],
           \A y \in U : G[y] \in Nat,
           \A a, b \in A : a # b => R[a] \cap R[b] = {}
    PROVE  SumOf(G, UNION {R[a] : a \in A}) = SumOf([a \in A |-> SumOf(G, R[a])], A)
<1> DEFINE F == [a \in A |-> SumOf(G, R[a])]
           Of(B) == UNION {R[a] : a \in B}
           Q == {B \in SUBSET A : SumOf(G, Of(B)) = SumOf(F, B)}
<1>1. \A s \in SUBSET U : SumOf(G, s) \in Nat
    BY SumOfMore
<1>2. \A a \in A : F[a] \in Nat /\ F[a] = SumOf(G, R[a])
    BY <1>1
<1>3. /\ SumOf(F, {}) = 0
      /\ \A s \in SUBSET A : \A x \in s : SumOf(F, s) = F[x] + SumOf(F, s \ {x})
    <2> HIDE DEF F
    <2> QED
        BY <1>2, SumOfMore
<1>4. {} \in Q /\ Q \in SUBSET (SUBSET A)
    <2>1. Of({}) = {}
        OBVIOUS
    <2>2. SumOf(G, {}) = 0
        BY SumOfMore
    <2> HIDE DEF Of, F
    <2> QED
        BY <1>3, <2>1, <2>2
<1>5. \A B \in SUBSET A : \A a \in B : B \ {a} \in Q => B \in Q
    <2> SUFFICES ASSUME NEW B \in SUBSET A, NEW a \in B, B \ {a} \in Q PROVE B \in Q
        OBVIOUS
    <2>1. Of(B) = R[a] \cup Of(B \ {a}) /\ R[a] \cap Of(B \ {a}) = {}
        OBVIOUS
    <2>2. R[a] \in SUBSET U /\ Of(B \ {a}) \in SUBSET U
        OBVIOUS
    <2> HIDE DEF Of
    <2>3. SumOf(G, Of(B)) = SumOf(G, R[a]) + SumOf(G, Of(B \ {a}))
        <3>1. PICK X \in SUBSET U, Y \in SUBSET U : X = R[a] /\ Y = Of(B \ {a})
            BY <2>2
        <3>2. SumOf(G, X \cup Y) = SumOf(G, X) + SumOf(G, Y)
            <4>1. X \cap Y = {}
                BY <2>1, <3>1
            <4> QED
                BY <4>1, SumOfBoth
        <3> QED
            BY <2>1, <3>1, <3>2
    <2> HIDE DEF F
    <2>4. SumOf(F, B) = F[a] + SumOf(F, B \ {a})
        BY <1>3
    <2> QED
        BY <1>2, <2>3, <2>4
<1>6. Q = SUBSET A
    <2> HIDE DEF Q
    <2> QED
        BY <1>4, <1>5, SubsetsUp
<1> QED
    BY <1>6

-----------------------------------------------------------------------------
(***************************************************************************)
(* The totals as sums.  Each is a fold of the library over an operator of  *)
(* its own, which no lemma can take as a parameter; each is shown to be a  *)
(* SumOf in the same way.                                                  *)
(***************************************************************************)

\* The rows, or the items, of a material.
Wanted(rows, code) == {r \in rows : Counts(r, code)}

\* The count of a file as a sum.
LEMMA CountIs ==
    ASSUME NEW rows, NEW code, IsFiniteSet(Wanted(rows, code))
    PROVE  CountIn(rows, code) = SumOf([r \in Wanted(rows, code) |-> QuestQty(r)], Wanted(rows, code))
<1> DEFINE X == Wanted(rows, code)
           F == [r \in X |-> QuestQty(r)]
           R(g) == [s \in SUBSET X |-> IF s = {} THEN 0
                                       ELSE QuestQty(Pick(s)) + g[s \ {Pick(s)}]]
           it == CHOOSE g : g = R(g)
<1>1. CountIn(rows, code) = it[X]
    BY DEF CountIn, Wanted, Counts, MapThenSumSet, MapThenFoldSet, Pick
<1>2. PICK f : Sums(f, F, X)
    BY SumExists
<1>3. \A s \in SUBSET X : s # {} => Pick(s) \in X /\ F[Pick(s)] = QuestQty(Pick(s))
    BY DEF Pick
<1> HIDE DEF F
<1>4. \A g : R(g) = [s \in SUBSET X |-> Step(g, F, s)]
    BY <1>3 DEF Step
<1> HIDE DEF R
<1>5. f = R(f)
    BY <1>2, <1>4 DEF Sums
<1>6. it = R(it)
    BY <1>5
<1> HIDE DEF it
<1>7. Sums(it, F, X)
    BY <1>4, <1>6 DEF Sums
<1>8. X \in SUBSET X
    OBVIOUS
<1> HIDE DEF X
<1>9. SumOf(F, X) = it[X]
    BY <1>7, <1>8, SumIs DEF X
<1> QED
    BY <1>1, <1>9 DEF F, X

\* The runes of a snapshot as a sum.
LEMMA StacksAre ==
    ASSUME NEW rows, IsFiniteSet(Wanted(rows, "r01"))
    PROVE  RuneStacks(rows, "r01") = SumOf([r \in Wanted(rows, "r01") |-> EffectiveStackCount(r)], Wanted(rows, "r01"))
<1> DEFINE X == Wanted(rows, "r01")
           F == [r \in X |-> EffectiveStackCount(r)]
           R(g) == [s \in SUBSET X |-> IF s = {} THEN 0
                                       ELSE EffectiveStackCount(Pick(s)) + g[s \ {Pick(s)}]]
           it == CHOOSE g : g = R(g)
<1>1. RuneStacks(rows, "r01") = it[X]
    BY DEF RuneStacks, Wanted, Counts, MapThenSumSet, MapThenFoldSet, Pick
<1>2. PICK f : Sums(f, F, X)
    BY SumExists
<1>3. \A s \in SUBSET X : s # {} => Pick(s) \in X /\ F[Pick(s)] = EffectiveStackCount(Pick(s))
    BY DEF Pick
<1> HIDE DEF F
<1>4. \A g : R(g) = [s \in SUBSET X |-> Step(g, F, s)]
    BY <1>3 DEF Step
<1> HIDE DEF R
<1>5. f = R(f)
    BY <1>2, <1>4 DEF Sums
<1>6. it = R(it)
    BY <1>5
<1> HIDE DEF it
<1>7. Sums(it, F, X)
    BY <1>4, <1>6 DEF Sums
<1>8. X \in SUBSET X
    OBVIOUS
<1> HIDE DEF X
<1>9. SumOf(F, X) = it[X]
    BY <1>7, <1>8, SumIs DEF X
<1> QED
    BY <1>1, <1>9 DEF F, X

\* The pieces in a file as a sum.
LEMMA PiecesOfIs ==
    ASSUME NEW b, NEW code, IsFiniteSet(Wanted(b.items, code))
    PROVE  PiecesOf(b, code) = SumOf([x \in Wanted(b.items, code) |-> Size(x)], Wanted(b.items, code))
<1> DEFINE X == Wanted(b.items, code)
           F == [x \in X |-> Size(x)]
           R(g) == [s \in SUBSET X |-> IF s = {} THEN 0
                                       ELSE Size(Pick(s)) + g[s \ {Pick(s)}]]
           it == CHOOSE g : g = R(g)
<1>1. PiecesOf(b, code) = it[X]
    BY DEF PiecesOf, Wanted, MapThenSumSet, MapThenFoldSet, Pick
<1>2. PICK f : Sums(f, F, X)
    BY SumExists
<1>3. \A s \in SUBSET X : s # {} => Pick(s) \in X /\ F[Pick(s)] = Size(Pick(s))
    BY DEF Pick
<1> HIDE DEF F
<1>4. \A g : R(g) = [s \in SUBSET X |-> Step(g, F, s)]
    BY <1>3 DEF Step
<1> HIDE DEF R
<1>5. f = R(f)
    BY <1>2, <1>4 DEF Sums
<1>6. it = R(it)
    BY <1>5
<1> HIDE DEF it
<1>7. Sums(it, F, X)
    BY <1>4, <1>6 DEF Sums
<1>8. X \in SUBSET X
    OBVIOUS
<1> HIDE DEF X
<1>9. SumOf(F, X) = it[X]
    BY <1>7, <1>8, SumIs DEF X
<1> QED
    BY <1>1, <1>9 DEF F, X

\* The pieces in some files as a sum of sums.
LEMMA PiecesAre ==
    ASSUME NEW files, NEW which, NEW code, IsFiniteSet(which)
    PROVE  Pieces(files, which, code) = SumOf([f \in which |-> PiecesOf(files[f], code)], which)
<1> DEFINE X == which
           F == [f \in X |-> PiecesOf(files[f], code)]
           R(g) == [s \in SUBSET X |-> IF s = {} THEN 0
                                       ELSE PiecesOf(files[Pick(s)], code) + g[s \ {Pick(s)}]]
           it == CHOOSE g : g = R(g)
<1>1. Pieces(files, which, code) = it[X]
    BY DEF Pieces, MapThenSumSet, MapThenFoldSet, Pick
<1>2. PICK f : Sums(f, F, X)
    BY SumExists
<1>3. \A s \in SUBSET X : s # {} => Pick(s) \in X /\ F[Pick(s)] = PiecesOf(files[Pick(s)], code)
    BY DEF Pick
<1> HIDE DEF F
<1>4. \A g : R(g) = [s \in SUBSET X |-> Step(g, F, s)]
    BY <1>3 DEF Step
<1> HIDE DEF R
<1>5. f = R(f)
    BY <1>2, <1>4 DEF Sums
<1>6. it = R(it)
    BY <1>5
<1> HIDE DEF it
<1>7. Sums(it, F, X)
    BY <1>4, <1>6 DEF Sums
<1>8. X \in SUBSET X
    OBVIOUS
<1> HIDE DEF X
<1>9. SumOf(F, X) = it[X]
    BY <1>7, <1>8, SumIs DEF X
<1> QED
    BY <1>1, <1>9 DEF F, X

\* A total of the Uber pane as a sum of counts.
LEMMA TotalIs ==
    ASSUME NEW files, NEW code, IsFiniteSet(Present(files))
    PROVE  Total(files, code) = SumOf([f \in Present(files) |-> CountIn(FileRows(f, files[f]), code)], Present(files))
<1> DEFINE X == Present(files)
           F == [f \in X |-> CountIn(FileRows(f, files[f]), code)]
           R(g) == [s \in SUBSET X |-> IF s = {} THEN 0
                                       ELSE CountIn(FileRows(Pick(s), files[Pick(s)]), code) + g[s \ {Pick(s)}]]
           it == CHOOSE g : g = R(g)
<1>1. Total(files, code) = it[X]
    BY DEF Total, MapThenSumSet, MapThenFoldSet, Pick
<1>2. PICK f : Sums(f, F, X)
    BY SumExists
<1>3. \A s \in SUBSET X : s # {} => Pick(s) \in X /\ F[Pick(s)] = CountIn(FileRows(Pick(s), files[Pick(s)]), code)
    BY DEF Pick
<1> HIDE DEF F
<1>4. \A g : R(g) = [s \in SUBSET X |-> Step(g, F, s)]
    BY <1>3 DEF Step
<1> HIDE DEF R
<1>5. f = R(f)
    BY <1>2, <1>4 DEF Sums
<1>6. it = R(it)
    BY <1>5
<1> HIDE DEF it
<1>7. Sums(it, F, X)
    BY <1>4, <1>6 DEF Sums
<1>8. X \in SUBSET X
    OBVIOUS
<1> HIDE DEF X
<1>9. SumOf(F, X) = it[X]
    BY <1>7, <1>8, SumIs DEF X
<1> QED
    BY <1>1, <1>9 DEF F, X

\* The table of the Uber pane as a sum.
LEMMA TorchesAre ==
    ASSUME NEW files, IsFiniteSet(Files)
    PROVE  MapThenSumSet(LAMBDA f : TorchesOf(files, f), Files) = SumOf([f \in Files |-> TorchesOf(files, f)], Files)
<1> DEFINE X == Files
           F == [f \in X |-> TorchesOf(files, f)]
           R(g) == [s \in SUBSET X |-> IF s = {} THEN 0
                                       ELSE TorchesOf(files, Pick(s)) + g[s \ {Pick(s)}]]
           it == CHOOSE g : g = R(g)
<1>1. MapThenSumSet(LAMBDA f : TorchesOf(files, f), Files) = it[X]
    BY DEF MapThenSumSet, MapThenFoldSet, Pick
<1>2. PICK f : Sums(f, F, X)
    BY SumExists
<1>3. \A s \in SUBSET X : s # {} => Pick(s) \in X /\ F[Pick(s)] = TorchesOf(files, Pick(s))
    BY DEF Pick
<1> HIDE DEF F
<1>4. \A g : R(g) = [s \in SUBSET X |-> Step(g, F, s)]
    BY <1>3 DEF Step
<1> HIDE DEF R
<1>5. f = R(f)
    BY <1>2, <1>4 DEF Sums
<1>6. it = R(it)
    BY <1>5
<1> HIDE DEF it
<1>7. Sums(it, F, X)
    BY <1>4, <1>6 DEF Sums
<1>8. X \in SUBSET X
    OBVIOUS
<1> HIDE DEF X
<1>9. SumOf(F, X) = it[X]
    BY <1>7, <1>8, SumIs DEF X
<1> QED
    BY <1>1, <1>9 DEF F, X

-----------------------------------------------------------------------------
(***************************************************************************)
(* What is summed up: the rows of a file are its items under other names   *)
(***************************************************************************)

\* A file whose items all parse.
Readable(b) == \A x \in b.items : Catalog[x.item].readable

\* There are finitely many files and things.
LEMMA FilesAreFinite == IsFiniteSet(Files) /\ IsFiniteSet(Items)
BY AccountSnapshotAssumption, FS_AddElement DEF Files, Items

\* A file has finitely many items.
LEMMA ItemsAreFinite ==
    ASSUME NEW b \in FileBytes
    PROVE  IsFiniteSet(b.items)
<1> DEFINE f == [x \in b.items |-> x.item]
<1>1. f \in Injection(b.items, Items)
    BY DEF FileBytes, ItemRecord, Injection, IsInjective
<1> HIDE DEF f
<1> QED
    BY <1>1, FilesAreFinite, FS_Injection

\* The rows of a file are its items under other names.
LEMMA RowsAreItems ==
    ASSUME NEW f \in Files, NEW b \in FileBytes, Readable(b), NEW code
    PROVE  LET h == [x \in b.items |-> Row(f, x)]
           IN  /\ Wanted(FileRows(f, b), code) = Image(h, Wanted(b.items, code))
               /\ \A x, y \in b.items : h[x] = h[y] => x = y
               /\ IsFiniteSet(Wanted(b.items, code))
               /\ IsFiniteSet(FileRows(f, b))
<1> DEFINE h == [x \in b.items |-> Row(f, x)]
<1>1. FileRows(f, b) = {Row(f, x) : x \in b.items}
    BY DEF FileRows, Parses, Readable
<1>2. \A x : Counts(Row(f, x), code) <=> Counts(x, code)
    BY DEF Counts, Row, IsTorch, IdOf, Quality
<1>3. Wanted(FileRows(f, b), code) = {Row(f, x) : x \in Wanted(b.items, code)}
    BY <1>1, <1>2 DEF Wanted
<1>4. Wanted(b.items, code) \in SUBSET b.items
    BY DEF Wanted
<1>5. Image(h, Wanted(b.items, code)) = {Row(f, x) : x \in Wanted(b.items, code)}
    BY <1>4 DEF Image
<1>6. \A x, y \in b.items : h[x] = h[y] => x = y
    <2>1. \A x : Row(f, x).item = x.item
        BY DEF Row
    <2> QED
        BY <2>1 DEF FileBytes
<1>7. IsFiniteSet(b.items)
    BY ItemsAreFinite
<1>8. IsFiniteSet(FileRows(f, b))
    <2>1. h \in Surjection(b.items, FileRows(f, b))
        BY <1>1 DEF Surjection
    <2> QED
        BY <1>7, <2>1, FS_Surjection
<1> QED
    BY <1>3, <1>4, <1>5, <1>6, <1>7, <1>8, FS_Subset

\* What each row and each item counts.
LEMMA NumbersAre ==
    ASSUME NEW f \in Files, NEW b \in FileBytes, NEW x \in b.items
    PROVE  /\ Size(x) \in Nat
           /\ EffectiveStackCount(Row(f, x)) = Size(x)
           /\ QuestQty(Row(f, x)) \in Nat
           /\ (Catalog[x.item].slot => x.stacks > 0) => QuestQty(Row(f, x)) = Size(x)
<1>1. Row(f, x).item = x.item /\ Row(f, x).stacks = x.stacks
    BY DEF Row
<1>2. x.stacks \in Nat /\ (x.stacks # 0 => Catalog[x.item].slot)
    <2>1. x \in ItemRecord /\ (x.stacks # 0 => Catalog[x.item].slot)
        BY DEF FileBytes
    <2> QED
        BY <2>1, AccountAssumption DEF ItemRecord
<1>3. PICK n \in Nat : n = x.stacks
    BY <1>2
<1> QED
    BY <1>1, <1>2, <1>3 DEF Size, EffectiveStackCount, QuestQty

\* The runes of a file, by its rows or by its items.
LEMMA RunesOfFile ==
    ASSUME NEW f \in Files, NEW b \in FileBytes, Readable(b),
           NEW U, FileRows(f, b) \subseteq U
    PROVE  SumOf([r \in U |-> EffectiveStackCount(r)], Wanted(FileRows(f, b), "r01")) = PiecesOf(b, "r01")
<1> DEFINE h == [x \in b.items |-> Row(f, x)]
           S == Wanted(b.items, "r01")
           F == [x \in S |-> Size(x)]
           G == [r \in U |-> EffectiveStackCount(r)]
<1>1. /\ Wanted(FileRows(f, b), "r01") = Image(h, S)
      /\ \A x, y \in b.items : h[x] = h[y] => x = y
      /\ IsFiniteSet(S)
    BY RowsAreItems
<1>2. S \subseteq b.items
    BY DEF Wanted
<1>3. \A x \in S : h[x] = Row(f, x) /\ h[x] \in U
    BY <1>2 DEF FileRows, Parses, Readable
<1>4. \A x \in S : F[x] \in Nat /\ G[h[x]] = F[x]
    <2> SUFFICES ASSUME NEW x \in S PROVE F[x] \in Nat /\ G[h[x]] = F[x]
        OBVIOUS
    <2>1. x \in b.items /\ h[x] = Row(f, x) /\ h[x] \in U
        BY <1>2, <1>3
    <2>2. F[x] = Size(x) /\ G[h[x]] = EffectiveStackCount(h[x])
        BY <2>1
    <2> HIDE DEF F, G, h
    <2> QED
        BY <2>1, <2>2, NumbersAre
<1>5. \A x, y \in S : h[x] = h[y] => x = y
    BY <1>1, <1>2
<1> HIDE DEF F, G, h, S
<1>6. SumOf(G, Image(h, S)) = SumOf(F, S)
    BY <1>1, <1>4, <1>5, SumOfImage DEF Renames
<1>7. PiecesOf(b, "r01") = SumOf(F, S)
    BY <1>1, PiecesOfIs DEF F, S
<1> QED
    BY <1>1, <1>6, <1>7 DEF G

\* The count of a file, by its rows or by its items.
LEMMA CountOfFile ==
    ASSUME NEW f \in Files, NEW b \in FileBytes, Readable(b), NEW code,
           \A x \in Wanted(b.items, code) : Catalog[x.item].slot => x.stacks > 0
    PROVE  CountIn(FileRows(f, b), code) = PiecesOf(b, code)
<1> DEFINE h == [x \in b.items |-> Row(f, x)]
           S == Wanted(b.items, code)
           T == Wanted(FileRows(f, b), code)
           F == [x \in S |-> Size(x)]
           G == [r \in T |-> QuestQty(r)]
<1>1. /\ T = Image(h, S)
      /\ \A x, y \in b.items : h[x] = h[y] => x = y
      /\ IsFiniteSet(S)
      /\ IsFiniteSet(FileRows(f, b))
    BY RowsAreItems
<1>2. S \subseteq b.items /\ T \subseteq FileRows(f, b)
    BY DEF Wanted
<1>3. \A x \in S : h[x] = Row(f, x) /\ h[x] \in T
    <2>1. \A x \in S : h[x] \in Image(h, S)
        BY DEF Image
    <2> HIDE DEF T
    <2> QED
        BY <1>1, <1>2, <2>1
<1>4. \A x \in S : F[x] \in Nat /\ G[h[x]] = F[x]
    <2> SUFFICES ASSUME NEW x \in S PROVE F[x] \in Nat /\ G[h[x]] = F[x]
        OBVIOUS
    <2>1. x \in b.items /\ h[x] = Row(f, x) /\ h[x] \in T /\ (Catalog[x.item].slot => x.stacks > 0)
        BY <1>2, <1>3
    <2>2. F[x] = Size(x) /\ G[h[x]] = QuestQty(h[x])
        BY <2>1
    <2> HIDE DEF F, G, h, T, S
    <2> QED
        BY <2>1, <2>2, NumbersAre
<1>5. \A x, y \in S : h[x] = h[y] => x = y
    BY <1>1, <1>2
<1>6. IsFiniteSet(T)
    BY <1>1, <1>2, FS_Subset
<1> HIDE DEF F, G, h, S, T
<1>7. SumOf(G, Image(h, S)) = SumOf(F, S)
    BY <1>1, <1>4, <1>5, SumOfImage DEF Renames
<1>8. PiecesOf(b, code) = SumOf(F, S)
    BY <1>1, PiecesOfIs DEF F, S
<1>9. CountIn(FileRows(f, b), code) = SumOf(G, T)
    BY <1>6, CountIs DEF G, T
<1> QED
    BY <1>1, <1>7, <1>8, <1>9

\* The runes of some files, by the rows of all or by the items of each.
LEMMA RunesOfFiles ==
    ASSUME NEW files \in [Files -> FileBytes \cup {Absent}],
           NEW which \in SUBSET Present(files), \A f \in which : Readable(files[f])
    PROVE  RuneStacks(UNION {FileRows(f, files[f]) : f \in which}, "r01") = Pieces(files, which, "r01")
<1> DEFINE rows == UNION {FileRows(f, files[f]) : f \in which}
           U == Wanted(rows, "r01")
           R == [f \in which |-> Wanted(FileRows(f, files[f]), "r01")]
           G == [r \in U |-> EffectiveStackCount(r)]
           H == [r \in rows |-> EffectiveStackCount(r)]
           F == [f \in which |-> SumOf(G, R[f])]
           P == [f \in which |-> PiecesOf(files[f], "r01")]
<1>1. \A f \in which : f \in Files /\ files[f] \in FileBytes /\ Readable(files[f])
    BY DEF Present
<1>2. IsFiniteSet(which)
    <2>1. which \in SUBSET Files
        BY <1>1
    <2> QED
        BY <2>1, FilesAreFinite, FS_Subset
<1>3. U = UNION {R[f] : f \in which}
    BY DEF Wanted
<1>4. \A f \in which : R[f] \in SUBSET U /\ IsFiniteSet(R[f]) /\ FileRows(f, files[f]) \subseteq rows
    <2> SUFFICES ASSUME NEW f \in which
                 PROVE  R[f] \in SUBSET U /\ IsFiniteSet(R[f]) /\ FileRows(f, files[f]) \subseteq rows
        OBVIOUS
    <2>1. IsFiniteSet(FileRows(f, files[f]))
        BY <1>1, RowsAreItems
    <2>2. R[f] \in SUBSET FileRows(f, files[f])
        BY DEF Wanted
    <2>3. IsFiniteSet(R[f])
        BY <2>1, <2>2, FS_Subset
    <2> HIDE DEF U, R
    <2> QED
        BY <1>3, <2>3
<1>5. IsFiniteSet(U)
    <2>1. [f \in which |-> R[f]] \in Surjection(which, {R[f] : f \in which})
        BY DEF Surjection
    <2>2. IsFiniteSet({R[f] : f \in which})
        <3> HIDE DEF R
        <3> QED
            BY <1>2, <2>1, FS_Surjection
    <2>3. \A T \in {R[f] : f \in which} : IsFiniteSet(T)
        BY <1>4
    <2> HIDE DEF R, U
    <2> QED
        BY <1>3, <2>2, <2>3, FS_UNION
<1>6. \A r \in U : G[r] \in Nat /\ G[r] = H[r]
    <2> SUFFICES ASSUME NEW r \in U PROVE G[r] \in Nat /\ G[r] = H[r]
        OBVIOUS
    <2>1. PICK f \in which : r \in FileRows(f, files[f])
        BY DEF Wanted
    <2>2. PICK x \in files[f].items : r = Row(f, x)
        BY <2>1 DEF FileRows
    <2>3. EffectiveStackCount(r) \in Nat
        BY <1>1, <2>2, NumbersAre
    <2>4. r \in rows
        BY DEF Wanted
    <2> HIDE DEF U, rows
    <2> QED
        BY <2>3, <2>4
<1>7. \A f, g \in which : f # g => R[f] \cap R[g] = {}
    <2> SUFFICES ASSUME NEW f \in which, NEW g \in which, NEW r, r \in R[f], r \in R[g] PROVE f = g
        OBVIOUS
    <2>1. r \in FileRows(f, files[f]) /\ r \in FileRows(g, files[g])
        BY DEF Wanted
    <2> QED
        BY <1>1, <2>1, RowsAreOfFile
<1>8. R \in [which -> SUBSET U]
    <2>1. R = [f \in which |-> R[f]]
        OBVIOUS
    <2> HIDE DEF R, U
    <2> QED
        BY <1>4, <2>1
<1>9. RuneStacks(rows, "r01") = SumOf(G, U)
    <2> HIDE DEF rows
    <2> QED
        BY <1>5, StacksAre
<1> HIDE DEF G, U, R, rows
<1>10. SumOf(G, U) = SumOf(F, which)
    <2>1. \A r \in U : G[r] \in Nat
        BY <1>6
    <2>2. SumOf(G, UNION {R[f] : f \in which}) = SumOf([f \in which |-> SumOf(G, R[f])], which)
        BY <1>2, <1>5, <1>7, <1>8, <2>1, SumOfParts
    <2> QED
        BY <1>3, <2>2
<1>11. \A f \in which : F[f] = P[f]
    <2> SUFFICES ASSUME NEW f \in which PROVE SumOf(G, R[f]) = PiecesOf(files[f], "r01")
        OBVIOUS
    <2>1. SumOf(H, R[f]) = PiecesOf(files[f], "r01")
        BY <1>1, <1>4, RunesOfFile DEF R
    <2>2. \A r \in R[f] : G[r] = H[r]
        BY <1>4, <1>6
    <2>3. SumOf(G, R[f]) = SumOf(H, R[f])
        <3> HIDE DEF H
        <3> QED
            BY <1>4, <2>2, SumOfSame
    <2> QED
        BY <2>1, <2>3
<1>12. SumOf(F, which) = SumOf(P, which)
    <2> HIDE DEF F, P
    <2> QED
        BY <1>2, <1>11, SumOfSame
<1>13. Pieces(files, which, "r01") = SumOf(P, which)
    BY <1>2, PiecesAre
<1> QED
    BY <1>9, <1>10, <1>12, <1>13 DEF rows

\* The total of a material in all files, by their rows or by their items.
LEMMA TotalOfFiles ==
    ASSUME NEW files \in [Files -> FileBytes \cup {Absent}], NEW code,
           \A f \in Present(files) : Readable(files[f]),
           \A f \in Present(files) : \A x \in Wanted(files[f].items, code) :
              Catalog[x.item].slot => x.stacks > 0
    PROVE  Total(files, code) = Pieces(files, Present(files), code)
<1> DEFINE which == Present(files)
           F == [f \in which |-> CountIn(FileRows(f, files[f]), code)]
           P == [f \in which |-> PiecesOf(files[f], code)]
<1>1. \A f \in which : f \in Files /\ files[f] \in FileBytes
    BY DEF Present
<1>2. IsFiniteSet(which)
    <2>1. which \in SUBSET Files
        BY <1>1
    <2> QED
        BY <2>1, FilesAreFinite, FS_Subset
<1>3. \A f \in which : F[f] = P[f]
    BY <1>1, CountOfFile
<1>4. SumOf(F, which) = SumOf(P, which)
    <2> HIDE DEF F, P, which
    <2> QED
        BY <1>2, <1>3, SumOfSame
<1>5. Total(files, code) = SumOf(F, which)
    BY <1>2, TotalIs
<1>6. Pieces(files, which, code) = SumOf(P, which)
    <2> HIDE DEF which
    <2> QED
        BY <1>2, PiecesAre
<1> QED
    BY <1>4, <1>5, <1>6

\* The table of the Uber pane adds up to its total.
LEMMA TableAddsUp ==
    ASSUME NEW files \in [Files -> FileBytes \cup {Absent}]
    PROVE  Total(files, "cm2") = MapThenSumSet(LAMBDA f : TorchesOf(files, f), Files)
<1> DEFINE which == Present(files)
           F == [f \in which |-> CountIn(FileRows(f, files[f]), "cm2")]
           T == [f \in Files |-> TorchesOf(files, f)]
<1>1. which \in SUBSET Files /\ IsFiniteSet(Files) /\ IsFiniteSet(which)
    <2>1. which \in SUBSET Files
        BY DEF Present
    <2> QED
        BY <2>1, FilesAreFinite, FS_Subset
<1>2. \A f \in which : F[f] = T[f]
    BY DEF Present, TorchesOf
<1>3. \A f \in Files \ which : T[f] = 0
    BY DEF Present, TorchesOf
<1>4. \A f \in Files : T[f] \in Nat
    <2> SUFFICES ASSUME NEW f \in which PROVE T[f] \in Nat
        <3> HIDE DEF T, which
        <3> QED
            BY <1>3
    <2> DEFINE X == Wanted(FileRows(f, files[f]), "cm2")
               G == [r \in X |-> QuestQty(r)]
    <2>1. f \in Files /\ files[f] \in FileBytes
        BY DEF Present
    <2>2. IsFiniteSet(X)
        <3> DEFINE h == [x \in files[f].items |-> Row(f, x)]
        <3>1. h \in Surjection(files[f].items, {Row(f, x) : x \in files[f].items})
            BY DEF Surjection
        <3>2. X \subseteq {Row(f, x) : x \in files[f].items}
            BY DEF Wanted, FileRows
        <3> HIDE DEF h, X
        <3> QED
            BY <2>1, <3>1, <3>2, ItemsAreFinite, FS_Surjection, FS_Subset
    <2>3. \A r \in X : G[r] \in Nat
        <3> SUFFICES ASSUME NEW r \in X PROVE QuestQty(r) \in Nat
            OBVIOUS
        <3>1. PICK x \in files[f].items : r = Row(f, x)
            BY DEF Wanted, FileRows
        <3> QED
            BY <2>1, <3>1, NumbersAre
    <2>4. SumOf(G, X) \in Nat
        <3>1. X \in SUBSET X
            OBVIOUS
        <3> HIDE DEF G, X
        <3> QED
            BY <2>2, <2>3, <3>1, SumOfMore
    <2>5. CountIn(FileRows(f, files[f]), "cm2") = SumOf(G, X)
        BY <2>2, CountIs
    <2> HIDE DEF G, X, which
    <2> QED
        BY <1>2, <2>4, <2>5 DEF which
<1>5. Total(files, "cm2") = SumOf(F, which)
    BY <1>1, TotalIs
<1>6. MapThenSumSet(LAMBDA f : TorchesOf(files, f), Files) = SumOf(T, Files)
    BY <1>1, TorchesAre
<1> HIDE DEF F, T, which
<1>7. SumOf(F, which) = SumOf(T, which)
    BY <1>1, <1>2, SumOfSame
<1>8. SumOf(T, Files) = SumOf(T, which)
    BY <1>1, <1>3, <1>4, SumOfSome
<1> QED
    BY <1>5, <1>6, <1>7, <1>8

-----------------------------------------------------------------------------
(***************************************************************************)
(* The totals of the account                                               *)
(***************************************************************************)

\* For every catalogue, set of characters and start: the table of the Uber pane always
\* adds up to its total, and once everything is saved, read and readable, the totals of
\* runes and of quest items are those of the items in the files, now and at the start,
\* but for a quest item that has an empty slot, which is counted as one
\* (countQuestItem, aggregateDashboardSnapshot, mergeQuestCounts, makeSessionStateFromSnapshot).
THEOREM TotalsAddUp == Spec => []TotalsAgree
<1>1. ASSUME IInv PROVE TotalsAgree
    <2>1. /\ disk \in [Files -> FileBytes \cup {Absent}]
          /\ cache \in [Files -> FileBytes \cup {Absent}]
          /\ past \in [Files -> FileBytes \cup {Absent}]
        BY <1>1 DEF IInv, FilesOK
    <2>2. Total(cache, "cm2") = MapThenSumSet(LAMBDA f : TorchesOf(cache, f), Files)
        BY <2>1, TableAddsUp
    <2>3. ASSUME Settled, AllParse(disk), AllParse(past)
          PROVE  /\ RuneStacks(Inventory(cache), "r01") = Pieces(disk, Present(disk), "r01")
                 /\ RuneStacks(Rewound(cache, past, Started), "r01") = Pieces(past, Kept, "r01")
                 /\ \A code : ~ EmptySlot(code) => Total(cache, code) = Pieces(disk, Present(disk), code)
        <3>1. cache = disk /\ HasActivePlayer(cache)
            BY <2>3 DEF Settled
        <3>2. /\ \A f \in Present(disk) : Readable(disk[f])
              /\ \A f \in Kept : Readable(past[f])
            BY <2>3 DEF AllParse, Readable, Kept
        <3>3. Inventory(disk) = UNION {FileRows(f, disk[f]) : f \in Present(disk)}
            BY InventoryIs
        <3>4. RuneStacks(Inventory(cache), "r01") = Pieces(disk, Present(disk), "r01")
            BY <2>1, <3>1, <3>2, <3>3, RunesOfFiles
        <3>5. Kept \in SUBSET Present(past)
            BY DEF Kept
        <3>6. Rewound(cache, past, Started) = UNION {FileRows(f, past[f]) : f \in Kept}
            BY <1>1, <3>1, RewoundIs DEF RewindIsStart
        <3>7. RuneStacks(Rewound(cache, past, Started), "r01") = Pieces(past, Kept, "r01")
            BY <2>1, <3>2, <3>5, <3>6, RunesOfFiles
        <3>8. ASSUME NEW code, ~ EmptySlot(code)
              PROVE  Total(cache, code) = Pieces(disk, Present(disk), code)
            <4>1. ASSUME NEW f \in Present(disk), NEW x \in Wanted(disk[f].items, code),
                         Catalog[x.item].slot
                  PROVE  x.stacks > 0
                <5>1. f \in Files /\ disk[f] \in FileBytes /\ disk[f] = BytesOf(f, disk[f].stamp)
                    BY <2>1, <2>3 DEF Present, Settled, Saved, Alive
                <5>2. x \in disk[f].items /\ Catalog[x.item].code = code
                    BY DEF Wanted, Counts
                <5>3. PICK i \in Items : x.item = i /\ x.stacks = stacks[i]
                    BY <5>1, <5>2 DEF BytesOf
                <5>4. stacks[i] # 0
                    BY <3>8, <4>1, <5>2, <5>3 DEF EmptySlot
                <5>5. stacks[i] \in Nat
                    BY <1>1, AccountAssumption DEF IInv, GameOK
                <5> QED
                    BY <5>3, <5>4, <5>5
            <4> QED
                BY <2>1, <3>1, <3>2, <4>1, TotalOfFiles
        <3> QED
            BY <3>4, <3>7, <3>8
    <2> QED
        BY <2>2, <2>3 DEF TotalsAgree
<1> QED
    BY <1>1, InvHolds, PTL

=============================================================================
