------------------------------ MODULE Account -------------------------------
(***************************************************************************)
(* A session of play as the dashboard sees it: the game moves, finds,      *)
(* identifies and loses things across files it saves one at a time, the    *)
(* dashboard reads the files one at a time, and from what it has read at   *)
(* any moment it shows the account (module AccountSnapshot) and what       *)
(* changed since the start of the session.                                 *)
(*                                                                         *)
(* A behaviour begins at the start of the session, when everything is      *)
(* saved, backed up and read; past is what the backup database returns for *)
(* that second.  When a picture is made and which row is looked up is the  *)
(* subject of AppSession; here a rebuild may miss its cache at any moment. *)
(* That a change is read at last is the subject of DashboardRefresh.       *)
(*                                                                         *)
(* Modelled from src/dashboard_model.cpp and src/dashboard_ftxui.cpp.      *)
(***************************************************************************)
EXTENDS AccountSnapshot

CONSTANTS
    Spots,     \* <<file, part>> that things are carried to
    Starts,    \* the accounts a session may start from: [at, found, known]
    Finds,     \* what may be picked up
    MaxStack,  \* what a filled slot of the material tab holds
    MaxPlays,  \* bound on what the player does
    MaxSaves   \* bound on saves

VARIABLES
    at,     \* where the game has each item
    host,   \* the item whose sockets it is in; 0 is none
    known,  \* identified items
    stacks, \* how many a slot of the material tab holds
    found,  \* the chronicle
    disk,   \* the files
    cache,  \* ui.fileCache
    past,   \* the rows BackupDb::at returns for the session's start
    plays, saves

\* A start is an account the game can be in; a charm is not set into anything and has
\* no sockets.
ASSUME AccountAssumption ==
    /\ Spots \subseteq Files \X (1..4)
    /\ MaxStack \in Nat /\ MaxPlays \in Nat /\ MaxSaves \in Nat
    /\ \A s \in Starts :
          /\ s.at \in [Items -> (Files \X (1..4)) \cup {Nowhere}]
          /\ s.found \subseteq Named \X Nat /\ s.known \subseteq Items
    /\ \A i \in Items, p \in SunderPairs :
          Catalog[i].id \in {p[1], p[2]} => Catalog[i].code \notin {"arm", "jew", "r01"}

game == <<at, host, known, stacks, found>>
vars == <<game, disk, cache, past, plays, saves>>

Started == 1

BytesOf(f, stamp) ==
    [items |-> {[item |-> i, part |-> at[i][2], host |-> host[i], known |-> i \in known,
                 stacks |-> stacks[i]] : i \in {j \in Items : at[j][1] = f}},
     stamp |-> IF f = Stash THEN 0 ELSE stamp,
     found |-> IF f = Stash THEN found ELSE {}]

Alive(f) == disk[f] # Absent

Init ==
    /\ \E s \in Starts : at = s.at /\ found = s.found /\ known = s.known
    /\ host = [i \in Items |-> 0]
    /\ stacks = [i \in Items |-> 0]
    /\ disk = [f \in Files |->
                  IF f # Stash /\ \A i \in Items : at[i][1] # f THEN Absent ELSE BytesOf(f, Started)]
    /\ cache = disk /\ past = disk
    /\ plays = 0 /\ saves = 0

-----------------------------------------------------------------------------
(***************************************************************************)
(* The game                                                                *)
(***************************************************************************)

\* What cannot be saved any more need not be played.
Play ==
    /\ plays < MaxPlays /\ saves < MaxSaves
    /\ plays' = plays + 1
    /\ UNCHANGED <<disk, cache, past, saves>>

Loose(i) == host[i] = 0 /\ ~ Catalog[i].slot
Filled(i) == {i} \cup {j \in Items : host[j] = i}
Gone(S) == [j \in Items |-> IF j \in S THEN Nowhere ELSE at[j]]

\* From one spot to another of the same file or through the stash, or picked up.
Carry(i, l) ==
    /\ Play
    /\ Loose(i) /\ at[i] # l
    /\ IF at[i] = Nowhere THEN i \in Finds ELSE at[i][1] = l[1] \/ Stash \in {at[i][1], l[1]}
    /\ at' = [j \in Items |-> IF j \in Filled(i) THEN l ELSE at[j]]
    /\ UNCHANGED <<host, known, stacks, found>>

Socket(i, j) ==
    /\ Play
    /\ Loose(i) /\ Catalog[i].code \in {"jew", "r01"}
    /\ Catalog[j].code = "arm" /\ Loose(j)
    /\ at[i] # Nowhere /\ at[j] # Nowhere /\ at[i][1] = at[j][1]
    /\ host' = [host EXCEPT ![i] = j]
    /\ at' = [at EXCEPT ![i] = at[j]]
    /\ UNCHANGED <<known, stacks, found>>

Identify(i) ==
    /\ Play
    /\ at[i] # Nowhere /\ i \notin known
    /\ known' = known \cup {i}
    /\ UNCHANGED <<at, host, stacks, found>>

Sell(i) ==
    /\ Play
    /\ Loose(i) /\ at[i] # Nowhere
    /\ at' = Gone(Filled(i))
    /\ host' = [j \in Items |-> IF j \in Filled(i) THEN 0 ELSE host[j]]
    /\ UNCHANGED <<known, stacks, found>>

\* A latent charm becomes its renewed form.
Craft(i, j) ==
    /\ Play
    /\ <<Catalog[i].id, Catalog[j].id>> \in SunderPairs
    /\ at[i] # Nowhere /\ at[j] = Nowhere
    /\ at' = [at EXCEPT ![i] = Nowhere, ![j] = at[i]]
    /\ known' = known \cup {j}
    /\ UNCHANGED <<host, stacks, found>>

Stack(i, n) ==
    /\ Play
    /\ Catalog[i].slot /\ at[i] # Nowhere /\ stacks[i] # n
    /\ stacks' = [stacks EXCEPT ![i] = n]
    /\ UNCHANGED <<at, host, known, found>>

Discover(i) ==
    /\ Play
    /\ Catalog[i].quality \in Named /\ at[i] # Nowhere
    /\ found' = found \cup {<<Catalog[i].quality, Catalog[i].id>>}
    /\ found' # found
    /\ UNCHANGED <<at, host, known, stacks>>

\* A file as the game has it, no file for a character with nothing.
Saved(f) ==
    IF Alive(f) THEN disk[f] = BytesOf(f, disk[f].stamp) ELSE \A i \in Items : at[i][1] # f

\* What is carried to a character that was never saved makes it a new one.  Saves
\* that write nothing new are left out.
Save(f) ==
    /\ saves < MaxSaves
    /\ ~ Saved(f)
    /\ saves' = saves + 1
    /\ disk' = [disk EXCEPT ![f] = BytesOf(f, Started + saves + 1)]
    /\ UNCHANGED <<game, cache, past, plays>>

DeleteCharacter(c) ==
    /\ saves < MaxSaves
    /\ Alive(c)
    /\ saves' = saves + 1
    /\ disk' = [disk EXCEPT ![c] = Absent]
    /\ at' = Gone({i \in Items : at[i][1] = c})
    /\ host' = [j \in Items |-> IF at[j][1] = c THEN 0 ELSE host[j]]
    /\ UNCHANGED <<known, stacks, found, cache, past, plays>>

-----------------------------------------------------------------------------
(***************************************************************************)
(* The dashboard: refreshD2sIfNeeded, refreshD2iIfNeeded                   *)
(***************************************************************************)

FaultRefresh(f) ==
    /\ cache[f] # disk[f]
    /\ cache' = [cache EXCEPT ![f] =
          IF Absent \in {disk[f], cache[f]} THEN disk[f]
          ELSE [disk[f] EXCEPT !.items = @ \cup cache[f].items]]
    /\ UNCHANGED <<game, disk, past, plays, saves>>

\* The entry is made anew and then put in the place of the old one.
Refresh(f) ==
    /\ cache[f] # disk[f]
    /\ cache' = [cache EXCEPT ![f] = disk[f]]
    /\ UNCHANGED <<game, disk, past, plays, saves>>

Next ==
    \/ \E i \in Items :
          \/ \E l \in Spots : Carry(i, l)
          \/ \E j \in Items : Socket(i, j) \/ Craft(i, j)
          \/ \E n \in {0, MaxStack} : Stack(i, n)
          \/ Identify(i) \/ Sell(i) \/ Discover(i)
    \/ \E f \in Files : Save(f) \/ Refresh(f)
    \/ \E c \in Chars : DeleteCharacter(c)

Spec == Init /\ [][Next]_vars

-----------------------------------------------------------------------------
(***************************************************************************)
(* Properties                                                              *)
(***************************************************************************)

IsBytes(b) ==
    /\ \A x \in b.items : /\ x.item \in Items /\ x.part \in 1..4 /\ x.stacks \in 0..MaxStack
                          /\ x.host # 0 => \E y \in b.items : y.item = x.host /\ y.host = 0
    /\ \A x, y \in b.items : x.item = y.item => x = y
    /\ b.stamp \in 0..Started + MaxSaves

\* The files, what the dashboard has read of them and the rows of the start are what the
\* game writes: nothing is in one of them twice, and what is in a socket has its host
\* beside it, whatever the entry of the cache held before.
TypeOK ==
    /\ at \in [Items -> (Files \X (1..4)) \cup {Nowhere}] /\ host \in [Items -> Items \cup {0}]
    /\ plays \in 0..MaxPlays /\ saves \in 0..MaxSaves
    /\ \A f \in Files, files \in {disk, cache, past} : files[f] = Absent \/ IsBytes(files[f])

\* Whatever mixture of old and new files the dashboard has read, the reconcile pane
\* shows a charm once, under one of its two names; shows exactly what is owned and
\* not in the chronicle or the other way round; and says where what is owned is, and
\* never contradicts the chronicle pane beside it.
ReconcileConsistent ==
    LET rec == Reconcile(cache)
        owned == {IdOf(r) : r \in Inventory(cache)}
    IN /\ \A d, e \in rec : d.id \in Siblings(e.id) => d = e
       /\ \A e \in rec : e.owned <=> e.location # Nowhere
       /\ \A id \in Listed \cup {x \in owned : x[1] \in Named} :
             (Siblings(id) \cap owned # {}) # Discovered(cache, id)
             <=> \E e \in rec : e.id \in Siblings(id)
       /\ \A e \in rec, r \in Chronicle(cache) :
             r.id \in Siblings(e.id) =>
                 /\ r.discovered = e.discovered
                 /\ ~ e.owned => r.location = Nowhere

\* Files that were there at the start and are still.
Kept == Present(past) \cap (Present(cache) \cup {Stash})

\* The account as it was at the start can be rebuilt at any later moment, from a
\* snapshot of old and new files: every character and the stash shows the rows it
\* had and none from after the start, whoever is active by now.
RewindIsStart ==
    HasActivePlayer(cache) =>
        Rewound(cache, past, Started) = UNION {FileRows(f, past[f]) : f \in Kept}

StartKeys == ItemKeys(Rewound(cache, past, Started))
LootItems == {r.item : r \in Loot(Inventory(cache), StartKeys)}

\* What the account already had identified at the start is not loot, wherever it is
\* carried or set since and whichever of the files has been saved or read.
NoFalseLoot ==
    LET had == {r \in UNION {FileRows(f, past[f]) : f \in Kept} : HasKey(r)}
    IN LootItems \cap {r.item : r \in had} = {}

\* Everything is saved and read, and there is a character.
Settled ==
    /\ HasActivePlayer(cache)
    /\ cache = disk
    /\ \A f \in Files : Saved(f)

AllParse(files) == \A f \in Present(files) : \A x \in files[f].items : Catalog[x.item].readable

Worth(i) == Catalog[i].quality \in Named /\ Catalog[i].fingerprint # 0

\* Once everything is saved and read, whatever the account did not have identified
\* at the start is loot, in a socket or not.
NoMissedLoot ==
    Settled /\ AllParse(disk) =>
        \A i \in known : Worth(i) /\ at[i] # Nowhere =>
            \/ i \in LootItems
            \/ \E f \in Present(past) : \E x \in past[f].items : x.item = i /\ x.known

\* The pieces of a material in one file and in some of them.  Of the large charms only
\* torches are a material.
Size(x) == IF Catalog[x.item].slot THEN x.stacks ELSE 1
Counts(x, code) == Catalog[x.item].code = code /\ (code = "cm2" => IsTorch(x))
PiecesOf(b, code) == MapThenSumSet(Size, {x \in b.items : Counts(x, code)})
Pieces(files, which, code) == MapThenSumSet(LAMBDA f : PiecesOf(files[f], code), which)

EmptySlot(code) == \E i \in Items : Catalog[i].code = code /\ Catalog[i].slot /\ stacks[i] = 0

\* Once everything is saved and read, the runes gained are those the files have more
\* than they had, loose, in a socket, or in a slot that was empty; the totals of the
\* Uber pane count every piece, but for an item with an empty slot of the material tab,
\* which countQuestItem counts as one (DashboardModel.hpp 191-199 says it is none); and
\* its table by character adds up at any time.
TotalsAgree ==
    /\ Total(cache, "cm2") = MapThenSumSet(LAMBDA f : TorchesOf(cache, f), Files)
    /\ Settled /\ AllParse(disk) /\ AllParse(past) =>
          /\ RuneDelta(RuneStacks(Inventory(cache), "r01"),
                       RuneStacks(Rewound(cache, past, Started), "r01"))
             = RuneDelta(Pieces(disk, Present(disk), "r01"), Pieces(past, Kept, "r01"))
          /\ \A code \in {"pk1", "cm2"} : ~ EmptySlot(code) => Total(cache, code) = Pieces(disk, Present(disk), code)
=============================================================================
