----------------------------- MODULE MCListPanes -----------------------------
EXTENDS ListPanes

\* The stash and a character; for the session two characters.
Played == {"Autosave", "SaveAndExit"}
MCGrows ==
    [p \in Panes |->
        CASE p = "Backups"      -> [files |-> {1, 2}, states |-> Played, rows |-> 3]
          [] p = "Session Info" -> [files |-> {2, 3}, states |-> Played \cup {"Deleted"}, rows |-> 4]
          [] OTHER              -> [files |-> {}, states |-> {}, rows |-> 0]]

MCOwners == <<"Ama">>
MCCatalog == [Gems |-> <<31, 32>>, Materials |-> <<>>, Runes |-> <<41, 42>>]
MCNameOf == 31 :> "chip" @@ 32 :> "flaw" @@ 41 :> "el" @@ 42 :> "eld"

Item(id, words, stash, tab, owner, sub, code, class, quality, stacks, slot) ==
    [id |-> id, words |-> words, stash |-> stash, tab |-> tab, owner |-> owner, sub |-> sub,
     code |-> code, class |-> class, quality |-> quality, stacks |-> stacks, slot |-> slot]

\* Worn and stored; a rune, an empty slot, and a stray in the material tab.
MCItems ==
    {Item(1, {"axe"}, FALSE, 0, "Ama", "Equipped", 11, "misc", "rare", 0, FALSE),
     Item(3, {"axe"}, TRUE, 1, "", "", 11, "misc", "rare", 0, FALSE),
     Item(4, {"el"}, TRUE, 6, "", "", 41, "rune", "junk", 2, TRUE),
     Item(5, {"chip"}, TRUE, 6, "", "", 31, "gem", "junk", 0, TRUE),
     Item(6, {"axe"}, TRUE, 6, "", "", 51, "rune", "junk", 1, TRUE)}

MCSnapshots == {MCItems, {it \in MCItems : it.id \notin {3, 4}}}

Unique(id, words, tier, family, type, level) ==
    [id |-> id, words |-> words, tier |-> tier, family |-> family, type |-> type, level |-> level]

\* A family with two normal uniques and an elite, one of the other class, two charms.
MCUniques ==
    {Unique(1, {"axe"}, 1, 1, 1, 5), Unique(2, {}, 1, 1, 1, 5), Unique(3, {"axe"}, 3, 1, 1, 5),
     Unique(4, {}, 2, 2, 2, 3), Unique(5, {"el"}, 0, 9, 9, 0), Unique(6, {}, 0, 9, 9, 0)}
=============================================================================
