----------------------------- MODULE MCAccount ------------------------------
EXTENDS Account, TLC

Thing(quality, id, code, fingerprint) ==
    [quality |-> quality, id |-> id, code |-> code, fingerprint |-> fingerprint,
     slot |-> FALSE, readable |-> TRUE]
Slot(code) == [Thing("other", 0, code, 0) EXCEPT !.slot = TRUE]

\* Both forms of a charm, a set armor, a facet, a rune, a slot for runes and one for
\* keys, a torch, an item the parser cannot read, and a large charm that is no torch.
MCCatalog ==
    1 :> Thing("unique", 426, "cm3", 11) @@ 2 :> Thing("unique", 427, "cs2", 12)
    @@ 3 :> Thing("set", 7, "arm", 13) @@ 4 :> Thing("unique", 392, "jew", 14)
    @@ 5 :> Thing("other", 0, "r01", 0) @@ 6 :> Slot("r01") @@ 7 :> Slot("pk1")
    @@ 8 :> Thing("unique", 400, "cm2", 15)
    @@ 9 :> [Thing("other", 0, "odd", 0) EXCEPT !.readable = FALSE]
    @@ 10 :> Thing("other", 0, "cm2", 0)

MCListed == {<<"unique", 426>>, <<"set", 7>>, <<"unique", 392>>}
MCSpots == {<<0, 1>>, <<1, 1>>, <<2, 1>>}

\* Part 2 of the stash is the material tab.
Account(charm, renewed, armor, facet, rune, torch, odd, ids, unknown) ==
    [at |-> <<charm, renewed, armor, facet, rune, <<0, 2>>, <<0, 2>>, torch, odd, <<1, 1>>>>,
     found |-> ids, known |-> (1..10) \ unknown]

\* Two characters and a facet to identify; one character, a crafted charm whose latent
\* form is in the chronicle, and an item the parser cannot read.
MCStarts ==
    {Account(<<1, 1>>, Nowhere, <<1, 1>>, <<1, 1>>, <<0, 1>>, <<2, 1>>, Nowhere, {}, {4}),
     Account(Nowhere, <<0, 1>>, <<0, 1>>, <<1, 1>>, <<1, 2>>, <<1, 2>>, <<0, 1>>,
             {<<"unique", 426>>}, {3})}
=============================================================================
