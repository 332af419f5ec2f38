-------------------------- MODULE AppSession_proofs --------------------------
(***************************************************************************)
(* The application session keeps the promise of SessionPromise, for every  *)
(* set of characters and every bound: each picture of the account at the   *)
(* start of the session, made afresh or taken over from the cache, shows   *)
(* every file as it was at that second.                                    *)
(***************************************************************************)
EXTENDS AppSession, WellFoundedInduction, TLAPS

-----------------------------------------------------------------------------
(***************************************************************************)
(* The inductive invariant                                                 *)
(***************************************************************************)

Window == [start: Nat, startCustom: BOOLEAN, end: Int, endCustom: BOOLEAN]
PictureType ==
    [start: Nat, startCustom: BOOLEAN, end: Int, endCustom: BOOLEAN,
     items: [Files -> Nat], base: [Chars -> Nat]]
Dates(n) == {d \in Nat : 1 <= d /\ d <= n}

Types ==
    /\ now \in Nat \ {0}
    /\ file \in [Chars -> Nat]
    /\ saves \in [Chars -> SUBSET Dates(now)]
    /\ rows \in [Files -> SUBSET Dates(now)]
    /\ pending \subseteq Files
    /\ app \in [autoStart: Nat, autoEnd: Nat, customStart: Nat \cup {Unset}, customEnd: Nat \cup {Unset}]
    /\ pc \in {"idle", "window", "build", "publish"}
    /\ cache \in [Chars -> Nat]
    /\ pc = "build" => window \in Window
    /\ session \in PictureType \cup {Nothing}
    /\ pc = "publish" => built \in PictureType

\* v is the version of date t, of those in D.
IsVersionAt(D, t, v) ==
    \/ v = Never /\ \A d \in D : d > t
    \/ v \in D /\ v <= t /\ \A d \in D : d <= t => d <= v

\* A file is the newest version, the cache holds some version, and what is not
\* pending is backed up.
FilesAgree ==
    \A c \in Chars :
        /\ rows[c] \subseteq saves[c]
        /\ IsVersionAt(saves[c], now, file[c])
        /\ cache[c] \in saves[c] \cup {Never}
        /\ c \in pending => file[c] # Never
        /\ c \notin pending => file[c] \in rows[c] \cup {Never}

\* No session starts in a second in which the game may still save.
Dated(t) == t < now \/ t = app.autoStart

\* What the cache does not hold yet was saved after t.
CachedAt(t) == \A c \in Chars : \A d \in saves[c] : d > cache[c] => d > t

\* The backups know every character at t as it was.
Frozen(t) ==
    \A c \in Chars : \A v \in Nat : IsVersionAt(saves[c], t, v) => IsVersionAt(rows[c], t, v)

\* A picture that shows each character as it truly was.
TrueAt(p, t) ==
    \A c \in Chars :
        /\ IsVersionAt(saves[c], t, p.items[c])
        /\ p.base[c] # p.items[c] => p.items[c] = Never /\ p.base[c] \in saves[c] /\ p.base[c] > t

Starts ==
    /\ app.autoStart <= now
    /\ CachedAt(app.autoStart) /\ Frozen(app.autoStart)
    /\ app.customStart # Unset => app.customStart < now /\ CachedAt(app.customStart)
    /\ pc = "build" =>
          /\ Dated(window.start) /\ CachedAt(window.start)
          /\ ~ window.startCustom \/ window.start = app.autoStart => Frozen(window.start)

\* What is known of a picture: an automatic start, or one of the same second, was
\* frozen when the picture was made.
Pictured(p) ==
    /\ Dated(p.start)
    /\ ~ p.startCustom \/ p.start = app.autoStart => TrueAt(p, p.start)
    /\ pc = "build" /\ ~ window.startCustom /\ p.start = window.start => TrueAt(p, p.start)

KeyOf(p) == key[3] = p.start /\ key[2] = p.items[Stash]

Pictures ==
    /\ session # Nothing => Pictured(session)
    /\ session # Nothing /\ pc # "publish" => KeyOf(session)
    /\ pc = "publish" => Pictured(built) /\ KeyOf(built)

IInv == Types /\ FilesAgree /\ Starts /\ Pictures

-----------------------------------------------------------------------------
(***************************************************************************)
(* Versions                                                                *)
(***************************************************************************)

\* Bounded sets of numbers have a greatest element, all of them a least one.
LEMMA HasGreatest ==
    ASSUME NEW n \in Nat, NEW D, D \subseteq Dates(n), D # {}
    PROVE  \E m \in D : \A e \in D : e <= m
<1> DEFINE Gaps == {n - d : d \in D}
<1>1. \A d \in D : d \in Nat /\ d <= n
    BY DEF Dates
<1>2. Gaps \subseteq Nat /\ Gaps # {}
    BY <1>1
<1>3. PICK g \in Gaps : \A h \in Gaps : ~ (<<h, g>> \in OpToRel(<, Nat))
    BY <1>2, NatLessThanWellFounded, WFMin
<1>4. \A h \in Gaps : ~ (h < g)
    BY <1>2, <1>3 DEF OpToRel
<1>5. PICK m \in D : g = n - m
    OBVIOUS
<1>6. \A e \in D : e <= m
    <2> SUFFICES ASSUME NEW e \in D PROVE e <= m
        OBVIOUS
    <2>1. ~ (n - e < g)
        BY <1>4
    <2> QED
        BY <1>1, <1>5, <2>1
<1> QED
    BY <1>6

LEMMA HasLeast ==
    ASSUME NEW n \in Nat, NEW D, D \subseteq Dates(n), D # {}
    PROVE  \E m \in D : \A e \in D : m <= e
<1>1. D \subseteq Nat
    BY DEF Dates
<1>2. PICK m \in D : \A e \in D : ~ (<<e, m>> \in OpToRel(<, Nat))
    BY <1>1, NatLessThanWellFounded, WFMin
<1>3. \A e \in D : ~ (e < m)
    BY <1>1, <1>2 DEF OpToRel
<1> QED
    BY <1>1, <1>3

\* VersionAt finds the version of a date and nothing else is one; it is the operator
\* of the same name in SessionPromise.
LEMMA VersionAtIs ==
    ASSUME NEW n \in Nat, NEW D, D \subseteq Dates(n), NEW t \in Int
    PROVE  /\ IsVersionAt(D, t, VersionAt(D, t))
           /\ \A v : IsVersionAt(D, t, v) => v = VersionAt(D, t)
           /\ VersionAt(D, t) \in Nat
           /\ Promise!VersionAt(D, t) = VersionAt(D, t)
<1> DEFINE upTo == {d \in D : d <= t}
<1>1. \A d \in D : d \in Nat /\ 1 <= d
    BY DEF Dates
<1>2. upTo \subseteq Dates(n)
    OBVIOUS
<1>3. CASE upTo = {}
    <2>1. VersionAt(D, t) = Never
        BY <1>3 DEF VersionAt, Newest
    <2>2. Promise!VersionAt(D, t) = Never
        BY <1>3 DEF Promise!VersionAt
    <2> QED
        BY <1>1, <1>3, <2>1, <2>2 DEF IsVersionAt, Never
<1>4. CASE upTo # {}
    <2>1. \E m \in upTo : \A e \in upTo : e <= m
        BY <1>2, <1>4, HasGreatest
    <2>2. VersionAt(D, t) = CHOOSE d \in upTo : \A e \in upTo : e <= d
        BY <1>4 DEF VersionAt, Newest
    <2>3. VersionAt(D, t) \in upTo /\ \A e \in upTo : e <= VersionAt(D, t)
        BY <2>1, <2>2
    <2>4. IsVersionAt(D, t, VersionAt(D, t))
        BY <2>3 DEF IsVersionAt
    <2>5. ASSUME NEW v, IsVersionAt(D, t, v)
          PROVE  v = VersionAt(D, t)
        BY <1>1, <2>3, <2>5 DEF IsVersionAt
    <2>6. Promise!VersionAt(D, t) = VersionAt(D, t)
        <3> DEFINE p == Promise!VersionAt(D, t)
        <3>1. p = CHOOSE d \in D : d <= t /\ \A e \in D : e <= t => e <= d
            BY <1>4 DEF Promise!VersionAt
        <3>2. \E d \in D : d <= t /\ \A e \in D : e <= t => e <= d
            BY <2>1
        <3>3. p \in D /\ p <= t /\ \A e \in D : e <= t => e <= p
            BY <3>1, <3>2
        <3>4. IsVersionAt(D, t, p)
            BY <3>3 DEF IsVersionAt
        <3> QED
            BY <2>5, <3>4
    <2> QED
        BY <1>1, <2>3, <2>4, <2>5, <2>6
<1> QED
    BY <1>3, <1>4

\* The oldest of some dates is one of them.
LEMMA OldestIs ==
    ASSUME NEW n \in Nat, NEW D, D \subseteq Dates(n), D # {}
    PROVE  OldestOf(D) \in D /\ Promise!Oldest(D) = OldestOf(D)
<1>1. \E d \in D : \A e \in D : d <= e
    BY HasLeast
<1>2. OldestOf(D) = CHOOSE d \in D : \A e \in D : d <= e
    BY DEF OldestOf
<1> QED
    BY <1>1, <1>2 DEF Promise!Oldest

\* Later dates change no version of before.
LEMMA LaterDates ==
    ASSUME NEW n \in Nat, NEW more, more \subseteq Dates(n),
           NEW old, old \subseteq more,
           NEW t \in Int, \A d \in more \ old : d > t,
           NEW v, IsVersionAt(old, t, v)
    PROVE  IsVersionAt(more, t, v)
<1>1. \A d \in more : d \in Nat
    BY DEF Dates
<1>2. CASE v = Never /\ \A d \in old : d > t
    BY <1>2 DEF IsVersionAt
<1>3. CASE v \in old /\ v <= t /\ \A d \in old : d <= t => d <= v
    BY <1>1, <1>3 DEF IsVersionAt
<1> QED
    BY <1>2, <1>3 DEF IsVersionAt

-----------------------------------------------------------------------------
(***************************************************************************)
(* The invariant holds at the start                                        *)
(***************************************************************************)

LEMMA InitInv == Init => IInv
<1> SUFFICES ASSUME Init PROVE IInv
    OBVIOUS
<1> USE AppSessionAssumption
<1>1. PICK first \in Chars : file = [c \in Chars |-> IF c = first THEN 1 ELSE Never]
    BY DEF Init
<1>2. \A c \in Chars : rows[c] = saves[c] /\ saves[c] = IF c = first THEN {1} ELSE {}
    BY <1>1 DEF Init, Never, Files
<1>3. \A c \in Chars : file[c] = IF c = first THEN 1 ELSE 0
    BY <1>1 DEF Never
<1>4. now = 2 /\ app.autoStart = 2 /\ app.customStart = -1 /\ app.customEnd = -1 /\ app.autoEnd = 0
    BY DEF Init, BootTime, Unset, Never
<1>5. Types
    <2>1. saves \in [Chars -> SUBSET Dates(now)]
        BY <1>2, <1>4 DEF Init, Dates
    <2>2. rows \in [Files -> SUBSET Dates(now)]
        BY <1>4 DEF Init, Dates
    <2>3. file \in [Chars -> Nat] /\ cache \in [Chars -> Nat]
        BY <1>1 DEF Init, Never
    <2> QED
        BY <1>4, <2>1, <2>2, <2>3 DEF Init, Types, Unset, Never, BootTime
<1>6. FilesAgree
    BY <1>2, <1>3, <1>4 DEF Init, FilesAgree, IsVersionAt, Never
<1>7. Starts
    <2>1. \A c \in Chars : \A d \in saves[c] : ~ (d > cache[c])
        BY <1>2, <1>3 DEF Init
    <2> QED
        BY <1>2, <1>4, <2>1 DEF Init, Starts, CachedAt, Frozen, Unset
<1>8. Pictures
    BY DEF Init, Pictures
<1> QED
    BY <1>5, <1>6, <1>7, <1>8 DEF IInv

-----------------------------------------------------------------------------
(***************************************************************************)
(* The game and the watcher thread                                         *)
(***************************************************************************)

LEMMA TickKeepsInv == IInv /\ Tick => IInv'
<1> SUFFICES ASSUME IInv, Tick PROVE IInv'
    OBVIOUS
<1> USE DEF IInv
<1>1. /\ now \in Nat /\ now' = now + 1
      /\ UNCHANGED <<file, saves, rows, pending, app, pc, cache, window, built, session, key>>
    BY DEF Tick, shown, Types
<1>2. Types'
    <2>1. Dates(now) \subseteq Dates(now')
        BY <1>1 DEF Dates
    <2> QED
        BY <1>1, <2>1 DEF Types
<1>3. FilesAgree'
    BY <1>1 DEF FilesAgree, Types, Dates, IsVersionAt
<1>4. \A t \in Int : Dated(t) => Dated(t)'
    BY <1>1 DEF Dated
<1>5. Starts'
    BY <1>1, <1>4 DEF Starts, Types, CachedAt, Frozen, Window, Unset
<1>6. Pictures'
    BY <1>1, <1>4 DEF Pictures, Pictured, PictureType, Types, TrueAt, KeyOf
<1> QED
    BY <1>2, <1>3, <1>5, <1>6

\* A save is later than any second a session starts in.
LEMMA SaveKeepsInv ==
    ASSUME IInv, NEW c \in Chars, SaveCharacter(c)
    PROVE  IInv'
<1> USE DEF IInv
<1>1. /\ now \in Nat /\ now > app.autoStart /\ app.autoStart \in Nat
      /\ file' = [file EXCEPT ![c] = now]
      /\ saves' = [saves EXCEPT ![c] = @ \cup {now}]
      /\ pending' = pending \cup {c}
      /\ UNCHANGED <<now, rows, app, pc, cache, window, built, session, key>>
    BY DEF SaveCharacter, shown, Types
<1>2. /\ saves'[c] = saves[c] \cup {now} /\ \A f \in Chars : f # c => saves'[f] = saves[f]
      /\ \A f \in Chars : file'[f] = IF f = c THEN now ELSE file[f]
    BY <1>1 DEF Types
<1>3. now \in Dates(now)
    BY <1>1 DEF Dates
<1>4. /\ \A f \in Chars : saves[f] \subseteq Dates(now) /\ saves'[f] \subseteq Dates(now)
      /\ \A f \in Chars : saves[f] \subseteq saves'[f]
      /\ \A f \in Chars : \A d \in saves'[f] \ saves[f] : d = now
    <2>1. \A f \in Chars : saves[f] \subseteq Dates(now)
        BY DEF Types
    <2>2. \A f \in Chars : saves'[f] \subseteq Dates(now)
        BY <1>2, <1>3, <2>1
    <2>3. \A f \in Chars : saves[f] \subseteq saves'[f]
        BY <1>2
    <2>4. ASSUME NEW f \in Chars, NEW d \in saves'[f] \ saves[f]
          PROVE  d = now
        BY <1>2
    <2> QED
        BY <2>1, <2>2, <2>3, <2>4
<1>5. Types'
    <2>1. saves' \in [Chars -> SUBSET Dates(now')]
        BY <1>1, <1>3 DEF Types
    <2>2. pending' \subseteq Files
        BY <1>1 DEF Types, Files
    <2> QED
        BY <1>1, <2>1, <2>2 DEF Types
<1>6. FilesAgree'
    <2> SUFFICES ASSUME NEW f \in Chars
                 PROVE  /\ rows[f] \subseteq saves'[f]
                        /\ IsVersionAt(saves'[f], now, file'[f])
                        /\ cache[f] \in saves'[f] \cup {Never}
                        /\ f \in pending' => file'[f] # Never
                        /\ f \notin pending' => file'[f] \in rows[f] \cup {Never}
        BY <1>1 DEF FilesAgree
    <2>1. IsVersionAt(saves'[f], now, file'[f])
        BY <1>1, <1>2, <1>4 DEF FilesAgree, IsVersionAt, Dates
    <2> QED
        BY <1>1, <1>2, <2>1 DEF FilesAgree, Never
<1>7. ASSUME NEW t \in Int, Dated(t)
      PROVE  t < now /\ Dated(t)'
    BY <1>1, <1>7 DEF Dated
<1>8. ASSUME NEW t \in Int, t < now, NEW f \in Chars, NEW v, IsVersionAt(saves[f], t, v)
      PROVE  IsVersionAt(saves'[f], t, v)
    BY <1>1, <1>4, <1>8, LaterDates
<1>9. ASSUME NEW t \in Int, t < now, CachedAt(t)
      PROVE  CachedAt(t)'
    BY <1>1, <1>4, <1>9 DEF CachedAt
<1>10. ASSUME NEW t \in Int, t < now, Frozen(t)
       PROVE  Frozen(t)'
    <2> SUFFICES ASSUME NEW f \in Chars, NEW v \in Nat, IsVersionAt(saves'[f], t, v)
                 PROVE  IsVersionAt(rows[f], t, v)
        BY <1>1 DEF Frozen
    <2>1. IsVersionAt(saves[f], t, v)
        BY <1>1, <1>4, <1>10 DEF IsVersionAt, Dates, Never
    <2> QED
        BY <1>10, <2>1 DEF Frozen
<1>11. Starts'
    BY <1>1, <1>7, <1>9, <1>10 DEF Starts, Types, Window, Unset
<1>12. ASSUME NEW p \in PictureType, Dated(p.start), TrueAt(p, p.start)
       PROVE  TrueAt(p, p.start)'
    <2>1. p.start \in Int /\ p.start < now
        BY <1>7, <1>12 DEF PictureType
    <2> QED
        BY <1>4, <1>8, <1>12, <2>1 DEF TrueAt
<1>13. Pictures'
    BY <1>1, <1>7, <1>12 DEF Pictures, Pictured, PictureType, Types, KeyOf
<1> QED
    BY <1>5, <1>6, <1>11, <1>13

LEMMA SaveStashKeepsInv == IInv /\ SaveStash => IInv'
<1> SUFFICES ASSUME IInv, SaveStash PROVE IInv'
    OBVIOUS
<1> USE DEF IInv
<1>1. /\ pending' = pending \cup {Stash}
      /\ UNCHANGED <<now, file, saves, rows, app, pc, cache, window, built, session, key>>
    BY DEF SaveStash, shown
<1>2. Types'
    BY <1>1 DEF Types, Files
<1>3. FilesAgree'
    BY <1>1, AppSessionAssumption DEF FilesAgree
<1>4. Starts'
    BY <1>1 DEF Starts, CachedAt, Frozen, Dated
<1>5. Pictures'
    BY <1>1 DEF Pictures, Pictured, TrueAt, Dated, KeyOf
<1> QED
    BY <1>2, <1>3, <1>4, <1>5

\* A backup tells nothing about a character that the game has not written.
LEMMA BackUpKeepsInv ==
    ASSUME IInv, NEW f \in Files, BackUp(f)
    PROVE  IInv'
<1> USE AppSessionAssumption DEF IInv
<1> DEFINE date == IF f = Stash THEN now ELSE file[f]
<1>1. /\ f \in pending /\ pending' = pending \ {f}
      /\ rows' = [rows EXCEPT ![f] = @ \cup {date}]
      /\ UNCHANGED <<now, file, saves, app, pc, cache, window, built, session, key>>
    BY DEF BackUp, shown
<1>2. rows'[f] = rows[f] \cup {date} /\ \A g \in Files : g # f => rows'[g] = rows[g]
    BY <1>1 DEF Types
<1>3. ASSUME NEW c \in Chars, f = c
      PROVE  file[c] \in saves[c] /\ date = file[c]
    BY <1>1, <1>3 DEF FilesAgree, IsVersionAt
<1>4. Types'
    <2>1. date \in Dates(now)
        <3>1. CASE f = Stash
            BY <3>1 DEF Types, Dates
        <3>2. CASE f # Stash
            BY <1>3, <3>2 DEF Types, Files
        <3> QED
            BY <3>1, <3>2
    <2>2. rows' \in [Files -> SUBSET Dates(now)]
        BY <1>1, <2>1 DEF Types
    <2> QED
        BY <1>1, <2>2 DEF Types
<1>5. FilesAgree'
    <2>1. ASSUME NEW c \in Chars
          PROVE  /\ rows'[c] \subseteq saves[c]
                 /\ c \notin pending' => file[c] \in rows'[c] \cup {Never}
        <3>1. c \in Files
            BY DEF Files
        <3> QED
            BY <1>1, <1>2, <1>3, <3>1 DEF FilesAgree
    <2> QED
        BY <1>1, <2>1 DEF FilesAgree
<1>6. ASSUME NEW t \in Int, Frozen(t)
      PROVE  Frozen(t)'
    <2> SUFFICES ASSUME NEW c \in Chars, NEW v \in Nat, IsVersionAt(saves[c], t, v)
                 PROVE  IsVersionAt(rows'[c], t, v)
        BY <1>1 DEF Frozen
    <2>1. IsVersionAt(rows[c], t, v) /\ c \in Files
        BY <1>6 DEF Frozen, Files
    <2>2. \A d \in rows'[c] : d \in rows[c] \/ d \in saves[c]
        BY <1>2, <1>3, <2>1
    <2>3. rows[c] \subseteq rows'[c]
        BY <1>2, <2>1
    <2>4. saves[c] \subseteq Nat \ {0} /\ rows[c] \subseteq Nat \ {0}
        BY <2>1 DEF Types, Dates
    <2>5. CASE v = Never /\ \A d \in saves[c] : d > t
        BY <2>1, <2>2, <2>4, <2>5 DEF IsVersionAt, Never
    <2>6. CASE v \in saves[c] /\ v <= t /\ \A d \in saves[c] : d <= t => d <= v
        BY <2>1, <2>2, <2>3, <2>4, <2>6 DEF IsVersionAt, Never
    <2> QED
        BY <2>5, <2>6 DEF IsVersionAt
<1>7. Starts'
    BY <1>1, <1>6 DEF Starts, CachedAt, Dated, Types, Window
<1>8. Pictures'
    BY <1>1 DEF Pictures, Pictured, TrueAt, Dated, KeyOf
<1> QED
    BY <1>4, <1>5, <1>7, <1>8

\* The game is launched when everything is backed up and read, so that the backups and
\* the cache know the account as it is in that second.
LEMMA LaunchKeepsInv == IInv /\ Launch => IInv'
<1> SUFFICES ASSUME IInv, Launch PROVE IInv'
    OBVIOUS
<1> USE DEF IInv
<1>1. /\ now # app.autoStart /\ pending = {} /\ cache = file
      /\ app' = [app EXCEPT !.autoStart = now]
      /\ UNCHANGED <<now, file, saves, rows, pending, pc, cache, window, built, session, key>>
    BY DEF Launch, Settled, world, shown
<1>2. /\ app'.autoStart = now /\ app'.customStart = app.customStart
      /\ now \in Nat /\ app.autoStart \in Nat /\ app'.autoStart \in Nat
    BY <1>1 DEF Types
<1>3. Types'
    BY <1>1, <1>2 DEF Types
<1>4. FilesAgree'
    BY <1>1 DEF FilesAgree
<1>5. ASSUME NEW t \in Int, Dated(t)
      PROVE  Dated(t)' /\ t # now
    BY <1>1, <1>2, <1>5 DEF Dated, Starts
<1>6. CachedAt(now)
    <2> SUFFICES ASSUME NEW c \in Chars, NEW d \in saves[c], d > cache[c]
                 PROVE  FALSE
        BY DEF CachedAt
    <2>1. d \in Nat /\ d <= now
        BY DEF Types, Dates
    <2> QED
        BY <1>1, <2>1 DEF FilesAgree, IsVersionAt, Types
<1>7. Frozen(now)
    <2> SUFFICES ASSUME NEW c \in Chars, NEW v \in Nat, IsVersionAt(saves[c], now, v)
                 PROVE  IsVersionAt(rows[c], now, v)
        BY DEF Frozen
    <2>1. /\ IsVersionAt(saves[c], now, file[c]) /\ rows[c] \subseteq saves[c]
          /\ file[c] \in rows[c] \cup {Never}
        BY <1>1 DEF FilesAgree
    <2>2. saves[c] \subseteq Nat
        BY DEF Types, Dates
    <2>3. v = file[c]
        BY <2>1, <2>2, <1>2 DEF IsVersionAt, Never, Types, Dates
    <2> QED
        BY <1>2, <2>1, <2>2, <2>3 DEF IsVersionAt, Types, Dates, Never
<1>8. Starts'
    BY <1>1, <1>2, <1>5, <1>6, <1>7 DEF Starts, CachedAt, Frozen, Types, Window
<1>9. Pictures'
    BY <1>1, <1>2, <1>5 DEF Pictures, Pictured, PictureType, Types, TrueAt, KeyOf
<1> QED
    BY <1>3, <1>4, <1>8, <1>9

-----------------------------------------------------------------------------
(***************************************************************************)
(* The UI thread and the user                                              *)
(***************************************************************************)

\* Nothing is newer than the file itself.
LEMMA FileIsNewest ==
    ASSUME Types, FilesAgree, NEW c \in Chars
    PROVE  /\ file[c] \in saves[c] \cup {Never}
           /\ \A d \in saves[c] : ~ (d > file[c])
<1>1. saves[c] \subseteq Nat \ {0} /\ \A d \in saves[c] : d <= now
    BY DEF Types, Dates
<1>2. IsVersionAt(saves[c], now, file[c]) /\ now \in Nat
    BY DEF FilesAgree, Types
<1> QED
    BY <1>1, <1>2 DEF IsVersionAt, Never

LEMMA BeginRebuildKeepsInv == IInv /\ BeginRebuild => IInv'
<1> SUFFICES ASSUME IInv, BeginRebuild PROVE IInv'
    OBVIOUS
<1> USE DEF IInv
<1>1. /\ pc = "idle" /\ pc' = "window" /\ cache' = file
      /\ UNCHANGED <<now, file, saves, rows, pending, app, window, built, session, key>>
    BY DEF BeginRebuild, Refresh, world, shown
<1>2. Types'
    BY <1>1 DEF Types
<1>3. FilesAgree'
    BY <1>1, FileIsNewest DEF FilesAgree
<1>4. \A t : CachedAt(t)'
    BY <1>1, FileIsNewest DEF CachedAt
<1>5. Starts'
    BY <1>1, <1>4 DEF Starts, Frozen
<1>6. Pictures'
    BY <1>1 DEF Pictures, Pictured, TrueAt, Dated, KeyOf
<1> QED
    BY <1>2, <1>3, <1>5, <1>6

\* The window a rebuild works with starts in a second the cache and, if the start is
\* automatic, the backups know.
LEMMA WindowKnown ==
    ASSUME IInv, NEW a \in [autoStart: Nat, autoEnd: Nat, customStart: Nat \cup {Unset},
                            customEnd: Nat \cup {Unset}],
           a.autoStart = app.autoStart, a.customStart \in {app.customStart, Unset},
           NEW w, w = WindowOf(a)
    PROVE  /\ w \in Window /\ Dated(w.start) /\ CachedAt(w.start)
           /\ ~ w.startCustom \/ w.start = app.autoStart => Frozen(w.start)
           /\ ~ w.startCustom => w.start = app.autoStart
<1> USE DEF IInv
<1>1. /\ StartEpoch(a) \in Nat /\ EndEpoch(a) \in Nat
      /\ a.customStart # Unset => StartEpoch(a) = app.customStart /\ app.customStart # Unset
      /\ a.customStart = Unset => StartEpoch(a) = app.autoStart
    BY DEF StartEpoch, EndEpoch
<1>2. /\ w \in Window /\ w.start = StartEpoch(a)
      /\ w.startCustom \in BOOLEAN /\ (w.startCustom <=> a.customStart # Unset)
    <2> DEFINE end == IF EndEpoch(a) < StartEpoch(a) THEN StartEpoch(a) ELSE EndEpoch(a)
               custom == a.customStart # Unset
    <2>1. end \in Int /\ StartEpoch(a) \in Nat
        BY <1>1
    <2>2. w = [start |-> StartEpoch(a), startCustom |-> custom,
               end |-> end, endCustom |-> a.customEnd # Unset]
        BY DEF WindowOf
    <2>3. custom \in BOOLEAN /\ (custom <=> a.customStart # Unset)
        OBVIOUS
    <2> HIDE DEF end, custom
    <2>4. w \in Window /\ w.start = StartEpoch(a) /\ w.startCustom = custom
        BY <2>1, <2>2, <2>3 DEF Window
    <2> QED
        BY <2>3, <2>4
<1> QED
    BY <1>1, <1>2 DEF Starts, Dated

LEMMA ReadWindowKeepsInv == IInv /\ ReadWindow => IInv'
<1> SUFFICES ASSUME IInv, ReadWindow PROVE IInv'
    OBVIOUS
<1> USE DEF IInv
<1> DEFINE newest == Newest(UNION {rows[f] : f \in Files})
<1>1. /\ pc = "window" /\ pc' = "build"
      /\ app' = [app EXCEPT !.autoEnd = IF newest = Never THEN now ELSE newest]
      /\ window' = WindowOf(app')
      /\ UNCHANGED <<now, file, saves, rows, pending, cache, built, session, key>>
    BY DEF ReadWindow, world, shown
<1>2. newest \in Nat
    <2> DEFINE all == UNION {rows[f] : f \in Files}
    <2>1. all \subseteq Dates(now) /\ now \in Nat
        BY DEF Types
    <2>2. CASE all = {}
        BY <2>2 DEF Newest, Never
    <2>3. CASE all # {}
        <3>1. newest = CHOOSE d \in all : \A e \in all : e <= d
            BY <2>3 DEF Newest
        <3>2. \E d \in all : \A e \in all : e <= d
            BY <2>1, <2>3, HasGreatest
        <3>3. newest \in all
            BY <3>1, <3>2
        <3> QED
            BY <2>1, <3>3 DEF Dates
    <2> QED
        BY <2>2, <2>3
<1>3. /\ app' \in [autoStart: Nat, autoEnd: Nat, customStart: Nat \cup {Unset},
                   customEnd: Nat \cup {Unset}]
      /\ app'.autoStart = app.autoStart /\ app'.customStart = app.customStart
    BY <1>1, <1>2 DEF Types
<1>4. /\ window' \in Window /\ Dated(window'.start) /\ CachedAt(window'.start)
      /\ ~ window'.startCustom \/ window'.start = app.autoStart => Frozen(window'.start)
      /\ ~ window'.startCustom => window'.start = app.autoStart
    BY <1>1, <1>3, WindowKnown
<1>5. Types'
    BY <1>1, <1>3, <1>4 DEF Types
<1>6. FilesAgree'
    BY <1>1 DEF FilesAgree
<1>7. Starts'
    BY <1>1, <1>3, <1>4 DEF Starts, CachedAt, Frozen, Dated
<1>8. Pictures'
    BY <1>1, <1>3, <1>4 DEF Pictures, Pictured, TrueAt, Dated, KeyOf
<1> QED
    BY <1>5, <1>6, <1>7, <1>8

LEMMA PublishKeepsInv == IInv /\ Publish => IInv'
<1> SUFFICES ASSUME IInv, Publish PROVE IInv'
    OBVIOUS
<1> USE DEF IInv
<1>1. /\ pc = "publish" /\ pc' = "idle" /\ session' = built
      /\ UNCHANGED <<now, file, saves, rows, pending, app, cache, key>>
    BY DEF Publish, world
<1>2. Types'
    BY <1>1 DEF Types
<1>3. FilesAgree'
    BY <1>1 DEF FilesAgree
<1>4. Starts'
    BY <1>1 DEF Starts, CachedAt, Frozen
<1>5. Pictures'
    BY <1>1 DEF Pictures, Pictured, TrueAt, Dated, KeyOf
<1> QED
    BY <1>2, <1>3, <1>4, <1>5

LEMMA TypeTimeKeepsInv == IInv /\ TypeSessionTime => IInv'
<1> SUFFICES ASSUME IInv, TypeSessionTime PROVE IInv'
    OBVIOUS
<1> USE DEF IInv
<1>1. /\ pc = "idle" /\ pc' = "window" /\ cache' = file
      /\ UNCHANGED <<now, file, saves, rows, pending, window, built, session, key>>
    BY DEF TypeSessionTime, UserActs, Refresh, world, shown
<1>2. \/ \E t \in 1..now - 1 : app' = [app EXCEPT !.customStart = t]
      \/ \E t \in 1..now : app' = [app EXCEPT !.customEnd = IF app.customStart # Unset THEN t ELSE Unset]
    BY DEF TypeSessionTime, SetCustomStart, SetCustomEnd
<1>3. /\ app' \in [autoStart: Nat, autoEnd: Nat, customStart: Nat \cup {Unset},
                   customEnd: Nat \cup {Unset}]
      /\ app'.autoStart = app.autoStart
      /\ app'.customStart # Unset => app'.customStart < now
    BY <1>2 DEF Types, Starts, Unset
<1>4. Types'
    BY <1>1, <1>3 DEF Types
<1>5. FilesAgree'
    BY <1>1, FileIsNewest DEF FilesAgree
<1>6. \A t : CachedAt(t)'
    BY <1>1, FileIsNewest DEF CachedAt
<1>7. Starts'
    BY <1>1, <1>3, <1>6 DEF Starts, Frozen
<1>8. Pictures'
    BY <1>1, <1>3 DEF Pictures, Pictured, TrueAt, Dated, KeyOf
<1> QED
    BY <1>4, <1>5, <1>7, <1>8

LEMMA ResetKeepsInv == IInv /\ ResetSession => IInv'
<1> SUFFICES ASSUME IInv, ResetSession PROVE IInv'
    OBVIOUS
<1> USE DEF IInv
<1>1. /\ pc = "idle" /\ pc' = "build" /\ app' = ClearCustom(app) /\ window' = WindowOf(app')
      /\ UNCHANGED <<now, file, saves, rows, pending, cache, built, session, key>>
    BY DEF ResetSession, UserActs, world, shown
<1>2. /\ app' \in [autoStart: Nat, autoEnd: Nat, customStart: Nat \cup {Unset},
                   customEnd: Nat \cup {Unset}]
      /\ app'.autoStart = app.autoStart /\ app'.customStart = Unset
    BY <1>1 DEF Types, ClearCustom
<1>3. /\ window' \in Window /\ Dated(window'.start) /\ CachedAt(window'.start)
      /\ ~ window'.startCustom \/ window'.start = app.autoStart => Frozen(window'.start)
      /\ ~ window'.startCustom => window'.start = app.autoStart
    BY <1>1, <1>2, WindowKnown
<1>4. Types'
    BY <1>1, <1>2, <1>3 DEF Types
<1>5. FilesAgree'
    BY <1>1 DEF FilesAgree
<1>6. Starts'
    BY <1>1, <1>2, <1>3 DEF Starts, CachedAt, Frozen, Dated
<1>7. Pictures'
    BY <1>1, <1>2, <1>3 DEF Pictures, Pictured, TrueAt, Dated, KeyOf
<1> QED
    BY <1>4, <1>5, <1>6, <1>7

-----------------------------------------------------------------------------
(***************************************************************************)
(* What a rebuild shows                                                    *)
(***************************************************************************)

\* An item and a baseline of c at t: as it truly was or as the backups know it; a
\* baseline of its own only for a character without a version then.
ItemAt(c, t, v) == IsVersionAt(saves[c], t, v) \/ IsVersionAt(rows[c], t, v)
BaseAt(c, t, v, b) ==
    b # v => v = Never /\ b \in saves[c] /\ (b > t \/ IsVersionAt(saves[c], t, b))

\* The three ways buildSession finds an item, and those it finds a baseline.
LEMMA FreshIs ==
    ASSUME IInv, pc = "build", NEW c \in Chars
    PROVE  /\ ItemsFrom(window)[c] \in Nat /\ BaselinesFrom(window)[c] \in Nat
           /\ ItemAt(c, window.start, ItemsFrom(window)[c])
           /\ BaseAt(c, window.start, ItemsFrom(window)[c], BaselinesFrom(window)[c])
<1> DEFINE t == window.start
           item == ItemsFrom(window)[c]
           base == BaselinesFrom(window)[c]
           since == {d \in rows[c] : d >= t}
<1>1. /\ saves[c] \subseteq Dates(now) /\ rows[c] \subseteq Dates(now) /\ rows[c] \subseteq saves[c]
      /\ now \in Nat /\ t \in Nat /\ cache[c] \in Nat /\ cache[c] \in saves[c] \cup {Never}
      /\ \A d \in saves[c] : d > cache[c] => d > t
      /\ c \in Files /\ c # Stash
    BY AppSessionAssumption DEF IInv, Types, FilesAgree, Starts, CachedAt, Window, Files
<1>2. \A d \in saves[c] : d \in Nat /\ d # Never
    BY <1>1 DEF Dates, Never
<1>3. IsVersionAt(rows[c], t, VersionAt(rows[c], t)) /\ VersionAt(rows[c], t) \in Nat
    BY <1>1, VersionAtIs
<1>4. item = IF cache[c] = Never THEN Never
             ELSE IF Untouched(c, window) THEN cache[c] ELSE VersionAt(rows[c], t)
    BY <1>1 DEF ItemsFrom
<1>5. cache[c] # Never /\ cache[c] <= t => IsVersionAt(saves[c], t, cache[c])
    BY <1>1, <1>2 DEF IsVersionAt
<1>6. item \in Nat /\ ItemAt(c, t, item)
    <2>1. CASE cache[c] = Never
        BY <1>1, <1>2, <1>4, <2>1 DEF ItemAt, IsVersionAt, Never
    <2>2. CASE cache[c] # Never /\ Untouched(c, window)
        BY <1>1, <1>4, <1>5, <2>2 DEF ItemAt, Untouched
    <2>3. CASE cache[c] # Never /\ ~ Untouched(c, window)
        BY <1>3, <1>4, <2>3 DEF ItemAt
    <2> QED
        BY <2>1, <2>2, <2>3
<1>7. \E seed \in {cache[c], Never} :
          base = IF cache[c] = Never THEN Never
                 ELSE FirstOf(FirstOf(item, OldestBackupSince(c, t)), seed)
    BY DEF BaselinesFrom
<1>8. PICK seed \in {cache[c], Never} :
          base = IF cache[c] = Never THEN Never
                 ELSE FirstOf(FirstOf(item, OldestBackupSince(c, t)), seed)
    BY <1>7
<1>9. CASE cache[c] = Never \/ item # Never
    BY <1>4, <1>6, <1>8, <1>9 DEF FirstOf, BaseAt, Never
<1>10. CASE cache[c] # Never /\ item = Never
    <2>1. item = VersionAt(rows[c], t)
        BY <1>4, <1>10
    <2>2. \A d \in rows[c] : d > t
        BY <1>1, <1>2, <1>3, <1>10, <2>1 DEF IsVersionAt, Never
    <2>3. CASE since # {}
        <3>1. OldestOf(since) \in since
            BY <1>1, <2>3, OldestIs
        <3>2. base = OldestOf(since)
            BY <1>2, <1>1, <1>8, <1>10, <3>1 DEF FirstOf, OldestBackupSince
        <3> QED
            BY <1>1, <1>2, <1>6, <1>10, <2>2, <3>1, <3>2 DEF BaseAt
    <2>4. CASE since = {}
        <3>1. OldestBackupSince(c, t) = Never
            BY <2>4 DEF OldestBackupSince, OldestOf
        <3>2. base = seed
            BY <1>8, <1>10, <3>1 DEF FirstOf
        <3>3. cache[c] > t \/ IsVersionAt(saves[c], t, cache[c])
            BY <1>1, <1>5, <1>10
        <3> QED
            BY <1>1, <1>6, <1>10, <3>2, <3>3 DEF BaseAt, Never
    <2> QED
        BY <2>3, <2>4
<1> QED
    BY <1>6, <1>9, <1>10

\* With backups that know the account as it was, such a picture is a true one.
LEMMA FrozenIsTrue ==
    ASSUME IInv, NEW p \in PictureType, Frozen(p.start),
           \A c \in Chars : ItemAt(c, p.start, p.items[c]) /\ BaseAt(c, p.start, p.items[c], p.base[c])
    PROVE  TrueAt(p, p.start)
<1> DEFINE t == p.start
<1> SUFFICES ASSUME NEW c \in Chars
             PROVE  /\ IsVersionAt(saves[c], t, p.items[c])
                    /\ p.base[c] # p.items[c] =>
                          p.items[c] = Never /\ p.base[c] \in saves[c] /\ p.base[c] > t
    BY DEF TrueAt
<1>1. /\ saves[c] \subseteq Dates(now) /\ rows[c] \subseteq Dates(now) /\ now \in Nat /\ t \in Int
    BY DEF IInv, Types, PictureType, Files
<1> DEFINE v == VersionAt(saves[c], t)
<1>2. IsVersionAt(saves[c], t, v) /\ v \in Nat
    BY <1>1, VersionAtIs
<1>3. IsVersionAt(rows[c], t, v)
    BY <1>2 DEF Frozen
<1>4. IsVersionAt(saves[c], t, p.items[c])
    <2>1. CASE IsVersionAt(saves[c], t, p.items[c])
        BY <2>1
    <2>2. CASE IsVersionAt(rows[c], t, p.items[c])
        <3>1. p.items[c] = VersionAt(rows[c], t) /\ v = VersionAt(rows[c], t)
            BY <1>1, <1>3, <2>2, VersionAtIs
        <3> QED
            BY <1>2, <3>1
    <2> QED
        BY <2>1, <2>2 DEF ItemAt
<1>5. ASSUME p.items[c] = Never
      PROVE  \A d \in saves[c] : d > t
    BY <1>1, <1>4, <1>5 DEF IsVersionAt, Dates, Never
<1> QED
    BY <1>4, <1>5 DEF BaseAt

\* The two ways of Build.
LEMMA BuildIs ==
    ASSUME IInv, Build
    PROVE  /\ pc = "build" /\ pc' = "publish" /\ built' \in PictureType /\ window \in Window
           /\ built'.start = window.start /\ built'.startCustom = window.startCustom
           /\ built'.items[Stash] = StashDate(window)
           /\ key'[3] = window.start /\ key'[2] = StashDate(window)
           /\ UNCHANGED <<now, file, saves, rows, pending, app, cache, window, session>>
           /\ \/ /\ session \in PictureType /\ KeyOf(session) /\ Pictured(session)
                 /\ session.start = window.start
                 /\ built'.items = session.items /\ built'.base = session.base
              \/ \A c \in Chars :
                    /\ ItemAt(c, window.start, built'.items[c])
                    /\ BaseAt(c, window.start, built'.items[c], built'.base[c])
<1> USE DEF IInv
<1>1. /\ pc = "build" /\ pc' = "publish" /\ window \in Window
      /\ UNCHANGED <<now, file, saves, rows, pending, app, cache, window, session>>
    BY DEF Build, world, shown, Types
<1>2. KeyFor(window)[3] = window.start /\ KeyFor(window)[2] = StashDate(window)
    BY DEF KeyFor
<1>3. CASE session # Nothing /\ key = KeyFor(window)
    <2>1. /\ session \in PictureType /\ KeyOf(session) /\ Pictured(session)
          /\ built' = Picture(window, session.items, session.base) /\ key' = key
        BY <1>1, <1>3 DEF Build, Types, Pictures
    <2>2. built' \in PictureType /\ session.start = window.start
        BY <1>1, <1>2, <1>3, <2>1 DEF Picture, PictureType, Window, KeyOf
    <2> QED
        BY <1>1, <1>2, <1>3, <2>1, <2>2 DEF Picture, KeyOf
<1>4. CASE ~ (session # Nothing /\ key = KeyFor(window))
    <2> DEFINE items == ItemsFrom(window)
               base == BaselinesFrom(window)
    <2>1. built' = Picture(window, items, base) /\ key' = KeyFor(window)
        BY <1>4 DEF Build
    <2>2. \A c \in Chars :
             /\ items[c] \in Nat /\ base[c] \in Nat
             /\ ItemAt(c, window.start, items[c]) /\ BaseAt(c, window.start, items[c], base[c])
        BY <1>1, FreshIs
    <2>3. items[Stash] = StashDate(window) /\ StashDate(window) \in Nat
        <3>1. items[Stash] = StashDate(window)
            BY DEF ItemsFrom, Files
        <3>2. rows[Stash] \subseteq Dates(now) /\ now \in Nat /\ window.start \in Int
            BY <1>1 DEF Types, Files, Window
        <3>3. VersionAt(rows[Stash], window.start) \in Nat
            BY <3>2, VersionAtIs
        <3>4. OldestOf(rows[Stash]) \in Nat
            BY <3>2, OldestIs DEF OldestOf, Never, Dates
        <3> QED
            BY <3>1, <3>3, <3>4 DEF StashDate, FirstOf, Never
    <2>4. items \in [Files -> Nat] /\ base \in [Chars -> Nat]
        <3>1. \A f \in Files : items[f] \in Nat
            BY <2>2, <2>3 DEF Files
        <3>2. items = [f \in Files |-> items[f]] /\ base = [c \in Chars |-> base[c]]
            BY DEF ItemsFrom, BaselinesFrom
        <3> HIDE DEF items, base
        <3> QED
            BY <2>2, <3>1, <3>2
    <2> HIDE DEF items, base
    <2>5. built' \in PictureType
        BY <1>1, <2>1, <2>4 DEF Picture, PictureType, Window
    <2> QED
        BY <1>1, <1>2, <2>1, <2>2, <2>3, <2>5 DEF Picture
<1> QED
    BY <1>3, <1>4

LEMMA BuildKeepsInv == IInv /\ Build => IInv'
<1> SUFFICES ASSUME IInv, Build PROVE IInv'
    OBVIOUS
<1> USE DEF IInv
<1>1. /\ pc = "build" /\ pc' = "publish" /\ built' \in PictureType /\ window \in Window
      /\ built'.start = window.start /\ built'.startCustom = window.startCustom
      /\ built'.items[Stash] = StashDate(window)
      /\ key'[3] = window.start /\ key'[2] = StashDate(window)
      /\ UNCHANGED <<now, file, saves, rows, pending, app, cache, window, session>>
    BY BuildIs
<1>2. Types'
    BY <1>1 DEF Types
<1>3. FilesAgree'
    BY <1>1 DEF FilesAgree
<1>4. Starts'
    BY <1>1 DEF Starts, CachedAt, Frozen
<1>5. Dated(window.start)
      /\ (~ window.startCustom \/ window.start = app.autoStart => Frozen(window.start))
    BY <1>1 DEF Starts
<1>6. ASSUME ~ window.startCustom \/ window.start = app.autoStart
      PROVE  TrueAt(built', window.start)
    <2>1. CASE /\ session \in PictureType /\ Pictured(session) /\ session.start = window.start
               /\ built'.items = session.items /\ built'.base = session.base
        <3>1. TrueAt(session, window.start)
            BY <1>1, <1>6, <2>1 DEF Pictured
        <3> QED
            BY <2>1, <3>1 DEF TrueAt
    <2>2. CASE \A c \in Chars :
                  /\ ItemAt(c, window.start, built'.items[c])
                  /\ BaseAt(c, window.start, built'.items[c], built'.base[c])
        BY <1>1, <1>5, <1>6, <2>2, FrozenIsTrue
    <2> QED
        BY <2>1, <2>2, BuildIs
<1>7. Pictured(built)'
    BY <1>1, <1>5, <1>6 DEF Pictured, TrueAt, Dated
<1>8. Pictures'
    BY <1>1, <1>7 DEF Pictures, Pictured, TrueAt, Dated, KeyOf
<1> QED
    BY <1>2, <1>3, <1>4, <1>8

LEMMA StutterKeepsInv == IInv /\ UNCHANGED vars => IInv'
BY DEF IInv, vars, Types, FilesAgree, Starts, Pictures, Pictured, TrueAt, Dated, KeyOf, CachedAt, Frozen

\* The invariant is inductive.
THEOREM Inductive == IInv /\ [Next]_vars => IInv'
BY TickKeepsInv, LaunchKeepsInv, SaveStashKeepsInv, SaveKeepsInv, BackUpKeepsInv,
   BeginRebuildKeepsInv, ReadWindowKeepsInv, BuildKeepsInv, PublishKeepsInv, TypeTimeKeepsInv,
   ResetKeepsInv, StutterKeepsInv DEF Next

-----------------------------------------------------------------------------
(***************************************************************************)
(* Every step is one of the promise                                        *)
(***************************************************************************)

Stays == UNCHANGED <<saves, rows, Picked>>

\* Types tell a picture from no picture.
LEMMA PictureIsSomething == \A p \in PictureType : p # Nothing
BY DEF PictureType, Nothing, Unset

\* A save and a backup make a past; neither touches what is shown.
LEMMA SaveIsPast ==
    ASSUME IInv, NEW c \in Chars, SaveCharacter(c)
    PROVE  Promise!Past
<1>1. /\ saves' = [saves EXCEPT ![c] = @ \cup {now}] /\ \A f \in Chars : now \notin saves[f]
      /\ UNCHANGED <<rows, pc, built, session>> /\ now \in Nat
    BY DEF SaveCharacter, shown, IInv, Types
<1>2. UNCHANGED Picked
    BY <1>1 DEF Picked, Latest
<1>3. \A f \in Chars : saves[f] \subseteq Dates(now) /\ rows[f] \subseteq saves[f]
    BY DEF IInv, Types, FilesAgree
<1>4. /\ saves'[c] = saves[c] \cup {now} /\ \A f \in Chars : f # c => saves'[f] = saves[f]
    BY <1>1 DEF IInv, Types
<1>5. \A d \in saves[c] : d < now
    BY <1>1, <1>3 DEF Dates
<1>6. ASSUME NEW f \in Chars
      PROVE  /\ saves[f] \subseteq saves'[f] /\ rows'[f] \subseteq saves'[f]
             /\ \A d \in saves'[f] \ saves[f], e \in saves[f] : e < d
    <2>1. CASE f = c
        BY <1>1, <1>3, <1>4, <1>5, <2>1
    <2>2. CASE f # c
        BY <1>1, <1>3, <1>4, <2>2
    <2> QED
        BY <2>1, <2>2
<1> QED
    BY <1>1, <1>2, <1>6 DEF Promise!Past

LEMMA BackUpIsPast ==
    ASSUME IInv, NEW f \in Files, BackUp(f)
    PROVE  Promise!Past
<1>1. UNCHANGED <<saves, pc, built, session>>
    BY DEF BackUp, shown
<1>2. UNCHANGED Picked
    BY <1>1 DEF Picked, Latest
<1>3. \A g \in Files : rows[g] \subseteq rows'[g]
    BY DEF BackUp, IInv, Types
<1>4. \A c \in Chars : rows'[c] \subseteq saves[c]
    BY <1>1, BackUpKeepsInv DEF IInv, FilesAgree
<1> QED
    BY <1>1, <1>2, <1>3, <1>4 DEF Promise!Past, Promise!Files, Files

\* A rebuild that does not publish what is on the screen already, with the same kind of
\* start, shows the account at the start of its window.
LEMMA BuildIsShow ==
    ASSUME IInv, Build
    PROVE  Promise!Show \/ Stays
<1> USE AppSessionAssumption DEF IInv
<1> DEFINE w == window
           t == window.start
           p == built'
<1>1. /\ pc = "build" /\ pc' = "publish" /\ p \in PictureType /\ w \in Window
      /\ p.start = t /\ p.startCustom = w.startCustom /\ p.items[Stash] = StashDate(w)
      /\ UNCHANGED <<now, saves, rows, session>>
    BY BuildIs
<1>2. Picked' = [start |-> p.start, custom |-> p.startCustom, items |-> p.items, base |-> p.base]
    <2>1. Latest' = p /\ p # Nothing
        BY <1>1, PictureIsSomething DEF Latest
    <2> QED
        BY <2>1 DEF Picked
<1>3. CASE \A c \in Chars : ItemAt(c, t, p.items[c]) /\ BaseAt(c, t, p.items[c], p.base[c])
    <2>1. StashDate(w) \in Promise!Candidates(Stash, t, w.startCustom)
        <3>1. rows[Stash] \subseteq Dates(now) /\ now \in Nat /\ t \in Int
            BY <1>1 DEF Types, Files, Window
        <3>2. Promise!VersionAt(rows[Stash], t) = VersionAt(rows[Stash], t)
            BY <3>1, VersionAtIs
        <3>3. CASE VersionAt(rows[Stash], t) # Never
            BY <3>2, <3>3 DEF StashDate, FirstOf, Promise!Candidates
        <3>4. CASE VersionAt(rows[Stash], t) = Never /\ (w.startCustom \/ rows[Stash] = {})
            BY <3>2, <3>4 DEF StashDate, FirstOf, Promise!Candidates, OldestOf
        <3>5. CASE VersionAt(rows[Stash], t) = Never /\ ~ w.startCustom /\ rows[Stash] # {}
            <4>1. Promise!Oldest(rows[Stash]) = OldestOf(rows[Stash])
                BY <3>1, <3>5, OldestIs
            <4> QED
                BY <3>2, <3>5, <4>1 DEF StashDate, FirstOf, Promise!Candidates
        <3> QED
            BY <3>3, <3>4, <3>5
    <2>2. ASSUME NEW c \in Chars
          PROVE  /\ p.items[c] \in Promise!Candidates(c, t, w.startCustom)
                 /\ p.base[c] \in Promise!BaseCandidates(c, t)
        <3>1. /\ saves[c] \subseteq Dates(now) /\ rows[c] \subseteq Dates(now) /\ now \in Nat
              /\ t \in Int /\ c # Stash
            BY <1>1 DEF Types, Files, Window
        <3>2. \A v : IsVersionAt(saves[c], t, v) => v = Promise!VersionAt(saves[c], t)
            BY <3>1, VersionAtIs
        <3>3. \A v : IsVersionAt(rows[c], t, v) => v = Promise!VersionAt(rows[c], t)
            BY <3>1, VersionAtIs
        <3>4. \A custom : Promise!Candidates(c, t, custom)
                 = {Promise!VersionAt(rows[c], t), Promise!VersionAt(saves[c], t)}
            BY <3>1 DEF Promise!Candidates
        <3>5. \A custom : p.items[c] \in Promise!Candidates(c, t, custom)
            BY <1>3, <3>2, <3>3, <3>4 DEF ItemAt
        <3>6. ASSUME p.base[c] = p.items[c]
              PROVE  p.base[c] \in Promise!BaseCandidates(c, t)
            BY <3>5, <3>6 DEF Promise!BaseCandidates
        <3>7. ASSUME p.base[c] # p.items[c]
              PROVE  p.base[c] \in Promise!BaseCandidates(c, t)
            <4>1. Never \in Promise!Candidates(c, t, TRUE)
                BY <1>3, <3>5, <3>7 DEF BaseAt
            <4>2. p.base[c] \in saves[c] /\ (p.base[c] > t \/ IsVersionAt(saves[c], t, p.base[c]))
                BY <1>3, <3>7 DEF BaseAt
            <4> QED
                BY <3>2, <3>4, <4>1, <4>2 DEF Promise!BaseCandidates
        <3> QED
            <4>1. p.items[c] \in Promise!Candidates(c, t, w.startCustom)
                BY <3>5
            <4>2. p.base[c] \in Promise!BaseCandidates(c, t)
                BY <3>6, <3>7
            <4> QED
                BY <4>1, <4>2
    <2> QED
        BY <1>1, <1>2, <2>1, <2>2 DEF Promise!Show, Promise!Files
<1>4. CASE /\ session \in PictureType /\ KeyOf(session) /\ Pictured(session) /\ session.start = t
           /\ p.items = session.items /\ p.base = session.base
    <2>1. CASE session.startCustom = w.startCustom
        <3>1. Picked = [start |-> session.start, custom |-> session.startCustom,
                        items |-> session.items, base |-> session.base]
            BY <1>1, <1>4, PictureIsSomething DEF Picked, Latest
        <3> QED
            BY <1>1, <1>2, <1>4, <2>1, <3>1 DEF Stays
    <2>2. CASE session.startCustom # w.startCustom
        <3>1. TrueAt(session, t)
            BY <1>1, <1>4, <2>2 DEF Pictured, PictureType, Window
        <3>2. \A c \in Chars : ItemAt(c, t, p.items[c]) /\ BaseAt(c, t, p.items[c], p.base[c])
            BY <1>4, <3>1 DEF TrueAt, ItemAt, BaseAt
        <3> QED
            BY <1>3, <3>2
    <2> QED
        BY <2>1, <2>2
<1> QED
    BY <1>3, <1>4, BuildIs

\* Reading the window leaves the picture, and publishing shows what was built.
LEMMA OthersStay ==
    ASSUME IInv,
           \/ Tick \/ Launch \/ SaveStash \/ BeginRebuild \/ ReadWindow \/ Publish
           \/ TypeSessionTime \/ ResetSession \/ UNCHANGED vars
    PROVE  Stays
<1>1. CASE Tick \/ Launch \/ SaveStash \/ UNCHANGED vars
    <2>1. UNCHANGED <<saves, rows, pc, built, session>>
        BY <1>1 DEF Tick, Launch, SaveStash, vars, world, shown
    <2> QED
        BY <2>1 DEF Stays, Picked, Latest
<1>2. CASE BeginRebuild \/ ReadWindow \/ TypeSessionTime \/ ResetSession
    <2>1. UNCHANGED <<saves, rows, session>> /\ pc # "publish" /\ pc' # "publish"
        BY <1>2 DEF BeginRebuild, ReadWindow, TypeSessionTime, ResetSession, UserActs, Refresh,
                    world, shown
    <2> QED
        BY <2>1 DEF Stays, Picked, Latest
<1>3. CASE Publish
    <2>1. /\ pc = "publish" /\ pc' = "idle" /\ session' = built /\ UNCHANGED <<saves, rows>>
        BY <1>3 DEF Publish, world
    <2> QED
        BY <2>1 DEF Stays, Picked, Latest
<1> QED
    BY <1>1, <1>2, <1>3

LEMMA StepIsPromised == IInv /\ [Next]_vars => [Promise!Next]_<<saves, rows, Picked>>
<1> SUFFICES ASSUME IInv, [Next]_vars PROVE Promise!Next \/ Stays
    BY DEF Stays
<1>1. CASE \E c \in Chars : SaveCharacter(c)
    BY <1>1, SaveIsPast DEF Promise!Next
<1>2. CASE \E f \in Files : BackUp(f)
    BY <1>2, BackUpIsPast DEF Promise!Next
<1>3. CASE Build
    BY <1>3, BuildIsShow DEF Promise!Next
<1>4. CASE \/ Tick \/ Launch \/ SaveStash \/ BeginRebuild \/ ReadWindow \/ Publish
           \/ TypeSessionTime \/ ResetSession \/ UNCHANGED vars
    BY <1>4, OthersStay
<1> QED
    BY <1>1, <1>2, <1>3, <1>4 DEF Next

LEMMA StartIsPromised == Init => Promise!Init
<1> SUFFICES ASSUME Init PROVE Promise!Init
    OBVIOUS
<1>1. Latest = Nothing
    BY DEF Init, Latest
<1> QED
    BY <1>1 DEF Init, Promise!Init, Picked

\* buildSession, with its cache, its shortcut for characters that look untouched, a
\* watcher thread that backs up and moves the start under it and a user who moves the
\* start too, implements SessionPromise: every picture the panes are given shows each
\* file as it was when the session started.
THEOREM PromiseKept == Spec => KeepsPromise
<1>1. Init => IInv
    BY InitInv
<1>2. IInv /\ [Next]_vars => IInv'
    BY Inductive
<1>3. Spec => []IInv
    BY <1>1, <1>2, PTL DEF Spec
<1>4. Init => Promise!Init
    BY StartIsPromised
<1>5. IInv /\ [Next]_vars => [Promise!Next]_<<saves, rows, Picked>>
    BY StepIsPromised
<1> QED
    BY <1>3, <1>4, <1>5, PTL DEF Spec, KeepsPromise, Promise!Spec
=============================================================================
